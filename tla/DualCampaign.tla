---------------------------- MODULE DualCampaign ----------------------------
(***************************************************************************)
(* run_dual_jenkins.py: both lanes, one after the other, whatever becomes  *)
(* of the first; then the summary of the tests of xpact alone, which       *)
(* decides the build (jenkins_xpact_summary.py), and the plots of both     *)
(* implementations (dual_jenkins_reports.py).                              *)
(***************************************************************************)
EXTENDS RegressionLane

VARIABLES
    lanes,      \* the status of each lane in the campaign's run.json
    owned       \* the status of the subject summary

campaignVars == <<lanes, owned>>

CampaignInit ==
    /\ lanes = [l \in Lanes |-> "pending"]
    /\ owned = "none"

elsewhere == <<laneVars, conformanceVars, suiteVars, judged>>

Completed == {"complete", "complete_with_failures"}

(* Bad arguments, or a directory that is there already, are refused before *)
(* anything is written.                                                    *)
StartCampaign ==
    /\ command = "campaign" /\ at = "start"
    /\ \/ Goto("lane") /\ Status("campaign", "running") /\ Lucky
       \/ Exit("2") /\ Unlucky /\ UNCHANGED runjson
    /\ UNCHANGED <<files, elsewhere, campaignVars>>

(* The catalog first, then W3C, then the reports of both.                  *)
NextLane ==
    /\ command = "campaign" /\ at = "lane" /\ Lucky
    /\ LET pending == {l \in Lanes : lanes[l] = "pending"}
           l == IF "catalog" \in pending THEN "catalog" ELSE "w3c"
       IN IF pending = {} THEN Goto("summary") /\ UNCHANGED lanes
          ELSE /\ lanes' = [lanes EXCEPT ![l] = "running"]
               /\ lane' = l /\ at' = "begin"
               /\ UNCHANGED <<command, error, code>>
    /\ UNCHANGED <<fileVars, elsewhere, owned>>

LaneEnds(status) ==
    /\ lanes' = [lanes EXCEPT ![lane] = status]
    /\ lane' = "none" /\ at' = "lane" /\ error' = "none"
    /\ UNCHANGED <<command, code, fileVars, elsewhere, owned>>

(* The report is hashed: if that fails, so has the lane.                   *)
LaneReturns ==
    /\ command = "campaign" /\ at = "returned"
    /\ \/ LaneEnds(runjson[lane]) /\ Lucky
       \/ LaneEnds("failed") /\ Unlucky

(* Any Exception of a lane is recorded, and the next lane runs.            *)
LaneFails ==
    /\ command = "campaign" /\ at = "failed" /\ LaneEnds("failed") /\ Lucky

HasReport(l) == lanes[l] \in Completed

-----------------------------------------------------------------------------
(* The summary of xpact's own tests.                                       *)

(* The builds of xpact, by their places in the rows.                       *)
Own(l) == {k \in DOMAIN rows[l] : rows[l][k].implementation = "xpact"}

(* _own_controls: on and off, each once.                                   *)
OwnControls(l) ==
    /\ Cardinality(Own(l)) = 2
    /\ {rows[l][k].assertions : k \in Own(l)} = BOOLEAN

(* _verify_builds: still the bytes of the manifests, of one snapshot, and  *)
(* that snapshot is still in the working tree.                             *)
OwnBuildsVerified(l) ==
    /\ \A k \in Own(l) : /\ Exe(l, rows[l][k]) \notin replaced
                        /\ source["xpact"] = rows[l][k].inputs
    /\ \A j, k \in Own(l) : rows[l][j].revision = rows[l][k].revision

(* Without a report, the controls stand only if xpact-core alone failed    *)
(* the gate of the catalog lane.                                           *)
CoreGate(l) ==
    /\ l = "catalog" /\ runjson[l] = "gate_failed"
    /\ \E k \in DOMAIN rows[l] : /\ rows[l][k].implementation = "xpact-core"
                                 /\ rows[l][k].status = "failed"

(* Mutant: any failed catalog lane leaves the controls standing, and a     *)
(* control that did not complete is passed over.                           *)
ControlsAssumed(l) == HasReport(l) \/ l = "catalog"

ControlsEstablished(l) ==
    /\ HasReport(l) \/ CoreGate(l)
    /\ OwnControls(l)
    /\ \A k \in Own(l) : rows[l][k].status =
                        (IF l = "catalog" THEN "qualified" ELSE "executed")
    /\ OwnBuildsVerified(l)

OwnControlFails(l) ==
    \E k \in Own(l) : rows[l][k].outcomes \cap {"FAIL", "broken"} # {}

OwnResults == {k \in DOMAIN results : results[k].engine = "xpact"}

(* _w3c_suite: a result of xpact for each case of the catalog, and the     *)
(* counts of the report are those of its JUnit cases.                      *)
OwnSuiteEstablished == HasReport("w3c") /\ Cardinality(OwnResults) = Len(Cases)

OwnResultFails ==
    \E k \in OwnResults : results[k].status \in {"failed", "error"}

OwnStatus ==
    IF \/ \E l \in Lanes : ~ControlsEstablished(l)
       \/ ~OwnSuiteEstablished
    THEN "failed"
    ELSE IF (\E l \in Lanes : OwnControlFails(l)) \/ OwnResultFails
    THEN "complete_with_failures" ELSE "complete"

(* publish_summary: a summary that is cut leaves nothing behind, unless    *)
(* its removal is cut too (Withdraw).                                      *)
PublishSummary ==
    /\ at = "summary"
    /\ owned' = OwnStatus
    /\ PublishAll(SummaryFiles, "plots") \/ PublishCut(SummaryFiles)
    /\ UNCHANGED <<elsewhere, lanes>>

-----------------------------------------------------------------------------
(* The plots.                                                              *)

(* validate_controls: four rows, done; those of the catalog all passed.    *)
PlotControls(l) ==
    /\ {<<rows[l][k].implementation, rows[l][k].assertions>> :
            k \in DOMAIN rows[l]} = Implementations \X BOOLEAN
    /\ Len(rows[l]) = 4
    /\ \A k \in 1..4 :
        /\ rows[l][k].status = (IF l = "catalog" THEN "qualified" ELSE "executed")
        /\ l = "catalog" => rows[l][k].outcomes = {"PASS"}

catalog_plots ==
    /\ lanes["catalog"] = "complete" /\ PlotControls("catalog")
    /\ ValidComparison

Count(engine, statuses) ==
    Cardinality({k \in DOMAIN results : /\ results[k].engine = engine
                                        /\ results[k].status \in statuses})

(* w3c_plots: totals reconcile, both engines exclude as many, and the      *)
(* status agrees with the outcomes.                                        *)
w3c_plots ==
    /\ PlotControls("w3c")
    /\ \A e \in Listed(Engines) :
        /\ Count(e, {"passed", "failed", "error", "skipped"}) = Len(Cases)
        /\ Count(e, {"skipped"}) = Count("xpact", {"skipped"})
    /\ lanes["w3c"] = "complete_with_failures" <=>
        \/ \E e \in Listed(Engines) : Count(e, {"failed", "error"}) > 0
        \/ \E k \in 1..4 : rows["w3c"][k].outcomes \cap {"FAIL", "broken"} # {}

PlotsAccepted ==
    /\ HasReport("catalog") => catalog_plots
    /\ HasReport("w3c") => w3c_plots

(* Mutant: the manifest is not the last file.                              *)
ManifestFirst ==
    <<"plots.tsv">> \o
    (IF HasReport("catalog") THEN <<"catalog.csv">> ELSE <<>>) \o
    (IF HasReport("w3c") THEN <<"w3c.csv">> ELSE <<>>) \o
    <<"dual-implementation-plots.html">>

(* Values of completed lanes, then the page, then the manifest.            *)
PlotFiles ==
    (IF HasReport("catalog") THEN <<"catalog.csv">> ELSE <<>>) \o
    (IF HasReport("w3c") THEN <<"w3c.csv">> ELSE <<>>) \o
    <<"dual-implementation-plots.html", "plots.tsv">>

(* publish_reports, with its own clear_reports when it is cut.             *)
PublishPlots ==
    /\ at = "plots"
    /\ \/ ~PlotsAccepted /\ Raise("error") /\ Lucky /\ UNCHANGED fileVars
       \/ PlotsAccepted /\ (PublishAll(PlotFiles, "finish") \/ PublishCut(PlotFiles))
    /\ UNCHANGED <<elsewhere, campaignVars>>

(* The last run.json has the publication; main exits by the own summary.   *)
Finish ==
    /\ at = "finish" /\ Lucky
    /\ Status("campaign", "published")
    /\ Exit(CASE owned = "complete" -> "0"
              [] owned = "complete_with_failures" -> "1"
              [] owned = "failed" -> "2")
    /\ UNCHANGED <<files, elsewhere, campaignVars>>

(* clear_reports has come past k plots and clear_summary past j files.     *)
Withdrawn(k, j) ==
    files' = [n \in Names |->
                IF \/ \E i \in 1..k : PlotNames[i] = n
                   \/ \E i \in 1..j : SummaryFiles[i] = n
                THEN "absent" ELSE files[n]]

(* The handler of run_campaign: no publication in run.json.                *)
Withdraw ==
    /\ at = "withdraw" /\ Lucky
    /\ Withdrawn(Len(PlotNames), Len(SummaryFiles)) /\ owned' = "none"
    /\ Status("campaign", "failed")
    /\ Exit(IF error = "interrupt" THEN "interrupted" ELSE "2")
    /\ UNCHANGED <<elsewhere, lanes>>

(* A locked file ends the removal it is in, not the other one, and does    *)
(* not stop run.json from being written.                                   *)
WithdrawLocked ==
    /\ at = "withdraw" /\ Lucky
    /\ \E k \in 0..Len(PlotNames), j \in 0..Len(SummaryFiles) :
        /\ k < Len(PlotNames) \/ j < Len(SummaryFiles)
        /\ Withdrawn(k, j)
    /\ owned' = "none" /\ Status("campaign", "failed")
    /\ Exit(IF error = "interrupt" THEN "interrupted" ELSE "2")
    /\ UNCHANGED <<elsewhere, lanes>>

(* run.json cannot be written, or the handler is interrupted or killed,    *)
(* whatever was locked before.                                             *)
WithdrawBroken ==
    /\ at = "withdraw" /\ Lucky
    /\ \E k \in 0..Len(PlotNames), j \in 0..Len(SummaryFiles) : Withdrawn(k, j)
    /\ Exit("interrupted") \/ Killed \/ Exit("2")
    /\ UNCHANGED <<runjson, elsewhere, campaignVars>>

CampaignStep ==
    \/ StartCampaign \/ NextLane \/ LaneReturns \/ LaneFails
    \/ PublishSummary \/ PublishPlots \/ Finish
    \/ Withdraw \/ WithdrawLocked \/ WithdrawBroken

-----------------------------------------------------------------------------
(* The exit status of the campaign is about xpact alone.  It is 0 only if  *)
(* every directed control of xpact passed in both lanes and both assertion *)
(* configurations, and every applicable W3C case of xpact passed.  It is 1 *)
(* only if one of those failed.  A failure of xpact-core at the gate of    *)
(* the catalog lane does not make it 2, when nothing was edited and the    *)
(* W3C lane reports.                                                       *)
OwnRow(l, assertions) == RowOf(l, "xpact", assertions)

OwnControlsPass(l) ==
    \A assertions \in BOOLEAN : OwnRow(l, assertions).outcomes = {"PASS"}

OwnCasesPass ==
    \A k \in DOMAIN results :
        results[k].engine = "xpact" =>
            \/ results[k].status = "skipped"
            \/ \E c \in Listed(Cases) :
                c.id = results[k].id /\ results[k].actual = Expected(c)

NothingEdited ==
    /\ source = [i \in Implementations |-> 0] /\ head = 0 /\ replaced = {}

OwnGate ==
    command = "campaign" =>
        /\ code = "0" =>
            /\ \A l \in Lanes : Len(rows[l]) = 4 /\ OwnControlsPass(l)
            /\ Len(results) = Len(Engines) * Len(Cases) /\ OwnCasesPass
            /\ Present(SummaryFiles)
        /\ code = "1" => \/ \E l \in Lanes : ~OwnControlsPass(l)
                         \/ ~OwnCasesPass
        /\ /\ runjson["campaign"] = "published" /\ NothingEdited
           /\ runjson["catalog"] = "gate_failed" /\ OwnControlsPass("catalog")
           /\ HasReport("w3c")
           => code # "2"

(* When the plots are made, the reports that the lanes returned pass every *)
(* validation of the publisher: it never refuses a completed campaign.     *)
PublisherAccepts == at = "plots" => PlotsAccepted

(* What run.json and a manifest say of the report files is so, at any      *)
(* moment and after any failure: a completed lane has all of its reports,  *)
(* a failed one none; a published campaign has its summary and its plots   *)
(* with the reports of every completed lane; the manifest of the plots is  *)
(* there only with every file it names, and the W3C report only with its   *)
(* tables; a comparison that exits with 0 has both its files.              *)
FilesTellTheRun ==
    /\ \A l \in Lanes :
        /\ runjson[l] \in Completed => Present(LaneFiles(l))
        /\ runjson[l] \in {"failed", "gate_failed"} => Gone(LaneFiles(l))
    /\ runjson["campaign"] = "published" =>
        /\ Present(SummaryFiles) /\ Present(PlotFiles)
        /\ \A l \in Lanes : HasReport(l) => Present(LaneFiles(l))
    /\ files["plots.tsv"] = "new" => Present(PlotFiles)
    /\ files["w3c/report.json"] = "new" =>
        Present(SubSeq(W3cFiles, 1, Len(W3cFiles) - 1))
    /\ command = "paired" /\ code = "0" => Present(ComparisonFiles)
=============================================================================
