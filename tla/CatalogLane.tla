---------------------------- MODULE CatalogLane ----------------------------
(***************************************************************************)
(* run_dual_catalog.py: both implementations are built twice, the audit    *)
(* with assertions and the benchmark without; all four must pass their     *)
(* directed controls; the two of the benchmark are then measured.  The     *)
(* gates that the W3C lane has in the same words are here too.             *)
(***************************************************************************)
EXTENDS PairedBenchmark

laneVars == <<buildVars, benchVars, foreign>>

(* The directory of the lane is new, and says that it runs.                *)
BeginLane(l, next) ==
    /\ at = "begin" /\ lane = l
    /\ Status(l, "running") /\ Goto(next) /\ Lucky
    /\ UNCHANGED <<files, laneVars>>

Kept(row) == Exe(lane, row) \notin replaced

(* validate_build reads the manifest and the bytes of the executable.      *)
ValidateBuild ==
    /\ at = "built" /\ lane \in Lanes /\ build.status = "verified" /\ Lucky
    /\ \/ ~Kept(build) /\ Failed /\ UNCHANGED whereVars
       \/ Kept(build) /\ Goto("controls") /\ UNCHANGED build
    /\ UNCHANGED <<fileVars, rows, benchVars, foreign>>

(* The directed controls run: all pass, one fails, or the process breaks.  *)
RunControls ==
    /\ at = "controls"
    /\ Runs(Exe(lane, build)) /\ Goto("qualify")
    /\ \/ build' = [build EXCEPT !.outcomes = {"PASS"}] /\ Lucky
       \/ /\ Unlucky
          /\ \E o \in {{"PASS", "FAIL"}, {"broken"}} :
                build' = [build EXCEPT !.outcomes = o]
    /\ UNCHANGED <<fileVars, rows, benchVars>>

(* The controls of the catalog must all pass, by the bytes that were built.*)
RecordQualified ==
    /\ at = "qualify" /\ lane = "catalog"
    /\ Append1([build EXCEPT !.status =
            IF build.outcomes = {"PASS"} /\ Kept(build)
            THEN "qualified" ELSE "failed"])
    /\ Goto("build") /\ Lucky /\ UNCHANGED <<fileVars, benchVars, foreign>>

(* A build that failed is recorded, and the next one begins.               *)
RecordFailed ==
    /\ at = "built" /\ lane \in Lanes /\ build.status = "failed"
    /\ Append1(build)
    /\ Goto("build") /\ Lucky /\ UNCHANGED <<fileVars, benchVars, foreign>>

-----------------------------------------------------------------------------
(* Gates.                                                                  *)

RowOf(l, i, assertions) ==
    LET k == CHOOSE k \in DOMAIN rows[l] :
                /\ rows[l][k].implementation = i
                /\ rows[l][k].assertions = assertions
    IN rows[l][k]

Audit(i) == RowOf(lane, i, TRUE)
Artifact(i) == RowOf(lane, i, FALSE)

VerifyArtifacts == \A i \in Implementations : Kept(Artifact(i))

(* Mutant: the audits may have been built of an earlier snapshot.          *)
VerifyOnlyCurrent ==
    \A i \in Implementations : source[i] = Artifact(i).inputs

(* Audit and benchmark are of one snapshot, and it is still there.         *)
VerifySources ==
    \A i \in Implementations :
        /\ Audit(i).inputs = Artifact(i).inputs
        /\ Audit(i).revision = Artifact(i).revision
        /\ source[i] = Artifact(i).inputs

AllHave(status) == \A k \in DOMAIN rows[lane] : rows[lane][k].status = status

(* The core gate, then the sources.  The gate has an error of its own.     *)
CatalogGate ==
    /\ at = "build" /\ lane = "catalog" /\ AllBuilt /\ Lucky
    /\ \/ ~AllHave("qualified") /\ Raise("gate")
       \/ AllHave("qualified") /\ ~VerifySources /\ Raise("error")
       \/ AllHave("qualified") /\ VerifySources /\ Goto("measure")
    /\ UNCHANGED <<fileVars, laneVars>>

Measure ==
    /\ at = "measure" /\ Lucky
    /\ \/ ~VerifyArtifacts /\ Raise("error") /\ UNCHANGED runjson
       \/ VerifyArtifacts /\ Status("catalog", "measuring") /\ Goto("identify")
    /\ UNCHANGED <<files, laneVars>>

(* The comparison is of the qualified bytes, complete, and in order.       *)
ValidComparison ==
    /\ identity = {}
    /\ Len(measured) = Pairs
    /\ \A k \in DOMAIN measured :
        /\ measured[k].order = IF k % 2 = 1 THEN <<"A", "B">> ELSE <<"B", "A">>
        /\ measured[k].iterations = measured[1].iterations

ValidateComparison ==
    /\ at = "validate" /\ Lucky
    /\ \/ ~(ValidComparison /\ VerifyArtifacts) /\ Raise("error")
       \/ ValidComparison /\ VerifyArtifacts /\ Goto("sources")
    /\ UNCHANGED <<fileVars, laneVars>>

ValidateSources ==
    /\ at = "sources" /\ lane = "catalog" /\ Lucky
    /\ \/ ~VerifySources /\ Raise("error")
       \/ VerifySources /\ Goto("publish")
    /\ UNCHANGED <<fileVars, laneVars>>

PublishCatalog ==
    /\ at = "publish" /\ lane = "catalog"
    /\ PublishAll(CatalogFiles, "complete") \/ PublishCut(CatalogFiles)
    /\ UNCHANGED laneVars

(* The last status is written and the report returned.                     *)
CompleteCatalog ==
    /\ at = "complete" /\ lane = "catalog"
    /\ Status("catalog", "complete") /\ Goto("returned") /\ Lucky
    /\ UNCHANGED <<files, laneVars>>

-----------------------------------------------------------------------------
(* The except clause of the lanes: no report survives, run.json says so,   *)
(* and the exception goes on.                                              *)

LaneFiles(l) ==
    IF l = "catalog" THEN CatalogFiles \o ComparisonFiles
    ELSE <<"w3c/report.json", "w3c/summary.md", "w3c/comparison.tsv",
           "w3c/suite-manifest.json">> \o ConformanceFiles

(* To the campaign, or to the main function of the lane's own script.      *)
AfterUndo(kind) ==
    CASE command = "campaign" ->
            /\ at' = IF kind = "interrupt" THEN "withdraw" ELSE "failed"
            /\ error' = kind /\ UNCHANGED <<command, lane, code>>
      [] command = "catalog" ->
            Exit(IF kind = "interrupt" THEN "interrupted" ELSE "1")
      [] OTHER -> Exit(IF kind = "interrupt" THEN "interrupted" ELSE "2")

Undo ==
    /\ at = "undo"
    /\ Removed(LaneFiles(lane), Len(LaneFiles(lane)))
    /\ Status(lane, FailedStatus) /\ AfterUndo(error) /\ Lucky
    /\ UNCHANGED laneVars

(* A file is locked, or run.json: what is left of the handler is skipped,  *)
(* and the OSError takes the place of the exception, even of an interrupt. *)
UndoCut ==
    /\ at = "undo" /\ Lucky
    /\ \E k \in 0..Len(LaneFiles(lane)) : Removed(LaneFiles(lane), k)
    /\ UNCHANGED runjson
    /\ AfterUndo("error") \/ AfterUndo("interrupt") \/ Killed
    /\ UNCHANGED laneVars

(* main of run_dual_catalog.py and of run_dual_w3c.py.                     *)
StartLane ==
    /\ command \in Lanes /\ at = "start" /\ Lucky
    /\ lane' = command /\ at' = "begin" /\ UNCHANGED <<command, error, code>>
    /\ UNCHANGED <<fileVars, laneVars>>

EndLane ==
    /\ command \in Lanes /\ at = "returned" /\ Lucky
    /\ Exit(IF runjson[lane] = "complete" THEN "0" ELSE "1")
    /\ UNCHANGED <<fileVars, laneVars>>

CatalogStep ==
    \/ BeginLane("catalog", "tools")
    \/ ValidateBuild \/ RunControls \/ RecordQualified \/ RecordFailed
    \/ CatalogGate \/ Measure \/ ValidateComparison \/ ValidateSources
    \/ PublishCatalog \/ CompleteCatalog
    \/ Undo \/ UndoCut
    \/ StartLane \/ EndLane
=============================================================================
