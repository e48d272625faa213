------------------------------- MODULE W3cLane -------------------------------
(***************************************************************************)
(* run_dual_w3c.py: the same four builds, then every case of the suite on  *)
(* both benchmark executables.  A failed control or case is a result; a    *)
(* failed build, an altered executable, source or suite is the end.        *)
(***************************************************************************)
EXTENDS W3cConformance

VARIABLES
    edited,     \* suite files edited since the snapshot: cases, or an entity
    stale       \* history: a recorded result is of edited bytes

suiteVars == <<edited, stale>>

SuiteInit == edited = {} /\ stale = FALSE

(* A file of the suite is edited, once the snapshot was taken.             *)
EditSuite ==
    /\ lane = "w3c" /\ at \notin {"begin", "suite", "failed", "ended"} /\ Unlucky
    /\ \E f \in ({c.id : c \in Listed(Cases)} \cup {"an entity"}) \ edited :
        edited' = edited \cup {f}
    /\ UNCHANGED stale

(* prepare_suite, suite_snapshot and load_catalog.                         *)
PrepareSuite ==
    /\ at = "suite" /\ Goto("tools") /\ Lucky
    /\ UNCHANGED <<fileVars, laneVars, conformanceVars, suiteVars>>

(* A control that fails or breaks is kept as a result of the build.        *)
RecordExecuted ==
    /\ at = "qualify" /\ lane = "w3c"
    /\ Append1([build EXCEPT !.status =
            IF Kept(build) THEN "executed" ELSE "failed"])
    /\ Goto("build") /\ Lucky
    /\ UNCHANGED <<fileVars, benchVars, foreign, conformanceVars, suiteVars>>

W3cGate ==
    /\ at = "build" /\ lane = "w3c" /\ AllBuilt /\ Lucky
    /\ \/ ~(AllHave("executed") /\ VerifySources) /\ Raise("error")
          /\ UNCHANGED runjson
       \/ AllHave("executed") /\ VerifySources
          /\ Status("w3c", "executing") /\ Goto("engine")
    /\ UNCHANGED <<files, laneVars, conformanceVars, suiteVars>>

(* Each engine begins with its own bytes and those of the whole suite.     *)
BeginEngine ==
    /\ at = "engine" /\ Lucky
    /\ LET ok == Kept(Artifact(EngineNow)) /\ edited = {} IN
        \/ ~ok /\ Raise("error")
        \/ ok /\ Goto("input")
    /\ UNCHANGED <<fileVars, laneVars, conformanceVars, suiteVars>>

(* verify_case_input, before the run and after it.                         *)
CheckInput ==
    /\ at = "input" /\ Lucky
    /\ \/ CaseNow.id \in edited /\ Raise("error")
       \/ CaseNow.id \notin edited /\ Goto("run")
    /\ UNCHANGED <<fileVars, laneVars, conformanceVars, suiteVars>>

RunW3cCase ==
    /\ at = "run" /\ lane = "w3c"
    /\ RunNow /\ Goto("recheck input")
    /\ IF Runnable(CaseNow)
       THEN /\ Runs(<<"w3c", EngineNow, FALSE>>)
            /\ stale' = (stale \/ edited \cap {CaseNow.id, "an entity"} # {})
       ELSE UNCHANGED <<foreign, stale>>
    /\ UNCHANGED <<fileVars, buildVars, benchVars, known, allCases, edited>>

RecheckInput ==
    /\ at = "recheck input" /\ Lucky
    /\ LET c == Cases[((Len(results) - 1) % Len(Cases)) + 1] IN
        \/ c.id \in edited /\ Raise("error")
        \/ /\ c.id \notin edited
           /\ Goto(IF AllRun THEN "matrix"
                   ELSE IF CaseNow = Cases[1] THEN "engine" ELSE "input")
    /\ UNCHANGED <<fileVars, laneVars, conformanceVars, suiteVars>>

(* comparison_rows: a result for each engine and case, and no other; each  *)
(* is an exclusion, an error, or a verdict that its status agrees with.    *)
comparison_rows ==
    /\ Len(results) = Len(Engines) * Len(Cases)
    /\ \A e \in Listed(Engines) : \A c \in Listed(Cases) :
        \E k \in DOMAIN results :
            LET r == results[k] IN
            /\ r.engine = e /\ r.id = c.id /\ r.expected = Expected(c)
            /\ IF Excluded(c) THEN r.status = "skipped" /\ r.actual = "not-run"
               ELSE \/ r.status = "error"
                    \/ /\ r.status \in {"passed", "failed"}
                       /\ r.actual \in {"ACCEPT", "REJECT"}
                       /\ (r.status = "passed") <=> (r.actual = Expected(c))

CheckMatrix ==
    /\ at = "matrix" /\ Lucky
    /\ LET ok == comparison_rows /\ edited = {} IN
        \/ ~ok /\ Raise("error")
        \/ ok /\ Goto("sources")
    /\ UNCHANGED <<fileVars, laneVars, conformanceVars, suiteVars>>

CheckW3cSources ==
    /\ at = "sources" /\ lane = "w3c" /\ Lucky
    /\ \/ ~VerifySources /\ Raise("error")
       \/ VerifySources /\ Goto("artifacts")
    /\ UNCHANGED <<fileVars, laneVars, conformanceVars, suiteVars>>

CheckW3cArtifacts ==
    /\ at = "artifacts" /\ Lucky
    /\ \/ ~VerifyArtifacts /\ Raise("error")
       \/ VerifyArtifacts /\ Goto("publish")
    /\ UNCHANGED <<fileVars, laneVars, conformanceVars, suiteVars>>

ResultFailures ==
    \E k \in DOMAIN results : results[k].status \in {"failed", "error"}

(* Mutant: a broken control is not counted.                                *)
OnlyFailedControls ==
    IF \/ ResultFailures
       \/ \E k \in DOMAIN rows["w3c"] : "FAIL" \in rows["w3c"][k].outcomes
    THEN "complete_with_failures" ELSE "complete"

W3cStatus ==
    IF \/ ResultFailures
       \/ \E k \in DOMAIN rows["w3c"] :
            rows["w3c"][k].outcomes \cap {"FAIL", "broken"} # {}
    THEN "complete_with_failures" ELSE "complete"

PublishW3c ==
    /\ at = "publish" /\ lane = "w3c"
    /\ PublishAll(W3cFiles, "complete") \/ PublishCut(W3cFiles)
    /\ UNCHANGED <<laneVars, conformanceVars, suiteVars>>

CompleteW3c ==
    /\ at = "complete" /\ lane = "w3c"
    /\ Status("w3c", W3cStatus) /\ Goto("returned") /\ Lucky
    /\ UNCHANGED <<files, laneVars, conformanceVars, suiteVars>>

W3cStep ==
    \/ PrepareSuite \/ RecordExecuted \/ W3cGate \/ BeginEngine
    \/ CheckInput \/ RunW3cCase \/ RecheckInput
    \/ CheckMatrix \/ CheckW3cSources \/ CheckW3cArtifacts
    \/ PublishW3c \/ CompleteW3c

-----------------------------------------------------------------------------
(* The evidence a lane leaves in its report is of one snapshot.  Audit and *)
(* benchmark were built of the same inputs and the same revision, no       *)
(* process that qualified, measured or judged was of a replaced            *)
(* executable, and no W3C result is of edited bytes.                       *)
OneSnapshot(l) ==
    /\ l \notin foreign
    /\ \A i \in Implementations :
        LET audit == RowOf(l, i, TRUE)
            artifact == RowOf(l, i, FALSE)
        IN /\ audit.used = artifact.used
           /\ audit.revision = artifact.revision

EvidenceIsOneSnapshot ==
    /\ files["catalog/report.json"] = "new" =>
        OneSnapshot("catalog") /\ identity = {}
    /\ files["w3c/report.json"] = "new" => OneSnapshot("w3c") /\ ~stale
=============================================================================
