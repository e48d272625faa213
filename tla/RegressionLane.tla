--------------------------- MODULE RegressionLane ---------------------------
(***************************************************************************)
(* run_dual_regression.py: small documents, whole and in chunks, on all    *)
(* four builds, and a life cycle of one parser.  A build that fails does   *)
(* not hide the others; only xpact decides the exit status.                *)
(***************************************************************************)
EXTENDS W3cLane

VARIABLE judged   \* results of each build that ran: label, part, and outcomes

(* What run_lane does with a build: rows, and lifecycle_rows.              *)
Parts == {"trace", "lifecycle"}

RegressionInit == judged = <<>>

otherThanJudged == <<laneVars, conformanceVars, suiteVars>>

(* What an executable may do with a document in one chunking: a verdict    *)
(* and events, or a crash or a timeout.                                    *)
Traces ==
    [verdict : {"ACCEPT", "REJECT", "CRASH", "TIMEOUT", "MISSING"},
     sameEvents : BOOLEAN]

judge(accepted, trace) ==
    IF trace.verdict \in {"CRASH", "TIMEOUT"} THEN trace.verdict
    ELSE IF trace.verdict # (IF accepted THEN "ACCEPT" ELSE "REJECT")
         THEN "WRONG-VERDICT"
    ELSE IF accepted /\ ~trace.sameEvents THEN "WRONG-EVENTS"
    ELSE "PASS"

(* All chunkings run in one process; when that does not end well, each one *)
(* runs in a process of its own, and a failure stays with its chunking.    *)
(* (Only an isolated run records a crash or a timeout.)                    *)
TraceOutcomes ==
    {judge(accepted, t) : accepted \in BOOLEAN,
                          t \in {u \in Traces : u.verdict # "MISSING"}}

(* A life cycle step that is not in the output is a crash, or missing.     *)
LifecycleOutcomes ==
    {judge(accepted, t) : accepted \in BOOLEAN,
                          t \in {u \in Traces : u.verdict # "TIMEOUT"}}

StartRegression ==
    /\ command = "regression" /\ at = "start" /\ Lucky
    /\ lane' = "regression" /\ at' = "tools" /\ UNCHANGED <<command, error, code>>
    /\ Status("regression", "running")
    /\ UNCHANGED <<files, otherThanJudged, judged>>

(* The build failed: go on with the next.  Or run the documents.           *)
SkipFailed ==
    /\ at = "built" /\ lane = "regression" /\ Lucky
    /\ \/ build.status = "failed" /\ Append1(build) /\ Goto("build")
       \/ build.status = "verified" /\ Goto("trace") /\ UNCHANGED buildVars
    /\ UNCHANGED <<fileVars, benchVars, foreign, conformanceVars, suiteVars, judged>>

Saw(part, outcomes) ==
    judged' = Append(judged, [implementation |-> build.implementation,
                              assertions |-> build.assertions,
                              part |-> part, outcomes |-> outcomes])

TraceCases ==
    /\ at = "trace" /\ Goto("lifecycle")
    /\ \/ Saw("trace", {"PASS"}) /\ Lucky
       \/ \E o \in TraceOutcomes \ {"PASS"} : Saw("trace", {"PASS", o}) /\ Unlucky
    /\ UNCHANGED <<fileVars, otherThanJudged>>

RunLifecycle ==
    /\ at = "lifecycle" /\ Goto("build")
    /\ \/ Saw("lifecycle", {"PASS"}) /\ Lucky
       \/ \E o \in LifecycleOutcomes \ {"PASS"} :
             Saw("lifecycle", {"PASS", o}) /\ Unlucky
    /\ Append1(build)
    /\ UNCHANGED <<fileVars, benchVars, foreign, conformanceVars, suiteVars>>

(* Nothing to report when no implementation could be built.                *)
EndTraces ==
    /\ at = "build" /\ lane = "regression" /\ AllBuilt /\ Lucky
    /\ \/ judged = <<>> /\ Raise("error")
       \/ judged # <<>> /\ Goto("reports")
    /\ UNCHANGED <<fileVars, otherThanJudged, judged>>

PublishRegression ==
    /\ command = "regression" /\ at = "reports"
    /\ PublishAll(RegressionFiles, "reported") \/ PublishCut(RegressionFiles)
    /\ UNCHANGED <<otherThanJudged, judged>>

(* Mutant: only the builds that ran are looked at.                         *)
JudgeWhatRan ==
    IF \E k \in DOMAIN judged : judged[k].implementation = "xpact"
                                /\ judged[k].outcomes # {"PASS"}
    THEN "complete_with_failures" ELSE "complete"

XpactMissing ==
    \E k \in DOMAIN rows["regression"] :
        /\ rows["regression"][k].implementation = "xpact"
        /\ rows["regression"][k].status = "failed"

RegressionStatus ==
    IF XpactMissing THEN "incomplete"
    ELSE IF \E k \in DOMAIN judged : judged[k].implementation = "xpact"
                                     /\ judged[k].outcomes # {"PASS"}
    THEN "complete_with_failures" ELSE "complete"

EndRegression ==
    /\ command = "regression" /\ at = "reported" /\ Lucky
    /\ Status("regression", RegressionStatus)
    /\ Exit(CASE RegressionStatus = "complete" -> "0"
              [] RegressionStatus = "complete_with_failures" -> "1"
              [] RegressionStatus = "incomplete" -> "2")
    /\ UNCHANGED <<files, otherThanJudged, judged>>

(* main: an exception is written to run.json, if that can be written.      *)
AbortRegression ==
    /\ command = "regression" /\ at = "abort"
    /\ \/ /\ error = "interrupt" /\ Exit("interrupted") /\ Lucky
          /\ UNCHANGED runjson
       \/ /\ error = "error" /\ Exit("2") /\ Lucky
          /\ Status("regression", "failed")
       \/ error = "error" /\ Exit("1") /\ Lucky /\ UNCHANGED runjson
    /\ UNCHANGED <<files, otherThanJudged, judged>>

RegressionStep ==
    \/ StartRegression \/ SkipFailed \/ TraceCases \/ RunLifecycle \/ EndTraces
    \/ PublishRegression \/ EndRegression \/ AbortRegression

-----------------------------------------------------------------------------
(* The exit status of the regression command: 0 when both builds of xpact  *)
(* ran, once, and everything they did was right; 1 when both ran and       *)
(* something was wrong; 2 when one of them could not be built, or the run  *)
(* broke off.  Xpact-core is reported and never decides.                   *)
OfXpact == {k \in DOMAIN judged : judged[k].implementation = "xpact"}

OwnRan ==
    \A a \in BOOLEAN, p \in Parts :
        \E k \in OfXpact : judged[k].assertions = a /\ judged[k].part = p

RanOnce ==
    \A j, k \in OfXpact :
        judged[j].assertions = judged[k].assertions /\ judged[j].part = judged[k].part
            => j = k

RegressionExit ==
    command = "regression" =>
        /\ runjson["regression"] \in {"complete", "complete_with_failures",
                                      "incomplete"} =>
            /\ Present(RegressionFiles) /\ RanOnce
            /\ code = "0" <=> OwnRan /\ \A k \in OfXpact : judged[k].outcomes = {"PASS"}
            /\ code = "2" <=> ~OwnRan
            /\ code \in {"0", "1", "2"}
        /\ code = "0" => runjson["regression"] = "complete"
=============================================================================
