-------------------------- MODULE ValidationScripts --------------------------
(***************************************************************************)
(* The validation scripts of scripts/ as one system: a user gives one      *)
(* command; its components share a working tree that others edit and a     *)
(* dependency cache that another command may be filling.                   *)
(*                                                                         *)
(* Every component module leaves the variables of the components after it  *)
(* alone; here each step is framed for all of them.                        *)
(***************************************************************************)
EXTENDS DualCampaign

(* Invocations of prepare_dependency: the build of this command, and       *)
(* prepare_xpact_core.py run by somebody else.                             *)
ASSUME InvocationsAssumption == {"build", "other"} \subseteq Invocations

vars == <<whereVars, events, fileVars, inputVars, buildVars, benchVars, foreign,
          conformanceVars, suiteVars, judged, campaignVars, cacheVars>>

(* Directories that are reused may hold the files of an earlier run.       *)
EarlierFiles ==
    IF command = "paired" THEN Listed(ComparisonFiles)
    ELSE IF command = "conformance" THEN Listed(ConformanceFiles) ELSE {}

Init ==
    /\ RunInit /\ CacheInit /\ BuildInit /\ BenchInit
    /\ ConformanceInit /\ SuiteInit /\ RegressionInit /\ CampaignInit
    /\ \E earlier \in {{}, EarlierFiles} :
        files = [n \in Names |-> IF n \in earlier THEN "earlier" ELSE "absent"]

afterSuite == <<judged, campaignVars>>
afterBench == <<conformanceVars, suiteVars, afterSuite>>

-----------------------------------------------------------------------------
(* The command.                                                            *)

Build ==
    /\ BuildStep
    /\ UNCHANGED <<fileVars, inputVars, benchVars, foreign, afterBench>>

Tools ==
    /\ Toolchain
    /\ UNCHANGED <<fileVars, inputVars, laneVars, afterBench, cacheVars>>

Builds ==
    /\ StartBuilds \/ RecordBuild \/ EndBuilds \/ EndBuildsBadly
    /\ UNCHANGED <<inputVars, benchVars, foreign, afterBench, cacheVars>>

Compare ==
    /\ BenchStep
    /\ UNCHANGED <<inputVars, buildVars, afterBench, cacheVars>>

CatalogOrLane ==
    /\ CatalogStep \/ BeginLane("w3c", "suite")
    /\ UNCHANGED <<inputVars, afterBench, cacheVars>>

Conformance ==
    /\ ConformanceStep
    /\ UNCHANGED <<inputVars, suiteVars, afterSuite, cacheVars>>

W3c == W3cStep /\ UNCHANGED <<inputVars, afterSuite, cacheVars>>

Regression == RegressionStep /\ UNCHANGED <<inputVars, campaignVars, cacheVars>>

Campaign == CampaignStep /\ UNCHANGED <<inputVars, cacheVars>>

(* prepare_dependency, called by build_one.                                *)
Prepare ==
    /\ CacheStep("build") /\ Lucky
    /\ UNCHANGED <<whereVars, fileVars, inputVars, laneVars, afterBench>>

(* Where an exception may come from that no step above has of its own.     *)
MayFail ==
    {"lane", "begin", "suite", "tools", "measure", "identify", "calibrate",
     "warmup", "pair", "validate", "engine", "input", "run", "recheck input",
     "matrix", "complete", "summary", "plots", "finish", "trace", "lifecycle",
     "reported"}

StepFails ==
    /\ at \in MayFail /\ lane # "probe" /\ command # "conformance" /\ Unlucky
    /\ Raise("error") /\ build' = NoBuild
    /\ UNCHANGED <<fileVars, inputVars, rows, benchVars, foreign, afterBench,
                   cacheVars>>

(* A KeyboardInterrupt, which no except Exception catches.  In the middle  *)
(* of prepare_dependency it goes through its finally clause first.         *)
Uninterruptible == {"start", "ended", "discard", "undo", "withdraw", "abort"}

Interrupt ==
    /\ at \notin Uninterruptible /\ Unlucky
    /\ \/ /\ step["build"] = "idle"
          /\ Raise("interrupt") /\ build' = NoBuild /\ UNCHANGED cacheVars
       \/ /\ CacheFails("build", "interrupt")
          /\ UNCHANGED <<whereVars, build>>
    /\ UNCHANGED <<fileVars, inputVars, rows, benchVars, foreign, afterBench>>

(* What the interpreter does with an exception that nothing caught.        *)
Abort ==
    /\ at = "abort" /\ command # "regression" /\ Lucky
    /\ Exit(IF error = "interrupt" THEN "interrupted" ELSE "1")
    /\ UNCHANGED <<fileVars, inputVars, laneVars, afterBench, cacheVars>>

(* The process is killed, in prepare_dependency or elsewhere.              *)
KillCommand ==
    /\ at \notin {"start", "ended"} /\ Unlucky /\ Killed
    /\ IF step["build"] = "idle" THEN UNCHANGED cacheVars ELSE Kill("build")
    /\ UNCHANGED <<fileVars, inputVars, laneVars, afterBench>>

-----------------------------------------------------------------------------
(* Everybody else.                                                         *)

Builds_ == command \notin {"paired", "conformance"} /\ at \notin {"start", "ended"}

Edits ==
    /\ Builds_ /\ SourceEvents
    /\ UNCHANGED <<whereVars, fileVars, laneVars, afterBench, cacheVars>>

EditsSuite ==
    /\ EditSuite
    /\ UNCHANGED <<whereVars, fileVars, inputVars, laneVars, conformanceVars,
                   afterSuite, cacheVars>>

exceptCache == <<whereVars, fileVars, inputVars, laneVars, afterBench>>

PrepareFails ==
    /\ Builds_ /\ Unlucky
    /\ CacheFails("build", "error") \/ FetchStrange("build") \/ AlterCheckout
    /\ UNCHANGED exceptCache

OtherBegins ==
    /\ Builds_ /\ Unlucky /\ prepare_dependency("other", FALSE)
    /\ UNCHANGED exceptCache

OtherGoesOn ==
    /\ CacheStep("other") \/ Return("other")
    /\ Lucky /\ UNCHANGED exceptCache

OtherFails ==
    /\ step["other"] # "idle" /\ at # "ended" /\ Unlucky /\ CacheFault("other")
    /\ UNCHANGED exceptCache

(* The end: nothing runs any more.                                         *)
Ended ==
    /\ at = "ended" /\ step["other"] \in {"idle", "dead"}
    /\ UNCHANGED vars

-----------------------------------------------------------------------------
Progress ==
    \/ Build \/ Tools \/ Builds \/ Prepare \/ Compare \/ CatalogOrLane
    \/ Conformance \/ W3c \/ Regression \/ Campaign \/ Abort

Next ==
    \/ Progress
    \/ StepFails \/ Interrupt \/ KillCommand
    \/ Edits \/ EditsSuite
    \/ PrepareFails \/ OtherBegins \/ OtherGoesOn \/ OtherFails
    \/ Ended

(* The command goes on: every compiler, Git command, control and engine it *)
(* runs has a time limit.  (So has every sample of the catalog lane; a     *)
(* paired comparison of a user is taken to be given --timeout-seconds.)    *)
Spec == Init /\ [][Next]_vars /\ WF_vars(Progress)

-----------------------------------------------------------------------------
RowOK(r) ==
    /\ r.implementation \in Implementations \cup {"none"}
    /\ r.assertions \in BOOLEAN
    /\ r.status \in {"none", "running", "failed", "verified", "qualified", "executed"}
    /\ r.inputs \in 0..MaxEvents[command] /\ r.used \in 0..MaxEvents[command]
    /\ r.revision \in 0..MaxEvents[command]
    /\ r.tree \in {"absent", "pinned", "altered"}
    /\ r.outcomes \subseteq {"PASS", "FAIL", "broken"}

(* The type invariant.                                                     *)
TypeOK ==
    /\ command \in Commands /\ lane \in Profiles \cup {"none"}
    /\ error \in {"none", "error", "gate", "interrupt"} /\ code \in Codes
    /\ (at = "ended") = (code # "none")
    /\ events \in 0..MaxEvents[command]
    /\ files \in [Names -> {"absent", "earlier", "partial", "new"}]
    /\ runjson \in [Owners -> Statuses]
    /\ CacheTypeOK
    /\ source \in [Implementations -> 0..MaxEvents[command]]
    /\ head \in 0..MaxEvents[command]
    /\ RowOK(build)
    /\ \A p \in Profiles :
        /\ Len(rows[p]) <= Len(Order(p))
        /\ \A k \in DOMAIN rows[p] : /\ RowOK(rows[p][k])
                                     /\ rows[p][k].implementation = Order(p)[k][1]
                                     /\ rows[p][k].assertions = Order(p)[k][2]
    /\ count \in Iterations..MaxIterations
    /\ sampled \in 0..(2 * (Warmups + Pairs)) /\ Len(measured) <= Pairs
    /\ identity \subseteq Roles /\ foreign \subseteq Lanes
    /\ lanes \in [Lanes -> {"pending", "running", "failed"} \cup Completed]
    /\ owned \in {"none", "failed"} \cup Completed

(* Every command ends, with an exit status, whatever fails: calibration    *)
(* has a limit, no handler waits, and a failed build or lane is passed by. *)
CommandEnds == <>(at = "ended")
=============================================================================
