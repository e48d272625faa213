----------------------------- MODULE CommandRun -----------------------------
(***************************************************************************)
(* What the validation scripts have in common: one command that goes from  *)
(* step to step, the report files it writes, the run.json in which each    *)
(* run directory tells how far it came, and what becomes of an exception.  *)
(*                                                                         *)
(* A step that something unusual happens in (a failing call, an edit by    *)
(* somebody else, an interrupt, a kill) takes one of a bounded number of   *)
(* events; every other step is free, and so is what may go wrong in a      *)
(* handler that an event has led to.                                       *)
(***************************************************************************)
EXTENDS Naturals, Sequences, FiniteSets

CONSTANTS
    Commands,   \* the commands a user may give
    MaxEvents   \* bound: how many unusual things happen in a run of each

ASSUME CommandAssumption == MaxEvents \in [Commands -> Nat]

VARIABLES
    command,    \* the script that runs
    lane,       \* the lane it is in, as the profile of build_one
    at,         \* the step it is at
    error,      \* the exception on its way: an Exception, the gate of the
                \* catalog lane, or a KeyboardInterrupt
    code,       \* the exit status, once there is one
    events,     \* how many unusual things may still happen
    files,      \* every report file: absent, of this run, or of an earlier one
    runjson     \* the status in the run.json of each run directory

whereVars == <<command, lane, at, error, code>>
fileVars == <<files, runjson>>

Lanes == {"catalog", "w3c"}
Profiles == Lanes \cup {"probe", "regression"}
Owners == Lanes \cup {"campaign", "implementations", "regression"}

(* The files of each publisher, in the order it writes them.               *)
CatalogFiles == <<"catalog/report.json", "catalog/summary.md">>
ComparisonFiles == <<"comparison/comparison.json", "comparison/comparison.tsv">>
ConformanceFiles ==
    <<"conformance/junit.xml", "conformance/results.tsv",
      "conformance/summary.json", "conformance/summary.md">>
W3cFiles ==
    ConformanceFiles \o
    <<"w3c/comparison.tsv", "w3c/suite-manifest.json", "w3c/report.json",
      "w3c/summary.md">>
RegressionFiles ==
    <<"regression/cases.tsv", "regression/lifecycle.tsv",
      "regression/summary.md">>
SummaryFiles == <<"xpact-junit.xml", "xpact-summary.json">>

(* The order in which clear_reports removes the plots: the manifest goes   *)
(* first.  One .csv stands for those of a lane.                            *)
PlotNames == <<"plots.tsv", "dual-implementation-plots.html",
               "catalog.csv", "w3c.csv">>

Listed(names) == {names[i] : i \in DOMAIN names}

(* Written in place, so that a failure in between leaves a part.           *)
DirectFiles ==
    Listed(ConformanceFiles) \cup Listed(RegressionFiles)
    \cup {"w3c/comparison.tsv", "w3c/summary.md"}

Names == UNION {Listed(s) : s \in {CatalogFiles, ComparisonFiles, W3cFiles,
                                   RegressionFiles, SummaryFiles, PlotNames}}

Statuses == {"absent", "running", "measuring", "executing", "gate_failed",
             "failed", "incomplete", "complete", "complete_with_failures",
             "verified", "published"}

Codes == {"none", "0", "1", "2", "interrupted", "killed"}

Unlucky == events > 0 /\ events' = events - 1
Lucky == UNCHANGED events

Present(names) == \A n \in Listed(names) : files[n] = "new"
Gone(names) == \A n \in Listed(names) : files[n] = "absent"

RunInit ==
    /\ command \in Commands
    /\ lane = "none" /\ at = "start" /\ error = "none" /\ code = "none"
    /\ events = MaxEvents[command]
    /\ runjson = [o \in Owners |-> "absent"]

-----------------------------------------------------------------------------
(* Control.                                                                *)

Goto(p) == at' = p /\ UNCHANGED <<command, lane, error, code>>

Exit(c) ==
    /\ at' = "ended" /\ code' = c
    /\ UNCHANGED <<command, lane, error>>

(* The except clause an exception goes to: the lane's, the campaign's, the *)
(* comparison's, or that of the main function.                             *)
InComparison == at \in {"identify", "calibrate", "warmup", "pair", "compare"}
InLane == lane \in Lanes /\ ~InComparison /\ at \notin {"returned", "failed"}

Handler ==
    CASE InComparison -> "discard"
      [] InLane -> "undo"
      [] OTHER -> IF command = "campaign" THEN "withdraw" ELSE "abort"

Raise(kind) ==
    /\ error' = kind /\ at' = Handler
    /\ UNCHANGED <<command, lane, code>>

Killed == Exit("killed")

-----------------------------------------------------------------------------
(* Files.                                                                  *)

Wrote(names, k, status) ==
    [n \in Names |-> IF \E i \in 1..k : names[i] = n THEN status ELSE files[n]]

Status(o, s) == runjson' = [runjson EXCEPT ![o] = s]

(* All files of a publisher, then the step after it.  Most are written     *)
(* beside their place and moved there.                                     *)
PublishAll(names, next) ==
    /\ files' = Wrote(names, Len(names), "new")
    /\ UNCHANGED runjson /\ Goto(next) /\ Lucky

(* A write fails, or the process is interrupted or killed between two.     *)
PublishCut(names) ==
    /\ Unlucky
    /\ \E k \in 0..(Len(names) - 1) :
        files' = [Wrote(names, k, "new") EXCEPT ![names[k + 1]] =
                    IF names[k + 1] \in DirectFiles THEN "partial" ELSE @]
    /\ UNCHANGED runjson
    /\ \/ \E kind \in {"error", "interrupt"} : Raise(kind)
       \/ Killed

(* A handler removes its files and says so in run.json, in this order.     *)
Removed(names, k) == files' = Wrote(names, k, "absent")

(* "gate_failed": failed, with the message of the gate of the catalog.     *)
FailedStatus == IF error = "gate" THEN "gate_failed" ELSE "failed"

=============================================================================
