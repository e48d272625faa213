-------------------------- MODULE PairedBenchmark --------------------------
(***************************************************************************)
(* compare_eiffel_benchmarks.py: two executables run in turn, first until  *)
(* a sample takes long enough, then to warm up, then in pairs whose order  *)
(* alternates.  The catalog lane calls it for the two executables it has   *)
(* qualified; a user may call it for any two, in a directory that an       *)
(* earlier comparison has used.  One workload stands for each.             *)
(***************************************************************************)
EXTENDS BuildOne

CONSTANTS
    Iterations,     \* documents per sample at first
    MaxIterations,  \* the largest signed 32-bit number
    Warmups, Pairs

ASSUME BenchmarkAssumption ==
    /\ Iterations \in 1..MaxIterations /\ MaxIterations \in Nat
    /\ Warmups \in Nat /\ Pairs \in Nat \ {0}

VARIABLES
    count,      \* documents per sample
    sampled,    \* samples of this phase
    measured,   \* the rows of the report: order and documents of each pair
    identity,   \* roles whose executable was not the built one when hashed
    foreign     \* history: lanes that took evidence from a replaced executable

benchVars == <<count, sampled, measured, identity>>

BenchInit ==
    /\ count = Iterations /\ sampled = 0 /\ measured = <<>> /\ identity = {}
    /\ foreign = {}

Roles == {"A", "B"}
Built(role) ==
    <<"catalog", IF role = "A" THEN "xpact" ELSE "xpact-core", FALSE>>

Swapped(role) == lane = "catalog" /\ Built(role) \in replaced

(* An executable runs and its output is evidence.                          *)
Runs(exe) ==
    foreign' = IF exe \in replaced THEN foreign \cup {lane} ELSE foreign

(* preflight_inputs and clear_reports: reports of an earlier comparison go *)
(* before anything is measured.                                            *)
StartComparison ==
    /\ command = "paired" /\ at = "start"
    /\ Removed(ComparisonFiles, 2) /\ Goto("identify") /\ Lucky
    /\ UNCHANGED <<runjson, benchVars, foreign>>

(* An input is one of the files it would write: refused, and nothing is    *)
(* touched.  Or an earlier report cannot be removed.                       *)
RefuseComparison ==
    /\ command = "paired" /\ at = "start" /\ Unlucky
    /\ \E k \in 0..1 : Removed(ComparisonFiles, k)
    /\ Exit("1") /\ UNCHANGED <<runjson, benchVars, foreign>>

(* The executables are hashed; no calibration when no minimum is asked for.*)
Identify ==
    /\ at = "identify"
    /\ identity' = {r \in Roles : Swapped(r)}
    /\ Goto("calibrate") \/ Goto("warmup")
    /\ Lucky
    /\ UNCHANGED <<fileVars, count, sampled, measured, foreign>>

(* The order of the n-th pair of samples of a phase, from 0.               *)
OrderOf(n) == IF n % 2 = 0 THEN <<"A", "B">> ELSE <<"B", "A">>
RoleNow ==
    IF at = "calibrate" THEN OrderOf(0)[sampled + 1]
    ELSE OrderOf(sampled \div 2)[(sampled % 2) + 1]

Sample == Runs(Built(RoleNow)) /\ Lucky /\ UNCHANGED <<fileVars, identity>>

FirstSample == sampled % 2 = 0

SampleFirst ==
    /\ \/ at = "calibrate"
       \/ at = "warmup" /\ sampled < 2 * Warmups
       \/ at = "pair" /\ sampled < 2 * Pairs
    /\ FirstSample /\ Sample
    /\ sampled' = sampled + 1
    /\ UNCHANGED <<whereVars, count, measured>>

(* Mutant: the limit is a count like any other.                            *)
DoubleForEver ==
    /\ count' = IF 2 * count > MaxIterations THEN MaxIterations ELSE 2 * count
    /\ UNCHANGED whereVars

(* Mutant: the doubled count is not held to the limit.                     *)
DoubleUnbounded == count' = 2 * count /\ UNCHANGED whereVars

(* The sample was too short: twice as many documents, up to the limit.     *)
Double ==
    \/ count = MaxIterations /\ Raise("error") /\ UNCHANGED count
    \/ /\ count # MaxIterations
       /\ count' = IF 2 * count > MaxIterations THEN MaxIterations ELSE 2 * count
       /\ UNCHANGED whereVars

Calibrate ==
    /\ at = "calibrate" /\ ~FirstSample /\ Sample
    /\ sampled' = 0
    /\ \/ Goto("warmup") /\ UNCHANGED count
       \/ Double
    /\ UNCHANGED measured

Warmup ==
    /\ at = "warmup" /\ UNCHANGED <<count, measured>>
    /\ \/ /\ ~FirstSample /\ Sample
          /\ sampled' = sampled + 1 /\ UNCHANGED whereVars
       \/ /\ sampled = 2 * Warmups /\ sampled' = 0 /\ Goto("pair") /\ Lucky
          /\ UNCHANGED <<fileVars, identity, foreign>>

MeasurePair ==
    /\ at = "pair" /\ UNCHANGED count
    /\ \/ /\ ~FirstSample /\ Sample
          /\ sampled' = sampled + 1 /\ UNCHANGED whereVars
          /\ measured' = Append(measured,
                [order |-> OrderOf(sampled \div 2), iterations |-> count])
       \/ /\ sampled = 2 * Pairs /\ sampled' = 0 /\ Goto("compare") /\ Lucky
          /\ UNCHANGED <<fileVars, identity, foreign, measured>>

(* publish_reports.                                                        *)
PublishComparison ==
    /\ at = "compare"
    /\ PublishAll(ComparisonFiles, IF command = "paired" THEN "compared"
                                   ELSE "validate")
    /\ UNCHANGED <<benchVars, foreign>>

PublishComparisonCut ==
    /\ at = "compare" /\ PublishCut(ComparisonFiles)
    /\ UNCHANGED <<benchVars, foreign>>

EndComparison ==
    /\ at = "compared" /\ Exit("0") /\ Lucky
    /\ UNCHANGED <<fileVars, benchVars, foreign>>

(* The handler of run_comparison, and what main makes of the exception.    *)
AfterDiscard(kind) ==
    IF command = "paired"
    THEN Exit(IF kind = "interrupt" THEN "interrupted" ELSE "1")
    ELSE at' = "undo" /\ error' = kind /\ UNCHANGED <<command, lane, code>>

Discard ==
    /\ at = "discard"
    /\ \/ Removed(ComparisonFiles, 2) /\ AfterDiscard(error) /\ Lucky
       \/ /\ Lucky /\ \E k \in 0..1 : Removed(ComparisonFiles, k)
          /\ AfterDiscard("error") \/ AfterDiscard("interrupt") \/ Killed
    /\ UNCHANGED <<runjson, benchVars, foreign>>

BenchStep ==
    \/ StartComparison \/ RefuseComparison \/ Identify \/ SampleFirst
    \/ Calibrate \/ Warmup \/ MeasurePair
    \/ PublishComparison \/ PublishComparisonCut \/ EndComparison \/ Discard
=============================================================================
