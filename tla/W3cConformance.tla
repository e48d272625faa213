--------------------------- MODULE W3cConformance ---------------------------
(***************************************************************************)
(* run_w3c_conformance.py: which verdict the catalog asks for, one process *)
(* per engine and case, the list of known failures, and the exit status.   *)
(*                                                                         *)
(* A case is a record of the attributes of its TEST element that decide    *)
(* anything.  A set that is empty stands for an attribute that is absent.  *)
(***************************************************************************)
EXTENDS CatalogLane

CONSTANTS
    Cases,      \* the catalog, a sequence
    KnownLists  \* what the file of known failures may list

VARIABLES
    results,    \* one record for each case that was run or skipped
    known,      \* the entries of the known-failures file
    allCases    \* --all-cases

conformanceVars == <<results, known, allCases>>

Engines == <<"xpact", "xpact-core">>

(* erratum: the reviewed case of erratum E38, known by its bytes.          *)
TestElements ==
    [id : STRING, kind : STRING, recommendation : STRING, entities : STRING,
     versions : SUBSET STRING, editions : SUBSET STRING, erratum : BOOLEAN]

Kinds == {"valid", "invalid", "not-wf", "error"}
Later == {"XML1.1", "NS1.1"}
Recommendations == {"XML1.0", "XML1.0-errata2e", "XML1.0-errata3e",
                    "XML1.0-errata4e", "NS1.0", "NS1.0-errata1e"}

LaterXml(c) == c.recommendation \in Later
OtherVersion(c) == c.versions # {} /\ "1.0" \notin c.versions
OtherEdition(c) == c.editions # {} /\ "5" \notin c.editions

Required(c) == IF c.kind = "not-wf" THEN "REJECT" ELSE "ACCEPT"

(* expectation, as two operators: the reason to exclude a case from the    *)
(* profile, and the verdict.  One erratum is reviewed by its bytes.        *)
Excluded(c) ==
    LaterXml(c) \/ OtherVersion(c) \/ OtherEdition(c) \/ c.kind = "error"

Adjusted(c) == c.erratum /\ ~Excluded(c) /\ c.kind = "not-wf"

Expected(c) ==
    IF c.kind = "error" /\ ~(LaterXml(c) \/ OtherVersion(c) \/ OtherEdition(c))
    THEN "unspecified"
    ELSE IF Adjusted(c) THEN "ACCEPT" ELSE Required(c)

(* Attribute values that are refused.                                      *)
Unknown(c) ==
    \/ c.kind \notin Kinds
    \/ ~LaterXml(c) /\ c.recommendation \notin Recommendations
    \/ ~Excluded(c) /\ c.entities \notin {"none", "general", "parameter", "both"}

(* The lane of an excluded case under --all-cases.                         *)
out_of_profile_lane(c) ==
    IF LaterXml(c) \/ OtherVersion(c) THEN "xml-1.1"
    ELSE IF c.kind = "error" THEN "optional-error"
    ELSE IF OtherEdition(c) THEN "legacy-names"
    ELSE "external-entities"

LaneExpected(c) ==
    IF out_of_profile_lane(c) \in {"xml-1.1", "optional-error"}
    THEN "ANY" ELSE Required(c)

(* load_catalog: every case is understood, and has a name of its own.      *)
Loads ==
    /\ Cases \in Seq(TestElements)
    /\ \E k \in DOMAIN Cases : ~Excluded(Cases[k])
    /\ \A k \in DOMAIN Cases : ~Unknown(Cases[k])
    /\ \A j, k \in DOMAIN Cases : Cases[j].id = Cases[k].id => j = k

ASSUME CatalogAssumption == Loads

(* load_known_failures: a case of an engine is listed once, as a failure   *)
(* or an error.                                                            *)
LoadsKnown(list) ==
    /\ IsFiniteSet(list)
    /\ \A e \in list : e.status \in {"failed", "error"}
    /\ \A e, f \in list : e.engine = f.engine /\ e.id = f.id => e = f

ASSUME KnownAssumption == \A list \in KnownLists : LoadsKnown(list)

ConformanceInit ==
    /\ results = <<>>
    /\ known \in IF command = "conformance" THEN KnownLists ELSE {{}}
    /\ allCases \in IF command = "conformance" THEN BOOLEAN ELSE {FALSE}

-----------------------------------------------------------------------------
(* run_case.                                                               *)

(* "none": no verdict, because the process crashed, contradicted itself,   *)
(* took too long, or could not be started.                                 *)
Verdicts == {"ACCEPT", "REJECT", "none"}

Result(engine, id, expected, actual, status) ==
    [engine |-> engine, id |-> id, expected |-> expected, actual |-> actual,
     status |-> status, known |-> FALSE]

Asked(c) == IF Excluded(c) THEN LaneExpected(c) ELSE Expected(c)

run_case(engine, c, actual) ==
    Result(engine, c.id, Asked(c), actual,
           IF actual = "none" THEN "error"
           ELSE IF Asked(c) \in {actual, "ANY"} THEN "passed" ELSE "failed")

Skipped(engine, c) ==
    Result(engine, c.id, Expected(c), "not-run", "skipped")

Runnable(c) == allCases \/ ~Excluded(c)

(* Every engine runs the whole catalog, one engine after the other.        *)
EngineNow == Engines[(Len(results) \div Len(Cases)) + 1]
CaseNow == Cases[(Len(results) % Len(Cases)) + 1]
AllRun == Len(results) = Len(Engines) * Len(Cases)

Record(r) == results' = Append(results, r)

(* The engine does what is asked, or something else happens.               *)
RunNow ==
    IF ~Runnable(CaseNow) THEN Record(Skipped(EngineNow, CaseNow)) /\ Lucky
    ELSE \E actual \in Verdicts :
            LET r == run_case(EngineNow, CaseNow, actual) IN
            /\ Record(r)
            /\ IF r.status = "passed" THEN Lucky ELSE Unlucky

-----------------------------------------------------------------------------
(* Known failures.                                                         *)

Harness(id) == Result("harness", id, "none", "not-run", "error")

HasHarness == \E k \in DOMAIN results : results[k].engine = "harness"

(* Mutant: an entry is matched by its engine and case alone.               *)
MatchesAnyStatus(e, r) == r.engine = e.engine /\ r.id = e.id

Matches(e, r) == r.engine = e.engine /\ r.id = e.id /\ r.status = e.status

(* An entry whose engine ran must still occur, with the same status.       *)
Stale ==
    {e \in known : /\ \E k \in DOMAIN results : results[k].engine = e.engine
                   /\ ~\E k \in DOMAIN results : Matches(e, results[k])}

apply_known_failures ==
    [k \in DOMAIN results |->
        [results[k] EXCEPT !.known = \E e \in known : Matches(e, results[k])]]
    \o [k \in 1..Cardinality(Stale) |-> Harness("known-failures")]

unexpected(r) == r.status \in {"failed", "error"} /\ ~r.known

-----------------------------------------------------------------------------
(* main.                                                                   *)

StartConformance ==
    /\ command = "conformance" /\ at = "start"
    /\ \/ Removed(ConformanceFiles, 4) /\ Goto("setup") /\ Lucky
       \/ /\ Unlucky /\ \E k \in 0..3 : Removed(ConformanceFiles, k)
          /\ Exit("1")
    /\ UNCHANGED <<runjson, conformanceVars, laneVars>>

(* The list, the executables, the suite and the catalog are read.          *)
Setup ==
    /\ command = "conformance" /\ at = "setup"
    /\ Goto("case") /\ Lucky
    /\ UNCHANGED <<fileVars, conformanceVars, laneVars>>

RunConformanceCase ==
    /\ command = "conformance" /\ at = "case"
    /\ \/ ~AllRun /\ RunNow /\ UNCHANGED whereVars
       \/ AllRun /\ Goto("judge") /\ UNCHANGED results /\ Lucky
    /\ UNCHANGED <<fileVars, known, allCases, laneVars>>

(* An exception of the set-up or of the loop becomes a result of its own.  *)
SetupError ==
    /\ command = "conformance" /\ at \in {"setup", "case"} /\ Unlucky
    /\ Record(Harness("suite-setup")) /\ Goto("judge")
    /\ UNCHANGED <<fileVars, known, allCases, laneVars>>

Judge ==
    /\ command = "conformance" /\ at = "judge"
    /\ results' = IF known # {} /\ ~HasHarness THEN apply_known_failures
                  ELSE results
    /\ Goto("reports") /\ Lucky
    /\ UNCHANGED <<fileVars, known, allCases, laneVars>>

WriteReports ==
    /\ command = "conformance" /\ at = "reports"
    /\ PublishAll(ConformanceFiles, "reported") \/ PublishCut(ConformanceFiles)
    /\ UNCHANGED <<conformanceVars, laneVars>>

EndConformance ==
    /\ command = "conformance" /\ at = "reported" /\ Lucky
    /\ Exit(IF \E k \in DOMAIN results : unexpected(results[k])
            THEN "1" ELSE "0")
    /\ UNCHANGED <<fileVars, conformanceVars, laneVars>>

ConformanceStep ==
    \/ StartConformance \/ Setup \/ RunConformanceCase \/ SetupError
    \/ Judge \/ WriteReports \/ EndConformance

-----------------------------------------------------------------------------
(* The exit status of the conformance command says what happened.  At 0,   *)
(* the four reports are of this run; each engine has one result for each   *)
(* case; each is a pass, an exclusion of the profile, or a failure listed  *)
(* with the status it has; and no entry of the list is out of date.  When  *)
(* the reports were written and it is 1, one of these does not hold, or    *)
(* the run broke off.                                                      *)
Accounted(e, c) ==
    \E k \in DOMAIN results :
        /\ results[k].engine = e /\ results[k].id = c.id
        /\ \A j \in DOMAIN results :
            results[j].engine = e /\ results[j].id = c.id => j = k
        /\ \/ Excluded(c) /\ ~allCases /\ results[k].status = "skipped"
           \/ results[k].actual = Required(c) /\ ~Adjusted(c)
           \/ results[k].actual = "ACCEPT" /\ Adjusted(c)
           \/ /\ Excluded(c) /\ results[k].actual \in {"ACCEPT", "REJECT"}
              /\ LaterXml(c) \/ OtherVersion(c) \/ c.kind = "error"
           \/ \E f \in known : f.engine = e /\ f.id = c.id
                                 /\ f.status = results[k].status

UpToDate(f) ==
    f.engine \in Listed(Engines) =>
        \E k \in DOMAIN results :
            /\ results[k].engine = f.engine /\ results[k].id = f.id
            /\ results[k].status = f.status

AllAccounted ==
    /\ \A e \in Listed(Engines) : \A c \in Listed(Cases) : Accounted(e, c)
    /\ \A f \in known : UpToDate(f)

ConformanceExit ==
    command = "conformance" =>
        /\ code = "0" => AllAccounted /\ Present(ConformanceFiles)
        /\ code = "1" /\ Present(ConformanceFiles) =>
            \/ ~AllAccounted
            \/ \E k \in DOMAIN results : results[k].id = "suite-setup"
=============================================================================
