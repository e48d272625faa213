-------------------------- MODULE OutcomeProofs -----------------------------
(***************************************************************************)
(* What a script leaves when it has ended: its exit status, run.json and   *)
(* the files of its report.                                                *)
(*                                                                         *)
(* The conformance command keeps one result for each engine and case, in   *)
(* the order of the loops (InOrder), until every case has one (Whole) or   *)
(* an error of the suite puts a result of the harness in their place       *)
(* (BrokeOff).  What apply_known_failures makes of a whole list is known   *)
(* (JudgedFrom): the same results, some marked, and one more for each      *)
(* entry of the list that no result matches.  The status is read off that, *)
(* once without a list (PlainVerdict) and once with one (MarkedVerdict).   *)
(*                                                                         *)
(* The files of a lane are those run.json tells of (LaneTells).  Every     *)
(* step of the scripts either walks on from place to place and writes no   *)
(* file (Walks), works on a report (Working, Paired), or publishes one     *)
(* (Publishing).                                                           *)
(*                                                                         *)
(* What the campaign says of xpact (OwnInv) is read off the reports its    *)
(* lanes leave: what a row is good for (RowsTell), when the comparison is  *)
(* valid (CompareTells) and the W3C results are whole (ResultsTell), the   *)
(* status each lane ended with (LanesTell), and what the own summary,      *)
(* once it is written, says of all that (OwnTells).  Most steps decide     *)
(* nothing of it (Plain).                                                  *)
(*                                                                         *)
(* The types of the variables (ScriptsTyped) need the order of the places  *)
(* and of the comparison's phases: an edit takes an event, so what a build *)
(* names is bounded by the events (EventsBounded, RowsWithin), and nothing *)
(* is measured before the comparison begins (PhaseTyped).                  *)
(***************************************************************************)
EXTENDS EvidenceProofs, FiniteSetTheorems

-----------------------------------------------------------------------------
(* The conformance command.                                                *)
Size == Len(Cases)

Results ==
    [engine : {"xpact", "xpact-core", "harness"},
     id : {c.id : c \in Listed(Cases)} \cup {"suite-setup", "known-failures"},
     expected : {"ACCEPT", "REJECT", "ANY", "unspecified", "none"},
     actual : Verdicts \cup {"not-run"},
     status : {"passed", "failed", "error", "skipped"},
     known : BOOLEAN]

(* The k-th result is that of one engine for one case.                     *)
EngineAt(k) == IF k <= Size THEN "xpact" ELSE "xpact-core"
CaseAt(k) == Cases[IF k <= Size THEN k ELSE k - Size]

RowsFor(e, c) ==
    IF Runnable(c) THEN {run_case(e, c, actual) : actual \in Verdicts}
    ELSE {Skipped(e, c)}

InOrder(rs) ==
    /\ rs \in Seq(Results) /\ Len(rs) <= 2 * Size
    /\ \A k \in 1..Len(rs) : rs[k] \in RowsFor(EngineAt(k), CaseAt(k))

Whole(rs) == InOrder(rs) /\ Len(rs) = 2 * Size

(* What Judge makes of the results.                                        *)
Marked(rs) ==
    [k \in DOMAIN rs |->
        [rs[k] EXCEPT !.known = \E f \in known : Matches(f, rs[k])]]

StaleIn(rs) ==
    {e \in known : /\ \E k \in DOMAIN rs : rs[k].engine = e.engine
                   /\ ~\E k \in DOMAIN rs : Matches(e, rs[k])}

Missing(rs) == [k \in 1..Cardinality(StaleIn(rs)) |-> Harness("known-failures")]

BrokeOff(rs) == \E k \in DOMAIN rs : rs[k] = Harness("suite-setup")

JudgedFrom(rs, raw) ==
    /\ Whole(raw)
    /\ rs = IF known # {} THEN Marked(raw) \o Missing(raw) ELSE raw

IsJudged(rs) == BrokeOff(rs) \/ \E raw : JudgedFrom(rs, raw)

(* There is a case, and the engines are two.                               *)
LEMMA CatalogFacts ==
    /\ Size \in Nat \ {0} /\ DOMAIN Cases = 1..Size
    /\ \A k \in 1..(2 * Size) : CaseAt(k) \in Listed(Cases)
    /\ \A j, k \in 1..Size : Cases[j].id = Cases[k].id => j = k
<1>1. Cases \in Seq(TestElements) /\ DOMAIN Cases # {}
  BY CatalogAssumption DEF Loads
<1>2. Size \in Nat /\ DOMAIN Cases = 1..Size
  BY <1>1 DEF Size
<1>3. Size # 0
  BY <1>1, <1>2
<1>4. \A k \in 1..(2 * Size) : CaseAt(k) \in Listed(Cases)
  <2>. TAKE k \in 1..(2 * Size)
  <2>. DEFINE i == IF k <= Size THEN k ELSE k - Size
  <2>1. i \in DOMAIN Cases
    BY <1>2, <1>3
  <2>2. CaseAt(k) = Cases[i]
    BY DEF CaseAt
  <2>. QED BY <2>1, <2>2 DEF Listed
<1>5. \A j, k \in 1..Size : Cases[j].id = Cases[k].id => j = k
  BY <1>2, CatalogAssumption DEF Loads
<1>. QED BY <1>2, <1>3, <1>4, <1>5

(* The two engines, in the order in which they run.                        *)
LEMMA TwoEngines ==
    /\ Listed(Engines) = {"xpact", "xpact-core"} /\ Len(Engines) = 2
    /\ Engines[1] = "xpact" /\ Engines[2] = "xpact-core"
<1>1. DOMAIN Engines = 1..2 /\ Len(Engines) = 2
      /\ Engines[1] = "xpact" /\ Engines[2] = "xpact-core"
  BY DEF Engines
<1>2. Listed(Engines) = {Engines[k] : k \in 1..2}
  BY <1>1 DEF Listed
<1>. QED BY <1>1, <1>2

(* The place of the next result.                                           *)
LEMMA NextPlace ==
    ASSUME NEW n \in Nat, n < 2 * Size
    PROVE  /\ Engines[(n \div Size) + 1] = EngineAt(n + 1)
           /\ Cases[(n % Size) + 1] = CaseAt(n + 1)
<1>0. Size \in Nat \ {0}
  BY CatalogFacts
<1>1. CASE n < Size
  <2>1. n \div Size = 0 /\ n % Size = n
    BY <1>0, <1>1
  <2>. QED BY <1>0, <1>1, <2>1, TwoEngines DEF EngineAt, CaseAt
<1>2. CASE ~(n < Size)
  <2>1. n \div Size = 1 /\ n % Size = n - Size
    BY <1>0, <1>2
  <2>. QED BY <1>0, <1>2, <2>1, TwoEngines DEF EngineAt, CaseAt
<1>. QED BY <1>1, <1>2

(* What may be answered for a case.                                        *)
LEMMA AnswerFacts ==
    ASSUME NEW e \in {"xpact", "xpact-core"}, NEW c \in Listed(Cases),
           NEW r \in RowsFor(e, c)
    PROVE  /\ r \in Results /\ r.engine = e /\ r.id = c.id /\ r.known = FALSE
           /\ \/ r.status = "skipped" /\ Excluded(c) /\ ~allCases
              \/ r.status = "error" /\ r.actual = "none"
              \/ /\ r.status = "passed" /\ r.actual \in {"ACCEPT", "REJECT"}
                 /\ Asked(c) \in {r.actual, "ANY"}
              \/ /\ r.status = "failed" /\ r.actual \in {"ACCEPT", "REJECT"}
                 /\ Asked(c) \notin {r.actual, "ANY"}
<1>1. Asked(c) \in {"ACCEPT", "REJECT", "ANY", "unspecified"}
      /\ Expected(c) \in {"ACCEPT", "REJECT", "unspecified"}
  BY DEF Asked, LaneExpected, Expected, Required
<1>2. CASE Runnable(c)
  <2>1. PICK a \in Verdicts : r = run_case(e, c, a)
    BY <1>2 DEF RowsFor
  <2>2. r = [engine |-> e, id |-> c.id, expected |-> Asked(c), actual |-> a,
             status |-> IF a = "none" THEN "error"
                        ELSE IF Asked(c) \in {a, "ANY"} THEN "passed" ELSE "failed",
             known |-> FALSE]
    BY <2>1 DEF run_case, Result
  <2>. QED BY <1>1, <2>2 DEF Results, Verdicts
<1>3. CASE ~Runnable(c)
  <2>1. r = [engine |-> e, id |-> c.id, expected |-> Expected(c),
             actual |-> "not-run", status |-> "skipped", known |-> FALSE]
    BY <1>3 DEF RowsFor, Skipped, Result
  <2>. QED BY <1>1, <1>3, <2>1 DEF Results, Runnable
<1>. QED BY <1>2, <1>3

(* A result that passed satisfies the catalog, one that failed does not.   *)
Satisfies(r, c) ==
    \/ Excluded(c) /\ ~allCases /\ r.status = "skipped"
    \/ r.actual = Required(c) /\ ~Adjusted(c)
    \/ r.actual = "ACCEPT" /\ Adjusted(c)
    \/ /\ Excluded(c) /\ r.actual \in {"ACCEPT", "REJECT"}
       /\ LaterXml(c) \/ OtherVersion(c) \/ c.kind = "error"

LEMMA StatusTells ==
    ASSUME NEW e \in {"xpact", "xpact-core"}, NEW c \in Listed(Cases),
           NEW r \in RowsFor(e, c)
    PROVE  Satisfies(r, c) <=> r.status \notin {"failed", "error"}
<1>0. \/ r.status = "skipped" /\ Excluded(c) /\ ~allCases
      \/ r.status = "error" /\ r.actual = "none"
      \/ /\ r.status = "passed" /\ r.actual \in {"ACCEPT", "REJECT"}
         /\ Asked(c) \in {r.actual, "ANY"}
      \/ /\ r.status = "failed" /\ r.actual \in {"ACCEPT", "REJECT"}
         /\ Asked(c) \notin {r.actual, "ANY"}
  BY AnswerFacts
<1>1. Required(c) \in {"ACCEPT", "REJECT"}
  BY DEF Required
<1>2. CASE Excluded(c)
  <2>1. ~Adjusted(c) /\ Asked(c) = LaneExpected(c)
    BY <1>2 DEF Adjusted, Asked
  <2>2. Asked(c) = IF LaterXml(c) \/ OtherVersion(c) \/ c.kind = "error"
                   THEN "ANY" ELSE Required(c)
    BY <2>1 DEF LaneExpected, out_of_profile_lane
  <2>. QED BY <1>0, <1>1, <1>2, <2>1, <2>2 DEF Satisfies
<1>3. CASE ~Excluded(c)
  <2>1. Asked(c) = IF Adjusted(c) THEN "ACCEPT" ELSE Required(c)
    BY <1>3 DEF Asked, Expected, Excluded
  <2>. QED BY <1>0, <1>1, <1>3, <2>1 DEF Satisfies
<1>. QED BY <1>2, <1>3

-----------------------------------------------------------------------------
(* A whole run has one result for each engine and case.                    *)
Answered(raw, k) ==
    /\ EngineAt(k) \in {"xpact", "xpact-core"}
    /\ CaseAt(k) \in Listed(Cases)
    /\ raw[k] \in RowsFor(EngineAt(k), CaseAt(k))
    /\ raw[k] \in Results
    /\ raw[k].engine = EngineAt(k) /\ raw[k].id = CaseAt(k).id
    /\ raw[k].known = FALSE

LEMMA WholeFacts ==
    ASSUME NEW raw, Whole(raw)
    PROVE  /\ raw \in Seq(Results) /\ DOMAIN raw = 1..(2 * Size)
           /\ \A k \in 1..(2 * Size) : Answered(raw, k)
           /\ \A j, k \in 1..(2 * Size) :
                raw[j].engine = raw[k].engine /\ raw[j].id = raw[k].id => j = k
           /\ \A e \in Listed(Engines) : \A c \in Listed(Cases) :
                \E k \in 1..(2 * Size) : EngineAt(k) = e /\ CaseAt(k) = c
<1>1. raw \in Seq(Results) /\ DOMAIN raw = 1..(2 * Size)
  BY CatalogFacts DEF Whole, InOrder
<1>2. ASSUME NEW k \in 1..(2 * Size)
      PROVE  /\ EngineAt(k) \in {"xpact", "xpact-core"}
             /\ CaseAt(k) \in Listed(Cases)
             /\ raw[k] \in RowsFor(EngineAt(k), CaseAt(k))
  <2>1. EngineAt(k) \in {"xpact", "xpact-core"}
    BY DEF EngineAt
  <2>. QED BY <1>1, <2>1, CatalogFacts DEF Whole, InOrder
<1>3. ASSUME NEW k \in 1..(2 * Size)
      PROVE  Answered(raw, k)
  <2>. DEFINE e == EngineAt(k)
              c == CaseAt(k)
              r == raw[k]
  <2>1. e \in {"xpact", "xpact-core"} /\ c \in Listed(Cases) /\ r \in RowsFor(e, c)
    BY <1>2
  <2>. HIDE DEF e, c, r
  <2>2. r \in Results /\ r.engine = e /\ r.id = c.id /\ r.known = FALSE
    BY <2>1, AnswerFacts
  <2>. QED BY <2>1, <2>2 DEF e, c, r, Answered
<1>4. ASSUME NEW j \in 1..(2 * Size), NEW k \in 1..(2 * Size),
             raw[j].engine = raw[k].engine, raw[j].id = raw[k].id
      PROVE  j = k
  <2>1. EngineAt(j) = EngineAt(k) /\ CaseAt(j).id = CaseAt(k).id
    BY <1>3, <1>4 DEF Answered
  <2>2. j \in 1..(2 * Size) /\ k \in 1..(2 * Size) /\ Size \in Nat
    BY <1>1, CatalogFacts
  <2>3. j <= Size <=> k <= Size
    BY <2>1 DEF EngineAt
  <2>4. CASE j <= Size
    <3>1. j \in 1..Size /\ k \in 1..Size /\ Cases[j].id = Cases[k].id
      BY <2>1, <2>2, <2>3, <2>4 DEF CaseAt
    <3>. QED BY <3>1, CatalogFacts
  <2>5. CASE ~(j <= Size)
    <3>1. j - Size \in 1..Size /\ k - Size \in 1..Size
          /\ Cases[j - Size].id = Cases[k - Size].id
      BY <2>1, <2>2, <2>3, <2>5 DEF CaseAt
    <3>2. j - Size = k - Size
      BY <3>1, CatalogFacts
    <3>. QED BY <2>2, <3>2
  <2>. QED BY <2>4, <2>5
<1>5. ASSUME NEW e \in Listed(Engines), NEW c \in Listed(Cases)
      PROVE  \E k \in 1..(2 * Size) : EngineAt(k) = e /\ CaseAt(k) = c
  <2>1. Size \in Nat
    BY CatalogFacts
  <2>2. PICK i \in 1..Size : c = Cases[i]
    BY CatalogFacts DEF Listed
  <2>3. CASE e = "xpact"
    <3>1. i \in 1..(2 * Size) /\ i <= Size
      BY <2>1
    <3>2. EngineAt(i) = e /\ CaseAt(i) = c
      BY <2>2, <2>3, <3>1 DEF EngineAt, CaseAt
    <3>. QED BY <3>1, <3>2
  <2>4. CASE e = "xpact-core"
    <3>1. i + Size \in 1..(2 * Size) /\ ~(i + Size <= Size) /\ (i + Size) - Size = i
      BY <2>1
    <3>2. EngineAt(i + Size) = e /\ CaseAt(i + Size) = c
      BY <2>2, <2>4, <3>1 DEF EngineAt, CaseAt
    <3>. QED BY <3>1, <3>2
  <2>. QED BY <2>3, <2>4, TwoEngines
<1>. QED BY <1>1, <1>2, <1>3, <1>4, <1>5

(* A list of known failures is finite.                                     *)
ListHolds == known \in KnownLists \cup {{}}

LEMMA StaleIsFinite ==
    ASSUME ListHolds, NEW rs
    PROVE  /\ Cardinality(StaleIn(rs)) \in Nat
           /\ Cardinality(StaleIn(rs)) = 0 <=> StaleIn(rs) = {}
<1>1. IsFiniteSet(known)
  BY KnownAssumption, FS_EmptySet DEF ListHolds, LoadsKnown
<1>2. IsFiniteSet(StaleIn(rs))
  <2>1. StaleIn(rs) \subseteq known
    BY DEF StaleIn
  <2>. QED BY <1>1, <2>1, FS_Subset
<1>. QED BY <1>2, FS_CardinalityType, FS_EmptySet

(* Two sequences, one after the other.                                     *)
LEMMA JoinFacts ==
    ASSUME NEW S, NEW a \in Seq(S), NEW b \in Seq(S)
    PROVE  /\ a \o b \in Seq(S) /\ Len(a \o b) = Len(a) + Len(b)
           /\ DOMAIN (a \o b) = 1..(Len(a) + Len(b))
           /\ \A k \in 1..Len(a) : (a \o b)[k] = a[k]
           /\ \A k \in (Len(a) + 1)..(Len(a) + Len(b)) : (a \o b)[k] = b[k - Len(a)]
<1>1. a \o b \in Seq(S) /\ Len(a \o b) = Len(a) + Len(b)
  OBVIOUS
<1>2. DOMAIN (a \o b) = 1..(Len(a) + Len(b))
  BY <1>1
<1>3. \A k \in 1..Len(a) : (a \o b)[k] = a[k]
  OBVIOUS
<1>4. \A k \in (Len(a) + 1)..(Len(a) + Len(b)) : (a \o b)[k] = b[k - Len(a)]
  OBVIOUS
<1>. QED BY <1>1, <1>2, <1>3, <1>4

(* What is judged: the results, marked, and what is stale on the list.     *)
JudgedAs(raw, rs) ==
    LET n == Cardinality(StaleIn(raw)) IN
    /\ rs \in Seq(Results) /\ n \in Nat /\ Len(rs) = 2 * Size + n
    /\ DOMAIN rs = 1..(2 * Size + n)
    /\ \A k \in 1..(2 * Size) :
         rs[k] = [raw[k] EXCEPT !.known = \E f \in known : Matches(f, raw[k])]
    /\ \A k \in (2 * Size + 1)..(2 * Size + n) : rs[k] = Harness("known-failures")

LEMMA JudgedFacts ==
    ASSUME ListHolds, NEW raw, Whole(raw), NEW rs, rs = Marked(raw) \o Missing(raw)
    PROVE  JudgedAs(raw, rs)
<1>. DEFINE n == Cardinality(StaleIn(raw))
            h == Harness("known-failures")
            Mark(k) == [raw[k] EXCEPT !.known = \E f \in known : Matches(f, raw[k])]
<1>1. n \in Nat /\ Size \in Nat
  BY StaleIsFinite, CatalogFacts
<1>2. h \in Results
  BY DEF Harness, Result, Results
<1>3. Missing(raw) = [k \in 1..n |-> h]
  BY DEF Missing
<1>4. /\ raw \in Seq(Results) /\ DOMAIN raw = 1..(2 * Size)
      /\ \A k \in 1..(2 * Size) : raw[k] \in Results
  BY WholeFacts DEF Answered
<1>5. \A k \in 1..(2 * Size) : Mark(k) \in Results
  <2>. TAKE k \in 1..(2 * Size)
  <2>. DEFINE b == \E f \in known : Matches(f, raw[k])
              r == raw[k]
  <2>1. r \in Results /\ b \in BOOLEAN
    BY <1>4
  <2>. HIDE DEF b, r
  <2>2. [r EXCEPT !.known = b] \in Results
    BY <2>1 DEF Results
  <2>. QED BY <2>2 DEF b, r
<1>6. Marked(raw) = [k \in 1..(2 * Size) |-> Mark(k)]
  BY <1>4 DEF Marked
<1>. HIDE DEF n, h, Mark
<1>7. Marked(raw) \in Seq(Results) /\ Len(Marked(raw)) = 2 * Size
      /\ \A k \in 1..(2 * Size) : Marked(raw)[k] = Mark(k)
  BY <1>1, <1>5, <1>6
<1>8. Missing(raw) \in Seq(Results) /\ Len(Missing(raw)) = n
      /\ \A k \in 1..n : Missing(raw)[k] = h
  BY <1>1, <1>2, <1>3
<1>. HIDE DEF Results
<1>9. /\ rs \in Seq(Results) /\ Len(rs) = 2 * Size + n
      /\ DOMAIN rs = 1..(2 * Size + n)
      /\ \A k \in 1..(2 * Size) : rs[k] = Mark(k)
      /\ \A k \in (2 * Size + 1)..(2 * Size + n) : rs[k] = h
  <2>. DEFINE a == Marked(raw)
              b == Missing(raw)
  <2>1. a \in Seq(Results) /\ b \in Seq(Results) /\ rs = a \o b
        /\ Len(a) = 2 * Size /\ Len(b) = n
    BY <1>7, <1>8
  <2>. HIDE DEF a, b
  <2>2. /\ rs \in Seq(Results) /\ Len(rs) = 2 * Size + n
        /\ DOMAIN rs = 1..(2 * Size + n)
        /\ \A k \in 1..(2 * Size) : rs[k] = a[k]
        /\ \A k \in (2 * Size + 1)..(2 * Size + n) : rs[k] = b[k - 2 * Size]
    <3>. DEFINE T == Results
    <3>1. a \in Seq(T) /\ b \in Seq(T)
      BY <2>1
    <3>. HIDE DEF T
    <3>2. /\ a \o b \in Seq(T) /\ Len(a \o b) = Len(a) + Len(b)
          /\ DOMAIN (a \o b) = 1..(Len(a) + Len(b))
          /\ \A k \in 1..Len(a) : (a \o b)[k] = a[k]
          /\ \A k \in (Len(a) + 1)..(Len(a) + Len(b)) :
               (a \o b)[k] = b[k - Len(a)]
      BY <3>1, JoinFacts
    <3>. QED BY <2>1, <3>2 DEF T
  <2>3. \A k \in (2 * Size + 1)..(2 * Size + n) : k - 2 * Size \in 1..n
    BY <1>1
  <2>4. \A k \in 1..(2 * Size) : rs[k] = Mark(k)
    BY <1>7, <2>2 DEF a
  <2>5. \A k \in (2 * Size + 1)..(2 * Size + n) : rs[k] = h
    BY <1>8, <2>2, <2>3 DEF b
  <2>. QED BY <2>2, <2>4, <2>5
<1>. QED BY <1>1, <1>9 DEF n, h, Mark, JudgedAs

-----------------------------------------------------------------------------
(* The exit status says whether everything is accounted for.               *)
Unexpected == \E k \in DOMAIN results : unexpected(results[k])

(* Without a list: results are as they were answered.                      *)
LEMMA PlainVerdict ==
    ASSUME known = {}, Whole(results)
    PROVE  AllAccounted <=> ~Unexpected
<1>1. /\ DOMAIN results = 1..(2 * Size)
      /\ \A k \in 1..(2 * Size) : Answered(results, k)
      /\ \A j, k \in 1..(2 * Size) :
           results[j].engine = results[k].engine /\ results[j].id = results[k].id
             => j = k
      /\ \A e \in Listed(Engines) : \A c \in Listed(Cases) :
           \E k \in 1..(2 * Size) : EngineAt(k) = e /\ CaseAt(k) = c
  BY WholeFacts
<1>2. ASSUME NEW k \in 1..(2 * Size)
      PROVE  Satisfies(results[k], CaseAt(k)) <=> ~unexpected(results[k])
  <2>1. Answered(results, k)
    BY <1>1
  <2>. QED BY <2>1, StatusTells DEF Answered, unexpected
<1>3. ASSUME ~Unexpected PROVE AllAccounted
  <2>1. ASSUME NEW e \in Listed(Engines), NEW c \in Listed(Cases)
        PROVE  Accounted(e, c)
    <3>1. PICK k \in 1..(2 * Size) : EngineAt(k) = e /\ CaseAt(k) = c
      BY <1>1
    <3>2. Satisfies(results[k], c)
      BY <1>1, <1>2, <1>3, <3>1 DEF Unexpected
    <3>3. results[k].engine = e /\ results[k].id = c.id
      BY <1>1, <3>1 DEF Answered
    <3>. QED BY <1>1, <3>2, <3>3 DEF Accounted, Satisfies
  <2>. QED BY <2>1 DEF AllAccounted
<1>4. ASSUME AllAccounted, NEW k \in 1..(2 * Size) PROVE ~unexpected(results[k])
  <2>. DEFINE e == EngineAt(k)
              c == CaseAt(k)
  <2>1. /\ e \in Listed(Engines) /\ c \in Listed(Cases)
        /\ results[k].engine = e /\ results[k].id = c.id
    BY <1>1, TwoEngines DEF Answered
  <2>2. Accounted(e, c)
    BY <1>4, <2>1 DEF AllAccounted
  <2>3. PICK j \in DOMAIN results :
          /\ results[j].engine = e /\ results[j].id = c.id
          /\ Satisfies(results[j], c)
    BY <2>2 DEF Accounted, Satisfies
  <2>4. j = k
    BY <1>1, <2>1, <2>3
  <2>. QED BY <1>2, <2>3, <2>4
<1>. QED BY <1>1, <1>3, <1>4 DEF Unexpected

(* With a list: the results are marked, and what is stale is added.        *)
LEMMA MarkedVerdict ==
    ASSUME ListHolds, NEW raw, Whole(raw), results = Marked(raw) \o Missing(raw)
    PROVE  AllAccounted <=> ~Unexpected
<1>. DEFINE n == Cardinality(StaleIn(raw))
            seen(k) == \E f \in known : Matches(f, raw[k])
<1>1. /\ \A k \in 1..(2 * Size) : Answered(raw, k)
      /\ \A j, k \in 1..(2 * Size) :
           raw[j].engine = raw[k].engine /\ raw[j].id = raw[k].id => j = k
      /\ \A e \in Listed(Engines) : \A c \in Listed(Cases) :
           \E k \in 1..(2 * Size) : EngineAt(k) = e /\ CaseAt(k) = c
      /\ DOMAIN raw = 1..(2 * Size)
  BY WholeFacts
<1>2. /\ n \in Nat /\ (n = 0 <=> StaleIn(raw) = {})
      /\ Size \in Nat \ {0}
      /\ DOMAIN results = 1..(2 * Size + n)
      /\ \A k \in 1..(2 * Size) : results[k] = [raw[k] EXCEPT !.known = seen(k)]
      /\ \A k \in (2 * Size + 1)..(2 * Size + n) :
           results[k] = Harness("known-failures")
  <2>1. Size \in Nat \ {0}
    BY CatalogFacts
  <2>2. n \in Nat /\ (n = 0 <=> StaleIn(raw) = {})
    BY StaleIsFinite
  <2>3. JudgedAs(raw, results)
    BY JudgedFacts
  <2>. QED BY <2>1, <2>2, <2>3 DEF JudgedAs
<1>. HIDE DEF n
<1>3. ASSUME NEW k \in 1..(2 * Size)
      PROVE  /\ results[k].engine = raw[k].engine /\ results[k].id = raw[k].id
             /\ results[k].status = raw[k].status
             /\ results[k].actual = raw[k].actual
             /\ results[k].known <=> seen(k)
             /\ raw[k].engine \in {"xpact", "xpact-core"}
             /\ k \in DOMAIN results
             /\ Satisfies(results[k], CaseAt(k)) <=>
                  raw[k].status \notin {"failed", "error"}
  <2>1. Answered(raw, k) /\ results[k] = [raw[k] EXCEPT !.known = seen(k)]
    BY <1>1, <1>2
  <2>. DEFINE b == seen(k)
              r == raw[k]
              c == CaseAt(k)
  <2>2. b \in BOOLEAN /\ r \in Results /\ results[k] = [r EXCEPT !.known = b]
    BY <2>1 DEF Answered
  <2>3. r.engine \in {"xpact", "xpact-core"}
        /\ (Satisfies(r, c) <=> r.status \notin {"failed", "error"})
    BY <2>1, StatusTells DEF Answered
  <2>. HIDE DEF b, r, c
  <2>4. /\ results[k].engine = r.engine /\ results[k].id = r.id
        /\ results[k].status = r.status /\ results[k].actual = r.actual
        /\ results[k].known = b
    BY <2>2 DEF Results
  <2>5. Satisfies(results[k], c) <=> Satisfies(r, c)
    BY <2>4 DEF Satisfies
  <2>6. k \in DOMAIN results
    BY <1>2
  <2>. QED BY <2>3, <2>4, <2>5, <2>6 DEF b, r, c
<1>4. ASSUME NEW k \in (2 * Size + 1)..(2 * Size + n)
      PROVE  unexpected(results[k]) /\ results[k].engine = "harness"
  BY <1>2 DEF Harness, Result, unexpected
<1>5. \A k \in DOMAIN results :
        results[k].engine # "harness" => k \in 1..(2 * Size)
  <2>. TAKE k \in DOMAIN results
  <2>1. k \in 1..(2 * Size) \/ k \in (2 * Size + 1)..(2 * Size + n)
    BY <1>2
  <2>. QED BY <1>4, <2>1
<1>6. ASSUME ~Unexpected PROVE AllAccounted
  <2>1. n = 0
    <3>1. n # 0 => 2 * Size + 1 \in (2 * Size + 1)..(2 * Size + n)
                   /\ 2 * Size + 1 \in DOMAIN results
      BY <1>2
    <3>. QED BY <1>4, <1>6, <3>1 DEF Unexpected
  <2>2. ASSUME NEW e \in Listed(Engines), NEW c \in Listed(Cases)
        PROVE  Accounted(e, c)
    <3>1. PICK k \in 1..(2 * Size) : EngineAt(k) = e /\ CaseAt(k) = c
      BY <1>1
    <3>2. /\ results[k].engine = e /\ results[k].id = c.id /\ k \in DOMAIN results
          /\ Satisfies(results[k], c) \/ seen(k)
      <4>1. Answered(raw, k)
        BY <1>1
      <4>2. results[k].engine = e /\ results[k].id = c.id /\ k \in DOMAIN results
        BY <1>3, <3>1, <4>1 DEF Answered
      <4>3. ~unexpected(results[k])
        BY <1>6, <4>2 DEF Unexpected
      <4>. QED BY <1>3, <3>1, <4>2, <4>3 DEF unexpected
    <3>3. \A j \in DOMAIN results :
            results[j].engine = e /\ results[j].id = c.id => j = k
      <4>. SUFFICES ASSUME NEW j \in DOMAIN results, results[j].engine = e,
                           results[j].id = c.id
                    PROVE  j = k
        OBVIOUS
      <4>1. j \in 1..(2 * Size)
        BY <1>2, <2>1
      <4>. QED BY <1>1, <1>3, <3>2, <4>1
    <3>4. seen(k) => \E f \in known : /\ f.engine = e /\ f.id = c.id
                                      /\ f.status = results[k].status
      BY <1>3, <3>2 DEF Matches
    <3>. QED BY <3>2, <3>3, <3>4 DEF Accounted, Satisfies
  <2>3. ASSUME NEW f \in known PROVE UpToDate(f)
    <3>. SUFFICES ASSUME f.engine \in Listed(Engines)
                  PROVE  \E k \in DOMAIN results :
                           /\ results[k].engine = f.engine
                           /\ results[k].id = f.id
                           /\ results[k].status = f.status
      BY DEF UpToDate
    <3>1. \E c : c \in Listed(Cases)
      BY CatalogFacts
    <3>2. PICK i \in 1..(2 * Size) : raw[i].engine = f.engine
      BY <1>1, <3>1 DEF Answered
    <3>3. PICK k \in 1..(2 * Size) : Matches(f, raw[k])
      BY <1>1, <1>2, <2>1, <3>2 DEF StaleIn
    <3>. QED BY <1>3, <3>3 DEF Matches
  <2>. QED BY <2>2, <2>3 DEF AllAccounted
<1>7. ASSUME AllAccounted, NEW k \in 1..(2 * Size) PROVE ~unexpected(results[k])
  <2>. DEFINE e == EngineAt(k)
              c == CaseAt(k)
  <2>1. /\ e \in Listed(Engines) /\ c \in Listed(Cases)
        /\ raw[k].engine = e /\ raw[k].id = c.id
    BY <1>1, TwoEngines DEF Answered
  <2>2. Accounted(e, c)
    BY <1>7, <2>1 DEF AllAccounted
  <2>3. PICK j \in DOMAIN results :
          /\ results[j].engine = e /\ results[j].id = c.id
          /\ \/ Satisfies(results[j], c)
             \/ \E f \in known : /\ f.engine = e /\ f.id = c.id
                                 /\ f.status = results[j].status
    BY <2>2 DEF Accounted, Satisfies
  <2>4. j \in 1..(2 * Size)
    BY <1>5, <2>1, <2>3, TwoEngines
  <2>5. j = k
    BY <1>1, <1>3, <2>1, <2>3, <2>4
  <2>6. (\E f \in known : /\ f.engine = e /\ f.id = c.id
                          /\ f.status = results[j].status) => seen(k)
    BY <1>3, <2>1, <2>5 DEF Matches
  <2>. QED BY <1>3, <2>3, <2>5, <2>6 DEF unexpected
<1>8. ASSUME AllAccounted PROVE n = 0
  <2>. SUFFICES ASSUME NEW f \in StaleIn(raw) PROVE FALSE
    BY <1>2
  <2>1. /\ f \in known /\ \E i \in 1..(2 * Size) : raw[i].engine = f.engine
        /\ ~\E i \in 1..(2 * Size) : Matches(f, raw[i])
    BY <1>1 DEF StaleIn
  <2>2. f.engine \in Listed(Engines)
    BY <1>3, <2>1, TwoEngines
  <2>3. PICK j \in DOMAIN results :
          /\ results[j].engine = f.engine /\ results[j].id = f.id
          /\ results[j].status = f.status
    BY <1>8, <2>1, <2>2 DEF AllAccounted, UpToDate
  <2>4. j \in 1..(2 * Size)
    BY <1>5, <2>2, <2>3, TwoEngines
  <2>. QED BY <1>3, <2>1, <2>3, <2>4 DEF Matches
<1>9. ASSUME AllAccounted PROVE ~Unexpected
  <2>1. DOMAIN results = 1..(2 * Size)
    BY <1>2, <1>8, <1>9
  <2>. QED BY <1>7, <1>9, <2>1 DEF Unexpected
<1>. QED BY <1>6, <1>9

-----------------------------------------------------------------------------
(* What the conformance command knows at each of its places.               *)
ConformancePlaces ==
    {"start", "setup", "case", "judge", "reports", "reported", "abort", "ended"}

NothingNew == \A n \in Listed(ConformanceFiles) : files[n] # "new"

ConformanceKnows ==
    /\ lane = "none" /\ at \in ConformancePlaces /\ ListHolds
    /\ at # "ended" => code = "none"
    /\ at \notin {"reported", "abort", "ended"} => NothingNew
    /\ at = "reported" => Present(ConformanceFiles)
    /\ at = "abort" /\ error # "interrupt" => ~Present(ConformanceFiles)
    /\ at \in {"start", "setup"} => results = <<>>
    /\ at = "case" => InOrder(results)
    /\ at = "judge" => Whole(results) \/ BrokeOff(results)
    /\ at \in {"reports", "reported"} => IsJudged(results)
    /\ at = "ended" =>
        /\ code = "0" => IsJudged(results) /\ ~Unexpected /\ Present(ConformanceFiles)
        /\ code = "1" /\ Present(ConformanceFiles) =>
             IsJudged(results) /\ Unexpected

ConformanceInv == command = "conformance" => ConformanceKnows

(* The files are four.                                                     *)
LEMMA FourFiles ==
    /\ Listed(ConformanceFiles) =
         {"conformance/junit.xml", "conformance/results.tsv",
          "conformance/summary.json", "conformance/summary.md"}
    /\ Listed(ConformanceFiles) \subseteq Names
    /\ Listed(ConformanceFiles) \subseteq DirectFiles
    /\ Len(ConformanceFiles) = 4
    /\ \A i \in 1..4 : ConformanceFiles[i] \in Listed(ConformanceFiles)
<1>1. /\ DOMAIN ConformanceFiles = 1..4 /\ Len(ConformanceFiles) = 4
      /\ ConformanceFiles[1] = "conformance/junit.xml"
      /\ ConformanceFiles[2] = "conformance/results.tsv"
      /\ ConformanceFiles[3] = "conformance/summary.json"
      /\ ConformanceFiles[4] = "conformance/summary.md"
  BY DEF ConformanceFiles
<1>2. Listed(ConformanceFiles) = {ConformanceFiles[i] : i \in 1..4}
  BY <1>1 DEF Listed
<1>3. Listed(ConformanceFiles) \subseteq Listed(W3cFiles)
  <2>1. /\ DOMAIN W3cFiles = 1..8
        /\ \A i \in 1..4 : W3cFiles[i] = ConformanceFiles[i]
    BY DEF W3cFiles, ConformanceFiles
  <2>. QED BY <1>2, <2>1 DEF Listed
<1>4. Listed(W3cFiles) \subseteq Names
  BY DEF Names
<1>5. Listed(ConformanceFiles) \subseteq DirectFiles
  BY DEF DirectFiles
<1>. QED BY <1>1, <1>2, <1>3, <1>4, <1>5

(* What the results are does not depend on anything else.                  *)
LEMMA SameResults ==
    ASSUME UNCHANGED conformanceVars
    PROVE  /\ InOrder(results)' = InOrder(results)
           /\ Whole(results)' = Whole(results)
           /\ BrokeOff(results)' = BrokeOff(results)
           /\ IsJudged(results)' = IsJudged(results)
           /\ Unexpected' = Unexpected /\ ListHolds' = ListHolds
<1>0. results' = results /\ known' = known /\ allCases' = allCases
  BY DEF conformanceVars
<1>1. InOrder(results)' = InOrder(results) /\ Whole(results)' = Whole(results)
  BY <1>0 DEF InOrder, Whole, RowsFor, Runnable
<1>2. \A raw : Whole(raw)' = Whole(raw)
  BY <1>0 DEF InOrder, Whole, RowsFor, Runnable
<1>3. \A raw : Marked(raw)' = Marked(raw) /\ Missing(raw)' = Missing(raw)
  BY <1>0 DEF Marked, Missing, StaleIn
<1>4. BrokeOff(results)' = BrokeOff(results)
  BY <1>0 DEF BrokeOff
<1>5. IsJudged(results)' = IsJudged(results)
  BY <1>0, <1>2, <1>3, <1>4 DEF IsJudged, JudgedFrom
<1>6. Unexpected' = Unexpected /\ ListHolds' = ListHolds
  BY <1>0 DEF Unexpected, unexpected, ListHolds
<1>. QED BY <1>1, <1>4, <1>5, <1>6

(* A step that touches nothing of the command.                             *)
LEMMA ConformanceWaits ==
    ASSUME ConformanceKnows, UNCHANGED <<whereVars, files, conformanceVars>>
    PROVE  ConformanceKnows'
<1>1. UNCHANGED <<lane, at, error, code, files, results>>
  BY DEF whereVars, conformanceVars
<1>2. NothingNew' = NothingNew
      /\ Present(ConformanceFiles)' = Present(ConformanceFiles)
  BY <1>1 DEF NothingNew, Present
<1>. QED BY <1>1, <1>2, SameResults DEF ConformanceKnows

(* The command breaks off, or is over.                                     *)
LEMMA ConformanceLeaves ==
    ASSUME ConformanceKnows, UNCHANGED <<files, conformanceVars, command, lane>>,
           command = "conformance",
           at # "ended",
           \/ at # "start" /\ Raise("interrupt")
           \/ Killed
           \/ at = "abort" /\ Abort
    PROVE  ConformanceKnows'
<1>1. NothingNew' = NothingNew
      /\ Present(ConformanceFiles)' = Present(ConformanceFiles)
  BY DEF NothingNew, Present
<1>2. ListHolds'
  BY SameResults DEF ConformanceKnows
<1>3. CASE Killed
  BY <1>1, <1>2, <1>3 DEF Killed, Exit, ConformanceKnows, ConformancePlaces
<1>4. CASE at = "abort" /\ Abort
  BY <1>1, <1>2, <1>4 DEF Abort, Exit, ConformanceKnows, ConformancePlaces
<1>5. CASE at # "start" /\ Raise("interrupt")
  <2>1. lane = "none" /\ at \in ConformancePlaces
    BY DEF ConformanceKnows
  <2>2. ~InComparison /\ ~InLane
    BY <2>1 DEF InComparison, InLane, Lanes, ConformancePlaces
  <2>3. at' = "abort" /\ error' = "interrupt" /\ code' = code
    BY <1>5, <2>2 DEF Raise, Handler
  <2>. QED BY <1>1, <1>2, <2>1, <2>3 DEF ConformanceKnows, ConformancePlaces
<1>. QED BY <1>3, <1>4, <1>5

(* The steps of the command.                                               *)
LEMMA NothingNewIsNotPresent == NothingNew => ~Present(ConformanceFiles)
BY FourFiles DEF NothingNew, Present

(* main: the reports of an earlier run are removed first.                  *)
LEMMA StartConformanceKeeps ==
    ASSUME command = "conformance", ConformanceKnows, StartConformance
    PROVE  ConformanceKnows'
<1>1. /\ UNCHANGED <<lane, conformanceVars>> /\ results' = <<>> /\ ListHolds'
      /\ NothingNew
  BY SameResults DEF StartConformance, Goto, Exit, ConformanceKnows, conformanceVars
<1>2. NothingNew' /\ ~Present(ConformanceFiles)'
  <2>1. PICK k \in 0..4 : Removed(ConformanceFiles, k)
    BY DEF StartConformance
  <2>2. NothingNew'
    BY <1>1, <2>1, FourFiles DEF NothingNew, Removed, Wrote
  <2>. QED BY <2>2, FourFiles DEF NothingNew, Present
<1>. QED BY <1>1, <1>2 DEF StartConformance, Goto, Exit, ConformanceKnows,
                         ConformancePlaces

(* Nothing is answered before the suite is set up.                         *)
LEMMA SetupKeeps ==
    ASSUME command = "conformance", ConformanceKnows, Setup
    PROVE  ConformanceKnows'
<1>1. /\ UNCHANGED <<lane, code, files, conformanceVars>> /\ at' = "case"
      /\ results = <<>> /\ ListHolds' /\ NothingNew
  BY SameResults DEF Setup, Goto, ConformanceKnows, fileVars
<1>2. NothingNew'
  BY <1>1 DEF NothingNew
<1>3. InOrder(results)
  <2>1. <<>> \in Seq(Results) /\ Len(<<>>) = 0 /\ 1..Len(<<>>) = {}
    OBVIOUS
  <2>. QED BY <1>1, <2>1, CatalogFacts DEF InOrder
<1>. QED BY <1>1, <1>2, <1>3, SameResults DEF ConformanceKnows, ConformancePlaces,
                                           Setup

(* One more answer is the next in the order.                               *)
LEMMA NextAnswer ==
    ASSUME InOrder(results), ~AllRun, RunNow, UNCHANGED <<known, allCases>>
    PROVE  InOrder(results)'
<1>. DEFINE n == Len(results)
            e == EngineAt(n + 1)
            c == CaseAt(n + 1)
<1>1. n \in Nat /\ n < 2 * Size /\ Size \in Nat \ {0} /\ results \in Seq(Results)
      /\ \A k \in 1..n : results[k] \in RowsFor(EngineAt(k), CaseAt(k))
  BY CatalogFacts, TwoEngines DEF InOrder, AllRun, Size
<1>2. EngineNow = e /\ CaseNow = c
  BY <1>1, NextPlace DEF EngineNow, CaseNow, Size
<1>3. PICK r \in RowsFor(e, c) : results' = Append(results, r)
  BY <1>2 DEF RunNow, Record, RowsFor
<1>4. e \in {"xpact", "xpact-core"} /\ c \in Listed(Cases)
  BY <1>1, CatalogFacts DEF EngineAt
<1>. HIDE DEF e, c
<1>5. r \in Results
  BY <1>3, <1>4, AnswerFacts
<1>. HIDE DEF Results
<1>6. /\ results' \in Seq(Results) /\ Len(results') = n + 1
      /\ \A k \in 1..n : results'[k] = results[k]
      /\ results'[n + 1] = r
  BY <1>1, <1>3, <1>5
<1>7. ASSUME NEW k \in 1..(n + 1)
      PROVE  results'[k] \in RowsFor(EngineAt(k), CaseAt(k))
  <2>1. CASE k = n + 1
    BY <1>3, <1>6, <2>1 DEF e, c
  <2>2. CASE k # n + 1
    <3>1. k \in 1..n
      BY <1>1, <2>2
    <3>. QED BY <1>1, <1>6, <3>1
  <2>. QED BY <2>1, <2>2
<1>8. ASSUME NEW k \in 1..(n + 1)
      PROVE  RowsFor(EngineAt(k), CaseAt(k))' = RowsFor(EngineAt(k), CaseAt(k))
  BY DEF RowsFor, Runnable
<1>. QED BY <1>1, <1>6, <1>7, <1>8 DEF InOrder

(* run_case: an answer more, or every case is answered.                    *)
LEMMA RunCaseKeeps ==
    ASSUME command = "conformance", ConformanceKnows, RunConformanceCase
    PROVE  ConformanceKnows'
<1>1. /\ UNCHANGED <<lane, code, files, known, allCases>>
      /\ at = "case" /\ NothingNew /\ InOrder(results)
  BY DEF RunConformanceCase, Goto, ConformanceKnows, fileVars, whereVars
<1>2. NothingNew' /\ ListHolds'
  BY <1>1 DEF NothingNew, ListHolds, ConformanceKnows
<1>3. CASE ~AllRun /\ RunNow /\ UNCHANGED whereVars
  BY <1>1, <1>2, <1>3, NextAnswer DEF ConformanceKnows, whereVars
<1>4. CASE AllRun /\ Goto("judge") /\ UNCHANGED results
  <2>1. Whole(results) /\ UNCHANGED conformanceVars
    BY <1>1, <1>4, TwoEngines DEF Whole, AllRun, Size, conformanceVars
  <2>. QED BY <1>1, <1>2, <1>4, <2>1, SameResults
           DEF ConformanceKnows, ConformancePlaces, Goto
<1>. QED BY <1>3, <1>4 DEF RunConformanceCase

(* An error of the suite is a result of the harness.                       *)
LEMMA SetupErrorKeeps ==
    ASSUME command = "conformance", ConformanceKnows, SetupError
    PROVE  ConformanceKnows'
<1>1. /\ UNCHANGED <<lane, code, files, known, allCases>> /\ at' = "judge"
      /\ at \in {"setup", "case"} /\ NothingNew
      /\ results' = Append(results, Harness("suite-setup"))
  BY DEF SetupError, Goto, Record, ConformanceKnows, fileVars
<1>2. NothingNew' /\ ListHolds'
  BY <1>1 DEF NothingNew, ListHolds, ConformanceKnows
<1>3. results \in Seq(Results)
  <2>1. CASE at = "setup"
    <3>1. <<>> \in Seq(Results)
      OBVIOUS
    <3>. QED BY <2>1, <3>1 DEF ConformanceKnows
  <2>2. CASE at = "case"
    <3>1. InOrder(results)
      BY <2>2 DEF ConformanceKnows
    <3>. QED BY <3>1 DEF InOrder
  <2>. QED BY <1>1, <2>1, <2>2
<1>4. BrokeOff(results)'
  <2>. DEFINE n == Len(results)
              h == Harness("suite-setup")
  <2>1. h \in Results
    BY DEF Harness, Result, Results
  <2>. HIDE DEF h, Results
  <2>2. n \in Nat /\ n + 1 \in DOMAIN results' /\ results'[n + 1] = h
    BY <1>1, <1>3, <2>1 DEF h
  <2>. QED BY <2>2 DEF h, BrokeOff
<1>. QED BY <1>1, <1>2, <1>4 DEF ConformanceKnows, ConformancePlaces

(* apply_known_failures marks a whole run, and adds what is stale.         *)
LEMMA JudgeKeeps ==
    ASSUME command = "conformance", ConformanceKnows, Judge
    PROVE  ConformanceKnows'
<1>1. /\ UNCHANGED <<lane, code, files, known, allCases>> /\ at' = "reports"
      /\ NothingNew /\ ListHolds
      /\ Whole(results) \/ BrokeOff(results)
      /\ results' = IF known # {} /\ ~HasHarness THEN apply_known_failures
                    ELSE results
  BY DEF Judge, Goto, ConformanceKnows, fileVars
<1>2. NothingNew' /\ ListHolds'
  BY <1>1 DEF NothingNew, ListHolds
<1>3. \A raw : /\ Whole(raw)' = Whole(raw) /\ Marked(raw)' = Marked(raw)
               /\ Missing(raw)' = Missing(raw)
  BY <1>1 DEF Whole, InOrder, RowsFor, Runnable, Marked, Missing, StaleIn
<1>4. ASSUME BrokeOff(results) PROVE IsJudged(results)'
  <2>1. HasHarness
    BY <1>4 DEF BrokeOff, HasHarness, Harness, Result
  <2>2. BrokeOff(results)'
    BY <1>1, <1>4, <2>1 DEF BrokeOff
  <2>. QED BY <2>2 DEF IsJudged
<1>5. ASSUME Whole(results) PROVE IsJudged(results)'
  <2>1. ~HasHarness
    <3>1. \A k \in DOMAIN results : results[k].engine \in {"xpact", "xpact-core"}
      <4>1. \A k \in DOMAIN results : Answered(results, k)
        BY <1>5, WholeFacts
      <4>. QED BY <4>1 DEF Answered
    <3>. QED BY <3>1 DEF HasHarness
  <2>2. apply_known_failures = Marked(results) \o Missing(results)
    BY DEF apply_known_failures, Marked, Missing, Stale, StaleIn
  <2>3. results' = IF known # {} THEN Marked(results) \o Missing(results) ELSE results
    BY <1>1, <2>1, <2>2
  <2>4. PICK raw : /\ Whole(raw)
                   /\ results' = IF known # {} THEN Marked(raw) \o Missing(raw)
                                ELSE raw
    BY <1>5, <2>3
  <2>5. Whole(raw)' = Whole(raw) /\ Marked(raw)' = Marked(raw)
        /\ Missing(raw)' = Missing(raw) /\ known' = known
    BY <1>1, <1>3
  <2>6. JudgedFrom(results, raw)'
    BY <2>4, <2>5 DEF JudgedFrom
  <2>. QED BY <2>6, Zenon DEF IsJudged
<1>6. IsJudged(results)'
  BY <1>1, <1>4, <1>5
<1>7. lane' = "none" /\ code' = "none"
  BY <1>1 DEF Judge, ConformanceKnows
<1>. QED BY <1>1, <1>2, <1>6, <1>7 DEF ConformanceKnows, ConformancePlaces

(* The reports are written one after the other, or cut short.              *)
LEMMA WriteReportsKeeps ==
    ASSUME command = "conformance", ConformanceKnows, WriteReports
    PROVE  ConformanceKnows'
<1>1. /\ UNCHANGED <<lane, conformanceVars>> /\ at = "reports" /\ code = "none"
      /\ NothingNew /\ IsJudged(results)' /\ ListHolds' /\ lane = "none"
      /\ Unexpected' = Unexpected
  BY SameResults DEF WriteReports, PublishAll, PublishCut, Goto, Raise, Killed, Exit,
                     ConformanceKnows
<1>2. CASE PublishAll(ConformanceFiles, "reported")
  <2>1. Present(ConformanceFiles)'
    <3>1. \A n \in Listed(ConformanceFiles) : \E i \in 1..4 : ConformanceFiles[i] = n
      BY DEF Listed, ConformanceFiles
    <3>. QED BY <1>2, <3>1, FourFiles DEF PublishAll, Wrote, Present
  <2>. QED BY <1>1, <1>2, <2>1 DEF PublishAll, Goto, ConformanceKnows,
                                   ConformancePlaces
<1>3. CASE PublishCut(ConformanceFiles)
  <2>1. ~Present(ConformanceFiles)'
    <3>1. PICK k \in 0..3 :
            files' = [Wrote(ConformanceFiles, k, "new") EXCEPT
                        ![ConformanceFiles[k + 1]] =
                          IF ConformanceFiles[k + 1] \in DirectFiles
                          THEN "partial" ELSE @]
      BY <1>3, FourFiles DEF PublishCut
    <3>. DEFINE n == ConformanceFiles[k + 1]
    <3>2. n \in Listed(ConformanceFiles) /\ n \in Names /\ n \in DirectFiles
      BY FourFiles
    <3>. HIDE DEF n
    <3>3. files'[n] = "partial"
      BY <3>1, <3>2 DEF Wrote, n
    <3>. QED BY <3>2, <3>3 DEF Present
  <2>2. ~InComparison /\ ~InLane
    BY <1>1 DEF InComparison, InLane, Lanes
  <2>3. /\ at' \in {"abort", "ended"}
        /\ at' = "abort" => code' = "none"
        /\ at' = "ended" => code' = "killed"
    BY <1>1, <1>3, <2>2 DEF PublishCut, Raise, Handler, Killed, Exit
  <2>. QED BY <1>1, <2>1, <2>3 DEF ConformanceKnows, ConformancePlaces
<1>. QED BY <1>2, <1>3 DEF WriteReports

(* The exit status is that of the results.                                 *)
LEMMA EndConformanceKeeps ==
    ASSUME command = "conformance", ConformanceKnows, EndConformance
    PROVE  ConformanceKnows'
<1>1. /\ UNCHANGED <<lane, files, conformanceVars>> /\ at' = "ended"
      /\ code' = (IF Unexpected THEN "1" ELSE "0") /\ at = "reported"
      /\ Present(ConformanceFiles) /\ IsJudged(results)' /\ ListHolds'
      /\ Unexpected' = Unexpected
  BY SameResults DEF EndConformance, Exit, Unexpected, ConformanceKnows, fileVars
<1>2. Present(ConformanceFiles)'
  BY <1>1 DEF Present
<1>. QED BY <1>1, <1>2 DEF ConformanceKnows, ConformancePlaces

-----------------------------------------------------------------------------
(* The command is given once.                                              *)
LEMMA CommandStays == [Next]_vars => command' = command
<1>. SUFFICES ASSUME [Next]_vars PROVE command' = command
  OBVIOUS
<1>. USE DEF Goto, Exit, Raise, Killed, PublishAll, PublishCut, whereVars
<1>1. CASE Build \/ Tools \/ Builds
  BY <1>1 DEF Build, BuildStep, BeginBuild, CallPrepare, TakePrepared, Compile,
         CheckInputs, WriteManifest, BuildFails, Tools, Toolchain, Builds,
         StartBuilds, RecordBuild, EndBuilds, EndBuildsBadly
<1>2. CASE Compare
  BY <1>2 DEF Compare, BenchStep, StartComparison, RefuseComparison, Identify,
         SampleFirst, Calibrate, Double, Warmup, MeasurePair, PublishComparison,
         PublishComparisonCut, EndComparison, Discard, AfterDiscard
<1>3. CASE CatalogOrLane
  BY <1>3 DEF CatalogOrLane, CatalogStep, BeginLane, ValidateBuild, RunControls,
         RecordQualified, RecordFailed, CatalogGate, Measure,
         ValidateComparison, ValidateSources, PublishCatalog, CompleteCatalog,
         Undo, UndoCut, AfterUndo, StartLane, EndLane
<1>4. CASE Conformance
  BY <1>4 DEF Conformance, ConformanceStep, StartConformance, Setup,
         RunConformanceCase, SetupError, Judge, WriteReports, EndConformance
<1>5. CASE W3c
  BY <1>5 DEF W3c, W3cStep, PrepareSuite, RecordExecuted, W3cGate, BeginEngine,
         CheckInput, RunW3cCase, RecheckInput, CheckMatrix, CheckW3cSources,
         CheckW3cArtifacts, PublishW3c, CompleteW3c
<1>6. CASE Regression
  BY <1>6 DEF Regression, RegressionStep, StartRegression, SkipFailed, TraceCases,
         RunLifecycle, EndTraces, PublishRegression, EndRegression,
         AbortRegression
<1>7. CASE Campaign
  BY <1>7 DEF Campaign, CampaignStep, StartCampaign, NextLane, LaneReturns, LaneFails,
         LaneEnds, PublishSummary, PublishPlots, Finish, Withdraw, WithdrawLocked,
         WithdrawBroken
<1>8. CASE StepFails \/ Interrupt \/ KillCommand \/ Abort
  BY <1>8 DEF StepFails, Interrupt, KillCommand, Abort
<1>9. CASE Prepare \/ Edits \/ EditsSuite \/ PrepareFails \/ OtherBegins
           \/ OtherGoesOn \/ OtherFails \/ Ended \/ UNCHANGED vars
  BY <1>9 DEF Prepare, Edits, EditsSuite, PrepareFails, OtherBegins, OtherGoesOn,
     OtherFails, Ended, vars, exceptCache
<1>. QED
  BY <1>1, <1>2, <1>3, <1>4, <1>5, <1>6, <1>7, <1>8, <1>9 DEF Next, Progress

(* Nobody else moves this command.                                         *)
LEMMA ConformanceAlone ==
    ASSUME command = "conformance", lane = "none", at \in ConformancePlaces,
           [Next]_vars
    PROVE  \/ Conformance
           \/ /\ UNCHANGED <<files, conformanceVars, command, lane>>
              /\ at # "ended"
              /\ \/ at # "start" /\ Raise("interrupt")
                 \/ Killed
                 \/ at = "abort" /\ Abort
           \/ UNCHANGED <<whereVars, files, conformanceVars>>
<1>. USE DEF ConformancePlaces
<1>1. ~Build
  BY DEF Build, BuildStep, BeginBuild, CallPrepare, TakePrepared, Compile,
         CheckInputs, WriteManifest, BuildFails, BuildSteps
<1>2. ~Tools /\ ~Builds
  BY DEF Tools, Toolchain, Builds, StartBuilds, RecordBuild, EndBuilds,
         EndBuildsBadly
<1>3. ~Compare
  BY DEF Compare, BenchStep, StartComparison, RefuseComparison, Identify,
         SampleFirst, Calibrate, Warmup, MeasurePair, PublishComparison,
         PublishComparisonCut, EndComparison, Discard
<1>4. ~CatalogOrLane
  BY DEF CatalogOrLane, CatalogStep, BeginLane, ValidateBuild, RunControls,
         RecordQualified, RecordFailed, CatalogGate, Measure,
         ValidateComparison, ValidateSources, PublishCatalog, CompleteCatalog,
         Undo, UndoCut, StartLane, EndLane, Lanes
<1>5. ~W3c
  BY DEF W3c, W3cStep, PrepareSuite, RecordExecuted, W3cGate, BeginEngine,
         CheckInput, RunW3cCase, RecheckInput, CheckMatrix, CheckW3cSources,
         CheckW3cArtifacts, PublishW3c, CompleteW3c
<1>6. ~Regression
  BY DEF Regression, RegressionStep, StartRegression, SkipFailed, TraceCases,
         RunLifecycle, EndTraces, PublishRegression, EndRegression,
         AbortRegression
<1>7. ~Campaign
  BY DEF Campaign, CampaignStep, StartCampaign, NextLane, LaneReturns, LaneFails,
         PublishSummary, PublishPlots, Finish, Withdraw, WithdrawLocked,
         WithdrawBroken
<1>8. ~StepFails
  BY DEF StepFails
<1>9. CASE Interrupt
  BY <1>9 DEF Interrupt, Uninterruptible, Raise, fileVars, afterBench
<1>10. CASE KillCommand
  BY <1>10 DEF KillCommand, Killed, Exit, fileVars, afterBench
<1>12. CASE Abort
  <2>1. /\ UNCHANGED <<files, conformanceVars, command, lane>> /\ at = "abort"
    BY <1>12 DEF Abort, Exit, fileVars, afterBench
  <2>. QED BY <1>12, <2>1
<1>11. CASE Prepare \/ Edits \/ EditsSuite \/ PrepareFails \/ OtherBegins
            \/ OtherGoesOn \/ OtherFails \/ Ended \/ UNCHANGED vars
  BY <1>11 DEF Prepare, Edits, EditsSuite, PrepareFails, OtherBegins, OtherGoesOn,
     OtherFails, Ended, vars, exceptCache, afterBench, fileVars
<1>. QED
  BY <1>1, <1>2, <1>3, <1>4, <1>5, <1>6, <1>7, <1>8, <1>9, <1>10, <1>11,
     <1>12 DEF Next, Progress

(* Together.                                                               *)
LEMMA ConformanceStepKeeps == ConformanceInv /\ [Next]_vars => ConformanceInv'
<1>. SUFFICES ASSUME ConformanceInv, [Next]_vars, command' = "conformance"
              PROVE  ConformanceKnows'
  BY DEF ConformanceInv
<1>1. command = "conformance"
  BY CommandStays
<1>2. ConformanceKnows /\ lane = "none" /\ at \in ConformancePlaces
  BY <1>1 DEF ConformanceInv, ConformanceKnows
<1>3. CASE Conformance
  BY <1>1, <1>2, <1>3, StartConformanceKeeps, SetupKeeps, RunCaseKeeps,
     SetupErrorKeeps, JudgeKeeps, WriteReportsKeeps, EndConformanceKeeps
     DEF Conformance, ConformanceStep
<1>. QED BY <1>1, <1>2, <1>3, ConformanceAlone, ConformanceWaits, ConformanceLeaves

(* At first nothing is written.                                            *)
LEMMA ConformanceStarts == Init => ConformanceInv
<1>. SUFFICES ASSUME Init, command = "conformance" PROVE ConformanceKnows
  BY DEF ConformanceInv
<1>1. lane = "none" /\ at = "start" /\ code = "none" /\ results = <<>> /\ ListHolds
  BY DEF Init, RunInit, ConformanceInit, ListHolds
<1>2. NothingNew
  BY FourFiles DEF Init, NothingNew
<1>. QED BY <1>1, <1>2 DEF ConformanceKnows, ConformancePlaces

(* ConformanceExit: at status 0 every case of each engine is accounted for *)
(* and no entry of the list is out of date; at 1, with the reports there,  *)
(* something is not, or the run broke off (run_w3c_conformance.py, main).  *)
THEOREM ConformanceStatus == Spec => []ConformanceExit
<1>1. ConformanceInv => ConformanceExit
  <2>. SUFFICES ASSUME ConformanceKnows, command = "conformance",
                       code = "0" \/ (code = "1" /\ Present(ConformanceFiles))
                PROVE  /\ code = "0" => AllAccounted /\ Present(ConformanceFiles)
                       /\ code = "1" =>
                            \/ ~AllAccounted
                            \/ \E k \in DOMAIN results :
                                 results[k].id = "suite-setup"
    BY DEF ConformanceInv, ConformanceExit
  <2>1. at = "ended" /\ ListHolds /\ IsJudged(results)
        /\ (code = "0" => ~Unexpected /\ Present(ConformanceFiles))
        /\ (code = "1" => Unexpected)
    BY DEF ConformanceKnows
  <2>2. CASE BrokeOff(results)
    <3>1. PICK k \in DOMAIN results : results[k] = Harness("suite-setup")
      BY <2>2 DEF BrokeOff
    <3>2. results[k].id = "suite-setup" /\ unexpected(results[k])
      BY <3>1 DEF Harness, Result, unexpected
    <3>. QED BY <2>1, <3>2 DEF Unexpected
  <2>3. CASE ~BrokeOff(results)
    <3>1. AllAccounted <=> ~Unexpected
      BY <2>1, <2>3, PlainVerdict, MarkedVerdict DEF IsJudged, JudgedFrom
    <3>. QED BY <2>1, <3>1
  <2>. QED BY <2>2, <2>3
<1>. QED BY <1>1, ConformanceStarts, ConformanceStepKeeps, PTL DEF Spec

-----------------------------------------------------------------------------
(* The regression command.                                                 *)
Outcomes ==
    {"PASS", "WRONG-VERDICT", "WRONG-EVENTS", "CRASH", "TIMEOUT", "MISSING"}

Judgements ==
    [implementation : Implementations, assertions : BOOLEAN, part : Parts,
     outcomes : SUBSET Outcomes]

OfBuild(r, i, a) == r.implementation = i /\ r.assertions = a

(* A build that was made, and its row; a part of its results.              *)
Ran(i, a) ==
    \E k \in DOMAIN rows["regression"] :
        /\ OfBuild(rows["regression"][k], i, a)
        /\ rows["regression"][k].status # "failed"

IsJudgedPart(i, a, p) ==
    \E k \in DOMAIN judged : OfBuild(judged[k], i, a) /\ judged[k].part = p

(* A build whose documents were run, and whose life cycle was not.         *)
Between(i, a) == at = "lifecycle" /\ OfBuild(build, i, a)

(* Results are there for exactly the builds that were made, once.          *)
JudgedAreRan ==
    \A i \in Implementations, a \in BOOLEAN :
        /\ IsJudgedPart(i, a, "lifecycle") <=> Ran(i, a)
        /\ IsJudgedPart(i, a, "trace") <=> Ran(i, a) \/ Between(i, a)

JudgedOnce ==
    \A j, k \in DOMAIN judged :
        /\ judged[j].implementation = judged[k].implementation
        /\ judged[j].assertions = judged[k].assertions
        /\ judged[j].part = judged[k].part
        => j = k

Finished == {"complete", "complete_with_failures", "incomplete"}

StatusCode(s) ==
    CASE s = "complete" -> "0" [] s = "complete_with_failures" -> "1"
      [] s = "incomplete" -> "2"

RegressionPlaces ==
    BuildPlaces \cup {"start", "tools", "build", "built", "trace", "lifecycle",
                      "reports", "reported", "abort", "ended"}

RegressionIsOver == at \in {"abort", "ended"} /\ runjson["regression"] \notin Finished

RegressionKnows ==
    /\ at \in RegressionPlaces
    /\ lane = IF at = "start" THEN "none" ELSE "regression"
    /\ at # "ended" => code = "none" /\ runjson["regression"] \notin Finished
    /\ judged \in Seq(Judgements)
    /\ RegressionIsOver \/ (JudgedAreRan /\ JudgedOnce)
    /\ at \in {"trace", "lifecycle"} => build.status = "verified"
    /\ at \in {"reports", "reported"} => Len(rows["regression"]) >= 4
    /\ at = "reported" => Present(RegressionFiles)
    /\ runjson["regression"] \in Finished =>
        /\ Len(rows["regression"]) >= 4 /\ Present(RegressionFiles)
        /\ runjson["regression"] = RegressionStatus
        /\ code = StatusCode(RegressionStatus)
    /\ code = "0" => runjson["regression"] \in Finished

RegressionInv == command = "regression" => RegressionKnows

(* The four builds of the lane, in order.                                  *)
LEMMA FourBuilds ==
    LET order == Order("regression") IN
    /\ DOMAIN order = 1..4 /\ Len(order) = 4
    /\ order[1][1] = "xpact" /\ order[1][2] = TRUE
    /\ order[2][1] = "xpact-core" /\ order[2][2] = TRUE
    /\ order[3][1] = "xpact" /\ order[3][2] = FALSE
    /\ order[4][1] = "xpact-core" /\ order[4][2] = FALSE
<1>. DEFINE p == <<"xpact", TRUE>>
            q == <<"xpact-core", TRUE>>
            r == <<"xpact", FALSE>>
            t == <<"xpact-core", FALSE>>
<1>1. Order("regression") = <<p, q, r, t>>
  BY DEF Order
<1>2. /\ p[1] = "xpact" /\ q[1] = "xpact-core" /\ r[1] = "xpact" /\ t[1] = "xpact-core"
      /\ p[2] = TRUE /\ q[2] = TRUE /\ r[2] = FALSE /\ t[2] = FALSE
  BY TwoItems, Zenon
<1>. HIDE DEF p, q, r, t
<1>3. /\ DOMAIN Order("regression") = 1..4 /\ Len(Order("regression")) = 4
      /\ Order("regression")[1] = p /\ Order("regression")[2] = q
      /\ Order("regression")[3] = r /\ Order("regression")[4] = t
  BY <1>1, FourItems
<1>. QED BY <1>2, <1>3

(* Each build has its own place in that order.                             *)
LEMMA RowsOfRegression ==
    ASSUME BuildInv, SnapInv
    PROVE  /\ rows["regression"] \in Seq(GoodRows) /\ Len(rows["regression"]) \in 0..4
           /\ DOMAIN rows["regression"] = 1..Len(rows["regression"])
           /\ \A k \in DOMAIN rows["regression"] :
                /\ k \in 1..4
                /\ rows["regression"][k].implementation = Order("regression")[k][1]
                /\ rows["regression"][k].assertions = Order("regression")[k][2]
<1>1. "regression" \in Profiles
  BY DEF Profiles
<1>2. rows["regression"] \in Seq(GoodRows)
  BY <1>1 DEF BuildInv, RowsAreGood
<1>3. \A k \in DOMAIN rows["regression"] :
        /\ k \in 1..4
        /\ rows["regression"][k].implementation = Order("regression")[k][1]
        /\ rows["regression"][k].assertions = Order("regression")[k][2]
  BY <1>1, FourBuilds DEF SnapInv, RowsInOrder
<1>4. Len(rows["regression"]) <= 4
  <2>1. CASE Len(rows["regression"]) = 0
    BY <2>1
  <2>2. CASE Len(rows["regression"]) # 0
    <3>1. Len(rows["regression"]) \in DOMAIN rows["regression"]
      BY <1>2, <2>2
    <3>. QED BY <1>3, <3>1
  <2>. QED BY <2>1, <2>2
<1>5. Len(rows["regression"]) \in 0..4 /\ DOMAIN rows["regression"] = 1..Len(rows["regression"])
  <2>. DEFINE R == rows["regression"]
  <2>1. R \in Seq(GoodRows) /\ Len(R) <= 4
    BY <1>2, <1>4
  <2>. HIDE DEF R
  <2>2. Len(R) \in Nat /\ DOMAIN R = 1..Len(R)
    BY <2>1
  <2>3. Len(R) \in 0..4
    BY <2>1, <2>2
  <2>. QED BY <2>2, <2>3 DEF R
<1>. QED BY <1>2, <1>3, <1>5

(* The build that is handled has not been there before.                    *)
LEMMA BuildIsNext ==
    ASSUME BuildInv, SnapInv, lane = "regression", at \in HandledPlaces
    PROVE  /\ build.implementation \in Implementations /\ build.assertions \in BOOLEAN
           /\ ~Ran(build.implementation, build.assertions)
<1>. DEFINE n == Len(rows["regression"]) + 1
            order == Order("regression")
<1>1. n \in 1..4 /\ NextBuild = order[n]
      /\ build.implementation = NextBuild[1] /\ build.assertions = NextBuild[2]
  BY RowsOfRegression, FourBuilds DEF SnapInv, RowsInOrder, AllBuilt, NextBuild
<1>2. \A j, k \in 1..4 :
        order[j][1] = order[k][1] /\ order[j][2] = order[k][2] => j = k
  <2>1. /\ order[1][1] = "xpact" /\ order[1][2] = TRUE
        /\ order[2][1] = "xpact-core" /\ order[2][2] = TRUE
        /\ order[3][1] = "xpact" /\ order[3][2] = FALSE
        /\ order[4][1] = "xpact-core" /\ order[4][2] = FALSE
    BY FourBuilds
  <2>. HIDE DEF order
  <2>. SUFFICES ASSUME NEW j \in 1..4, NEW k \in 1..4,
                       order[j][1] = order[k][1], order[j][2] = order[k][2]
                PROVE  j = k
    OBVIOUS
  <2>2. (j \in {1, 3} <=> k \in {1, 3}) /\ (j \in {1, 2} <=> k \in {1, 2})
    <3>1. /\ \A i \in {1, 3} : order[i][1] = "xpact"
          /\ \A i \in {2, 4} : order[i][1] = "xpact-core"
          /\ \A i \in {1, 2} : order[i][2] = TRUE
          /\ \A i \in {3, 4} : order[i][2] = FALSE
      BY <2>1
    <3>2. \A i \in 1..4 : (i \notin {1, 3} => i \in {2, 4})
                         /\ (i \notin {1, 2} => i \in {3, 4})
      OBVIOUS
    <3>3. "xpact" # "xpact-core"
      OBVIOUS
    <3>. QED BY <3>1, <3>2, <3>3, Zenon
  <2>. QED BY <2>2
<1>3. \A k \in 1..4 : order[k][1] \in Implementations /\ order[k][2] \in BOOLEAN
  <2>1. /\ order[1][1] \in Implementations /\ order[1][2] \in BOOLEAN
        /\ order[2][1] \in Implementations /\ order[2][2] \in BOOLEAN
        /\ order[3][1] \in Implementations /\ order[3][2] \in BOOLEAN
        /\ order[4][1] \in Implementations /\ order[4][2] \in BOOLEAN
    BY FourBuilds DEF Implementations
  <2>. HIDE DEF order, Implementations
  <2>. QED BY <2>1
<1>. HIDE DEF order
<1>4. ~Ran(build.implementation, build.assertions)
  <2>. SUFFICES ASSUME NEW k \in DOMAIN rows["regression"],
                       OfBuild(rows["regression"][k], build.implementation,
                               build.assertions)
                PROVE  FALSE
    BY DEF Ran
  <2>1. k \in 1..4 /\ k # n
        /\ rows["regression"][k].implementation = order[k][1]
        /\ rows["regression"][k].assertions = order[k][2]
    BY RowsOfRegression DEF order
  <2>. QED BY <1>1, <1>2, <2>1 DEF OfBuild
<1>. QED BY <1>1, <1>3, <1>4
-----------------------------------------------------------------------------
(* The command breaks off.                                                 *)
RegressionBreaks ==
    /\ UNCHANGED <<command, lane, fileVars, rows, judged>>
    /\ at \notin {"start", "ended"}
    /\ \/ at' = "abort" /\ code' = code
       \/ at' = "ended" /\ code' = "killed"

(* Nobody else moves this command.                                         *)
LEMMA RegressionAlone ==
    ASSUME command = "regression", lane \in {"none", "regression"},
           at = "start" <=> lane = "none", at \in RegressionPlaces, [Next]_vars
    PROVE  \/ Regression \/ Build \/ Tools \/ RegressionBreaks
           \/ UNCHANGED <<whereVars, fileVars, buildVars, judged>>
<1>. USE DEF RegressionPlaces, BuildPlaces
<1>1. ~Builds
  BY DEF Builds, StartBuilds, RecordBuild, EndBuilds, EndBuildsBadly
<1>2. ~Compare
  BY DEF Compare, BenchStep, StartComparison, RefuseComparison, Identify,
         SampleFirst, Calibrate, Warmup, MeasurePair, PublishComparison,
         PublishComparisonCut, EndComparison, Discard
<1>3. ~CatalogOrLane
  BY DEF CatalogOrLane, CatalogStep, BeginLane, ValidateBuild, RunControls,
         RecordQualified, RecordFailed, CatalogGate, Measure,
         ValidateComparison, ValidateSources, PublishCatalog, CompleteCatalog,
         Undo, UndoCut, StartLane, EndLane, Lanes
<1>4. ~Conformance
  BY DEF Conformance, ConformanceStep, StartConformance, Setup,
         RunConformanceCase, SetupError, Judge, WriteReports, EndConformance
<1>5. ~W3c
  BY DEF W3c, W3cStep, PrepareSuite, RecordExecuted, W3cGate, BeginEngine,
         CheckInput, RunW3cCase, RecheckInput, CheckMatrix, CheckW3cSources,
         CheckW3cArtifacts, PublishW3c, CompleteW3c
<1>6. ~Campaign
  BY DEF Campaign, CampaignStep, StartCampaign, NextLane, LaneReturns, LaneFails,
         PublishSummary, PublishPlots, Finish, Withdraw, WithdrawLocked,
         WithdrawBroken
<1>7. ~Abort
  BY DEF Abort
<1>8. ASSUME at # "start", UNCHANGED <<fileVars, rows, judged>>, at # "ended",
             NEW kind, Raise(kind)
      PROVE  RegressionBreaks
  <2>1. ~InComparison /\ ~InLane
    BY <1>8 DEF InComparison, InLane, Lanes
  <2>. QED BY <1>8, <2>1 DEF Raise, Handler, RegressionBreaks
<1>9. CASE StepFails
  <2>1. at # "start" /\ at # "ended" /\ UNCHANGED <<fileVars, rows, judged>>
        /\ Raise("error")
    BY <1>9 DEF StepFails, MayFail, afterBench, afterSuite
  <2>. QED BY <1>8, <2>1
<1>10. CASE Interrupt
  <2>1. at # "start" /\ at # "ended" /\ UNCHANGED <<fileVars, rows, judged>>
        /\ (Raise("interrupt") \/ UNCHANGED <<whereVars, build>>)
    BY <1>10 DEF Interrupt, Uninterruptible, afterBench, afterSuite
  <2>. QED BY <1>8, <2>1 DEF buildVars
<1>11. CASE KillCommand
  BY <1>11 DEF KillCommand, Killed, Exit, afterBench, afterSuite, laneVars,
               buildVars, RegressionBreaks
<1>12. CASE Prepare \/ Edits \/ EditsSuite \/ PrepareFails \/ OtherBegins
            \/ OtherGoesOn \/ OtherFails \/ Ended \/ UNCHANGED vars
  BY <1>12 DEF Prepare, Edits, EditsSuite, PrepareFails, OtherBegins,
     OtherGoesOn, OtherFails, Ended, vars, exceptCache, afterBench, afterSuite,
     laneVars
<1>. QED
  BY <1>1, <1>2, <1>3, <1>4, <1>5, <1>6, <1>7, <1>9, <1>10, <1>11, <1>12
     DEF Next, Progress

(* What was judged does not depend on anything else.                       *)
LEMMA SameJudgement ==
    ASSUME UNCHANGED <<rows, judged>>
    PROVE  /\ \A i, a : Ran(i, a)' = Ran(i, a)
           /\ \A i, a, p : IsJudgedPart(i, a, p)' = IsJudgedPart(i, a, p)
           /\ JudgedOnce' = JudgedOnce /\ RegressionStatus' = RegressionStatus
<1>1. \A i, a : Ran(i, a)' = Ran(i, a)
  BY DEF Ran, OfBuild
<1>2. \A i, a, p : IsJudgedPart(i, a, p)' = IsJudgedPart(i, a, p)
  BY DEF IsJudgedPart, OfBuild
<1>3. JudgedOnce' = JudgedOnce
  BY DEF JudgedOnce
<1>4. RegressionStatus' = RegressionStatus
  BY DEF RegressionStatus, XpactMissing
<1>. QED BY <1>1, <1>2, <1>3, <1>4

(* A step from one place to another, away from the documents.              *)
LEMMA RegressionMoves ==
    ASSUME RegressionKnows, UNCHANGED <<lane, code, fileVars, rows, judged>>,
           at \notin {"start", "lifecycle", "abort", "ended"},
           at' \in RegressionPlaces \ {"start", "trace", "lifecycle", "reports",
                                       "reported", "ended"}
    PROVE  RegressionKnows'
<1>1. (JudgedAreRan /\ JudgedOnce)' = (JudgedAreRan /\ JudgedOnce)
  <2>1. \A i, a : ~Between(i, a) /\ ~Between(i, a)'
    BY DEF Between
  <2>. QED BY <2>1, SameJudgement DEF JudgedAreRan
<1>. QED BY <1>1 DEF RegressionKnows, RegressionIsOver, fileVars

(* A step that touches nothing of the command, or ends it early.           *)
LEMMA RegressionWaits ==
    ASSUME RegressionKnows,
           \/ RegressionBreaks
           \/ UNCHANGED <<whereVars, fileVars, buildVars, judged>>
    PROVE  RegressionKnows'
<1>1. CASE RegressionBreaks
  BY <1>1 DEF RegressionBreaks, RegressionKnows, RegressionIsOver, fileVars,
              RegressionPlaces
<1>2. CASE UNCHANGED <<whereVars, fileVars, buildVars, judged>>
  <2>1. UNCHANGED <<lane, at, code, files, runjson, build, rows, judged>>
    BY <1>2 DEF whereVars, fileVars, buildVars
  <2>2. \A i, a : Between(i, a)' = Between(i, a)
    BY <2>1 DEF Between, OfBuild
  <2>3. JudgedAreRan' = JudgedAreRan
    BY <2>1, <2>2, SameJudgement DEF JudgedAreRan
  <2>4. Present(RegressionFiles)' = Present(RegressionFiles)
    BY <2>1 DEF Present
  <2>. QED BY <2>1, <2>3, <2>4, SameJudgement DEF RegressionKnows, RegressionIsOver
<1>. QED BY <1>1, <1>2

(* build_one: the builds, and what they need.                              *)
LEMMA BuildKeepsRegression ==
    ASSUME RegressionKnows, Build \/ Tools, command = "regression"
    PROVE  RegressionKnows'
<1>1. lane \notin Lanes /\ ~InComparison
  BY DEF RegressionKnows, RegressionPlaces, BuildPlaces, Lanes, Build, InComparison
<1>2. CASE Tools
  <2>1. at = "tools" /\ at' = "build"
        /\ UNCHANGED <<lane, code, fileVars, rows, judged>>
    BY <1>2 DEF Tools, Toolchain, Goto, laneVars, buildVars, afterBench, afterSuite
  <2>. QED BY <2>1, RegressionMoves DEF RegressionPlaces
<1>3. CASE Build
  <2>1. UNCHANGED <<lane, code, fileVars, rows, judged>>
    BY <1>3 DEF Build, BuildStep, BeginBuild, CallPrepare, TakePrepared, Compile,
       CheckInputs, WriteManifest, BuildFails, Goto, Raise, whereVars, buildVars,
       afterBench, afterSuite
  <2>2. at \in {"build"} \cup BuildPlaces
        /\ at' \in {"built", "abort"} \cup BuildPlaces
    BY <1>1, <1>3 DEF Build, BuildStep, BeginBuild, CallPrepare, TakePrepared,
       Compile, CheckInputs, WriteManifest, BuildFails, BuildSteps, BuildPlaces,
       Goto, Raise, Handler, InLane, whereVars
  <2>. QED BY <2>1, <2>2, RegressionMoves DEF RegressionPlaces, BuildPlaces
<1>. QED BY <1>2, <1>3

(* The run begins.                                                         *)
LEMMA StartRegressionKeeps ==
    ASSUME SnapInv, RegressionKnows, StartRegression
    PROVE  RegressionKnows'
<1>1. at = "start" /\ at' = "tools" /\ lane' = "regression"
      /\ UNCHANGED <<code, rows, judged>>
  BY DEF StartRegression, otherThanJudged, laneVars, buildVars
<1>2. runjson'["regression"] = "running"
  BY DEF StartRegression, Status, SnapInv, Typed, Owners
<1>3. (JudgedAreRan /\ JudgedOnce)' = (JudgedAreRan /\ JudgedOnce)
  <2>1. \A i, a : ~Between(i, a) /\ ~Between(i, a)'
    BY <1>1 DEF Between
  <2>. QED BY <1>1, <2>1, SameJudgement DEF JudgedAreRan
<1>. QED BY <1>1, <1>2, <1>3 DEF RegressionKnows, RegressionIsOver, Finished,
                                 RegressionPlaces

(* A build more: a row that failed, or whose parts are both there.         *)
LEMMA RowMore ==
    ASSUME BuildInv, SnapInv, lane = "regression", Append1(build),
           NEW i, NEW a
    PROVE  Ran(i, a)' <=> Ran(i, a) \/ (OfBuild(build, i, a) /\ build.status # "failed")
<1>. DEFINE R == rows["regression"]
<1>1. R \in Seq(GoodRows) /\ build \in GoodRows
  BY RowsOfRegression DEF BuildInv, RowsAreGood
<1>2. rows'["regression"] = Append(R, build)
  BY DEF Append1, BuildInv, RowsAreGood, Profiles
<1>. HIDE DEF R, GoodRows
<1>3. /\ DOMAIN Append(R, build) = DOMAIN R \cup {Len(R) + 1}
      /\ \A k \in DOMAIN R : Append(R, build)[k] = R[k]
      /\ Append(R, build)[Len(R) + 1] = build
  BY <1>1
<1>. QED BY <1>2, <1>3 DEF R, Ran, OfBuild

(* A part more.                                                            *)
LEMMA PartMore ==
    ASSUME judged \in Seq(Judgements), NEW part \in Parts,
           NEW outcomes \in SUBSET Outcomes, Saw(part, outcomes),
           build.implementation \in Implementations, build.assertions \in BOOLEAN
    PROVE  /\ judged' \in Seq(Judgements)
           /\ \A i, a, p : IsJudgedPart(i, a, p)' <=>
                 IsJudgedPart(i, a, p) \/ (OfBuild(build, i, a) /\ p = part)
           /\ JudgedOnce
              /\ ~IsJudgedPart(build.implementation, build.assertions, part)
                 => JudgedOnce'
<1>. DEFINE j == [implementation |-> build.implementation,
                 assertions |-> build.assertions, part |-> part,
                 outcomes |-> outcomes]
            n == Len(judged) + 1
<1>1. j \in Judgements /\ judged' = Append(judged, j)
  BY DEF Judgements, Saw
<1>2. /\ j.implementation = build.implementation
      /\ j.assertions = build.assertions /\ j.part = part
  OBVIOUS
<1>. HIDE DEF j, Judgements
<1>3. judged' \in Seq(Judgements)
  BY <1>1
<1>4. /\ DOMAIN judged' = DOMAIN judged \cup {n} /\ n \notin DOMAIN judged
      /\ \A k \in DOMAIN judged : judged'[k] = judged[k]
      /\ judged'[n] = j
  BY <1>1
<1>. HIDE DEF n
<1>5. \A i, a, p : IsJudgedPart(i, a, p)' <=>
         IsJudgedPart(i, a, p) \/ (OfBuild(build, i, a) /\ p = part)
  <2>. TAKE i, a, p
  <2>1. IsJudgedPart(i, a, p)' <=>
          \/ \E k \in DOMAIN judged : OfBuild(judged[k], i, a) /\ judged[k].part = p
          \/ OfBuild(j, i, a) /\ j.part = p
    BY <1>4 DEF IsJudgedPart, OfBuild
  <2>2. OfBuild(j, i, a) <=> OfBuild(build, i, a)
    BY <1>2 DEF OfBuild
  <2>. QED BY <1>2, <2>1, <2>2 DEF IsJudgedPart
<1>6. ASSUME JudgedOnce,
             ~IsJudgedPart(build.implementation, build.assertions, part)
      PROVE  JudgedOnce'
  <2>1. \A k \in DOMAIN judged :
          ~(/\ judged[k].implementation = j.implementation
            /\ judged[k].assertions = j.assertions /\ judged[k].part = j.part)
    BY <1>2, <1>6 DEF IsJudgedPart, OfBuild
  <2>2. \A k, m \in DOMAIN judged' :
          /\ judged'[k].implementation = judged'[m].implementation
          /\ judged'[k].assertions = judged'[m].assertions
          /\ judged'[k].part = judged'[m].part
          => k = m
    BY <1>4, <1>6, <2>1 DEF JudgedOnce
  <2>. QED BY <2>2 DEF JudgedOnce
<1>. QED BY <1>3, <1>5, <1>6

(* Each result of a part is one of the six.                                *)
LEMMA OutcomesAreKnown ==
    /\ {"PASS"} \in SUBSET Outcomes
    /\ \A o \in TraceOutcomes \cup LifecycleOutcomes : {"PASS", o} \in SUBSET Outcomes
<1>1. \A t \in Traces, accepted \in BOOLEAN : judge(accepted, t) \in Outcomes
  BY DEF Traces, judge, Outcomes
<1>2. TraceOutcomes \cup LifecycleOutcomes \subseteq Outcomes
  BY <1>1 DEF TraceOutcomes, LifecycleOutcomes
<1>. QED BY <1>2 DEF Outcomes

(* A failed build is passed by; a verified one is run.                     *)
LEMMA SkipFailedKeeps ==
    ASSUME BuildInv, SnapInv, RegressionKnows, SkipFailed
    PROVE  RegressionKnows'
<1>1. /\ at = "built" /\ lane = "regression"
      /\ UNCHANGED <<lane, code, files, runjson, judged>>
  BY DEF SkipFailed, Goto, fileVars
<1>2. CASE build.status = "failed" /\ Append1(build) /\ Goto("build")
  <2>1. \A i, a : Ran(i, a)' <=> Ran(i, a)
    BY <1>1, <1>2, RowMore
  <2>2. \A i, a : ~Between(i, a) /\ ~Between(i, a)'
    BY <1>1, <1>2 DEF Between, Goto
  <2>3. /\ \A i, a, p : IsJudgedPart(i, a, p)' = IsJudgedPart(i, a, p)
        /\ JudgedOnce' = JudgedOnce
    BY <1>1 DEF IsJudgedPart, OfBuild, JudgedOnce
  <2>4. (JudgedAreRan /\ JudgedOnce)'
    BY <1>1, <2>1, <2>2, <2>3 DEF JudgedAreRan, RegressionKnows, RegressionIsOver
  <2>. QED BY <1>1, <1>2, <2>4 DEF Goto, RegressionKnows, RegressionPlaces
<1>3. CASE build.status = "verified" /\ Goto("trace") /\ UNCHANGED buildVars
  <2>0. UNCHANGED <<rows, judged, build>> /\ at' = "trace"
    BY <1>1, <1>3 DEF buildVars, Goto
  <2>1. \A i, a : ~Between(i, a) /\ ~Between(i, a)'
    BY <1>1, <2>0 DEF Between
  <2>2. (JudgedAreRan /\ JudgedOnce)'
    BY <1>1, <2>0, <2>1, SameJudgement
       DEF JudgedAreRan, RegressionKnows, RegressionIsOver
  <2>. QED BY <1>1, <1>3, <2>0, <2>2 DEF RegressionKnows, RegressionPlaces
<1>. QED BY <1>2, <1>3 DEF SkipFailed

(* trace_case: the documents of one build.                                 *)
LEMMA TraceCasesKeeps ==
    ASSUME BuildInv, SnapInv, RegressionKnows, TraceCases
    PROVE  RegressionKnows'
<1>1. /\ at = "trace" /\ lane = "regression" /\ at' = "lifecycle"
      /\ UNCHANGED <<lane, code, files, runjson, rows, build>>
  BY DEF TraceCases, Goto, fileVars, otherThanJudged, laneVars, buildVars,
         RegressionKnows
<1>2. PICK outcomes \in SUBSET Outcomes : Saw("trace", outcomes)
  BY OutcomesAreKnown DEF TraceCases
<1>3. /\ build.implementation \in Implementations /\ build.assertions \in BOOLEAN
      /\ ~Ran(build.implementation, build.assertions)
  BY <1>1, BuildIsNext DEF HandledPlaces
<1>4. JudgedAreRan /\ JudgedOnce /\ judged \in Seq(Judgements)
  BY <1>1 DEF RegressionKnows, RegressionIsOver
<1>5. \A i, a : /\ ~Between(i, a) /\ Between(i, a)' = OfBuild(build, i, a)
                /\ Ran(i, a)' = Ran(i, a)
  BY <1>1 DEF Between, Ran, OfBuild
<1>6. ~IsJudgedPart(build.implementation, build.assertions, "trace")
  BY <1>3, <1>4, <1>5 DEF JudgedAreRan
<1>7. /\ judged' \in Seq(Judgements) /\ JudgedOnce'
      /\ \A i, a, p : IsJudgedPart(i, a, p)' <=>
            IsJudgedPart(i, a, p) \/ (OfBuild(build, i, a) /\ p = "trace")
  BY <1>2, <1>3, <1>4, <1>6, PartMore DEF Parts
<1>8. JudgedAreRan'
  BY <1>4, <1>5, <1>7 DEF JudgedAreRan
<1>. QED BY <1>1, <1>7, <1>8 DEF RegressionKnows, RegressionPlaces

(* The life cycle of one parser, and the build is done.                    *)
LEMMA RunLifecycleKeeps ==
    ASSUME BuildInv, SnapInv, RegressionKnows, RunLifecycle
    PROVE  RegressionKnows'
<1>1. /\ at = "lifecycle" /\ lane = "regression" /\ at' = "build"
      /\ UNCHANGED <<lane, code, files, runjson>> /\ Append1(build)
      /\ build.status = "verified"
  BY DEF RunLifecycle, Goto, fileVars, RegressionKnows
<1>2. PICK outcomes \in SUBSET Outcomes : Saw("lifecycle", outcomes)
  BY OutcomesAreKnown DEF RunLifecycle
<1>3. /\ build.implementation \in Implementations /\ build.assertions \in BOOLEAN
      /\ ~Ran(build.implementation, build.assertions)
  BY <1>1, BuildIsNext DEF HandledPlaces
<1>4. JudgedAreRan /\ JudgedOnce /\ judged \in Seq(Judgements)
  BY <1>1 DEF RegressionKnows, RegressionIsOver
<1>5. \A i, a : /\ Between(i, a) <=> OfBuild(build, i, a)
                /\ ~Between(i, a)'
                /\ Ran(i, a)' <=> Ran(i, a) \/ OfBuild(build, i, a)
  <2>1. \A i, a : (Between(i, a) <=> OfBuild(build, i, a)) /\ ~Between(i, a)'
    BY <1>1 DEF Between
  <2>2. \A i, a : Ran(i, a)' <=> Ran(i, a) \/ OfBuild(build, i, a)
    BY <1>1, RowMore
  <2>. QED BY <2>1, <2>2
<1>6. ~IsJudgedPart(build.implementation, build.assertions, "lifecycle")
  BY <1>3, <1>4 DEF JudgedAreRan
<1>7. /\ judged' \in Seq(Judgements) /\ JudgedOnce'
      /\ \A i, a, p : IsJudgedPart(i, a, p)' <=>
            IsJudgedPart(i, a, p) \/ (OfBuild(build, i, a) /\ p = "lifecycle")
  BY <1>2, <1>3, <1>4, <1>6, PartMore DEF Parts
<1>8. JudgedAreRan'
  BY <1>4, <1>5, <1>7 DEF JudgedAreRan
<1>. QED BY <1>1, <1>7, <1>8 DEF RegressionKnows, RegressionPlaces

(* The files are three.                                                    *)
LEMMA ThreeFiles ==
    /\ Listed(RegressionFiles) \subseteq Names
    /\ \A n \in Listed(RegressionFiles) :
         \E i \in 1..Len(RegressionFiles) : RegressionFiles[i] = n
<1>1. DOMAIN RegressionFiles = 1..Len(RegressionFiles)
  BY DEF RegressionFiles
<1>2. Listed(RegressionFiles) \subseteq Names
  BY DEF Names
<1>. QED BY <1>1, <1>2 DEF Listed

(* An exception of this command goes to its main function.                 *)
LEMMA RegressionRaises ==
    ASSUME command = "regression", RegressionKnows, NEW kind, Raise(kind)
    PROVE  at' = "abort" /\ UNCHANGED <<lane, code>>
<1>1. ~InComparison /\ ~InLane
  BY DEF RegressionKnows, RegressionPlaces, BuildPlaces, InComparison, InLane, Lanes
<1>. QED BY <1>1 DEF Raise, Handler

(* Away from the documents, what was judged is that of the rows.           *)
LEMMA JudgementStays ==
    ASSUME RegressionKnows, UNCHANGED <<rows, judged>>,
           at \notin {"lifecycle", "abort", "ended"}, at' # "lifecycle"
    PROVE  (JudgedAreRan /\ JudgedOnce)'
<1>1. \A i, a : ~Between(i, a) /\ ~Between(i, a)'
  BY DEF Between
<1>2. JudgedAreRan /\ JudgedOnce
  BY DEF RegressionKnows, RegressionIsOver
<1>. QED BY <1>1, <1>2, SameJudgement DEF JudgedAreRan

(* Every build was tried.                                                  *)
LEMMA EndTracesKeeps ==
    ASSUME BuildInv, SnapInv, command = "regression", RegressionKnows, EndTraces
    PROVE  RegressionKnows'
<1>1. at = "build" /\ lane = "regression" /\ UNCHANGED <<files, runjson, rows, judged>>
  BY DEF EndTraces, fileVars, otherThanJudged, laneVars, buildVars
<1>2. UNCHANGED <<lane, code>> /\ at' \in {"abort", "reports"}
  BY RegressionRaises DEF EndTraces, Goto
<1>3. Len(rows["regression"]) >= 4
  BY <1>1, FourBuilds, RowsOfRegression DEF EndTraces, AllBuilt
<1>4. (JudgedAreRan /\ JudgedOnce)'
  BY <1>1, <1>2, JudgementStays
<1>. QED BY <1>1, <1>2, <1>3, <1>4 DEF RegressionKnows, RegressionPlaces

(* write_reports: all three files, or some.                                *)
LEMMA PublishRegressionKeeps ==
    ASSUME command = "regression", RegressionKnows, PublishRegression
    PROVE  RegressionKnows'
<1>1. at = "reports" /\ lane = "regression" /\ UNCHANGED <<runjson, rows, judged>>
  BY DEF PublishRegression, PublishAll, PublishCut, otherThanJudged, laneVars,
         buildVars, RegressionKnows
<1>2. CASE PublishAll(RegressionFiles, "reported")
  <2>1. Present(RegressionFiles)'
    BY <1>2, ThreeFiles DEF PublishAll, Wrote, Present
  <2>2. at' = "reported" /\ UNCHANGED <<lane, code>>
    BY <1>2 DEF PublishAll, Goto
  <2>3. (JudgedAreRan /\ JudgedOnce)'
    BY <1>1, <2>2, JudgementStays
  <2>. QED BY <1>1, <2>1, <2>2, <2>3 DEF RegressionKnows, RegressionPlaces
<1>3. CASE PublishCut(RegressionFiles)
  <2>1. lane' = lane /\ \/ at' = "abort" /\ code' = code
                        \/ at' = "ended" /\ code' = "killed"
    BY <1>3, RegressionRaises DEF PublishCut, Killed, Exit
  <2>. QED BY <1>1, <2>1 DEF RegressionKnows, RegressionIsOver, RegressionPlaces
<1>. QED BY <1>2, <1>3 DEF PublishRegression

(* The status of the run, and the exit status.                             *)
LEMMA EndRegressionKeeps ==
    ASSUME SnapInv, RegressionKnows, EndRegression
    PROVE  RegressionKnows'
<1>1. /\ at = "reported" /\ lane = "regression" /\ lane' = lane /\ at' = "ended"
      /\ UNCHANGED <<files, rows, judged>>
  BY DEF EndRegression, Exit, otherThanJudged, laneVars, buildVars, RegressionKnows
<1>2. RegressionStatus \in Finished /\ RegressionStatus' = RegressionStatus
  BY <1>1, SameJudgement DEF RegressionStatus, Finished
<1>3. runjson'["regression"] = RegressionStatus
  BY DEF EndRegression, Status, SnapInv, Typed, Owners
<1>4. code' = StatusCode(RegressionStatus)
  BY DEF EndRegression, Exit, StatusCode
<1>5. Present(RegressionFiles)' /\ Len(rows["regression"]) >= 4
  BY <1>1 DEF RegressionKnows, Present
<1>6. (JudgedAreRan /\ JudgedOnce)'
  BY <1>1, JudgementStays
<1>7. code' = StatusCode(RegressionStatus)'
  BY <1>2, <1>4 DEF StatusCode
<1>. QED BY <1>1, <1>2, <1>3, <1>5, <1>6, <1>7 DEF RegressionKnows, RegressionPlaces

(* main: the exception, and a status that is none of a finished run.       *)
LEMMA AbortRegressionKeeps ==
    ASSUME SnapInv, RegressionKnows, AbortRegression
    PROVE  RegressionKnows'
<1>1. /\ at = "abort" /\ lane = "regression" /\ lane' = lane /\ at' = "ended"
      /\ UNCHANGED <<files, rows, judged>> /\ code' \in {"interrupted", "1", "2"}
  BY DEF AbortRegression, Exit, otherThanJudged, laneVars, buildVars, RegressionKnows
<1>2. runjson'["regression"] \notin Finished
  <2>1. runjson'["regression"] \in {runjson["regression"], "failed"}
    BY DEF AbortRegression, Status, SnapInv, Typed, Owners
  <2>. QED BY <1>1, <2>1 DEF RegressionKnows, Finished
<1>. QED BY <1>1, <1>2 DEF RegressionKnows, RegressionIsOver, RegressionPlaces

(* All steps.                                                              *)
LEMMA RegressionStepKeeps ==
    RegressionInv /\ BuildInv /\ SnapInv /\ [Next]_vars => RegressionInv'
<1>. SUFFICES ASSUME RegressionInv, BuildInv, SnapInv, [Next]_vars,
                     command' = "regression"
              PROVE  RegressionKnows'
  BY DEF RegressionInv
<1>1. command = "regression" /\ RegressionKnows
  BY CommandStays DEF RegressionInv
<1>2. CASE Regression
  BY <1>1, <1>2, StartRegressionKeeps, SkipFailedKeeps, TraceCasesKeeps,
     RunLifecycleKeeps, EndTracesKeeps, PublishRegressionKeeps, EndRegressionKeeps,
     AbortRegressionKeeps DEF Regression, RegressionStep
<1>3. lane \in {"none", "regression"} /\ (at = "start" <=> lane = "none")
      /\ at \in RegressionPlaces
  BY <1>1 DEF RegressionKnows
<1>. QED BY <1>1, <1>2, <1>3, RegressionAlone, BuildKeepsRegression, RegressionWaits

(* At first there is nothing.                                              *)
LEMMA RegressionStarts == Init => RegressionInv
<1>. SUFFICES ASSUME Init, command = "regression" PROVE RegressionKnows
  BY DEF RegressionInv
<1>1. /\ lane = "none" /\ at = "start" /\ code = "none" /\ judged = <<>>
      /\ runjson["regression"] = "absent" /\ rows["regression"] = <<>>
  BY DEF Init, RunInit, RegressionInit, BuildInit, Owners, Profiles
<1>2. \A i, a : /\ ~Ran(i, a) /\ ~Between(i, a)
                /\ \A p : ~IsJudgedPart(i, a, p)
  BY <1>1 DEF Ran, Between, IsJudgedPart
<1>3. JudgedAreRan /\ JudgedOnce /\ judged \in Seq(Judgements)
  BY <1>1, <1>2 DEF JudgedAreRan, JudgedOnce
<1>. QED BY <1>1, <1>3 DEF RegressionKnows, RegressionPlaces, Finished

(* A build of xpact is missing when it did not run.                        *)
LEMMA MissingDidNotRun ==
    ASSUME BuildInv, SnapInv, Len(rows["regression"]) >= 4
    PROVE  XpactMissing <=> \E a \in BOOLEAN : ~Ran("xpact", a)
<1>. DEFINE R == rows["regression"]
            order == Order("regression")
<1>1. DOMAIN R = 1..4 /\ \A k \in 1..4 : /\ R[k].implementation = order[k][1]
                                          /\ R[k].assertions = order[k][2]
  BY RowsOfRegression
<1>2. /\ R[1].implementation = "xpact" /\ R[1].assertions = TRUE
      /\ R[2].implementation = "xpact-core"
      /\ R[3].implementation = "xpact" /\ R[3].assertions = FALSE
      /\ R[4].implementation = "xpact-core"
  BY <1>1, FourBuilds
<1>3. \A k \in 1..4 : k = 1 \/ k = 2 \/ k = 3 \/ k = 4
  OBVIOUS
<1>4. 1 \in DOMAIN R /\ 3 \in DOMAIN R
      /\ \A k \in DOMAIN R : R[k].implementation = "xpact" => k \in {1, 3}
  BY <1>1, <1>2, <1>3
<1>. HIDE DEF order, R
<1>5. XpactMissing <=> R[1].status = "failed" \/ R[3].status = "failed"
  BY <1>2, <1>4 DEF XpactMissing, R
<1>6. Ran("xpact", TRUE) <=> R[1].status # "failed"
  BY <1>2, <1>4, Zenon DEF Ran, OfBuild, R
<1>7. Ran("xpact", FALSE) <=> R[3].status # "failed"
  BY <1>2, <1>4, Zenon DEF Ran, OfBuild, R
<1>. QED BY <1>5, <1>6, <1>7

(* RegressionExit: the exit status of the regression command is 0 when     *)
(* both builds of xpact ran and passed everything, 1 when both ran and did *)
(* not, 2 when one is missing (run_dual_regression.py, run_lane and main). *)
THEOREM RegressionStatusHolds == Spec => []RegressionExit
<1>1. RegressionInv /\ BuildInv /\ SnapInv => RegressionExit
  <2>. SUFFICES ASSUME RegressionInv, BuildInv, SnapInv, command = "regression"
                PROVE  RegressionExit
    BY DEF RegressionExit
  <2>0. RegressionKnows
    BY DEF RegressionInv
  <2>1. ASSUME runjson["regression"] \in Finished
        PROVE  /\ Present(RegressionFiles) /\ RanOnce
               /\ code = "0" <=> /\ OwnRan
                                 /\ \A k \in OfXpact : judged[k].outcomes = {"PASS"}
               /\ code = "2" <=> ~OwnRan
               /\ code \in {"0", "1", "2"}
    <3>1. /\ at = "ended" /\ Len(rows["regression"]) >= 4
          /\ Present(RegressionFiles) /\ code = StatusCode(RegressionStatus)
          /\ JudgedAreRan /\ JudgedOnce
      BY <2>0, <2>1 DEF RegressionKnows, RegressionIsOver
    <3>2. RanOnce
      BY <3>1 DEF RanOnce, OfXpact, JudgedOnce
    <3>3. OwnRan <=> \A a \in BOOLEAN : Ran("xpact", a)
      <4>1. OwnRan <=> \A a \in BOOLEAN, p \in Parts : IsJudgedPart("xpact", a, p)
        BY DEF OwnRan, OfXpact, IsJudgedPart, OfBuild
      <4>2. \A a \in BOOLEAN : ~Between("xpact", a)
        BY <3>1 DEF Between
      <4>3. \A a \in BOOLEAN : /\ IsJudgedPart("xpact", a, "trace") <=> Ran("xpact", a)
                               /\ IsJudgedPart("xpact", a, "lifecycle") <=> Ran("xpact", a)
        BY <3>1, <4>2 DEF JudgedAreRan, Implementations
      <4>. QED BY <4>1, <4>3 DEF Parts
    <3>4. XpactMissing <=> ~OwnRan
      BY <3>1, <3>3, MissingDidNotRun
    <3>5. (\E k \in DOMAIN judged : judged[k].implementation = "xpact"
                                    /\ judged[k].outcomes # {"PASS"})
          <=> ~\A k \in OfXpact : judged[k].outcomes = {"PASS"}
      BY DEF OfXpact
    <3>6. code = (IF XpactMissing THEN "2"
                  ELSE IF \A k \in OfXpact : judged[k].outcomes = {"PASS"}
                  THEN "0" ELSE "1")
      BY <3>1, <3>5 DEF RegressionStatus, StatusCode
    <3>. QED BY <3>1, <3>2, <3>4, <3>6
  <2>2. ASSUME code = "0" PROVE runjson["regression"] = "complete"
    <3>1. runjson["regression"] = RegressionStatus
          /\ code = StatusCode(RegressionStatus)
      BY <2>0, <2>2 DEF RegressionKnows
    <3>. QED BY <2>2, <3>1 DEF RegressionStatus, StatusCode
  <2>. QED BY <2>1, <2>2 DEF RegressionExit, Finished
<1>2. Spec => [](BuildInv /\ SnapInv)
  BY SnapInvInit, SnapInvStep, BuildInvInit, BuildInvStep, CacheInside,
     PTL DEF Spec
<1>. QED BY <1>1, <1>2, RegressionStarts, RegressionStepKeeps, PTL DEF Spec

-----------------------------------------------------------------------------
(* What run.json and the manifests say of the files.                       *)
FailedStatuses == {"failed", "gate_failed"}
LaneCommands == {"campaign", "catalog", "w3c"}

(* A lane that is over keeps its files, and one that has not begun has no  *)
(* status.                                                                 *)
Tells(l) ==
    /\ runjson[l] \in Completed =>
        /\ Present(LaneFiles(l))
        /\ lane = l => at \in {"returned", "withdraw", "abort", "ended"}
    /\ runjson[l] \in FailedStatuses =>
        /\ Gone(LaneFiles(l))
        /\ lane = l => at \in {"failed", "withdraw", "abort", "ended"}
    /\ lanes[l] \in Completed => runjson[l] \in Completed
    /\ \/ command \notin LaneCommands \/ at = "start"
       \/ command = "campaign" /\ lanes[l] = "pending"
       => runjson[l] = "absent"
    /\ lane = l => command \in LaneCommands

LaneTells == \A l \in Lanes : Tells(l)

(* What is there at each place of the publishers.                          *)
PlaceTells ==
    /\ at = "complete" => lane \in Lanes /\ Present(LaneFiles(lane))
    /\ lane = "catalog" /\ at \in {"validate", "sources", "publish"} =>
        Present(ComparisonFiles)
    /\ at = "returned" => lane \in Lanes /\ runjson[lane] \in Completed
    /\ command = "paired" => lane = "none"
    /\ at = "undo" => lane \in Lanes
    /\ at \in {"lane", "summary", "plots", "finish"} =>
        lane \notin Lanes /\ command = "campaign"
    /\ at \in {"plots", "finish"} => Present(SummaryFiles)
    /\ at = "finish" => Present(PlotFiles)
    /\ at = "compared" => Present(ComparisonFiles)
    /\ command = "paired" /\ code = "0" => at = "ended" /\ Present(ComparisonFiles)

(* What a file says of others.                                             *)
W3cTables == SubSeq(W3cFiles, 1, Len(W3cFiles) - 1)

ManifestTells ==
    /\ files["plots.tsv"] = "new" =>
        Present(PlotFiles) /\ at \in {"finish", "withdraw", "abort", "ended"}
    /\ files["w3c/report.json"] = "new" =>
        Present(W3cTables) /\ command # "conformance"
    /\ runjson["campaign"] = "published" =>
        at = "ended" /\ Present(SummaryFiles) /\ Present(PlotFiles)

FilesInv == LaneTells /\ PlaceTells /\ ManifestTells

(* Which files are written by whom.                                        *)
CatalogNames ==
    {"catalog/report.json", "catalog/summary.md", "comparison/comparison.json",
     "comparison/comparison.tsv"}
ComparisonNames == {"comparison/comparison.json", "comparison/comparison.tsv"}
ConformanceNames ==
    {"conformance/junit.xml", "conformance/results.tsv",
     "conformance/summary.json", "conformance/summary.md"}
W3cNames ==
    ConformanceNames \cup {"w3c/comparison.tsv", "w3c/suite-manifest.json",
                           "w3c/report.json", "w3c/summary.md"}
RegressionNames ==
    {"regression/cases.tsv", "regression/lifecycle.tsv", "regression/summary.md"}
SummaryNames == {"xpact-junit.xml", "xpact-summary.json"}
PlotSet == {"plots.tsv", "dual-implementation-plots.html", "catalog.csv", "w3c.csv"}

LEMMA FileGroups ==
    /\ Listed(ComparisonFiles) = ComparisonNames
    /\ Listed(ConformanceFiles) = ConformanceNames
    /\ Listed(W3cFiles) = W3cNames
    /\ Listed(RegressionFiles) = RegressionNames
    /\ Listed(SummaryFiles) = SummaryNames
    /\ Listed(PlotNames) = PlotSet
    /\ Listed(LaneFiles("catalog")) = CatalogNames
    /\ Listed(LaneFiles("w3c")) = W3cNames
    /\ Listed(CatalogFiles) \cup ComparisonNames = CatalogNames
    /\ Listed(W3cTables) = W3cNames \ {"w3c/summary.md"}
<1>1. Listed(ComparisonFiles) = ComparisonNames
  BY DEF Listed, ComparisonFiles, ComparisonNames
<1>2. Listed(ConformanceFiles) = ConformanceNames
  BY FourFiles DEF ConformanceNames
<1>3. /\ DOMAIN W3cFiles = 1..8 /\ Len(W3cFiles) = 8
      /\ W3cFiles[1] = "conformance/junit.xml"
      /\ W3cFiles[2] = "conformance/results.tsv"
      /\ W3cFiles[3] = "conformance/summary.json"
      /\ W3cFiles[4] = "conformance/summary.md"
      /\ W3cFiles[5] = "w3c/comparison.tsv"
      /\ W3cFiles[6] = "w3c/suite-manifest.json"
      /\ W3cFiles[7] = "w3c/report.json"
      /\ W3cFiles[8] = "w3c/summary.md"
  BY DEF W3cFiles, ConformanceFiles
<1>4. Listed(W3cFiles) = {W3cFiles[k] : k \in 1..8}
  BY <1>3 DEF Listed
<1>5. Listed(W3cFiles) = W3cNames
  BY <1>3, <1>4 DEF W3cNames, ConformanceNames
<1>6. Listed(RegressionFiles) = RegressionNames
  BY DEF Listed, RegressionFiles, RegressionNames
<1>7. Listed(SummaryFiles) = SummaryNames
  BY DEF Listed, SummaryFiles, SummaryNames
<1>8. Listed(PlotNames) = PlotSet
  BY DEF Listed, PlotNames, PlotSet
<1>9. Listed(LaneFiles("catalog")) = CatalogNames
      /\ Listed(CatalogFiles) \cup ComparisonNames = CatalogNames
  <2>1. Listed(CatalogFiles) = {"catalog/report.json", "catalog/summary.md"}
    BY DEF Listed, CatalogFiles
  <2>2. /\ LaneFiles("catalog") = CatalogFiles \o ComparisonFiles
        /\ DOMAIN LaneFiles("catalog") = 1..4
        /\ LaneFiles("catalog")[1] = "catalog/report.json"
        /\ LaneFiles("catalog")[2] = "catalog/summary.md"
        /\ LaneFiles("catalog")[3] = "comparison/comparison.json"
        /\ LaneFiles("catalog")[4] = "comparison/comparison.tsv"
    BY DEF LaneFiles, CatalogFiles, ComparisonFiles
  <2>3. Listed(LaneFiles("catalog")) = {LaneFiles("catalog")[k] : k \in 1..4}
    BY <2>2 DEF Listed
  <2>. QED BY <2>1, <2>2, <2>3 DEF CatalogNames, ComparisonNames
<1>10. Listed(LaneFiles("w3c")) = W3cNames
  <2>. DEFINE f == LaneFiles("w3c")
  <2>1. /\ DOMAIN f = 1..8
        /\ f[1] = "w3c/report.json" /\ f[2] = "w3c/summary.md"
        /\ f[3] = "w3c/comparison.tsv" /\ f[4] = "w3c/suite-manifest.json"
        /\ f[5] = "conformance/junit.xml" /\ f[6] = "conformance/results.tsv"
        /\ f[7] = "conformance/summary.json" /\ f[8] = "conformance/summary.md"
    BY DEF LaneFiles, ConformanceFiles
  <2>2. Listed(f) = {f[k] : k \in 1..8}
    BY <2>1 DEF Listed
  <2>. HIDE DEF f
  <2>3. Listed(f) = W3cNames
    BY <2>1, <2>2 DEF W3cNames, ConformanceNames
  <2>. QED BY <2>3 DEF f
<1>11. Listed(W3cTables) = W3cNames \ {"w3c/summary.md"}
  <2>1. W3cTables = SubSeq(W3cFiles, 1, 7)
    BY <1>3 DEF W3cTables
  <2>2. DOMAIN W3cTables = 1..7 /\ \A k \in 1..7 : W3cTables[k] = W3cFiles[k]
    BY <2>1
  <2>3. Listed(W3cTables) = {W3cFiles[k] : k \in 1..7}
    BY <2>2 DEF Listed
  <2>. QED BY <1>3, <2>3 DEF W3cNames, ConformanceNames
<1>. QED BY <1>1, <1>2, <1>5, <1>6, <1>7, <1>8, <1>9, <1>10, <1>11

LEMMA NamesOfAll ==
    /\ Names = CatalogNames \cup W3cNames \cup RegressionNames \cup SummaryNames
               \cup PlotSet
    /\ DirectFiles = ConformanceNames \cup RegressionNames
                     \cup {"w3c/comparison.tsv", "w3c/summary.md"}
<1>1. Names = Listed(CatalogFiles) \cup Listed(ComparisonFiles)
              \cup Listed(W3cFiles) \cup Listed(RegressionFiles)
              \cup Listed(SummaryFiles) \cup Listed(PlotNames)
  BY DEF Names
<1>. QED BY <1>1, FileGroups DEF DirectFiles

(* What the publishers and the handlers do to the files.                   *)
Same(S) == \A n \in S : files'[n] = files[n]

LEMMA WroteAll ==
    ASSUME NEW names, NEW status, Listed(names) \subseteq Names,
           DOMAIN names = 1..Len(names),
           files' = Wrote(names, Len(names), status)
    PROVE  /\ \A n \in Listed(names) : files'[n] = status
           /\ Same(Names \ Listed(names))
BY DEF Wrote, Listed, Same

LEMMA WroteSome ==
    ASSUME NEW names, NEW k, NEW status,
           DOMAIN names = 1..Len(names), 1..k \subseteq 1..Len(names),
           files' = Wrote(names, k, status)
    PROVE  /\ Same(Names \ Listed(names))
           /\ k = 0 => Same(Names)
           /\ \A i \in 1..k : names[i] \in Names => files'[names[i]] = status
<1>1. \A n \in Names :
        files'[n] = IF \E i \in 1..k : names[i] = n THEN status ELSE files[n]
  BY DEF Wrote
<1>2. \A i \in 1..k : names[i] \in Listed(names)
  BY DEF Listed
<1>3. k = 0 => 1..k = {}
  OBVIOUS
<1>. QED BY <1>1, <1>2, <1>3 DEF Same

(* A publisher that is cut after k files has not written its last file.    *)
CutAfter(names, k) ==
    \A n \in Names :
        files'[n] =
          IF n = names[k + 1] /\ n \in DirectFiles THEN "partial"
          ELSE IF \E i \in 1..k : names[i] = n THEN "new"
          ELSE files[n]

LEMMA CutFiles ==
    ASSUME NEW names, Len(names) \in Nat, DOMAIN names = 1..Len(names),
           Listed(names) \subseteq Names, PublishCut(names)
    PROVE  /\ Same(Names \ Listed(names))
           /\ UNCHANGED <<runjson, command, lane>>
           /\ \/ at' = Handler /\ code' = code
              \/ at' = "ended" /\ code' = "killed"
           /\ \E k \in 0..(Len(names) - 1) : CutAfter(names, k)
<1>1. PICK k \in 0..(Len(names) - 1) :
        files' = [Wrote(names, k, "new") EXCEPT ![names[k + 1]] =
                    IF names[k + 1] \in DirectFiles THEN "partial" ELSE @]
  BY DEF PublishCut
<1>2. k + 1 \in 1..Len(names) /\ 1..k \subseteq 1..Len(names)
  OBVIOUS
<1>3. names[k + 1] \in Listed(names)
  BY <1>2 DEF Listed
<1>4. CutAfter(names, k)
  BY <1>1, <1>3 DEF Wrote, CutAfter
<1>5. Same(Names \ Listed(names))
  BY <1>2, <1>4 DEF Same, Listed, CutAfter
<1>6. /\ UNCHANGED <<runjson, command, lane>>
      /\ \/ at' = Handler /\ code' = code
         \/ at' = "ended" /\ code' = "killed"
  BY DEF PublishCut, Raise, Killed, Exit
<1>. QED BY <1>4, <1>5, <1>6

(* The files of a lane.                                                    *)
NamesFor(l) == IF l = "catalog" THEN CatalogNames ELSE W3cNames

LEMMA LaneNames ==
    /\ \A l \in Lanes : Listed(LaneFiles(l)) = NamesFor(l) /\ NamesFor(l) \subseteq Names
    /\ CatalogNames \cap (W3cNames \cup SummaryNames \cup PlotSet \cup RegressionNames) = {}
    /\ W3cNames \cap (SummaryNames \cup PlotSet \cup RegressionNames) = {}
    /\ SummaryNames \cap (PlotSet \cup RegressionNames) = {}
    /\ PlotSet \cap RegressionNames = {}
    /\ ComparisonNames \subseteq CatalogNames
    /\ ConformanceNames \subseteq W3cNames
    /\ "plots.tsv" \in PlotSet /\ "w3c/report.json" \in W3cNames
    /\ "w3c/report.json" \notin ConformanceNames
<1>1. \A l \in Lanes : Listed(LaneFiles(l)) = NamesFor(l)
  BY FileGroups DEF NamesFor, Lanes
<1>2. \A l \in Lanes : NamesFor(l) \subseteq Names
  BY NamesOfAll DEF NamesFor
<1>3. CatalogNames \cap (W3cNames \cup SummaryNames \cup PlotSet \cup RegressionNames) = {}
  BY DEF CatalogNames, W3cNames, ConformanceNames, SummaryNames, PlotSet, RegressionNames
<1>4. W3cNames \cap (SummaryNames \cup PlotSet \cup RegressionNames) = {}
  BY DEF W3cNames, ConformanceNames, SummaryNames, PlotSet, RegressionNames
<1>5. /\ SummaryNames \cap (PlotSet \cup RegressionNames) = {}
      /\ PlotSet \cap RegressionNames = {}
  BY DEF SummaryNames, PlotSet, RegressionNames
<1>6. /\ ComparisonNames \subseteq CatalogNames
      /\ ConformanceNames \subseteq W3cNames
      /\ "plots.tsv" \in PlotSet /\ "w3c/report.json" \in W3cNames
      /\ "w3c/report.json" \notin ConformanceNames
  BY DEF ComparisonNames, CatalogNames, ConformanceNames, W3cNames, PlotSet
<1>. QED BY <1>1, <1>2, <1>3, <1>4, <1>5, <1>6

LEMMA PlotsLast ==
    /\ DOMAIN PlotFiles = 1..Len(PlotFiles) /\ Len(PlotFiles) \in 2..4
    /\ Listed(PlotFiles) \subseteq PlotSet
    /\ \A i \in 1..(Len(PlotFiles) - 1) : PlotFiles[i] # "plots.tsv"
<1>. DEFINE a == IF HasReport("catalog") THEN <<"catalog.csv">> ELSE <<>>
            b == IF HasReport("w3c") THEN <<"w3c.csv">> ELSE <<>>
            p == "dual-implementation-plots.html"
<1>1. PlotFiles = a \o b \o <<p, "plots.tsv">>
  BY DEF PlotFiles
<1>2. a \in {<<>>, <<"catalog.csv">>} /\ b \in {<<>>, <<"w3c.csv">>}
  OBVIOUS
<1>3. {"catalog.csv", "w3c.csv", p, "plots.tsv"} = PlotSet
  BY DEF PlotSet
<1>4. p # "plots.tsv" /\ "catalog.csv" # "plots.tsv" /\ "w3c.csv" # "plots.tsv"
  OBVIOUS
<1>. HIDE DEF a, b, p
<1>. DEFINE f == PlotFiles
<1>5. /\ DOMAIN f = 1..Len(f) /\ Len(f) \in 2..4
      /\ \A i \in 1..Len(f) : f[i] \in PlotSet
      /\ \A i \in 1..(Len(f) - 1) : f[i] # "plots.tsv"
  <2>1. CASE a = <<>> /\ b = <<>>
    <3>1. /\ DOMAIN f = 1..2 /\ Len(f) = 2
          /\ f[1] = p /\ f[2] = "plots.tsv"
      BY <1>1, <2>1
    <3>. QED BY <3>1, <1>3, <1>4
  <2>2. CASE a = <<"catalog.csv">> /\ b = <<>>
    <3>1. /\ DOMAIN f = 1..3 /\ Len(f) = 3
          /\ f[1] = "catalog.csv" /\ f[2] = p /\ f[3] = "plots.tsv"
      BY <1>1, <2>2
    <3>. QED BY <3>1, <1>3, <1>4
  <2>3. CASE a = <<>> /\ b = <<"w3c.csv">>
    <3>1. /\ DOMAIN f = 1..3 /\ Len(f) = 3
          /\ f[1] = "w3c.csv" /\ f[2] = p /\ f[3] = "plots.tsv"
      BY <1>1, <2>3
    <3>. QED BY <3>1, <1>3, <1>4
  <2>4. CASE a = <<"catalog.csv">> /\ b = <<"w3c.csv">>
    <3>1. /\ DOMAIN f = 1..4 /\ Len(f) = 4
          /\ f[1] = "catalog.csv" /\ f[2] = "w3c.csv" /\ f[3] = p
          /\ f[4] = "plots.tsv"
      BY <1>1, <2>4
    <3>. QED BY <3>1, <1>3, <1>4
  <2>. QED BY <1>2, <2>1, <2>2, <2>3, <2>4
<1>. QED BY <1>5 DEF Listed

(* The files of a set of plots depend on the lanes alone.                  *)
LEMMA PlotsOfLanes == ASSUME UNCHANGED lanes PROVE PlotFiles' = PlotFiles
BY DEF PlotFiles, HasReport

-----------------------------------------------------------------------------
(* The steps that write nothing that a status or a manifest tells of.      *)
Settled == {"returned", "failed", "withdraw", "abort", "ended"}
Arrivals ==
    {"start", "complete", "returned", "lane", "summary", "plots", "finish",
     "compared", "validate"}

Moves ==
    \/ UNCHANGED <<at, code>>
    \/ /\ at \notin Settled \cup {"finish"} /\ at' \notin Arrivals
       /\ UNCHANGED code
       /\ at' = "undo" => lane \in Lanes
       /\ lane = "catalog" /\ at' \in {"sources", "publish"} =>
            at \in {"validate", "sources", "publish"}
    \/ /\ at # "ended" /\ at' \in {"withdraw", "abort", "ended"}
       /\ code' = code \/ command # "paired" \/ code' # "0"

Walks ==
    /\ UNCHANGED <<command, lanes>>
    /\ \/ UNCHANGED lane
       \/ lane \notin Lanes /\ lane' \notin Lanes /\ command # "paired"
    /\ \A o \in Lanes \cup {"campaign"} : runjson'[o] = runjson[o]
    /\ Same(Names \ (ConformanceNames \cup RegressionNames))
    /\ command = "conformance" \/ Same(ConformanceNames)
    /\ Moves

LEMMA MoveIsSettled ==
    ASSUME Moves
    PROVE  /\ at \in Settled \cup {"finish"} =>
                at' = at \/ at' \in {"withdraw", "abort", "ended"}
           /\ at' \in Arrivals => at' = at
           /\ at = "ended" => at' = at /\ code' = code
BY DEF Moves, Settled, Arrivals

LEMMA WalksTells ==
    ASSUME NEW l \in Lanes, Tells(l), Walks PROVE Tells(l)'
<1>1. /\ command' = command /\ lanes' = lanes /\ runjson'[l] = runjson[l]
      /\ lane' = l <=> lane = l
  BY DEF Walks
<1>2. runjson[l] # "absent" => Same(NamesFor(l))
  <2>1. runjson[l] # "absent" => command # "conformance"
    BY DEF Tells, LaneCommands
  <2>. QED BY <2>1, LaneNames DEF Walks, Same, NamesFor, Lanes
<1>3. /\ runjson[l] # "absent" /\ Present(LaneFiles(l)) => Present(LaneFiles(l))'
      /\ runjson[l] # "absent" /\ Gone(LaneFiles(l)) => Gone(LaneFiles(l))'
  BY <1>2, LaneNames DEF Present, Gone, Same
<1>4. at' = "start" => at = "start"
  BY MoveIsSettled DEF Walks, Arrivals
<1>5. /\ at \in Settled => at' = at \/ at' \in {"withdraw", "abort", "ended"}
  BY MoveIsSettled DEF Walks
<1>6. runjson[l] \in Completed \cup FailedStatuses => runjson[l] # "absent"
  BY DEF Completed, FailedStatuses
<1>. QED BY <1>1, <1>3, <1>4, <1>5, <1>6 DEF Tells, Settled

LEMMA WalksPlaces ==
    ASSUME FilesInv, Walks PROVE PlaceTells'
<1>. USE DEF FilesInv
<1>1. /\ command' = command /\ lanes' = lanes
      /\ lane' \in Lanes \/ lane \in Lanes => lane' = lane
      /\ \A l \in Lanes : runjson'[l] = runjson[l]
  BY DEF Walks
<1>2. at' \in Arrivals => at' = at
  BY MoveIsSettled DEF Walks
<1>3. Same(SummaryNames) /\ Same(PlotSet) /\ Same(CatalogNames)
  BY LaneNames, NamesOfAll DEF Walks, Same
<1>4. /\ Present(SummaryFiles) => Present(SummaryFiles)'
      /\ Present(ComparisonFiles) => Present(ComparisonFiles)'
  BY <1>3, FileGroups, LaneNames DEF Present, Same
<1>5. Present(PlotFiles) => Present(PlotFiles)'
  BY <1>1, <1>3, PlotsOfLanes, PlotsLast DEF Present, Same
<1>6. /\ at' = "complete" => lane' \in Lanes /\ Present(LaneFiles(lane))'
      /\ at' = "returned" => lane' \in Lanes /\ runjson'[lane'] \in Completed
  <2>1. CASE at' = "complete"
    <3>1. at = "complete" /\ lane \in Lanes /\ Present(LaneFiles(lane))
      BY <2>1, <1>2 DEF PlaceTells, Arrivals
    <3>2. command # "conformance"
      BY <3>1 DEF LaneTells, Tells, LaneCommands
    <3>3. Same(NamesFor(lane))
      BY <3>1, <3>2, LaneNames DEF Walks, Same, NamesFor, Lanes
    <3>4. Present(LaneFiles(lane))'
      BY <3>1, <3>3, <1>1, LaneNames DEF Present, Same
    <3>. QED BY <2>1, <3>1, <3>4, <1>1
  <2>2. CASE at' = "returned"
    BY <2>2, <1>1, <1>2 DEF PlaceTells, Arrivals
  <2>. QED BY <2>1, <2>2
<1>7. lane' = "catalog" /\ at' \in {"validate", "sources", "publish"} =>
        Present(ComparisonFiles)'
  <2>1. SUFFICES ASSUME lane' = "catalog", at' \in {"validate", "sources", "publish"}
                 PROVE  Present(ComparisonFiles)'
    OBVIOUS
  <2>2. lane = "catalog"
    BY <2>1, <1>1 DEF Lanes
  <2>3. at \in {"validate", "sources", "publish"}
    BY <2>1, <2>2 DEF Walks, Moves, Arrivals
  <2>. QED BY <2>2, <2>3, <1>4 DEF PlaceTells
<1>8. at' = "undo" => lane' \in Lanes
  <2>1. SUFFICES ASSUME at' = "undo" PROVE lane' \in Lanes
    OBVIOUS
  <2>2. lane \in Lanes
    BY <2>1 DEF Walks, Moves, PlaceTells
  <2>. QED BY <2>2, <1>1 DEF Walks
<1>11. command' = "paired" => lane' = "none"
  BY <1>1 DEF Walks, PlaceTells
<1>9. /\ at' \in {"lane", "summary", "plots", "finish"} =>
            lane' \notin Lanes /\ command' = "campaign"
      /\ at' \in {"plots", "finish"} => Present(SummaryFiles)'
      /\ at' = "finish" => Present(PlotFiles)'
      /\ at' = "compared" => Present(ComparisonFiles)'
  <2>1. at' \in {"lane", "summary", "plots", "finish", "compared"} => at' = at
    BY <1>2 DEF Arrivals
  <2>. QED BY <2>1, <1>1, <1>4, <1>5 DEF PlaceTells
<1>10. command' = "paired" /\ code' = "0" => at' = "ended" /\ Present(ComparisonFiles)'
  <2>1. SUFFICES ASSUME command = "paired", code' = "0"
                 PROVE  at' = "ended" /\ Present(ComparisonFiles)'
    BY <1>1
  <2>2. code = "0"
    BY <2>1 DEF Walks, Moves
  <2>3. at = "ended" /\ Present(ComparisonFiles)
    BY <2>1, <2>2 DEF PlaceTells
  <2>. QED BY <2>3, <1>4, MoveIsSettled DEF Walks
<1>. QED BY <1>6, <1>7, <1>8, <1>9, <1>10, <1>11 DEF PlaceTells

LEMMA WalksKeeps ==
    ASSUME FilesInv, Walks PROVE FilesInv'
<1>. USE DEF FilesInv
<1>1. /\ command' = command /\ lanes' = lanes
      /\ runjson'["campaign"] = runjson["campaign"]
  BY DEF Walks
<1>2. Same(SummaryNames) /\ Same(PlotSet)
  BY LaneNames, NamesOfAll DEF Walks, Same
<1>3. /\ Present(SummaryFiles) => Present(SummaryFiles)'
      /\ Present(PlotFiles) => Present(PlotFiles)'
  BY <1>1, <1>2, FileGroups, PlotsOfLanes, PlotsLast DEF Present, Same
<1>4. LaneTells'
  BY WalksTells DEF LaneTells
<1>5. files'["plots.tsv"] = "new" =>
        Present(PlotFiles)' /\ at' \in {"finish", "withdraw", "abort", "ended"}
  <2>1. SUFFICES ASSUME files'["plots.tsv"] = "new"
                 PROVE  Present(PlotFiles)' /\ at' \in {"finish", "withdraw", "abort", "ended"}
    OBVIOUS
  <2>2. files["plots.tsv"] = "new"
    BY <2>1, <1>2, LaneNames DEF Same
  <2>3. Present(PlotFiles) /\ at \in {"finish", "withdraw", "abort", "ended"}
    BY <2>2 DEF ManifestTells
  <2>. QED BY <2>3, <1>3, MoveIsSettled DEF Walks, Settled
<1>6. files'["w3c/report.json"] = "new" => Present(W3cTables)' /\ command' # "conformance"
  <2>1. SUFFICES ASSUME files'["w3c/report.json"] = "new"
                 PROVE  Present(W3cTables)' /\ command' # "conformance"
    OBVIOUS
  <2>2. files'["w3c/report.json"] = files["w3c/report.json"]
    BY LaneNames, NamesOfAll DEF Walks, Same
  <2>3. Present(W3cTables) /\ command # "conformance"
    BY <2>1, <2>2 DEF ManifestTells
  <2>4. Same(W3cNames)
    BY <2>3, LaneNames, NamesOfAll DEF Walks, Same
  <2>. QED BY <2>3, <2>4, <1>1, FileGroups DEF Present, Same
<1>7. runjson'["campaign"] = "published" =>
        at' = "ended" /\ Present(SummaryFiles)' /\ Present(PlotFiles)'
  BY <1>1, <1>3, MoveIsSettled DEF Walks, ManifestTells
<1>. QED BY <1>4, <1>5, <1>6, <1>7, WalksPlaces DEF ManifestTells
-----------------------------------------------------------------------------
(* The steps of a lane that write its files or its status.                 *)
Working(l) ==
    /\ lane = l /\ UNCHANGED <<command, lane, lanes>>
    /\ at \notin Settled \cup {"finish", "start"}
    /\ at' \notin {"start", "lane", "summary", "plots", "finish", "compared"}
    /\ UNCHANGED code \/ at' = "ended"
    /\ \A o \in Owners \ {l} : runjson'[o] = runjson[o]
    /\ Same(Names \ NamesFor(l))
    /\ runjson'[l] \in Completed =>
        Present(LaneFiles(l))' /\ at' \in {"returned", "withdraw", "abort", "ended"}
    /\ runjson'[l] \in FailedStatuses =>
        Gone(LaneFiles(l))' /\ at' \in {"failed", "withdraw", "abort", "ended"}
    /\ at' = "complete" => Present(LaneFiles(l))'
    /\ at' = "returned" => runjson'[l] \in Completed
    /\ l = "catalog" /\ at' \in {"validate", "sources", "publish"} =>
        Present(ComparisonFiles)'
    /\ files'["w3c/report.json"] = "new" /\ l = "w3c" => Present(W3cTables)'

LEMMA WorkingTells ==
    ASSUME NEW l \in Lanes, NEW m \in Lanes, SnapInv, FilesInv, Working(l)
    PROVE  Tells(m)'
<1>1. CASE m = l
  <2>1. Tells(l)
    BY DEF FilesInv, LaneTells
  <2>2. lane = l /\ command' = command /\ lane' = lane /\ lanes' = lanes
    BY DEF Working
  <2>3. lanes[l] \notin Completed
    BY <2>1, <2>2 DEF Working, Tells, Settled
  <2>4. /\ command \in LaneCommands /\ at' # "start"
        /\ ~(command = "campaign" /\ lanes[l] = "pending")
    BY <2>1, <2>2 DEF Working, Tells, SnapInv, LanesBeginOnce
  <2>5. /\ runjson'[l] \in Completed =>
            Present(LaneFiles(l))' /\ at' \in {"returned", "withdraw", "abort", "ended"}
        /\ runjson'[l] \in FailedStatuses =>
            Gone(LaneFiles(l))' /\ at' \in {"failed", "withdraw", "abort", "ended"}
    BY DEF Working
  <2>. QED BY <1>1, <2>2, <2>3, <2>4, <2>5 DEF Tells
<1>2. CASE m # l
  <2>1. Tells(m)
    BY DEF FilesInv, LaneTells
  <2>2. /\ lane = l /\ command' = command /\ lane' = lane /\ lanes' = lanes
        /\ runjson'[m] = runjson[m] /\ at' # "start"
    BY <1>2 DEF Working, Owners
  <2>3. Same(NamesFor(m))
    <3>1. NamesFor(m) \cap NamesFor(l) = {}
      BY <1>2, LaneNames DEF NamesFor, Lanes
    <3>. QED BY <3>1, LaneNames DEF Working, Same
  <2>4. /\ Present(LaneFiles(m)) => Present(LaneFiles(m))'
        /\ Gone(LaneFiles(m)) => Gone(LaneFiles(m))'
    BY <2>3, LaneNames DEF Present, Gone, Same
  <2>. QED BY <1>2, <2>1, <2>2, <2>4 DEF Tells
<1>. QED BY <1>1, <1>2

LEMMA WorkingKeeps ==
    ASSUME NEW l \in Lanes, SnapInv, FilesInv, Working(l) PROVE FilesInv'
<1>1. LaneTells'
  BY WorkingTells DEF LaneTells
<1>2. /\ lane = l /\ lane' = l /\ command' = command /\ lanes' = lanes
      /\ command # "paired" /\ command # "conformance"
      /\ at \notin Settled \cup {"finish", "start"}
      /\ at' \notin {"start", "lane", "summary", "plots", "finish", "compared"}
  BY DEF Working, FilesInv, LaneTells, Tells, LaneCommands, SnapInv, PlacesOfLanes
<1>3. PlaceTells'
  <2>1. /\ at' = "complete" => Present(LaneFiles(l))'
        /\ at' = "returned" => runjson'[l] \in Completed
        /\ l = "catalog" /\ at' \in {"validate", "sources", "publish"} =>
            Present(ComparisonFiles)'
    BY DEF Working
  <2>. QED BY <1>2, <2>1 DEF PlaceTells
<1>4. files'["plots.tsv"] # "new"
  <2>1. files["plots.tsv"] # "new"
    BY <1>2 DEF FilesInv, ManifestTells, Settled
  <2>2. "plots.tsv" \in Names \ NamesFor(l)
    BY LaneNames, NamesOfAll DEF NamesFor, Lanes
  <2>. QED BY <2>1, <2>2 DEF Working, Same
<1>5. files'["w3c/report.json"] = "new" => Present(W3cTables)'
  <2>1. CASE l = "w3c"
    BY <2>1 DEF Working
  <2>2. CASE l # "w3c"
    <3>1. l = "catalog"
      BY <2>2 DEF Lanes
    <3>2. Same(W3cNames)
      BY <3>1, LaneNames, NamesOfAll DEF Working, Same, NamesFor
    <3>3. files["w3c/report.json"] = "new" => Present(W3cTables)
      BY DEF FilesInv, ManifestTells
    <3>. QED BY <3>2, <3>3, LaneNames, FileGroups DEF Present, Same
  <2>. QED BY <2>1, <2>2
<1>6. runjson'["campaign"] # "published"
  <2>1. runjson'["campaign"] = runjson["campaign"]
    BY DEF Working, Owners, Lanes
  <2>. QED BY <2>1, <1>2 DEF FilesInv, ManifestTells, Settled
<1>7. ManifestTells'
  BY <1>2, <1>4, <1>5, <1>6 DEF ManifestTells
<1>. QED BY <1>1, <1>3, <1>7 DEF FilesInv

(* The steps of a comparison that a user asked for.                        *)
Paired ==
    /\ command = "paired" /\ UNCHANGED <<command, lane, lanes, runjson>>
    /\ Same(Names \ ComparisonNames)
    /\ at \in {"start", "compare", "compared", "discard"}
    /\ at' \notin {"start", "complete", "returned", "undo", "lane", "summary",
                   "plots", "finish"}
    /\ at' = "compared" => Present(ComparisonFiles)'
    /\ code' = "0" => at' = "ended" /\ Present(ComparisonFiles)'

LEMMA PairedTellsFiles ==
    ASSUME SnapInv, FilesInv, Paired PROVE FilesInv'
<1>1. /\ command = "paired" /\ command' = command /\ lane' = lane
      /\ lanes' = lanes /\ runjson' = runjson /\ lane \notin Lanes
  BY DEF Paired, SnapInv, PlacesOfLanes
<1>2. LaneTells'
  <2>1. SUFFICES ASSUME NEW l \in Lanes PROVE Tells(l)'
    BY DEF LaneTells
  <2>2. Tells(l)
    BY DEF FilesInv, LaneTells
  <2>3. runjson[l] = "absent"
    BY <1>1, <2>2 DEF Tells, LaneCommands
  <2>. QED BY <1>1, <2>2, <2>3 DEF Tells, Completed, FailedStatuses
<1>3. PlaceTells'
  BY <1>1 DEF Paired, FilesInv, PlaceTells, Lanes
<1>4. files'["plots.tsv"] # "new"
  <2>1. files["plots.tsv"] # "new"
    BY DEF FilesInv, ManifestTells, Paired
  <2>2. "plots.tsv" \in Names \ ComparisonNames
    BY LaneNames, NamesOfAll
  <2>. QED BY <2>1, <2>2 DEF Paired, Same
<1>5. files'["w3c/report.json"] = "new" => Present(W3cTables)'
  <2>1. Same(W3cNames)
    BY LaneNames, NamesOfAll DEF Paired, Same
  <2>2. files["w3c/report.json"] = "new" => Present(W3cTables)
    BY DEF FilesInv, ManifestTells
  <2>. QED BY <2>1, <2>2, LaneNames, FileGroups DEF Present, Same
<1>6. runjson'["campaign"] # "published"
  BY <1>1 DEF FilesInv, ManifestTells, Paired
<1>7. ManifestTells'
  BY <1>1, <1>4, <1>5, <1>6 DEF ManifestTells
<1>. QED BY <1>2, <1>3, <1>7 DEF FilesInv

(* The steps of the campaign that write its own summary and plots, or      *)
(* withdraw them.                                                          *)
Publishing ==
    /\ at \in {"summary", "plots", "finish", "withdraw"}
    /\ at = "withdraw" => at' = "ended"
    /\ at' \in {"plots", "finish", "withdraw", "abort", "ended"}
    /\ UNCHANGED <<command, lane, lanes>>
    /\ \A o \in Lanes : runjson'[o] = runjson[o]
    /\ Same(Names \ (PlotSet \cup SummaryNames))
    /\ code' = code \/ command # "paired" \/ code' # "0"
    /\ at' \in {"plots", "finish"} => Present(SummaryFiles)'
    /\ at' = "finish" => Present(PlotFiles)'
    /\ files'["plots.tsv"] = "new" => Present(PlotFiles)' /\ at' # "plots"
    /\ runjson'["campaign"] = "published" =>
        at' = "ended" /\ Present(SummaryFiles)' /\ Present(PlotFiles)'

LEMMA PublishingKeeps ==
    ASSUME SnapInv, FilesInv, Publishing PROVE FilesInv'
<1>1. /\ command' = command /\ lane' = lane /\ lanes' = lanes
      /\ \A o \in Lanes : runjson'[o] = runjson[o]
      /\ at \in {"summary", "plots", "finish", "withdraw"}
      /\ at' \in {"plots", "finish", "withdraw", "abort", "ended"}
      /\ at = "withdraw" => at' = "ended"
      /\ at # "withdraw" => lane \notin Lanes /\ command = "campaign"
  BY DEF Publishing, FilesInv, PlaceTells
<1>2. Same(CatalogNames) /\ Same(W3cNames)
  BY LaneNames, NamesOfAll DEF Publishing, Same
<1>3. LaneTells'
  <2>1. SUFFICES ASSUME NEW l \in Lanes PROVE Tells(l)'
    BY DEF LaneTells
  <2>2. Tells(l)
    BY DEF FilesInv, LaneTells
  <2>3. Same(NamesFor(l))
    BY <1>2 DEF NamesFor
  <2>4. /\ Present(LaneFiles(l)) => Present(LaneFiles(l))'
        /\ Gone(LaneFiles(l)) => Gone(LaneFiles(l))'
    BY <2>3, LaneNames DEF Present, Gone, Same
  <2>. QED BY <1>1, <2>2, <2>4 DEF Tells
<1>4. PlaceTells'
  <2>1. /\ at' \in {"plots", "finish"} => Present(SummaryFiles)'
        /\ at' = "finish" => Present(PlotFiles)'
        /\ code' = code \/ command # "paired" \/ code' # "0"
    BY DEF Publishing
  <2>2. ~(command' = "paired" /\ code' = "0")
    BY <1>1, <2>1 DEF FilesInv, PlaceTells
  <2>. QED BY <1>1, <2>1, <2>2 DEF FilesInv, PlaceTells
<1>5. files'["w3c/report.json"] = "new" => Present(W3cTables)' /\ command' # "conformance"
  <2>1. files["w3c/report.json"] = "new" => Present(W3cTables) /\ command # "conformance"
    BY DEF FilesInv, ManifestTells
  <2>. QED BY <1>1, <1>2, <2>1, LaneNames, FileGroups DEF Present, Same
<1>6. ManifestTells'
  <2>1. files'["plots.tsv"] = "new" => Present(PlotFiles)' /\ at' # "plots"
    BY DEF Publishing
  <2>2. runjson'["campaign"] = "published" =>
            at' = "ended" /\ Present(SummaryFiles)' /\ Present(PlotFiles)'
    BY DEF Publishing
  <2>. QED BY <1>1, <1>5, <2>1, <2>2 DEF ManifestTells
<1>. QED BY <1>3, <1>4, <1>6 DEF FilesInv

(* The steps of the campaign between its lanes, and into them.             *)
LEMMA NextLaneTells ==
    ASSUME SnapInv, FilesInv, NextLane PROVE FilesInv'
<1>1. /\ command = "campaign" /\ command' = command /\ at = "lane"
      /\ files' = files /\ runjson' = runjson /\ code' = code /\ lane \notin Lanes
  BY DEF NextLane, Goto, fileVars, FilesInv, PlaceTells
<1>2. \/ at' = "summary" /\ lane' = lane /\ lanes' = lanes
      \/ \E l \in Lanes : /\ lanes[l] = "pending" /\ at' = "begin" /\ lane' = l
                          /\ lanes' = [lanes EXCEPT ![l] = "running"]
  BY DEF NextLane, Goto, Lanes
<1>3. LaneTells'
  <2>1. SUFFICES ASSUME NEW m \in Lanes PROVE Tells(m)'
    BY DEF LaneTells
  <2>2. Tells(m)
    BY DEF FilesInv, LaneTells
  <2>3. Present(LaneFiles(m))' = Present(LaneFiles(m))
        /\ Gone(LaneFiles(m))' = Gone(LaneFiles(m))
    BY <1>1 DEF Present, Gone
  <2>4. CASE at' = "summary" /\ lane' = lane /\ lanes' = lanes
    BY <1>1, <2>2, <2>3, <2>4 DEF Tells
  <2>5. ASSUME NEW l \in Lanes, lanes[l] = "pending", at' = "begin", lane' = l,
               lanes' = [lanes EXCEPT ![l] = "running"]
        PROVE  Tells(m)'
    <3>1. lanes \in [Lanes -> {"pending", "running"} \cup Statuses]
      BY DEF SnapInv, Typed
    <3>2. CASE m = l
      <4>1. runjson[m] = "absent"
        BY <1>1, <2>2, <2>5, <3>2 DEF Tells
      <4>2. lanes'[m] = "running"
        BY <2>5, <3>1, <3>2
      <4>. QED BY <1>1, <2>5, <4>1, <4>2 DEF Tells, Completed, FailedStatuses,
                  LaneCommands
    <3>3. CASE m # l
      <4>1. lanes'[m] = lanes[m]
        BY <2>5, <3>1, <3>3
      <4>. QED BY <1>1, <2>2, <2>3, <2>5, <3>3, <4>1 DEF Tells
    <3>. QED BY <3>2, <3>3
  <2>. QED BY <1>2, <2>4, <2>5
<1>4. at' \in {"summary", "begin"} /\ (at' = "summary" => lane' = lane)
  BY <1>2
<1>5. PlaceTells'
  BY <1>1, <1>4 DEF PlaceTells
<1>6. ManifestTells'
  BY <1>1 DEF FilesInv, ManifestTells, Present
<1>. QED BY <1>3, <1>5, <1>6 DEF FilesInv

LEMMA LaneEndsTells ==
    ASSUME SnapInv, FilesInv, command = "campaign", at \in {"returned", "failed"},
           NEW status, LaneEnds(status),
           \/ status = "failed"
           \/ lane \in Lanes /\ status = runjson[lane] /\ status \in Completed
    PROVE  FilesInv'
<1>1. /\ lanes' = [lanes EXCEPT ![lane] = status] /\ lane' = "none" /\ at' = "lane"
      /\ command' = command /\ code' = code /\ files' = files /\ runjson' = runjson
  BY DEF LaneEnds, fileVars
<1>2. lanes \in [Lanes -> {"pending", "running"} \cup Statuses]
  BY DEF SnapInv, Typed
<1>3. LaneTells'
  <2>1. SUFFICES ASSUME NEW m \in Lanes PROVE Tells(m)'
    BY DEF LaneTells
  <2>2. Tells(m)
    BY DEF FilesInv, LaneTells
  <2>3. Present(LaneFiles(m))' = Present(LaneFiles(m))
        /\ Gone(LaneFiles(m))' = Gone(LaneFiles(m))
    BY <1>1 DEF Present, Gone
  <2>4. \/ lanes'[m] = lanes[m]
        \/ lanes'[m] = "failed"
        \/ lanes'[m] = runjson[m] /\ runjson[m] \in Completed
    BY <1>1, <1>2
  <2>5. lane' # m /\ at' # "start" /\ command' \in LaneCommands
    BY <1>1 DEF Lanes, LaneCommands
  <2>6. lanes'[m] = "pending" => lanes[m] = "pending"
    BY <2>4 DEF Completed
  <2>7. lanes'[m] \in Completed => runjson[m] \in Completed
    BY <2>2, <2>4 DEF Tells, Completed
  <2>. QED BY <1>1, <2>2, <2>3, <2>5, <2>6, <2>7 DEF Tells
<1>4. PlaceTells'
  BY <1>1 DEF PlaceTells, Lanes
<1>5. ManifestTells'
  <2>1. files["plots.tsv"] # "new" /\ runjson["campaign"] # "published"
    BY DEF FilesInv, ManifestTells
  <2>2. files["w3c/report.json"] = "new" => Present(W3cTables)
    BY DEF FilesInv, ManifestTells
  <2>. QED BY <1>1, <2>1, <2>2 DEF ManifestTells, Present
<1>. QED BY <1>3, <1>4, <1>5 DEF FilesInv
-----------------------------------------------------------------------------
(* Which step is of which kind.                                            *)
Idle == UNCHANGED <<command, lane, lanes, files, runjson>> /\ Moves

LEMMA IdleWalks == ASSUME Idle PROVE Walks
<1>1. /\ command' = command /\ lanes' = lanes /\ lane' = lane
      /\ files' = files /\ runjson' = runjson /\ Moves
  BY DEF Idle
<1>. QED BY <1>1 DEF Walks, Same

LEMMA RaiseMoves ==
    ASSUME FilesInv, NEW kind, Raise(kind), at \notin {"withdraw", "abort", "ended"}
    PROVE  Moves /\ UNCHANGED <<command, lane>>
<1>1. /\ UNCHANGED <<command, lane, code>>
      /\ at' = Handler
  BY DEF Raise
<1>2. CASE at \in {"returned", "failed", "finish"}
  <2>1. ~InComparison /\ ~InLane
    BY <1>2 DEF InComparison, InLane, FilesInv, PlaceTells
  <2>2. at' \in {"withdraw", "abort"}
    BY <1>1, <2>1 DEF Handler
  <2>. QED BY <1>1, <1>2, <2>2 DEF Moves
<1>3. CASE at \notin {"returned", "failed", "finish"}
  <2>1. at' \in {"discard", "undo", "withdraw", "abort"} /\ (at' = "undo" => lane \in Lanes)
    BY <1>1 DEF Handler, InLane
  <2>2. at \notin Settled \cup {"finish"}
    BY <1>3 DEF Settled
  <2>. QED BY <1>1, <2>1, <2>2 DEF Moves, Arrivals
<1>. QED BY <1>1, <1>2, <1>3

(* From place to place.                                                    *)
LEMMA GoMoves ==
    ASSUME NEW p, Goto(p), at \notin Settled \cup {"finish"},
           p \notin Arrivals \cup {"undo"},
           lane = "catalog" /\ p \in {"sources", "publish"} =>
             at \in {"validate", "sources", "publish"}
    PROVE  Moves /\ UNCHANGED <<command, lane>>
BY DEF Goto, Moves

LEMMA ExitMoves ==
    ASSUME NEW c, Exit(c), at # "ended", c # "0" \/ command # "paired"
    PROVE  Moves /\ UNCHANGED <<command, lane>>
BY DEF Exit, Moves

LEMMA BuildIdles == ASSUME FilesInv, Build PROVE Idle
<1>1. UNCHANGED <<files, runjson, lanes>>
  BY DEF Build, fileVars, afterBench, afterSuite, campaignVars
<1>2. Moves /\ UNCHANGED <<command, lane>>
  <2>1. CASE BeginBuild
    <3>1. PICK p \in {"prepare", "compile"} : Goto(p)
      BY <2>1 DEF BeginBuild
    <3>. QED BY <2>1, <3>1, GoMoves DEF BeginBuild, Settled, Arrivals
  <2>2. CASE CallPrepare
    BY <2>2 DEF CallPrepare, whereVars, Moves
  <2>3. CASE TakePrepared
    <3>1. at \in {"prepare", "recheck"}
          /\ ((\E p \in {"compile", "manifest", "built"} : Goto(p)) \/ Raise("interrupt"))
      BY <2>3 DEF TakePrepared
    <3>2. CASE Raise("interrupt")
      BY <3>1, <3>2, RaiseMoves
    <3>3. CASE \E p \in {"compile", "manifest", "built"} : Goto(p)
      BY <3>1, <3>3, GoMoves DEF Settled, Arrivals
    <3>. QED BY <3>1, <3>2, <3>3
  <2>4. CASE Compile
    BY <2>4, GoMoves DEF Compile, Settled, Arrivals
  <2>5. CASE CheckInputs
    <3>1. at = "check" /\ \E p \in {"built", "recheck", "manifest"} : Goto(p)
      BY <2>5 DEF CheckInputs
    <3>. QED BY <3>1, GoMoves DEF Settled, Arrivals
  <2>6. CASE WriteManifest
    BY <2>6, GoMoves DEF WriteManifest, Settled, Arrivals
  <2>7. CASE BuildFails
    <3>1. at \in BuildSteps \cup {"prepare", "recheck"} /\ Goto("built")
      BY <2>7 DEF BuildFails
    <3>. QED BY <3>1, GoMoves DEF Settled, Arrivals, BuildSteps
  <2>. QED BY <2>1, <2>2, <2>3, <2>4, <2>5, <2>6, <2>7 DEF Build, BuildStep
<1>. QED BY <1>1, <1>2 DEF Idle

LEMMA BuildsWalk == ASSUME SnapInv, FilesInv, Tools \/ Builds PROVE Walks
<1>1. UNCHANGED <<lanes, files>>
  BY DEF Tools, Builds, Toolchain, StartBuilds, RecordBuild, EndBuilds,
         EndBuildsBadly, fileVars, afterBench, afterSuite, campaignVars
<1>2. CASE Tools
  <2>1. at = "tools" /\ Goto("build") /\ UNCHANGED runjson
    BY <1>2 DEF Tools, Toolchain, fileVars
  <2>2. Moves /\ UNCHANGED <<command, lane>>
    BY <2>1, GoMoves DEF Settled, Arrivals
  <2>. QED BY <1>1, <2>1, <2>2, IdleWalks DEF Idle
<1>3. CASE Builds /\ StartBuilds
  <2>1. /\ at = "start" /\ lane' = "probe" /\ at' = "tools"
        /\ UNCHANGED <<command, code>> /\ Status("implementations", "running")
        /\ command # "paired"
    BY <1>3 DEF StartBuilds
  <2>2. lane \notin Lanes /\ lane' \notin Lanes
    BY <2>1 DEF SnapInv, LanesBeginOnce, Lanes
  <2>3. \A o \in Lanes \cup {"campaign"} : runjson'[o] = runjson[o]
    BY <2>1 DEF Status, SnapInv, Typed, Owners, Lanes
  <2>4. Moves
    BY <2>1 DEF Moves, Settled, Arrivals
  <2>. QED BY <1>1, <2>1, <2>2, <2>3, <2>4 DEF Walks, Same
<1>4. CASE Builds /\ RecordBuild
  <2>1. at = "built" /\ Goto("build") /\ UNCHANGED runjson
    BY <1>4 DEF RecordBuild, fileVars
  <2>2. Moves /\ UNCHANGED <<command, lane>>
    BY <2>1, GoMoves DEF Settled, Arrivals
  <2>. QED BY <1>1, <2>1, <2>2, IdleWalks DEF Idle
<1>5. CASE Builds /\ (EndBuilds \/ EndBuildsBadly)
  <2>1. /\ at \in {"build", "tools"} /\ lane = "probe"
        /\ \E c \in {"0", "1"} : Exit(c)
        /\ \/ UNCHANGED runjson
           \/ \E s : Status("implementations", s)
    BY <1>5 DEF EndBuilds, EndBuildsBadly
  <2>2. Moves /\ UNCHANGED <<command, lane>>
    BY <2>1, ExitMoves DEF FilesInv, PlaceTells
  <2>3. \A o \in Lanes \cup {"campaign"} : runjson'[o] = runjson[o]
    BY <2>1 DEF Status, SnapInv, Typed, Owners, Lanes
  <2>. QED BY <1>1, <2>2, <2>3 DEF Walks, Same
<1>. QED BY <1>2, <1>3, <1>4, <1>5 DEF Builds

LEMMA ComparisonLeaves ==
    ASSUME NEW k \in 0..2, Removed(ComparisonFiles, k)
    PROVE  Same(Names \ ComparisonNames)
<1>1. DOMAIN ComparisonFiles = 1..2 /\ Len(ComparisonFiles) = 2
  BY DEF ComparisonFiles
<1>2. Same(Names \ Listed(ComparisonFiles))
  BY <1>1, WroteSome DEF Removed
<1>. QED BY <1>2, FileGroups

LEMMA ComparisonPublished ==
    ASSUME NEW p, PublishAll(ComparisonFiles, p) \/ PublishCut(ComparisonFiles)
    PROVE  /\ Same(Names \ ComparisonNames)
           /\ UNCHANGED <<command, lane, runjson>>
           /\ \/ Present(ComparisonFiles)' /\ code' = code /\ at' = p
              \/ at' = Handler /\ code' = code
              \/ at' = "ended" /\ code' = "killed"
<1>1. /\ DOMAIN ComparisonFiles = 1..2 /\ Len(ComparisonFiles) = 2
      /\ Listed(ComparisonFiles) = ComparisonNames /\ ComparisonNames \subseteq Names
  BY FileGroups, NamesOfAll, LaneNames DEF ComparisonFiles
<1>2. CASE PublishAll(ComparisonFiles, p)
  <2>1. files' = Wrote(ComparisonFiles, Len(ComparisonFiles), "new")
    BY <1>2 DEF PublishAll
  <2>2. /\ \A n \in Listed(ComparisonFiles) : files'[n] = "new"
        /\ Same(Names \ Listed(ComparisonFiles))
    BY <1>1, <2>1, WroteAll
  <2>. QED BY <1>1, <1>2, <2>2 DEF PublishAll, Goto, Present
<1>3. CASE PublishCut(ComparisonFiles)
  <2>1. /\ Same(Names \ Listed(ComparisonFiles))
        /\ UNCHANGED <<runjson, command, lane>>
        /\ \/ at' = Handler /\ code' = code
           \/ at' = "ended" /\ code' = "killed"
    <3>1. /\ Len(ComparisonFiles) \in Nat
          /\ DOMAIN ComparisonFiles = 1..Len(ComparisonFiles)
          /\ Listed(ComparisonFiles) \subseteq Names
      BY <1>1
    <3>. QED BY <1>3, <3>1, CutFiles
  <2>. QED BY <1>1, <2>1
<1>. QED BY <1>2, <1>3

LEMMA CompareKeepsFiles == ASSUME SnapInv, FilesInv, Compare PROVE FilesInv'
<1>1. UNCHANGED lanes
  BY DEF Compare, afterBench, afterSuite, campaignVars
<1>2. CASE StartComparison \/ RefuseComparison
  <2>1. /\ command = "paired" /\ at = "start"
        /\ \E k \in 0..2 : Removed(ComparisonFiles, k)
        /\ Goto("identify") \/ Exit("1")
        /\ UNCHANGED runjson
    BY <1>2 DEF StartComparison, RefuseComparison
  <2>2. Same(Names \ ComparisonNames)
    BY <2>1, ComparisonLeaves
  <2>3. /\ UNCHANGED <<command, lane>> /\ at' \in {"identify", "ended"}
        /\ code' = code \/ code' = "1"
    BY <2>1 DEF Goto, Exit
  <2>4. code # "0"
    BY <2>1 DEF FilesInv, PlaceTells
  <2>. QED BY <1>1, <2>1, <2>2, <2>3, <2>4, PairedTellsFiles DEF Paired
<1>3. CASE Identify \/ SampleFirst \/ Calibrate \/ Warmup \/ MeasurePair
  <2>1. at \in {"identify", "calibrate", "warmup", "pair"} /\ UNCHANGED fileVars
    BY <1>3 DEF Identify, SampleFirst, Calibrate, Warmup, MeasurePair, Sample
  <2>2. \/ UNCHANGED whereVars
        \/ \E p \in {"calibrate", "warmup", "pair", "compare"} : Goto(p)
        \/ Raise("error")
    BY <1>3 DEF Identify, SampleFirst, Calibrate, Warmup, MeasurePair, Sample, Double
  <2>3. CASE UNCHANGED whereVars
    BY <1>1, <2>1, <2>3, IdleWalks, WalksKeeps DEF Idle, Moves, whereVars, fileVars
  <2>4. CASE Raise("error")
    BY <1>1, <2>1, <2>4, RaiseMoves, IdleWalks, WalksKeeps DEF Idle, fileVars
  <2>5. ASSUME NEW p \in {"calibrate", "warmup", "pair", "compare"}, Goto(p)
        PROVE  FilesInv'
    <3>1. Moves /\ UNCHANGED <<command, lane>>
      BY <2>1, <2>5, GoMoves DEF Settled, Arrivals
    <3>. QED BY <1>1, <2>1, <3>1, IdleWalks, WalksKeeps DEF Idle, fileVars
  <2>. QED BY <2>2, <2>3, <2>4, <2>5
<1>4. CASE PublishComparison \/ PublishComparisonCut
  <2>1. /\ at = "compare"
        /\ lane = "catalog" \/ command = "paired"
        /\ \/ PublishAll(ComparisonFiles, IF command = "paired" THEN "compared"
                                          ELSE "validate")
           \/ PublishCut(ComparisonFiles)
    BY <1>4 DEF PublishComparison, PublishComparisonCut, SnapInv, PlacesOfLanes,
               InComparisonPlaces
  <2>2. /\ Same(Names \ ComparisonNames)
        /\ UNCHANGED <<command, lane, runjson>>
        /\ \/ /\ Present(ComparisonFiles)' /\ code' = code
              /\ at' = IF command = "paired" THEN "compared" ELSE "validate"
           \/ at' = Handler /\ code' = code
           \/ at' = "ended" /\ code' = "killed"
    BY <2>1, ComparisonPublished
  <2>3. code # "0" \/ command # "paired"
    BY <2>1 DEF FilesInv, PlaceTells
  <2>4. Handler = "discard"
    BY <2>1 DEF Handler, InComparison, InLane
  <2>5. CASE command = "paired"
    BY <1>1, <2>1, <2>2, <2>3, <2>4, <2>5, PairedTellsFiles DEF Paired
  <2>6. CASE command # "paired"
    <3>1. /\ lane = "catalog" /\ at = "compare" /\ runjson' = runjson
          /\ lane' = lane /\ command' = command /\ lanes' = lanes
          /\ at' \in {"validate", "discard", "ended"}
          /\ at' = "validate" => Present(ComparisonFiles)'
          /\ code' = code \/ at' = "ended"
      BY <1>1, <2>1, <2>2, <2>4, <2>6
    <3>2. runjson["catalog"] \notin Completed \cup FailedStatuses
      BY <3>1 DEF FilesInv, LaneTells, Tells, Lanes
    <3>3. Same(Names \ NamesFor("catalog"))
      BY <2>2, LaneNames DEF Same, NamesFor
    <3>4. Working("catalog")
      BY <3>1, <3>2, <3>3 DEF Working, Settled
    <3>. QED BY <3>4, WorkingKeeps DEF Lanes
  <2>. QED BY <2>5, <2>6
<1>5. CASE EndComparison
  <2>1. /\ at = "compared" /\ at' = "ended" /\ code' = "0" /\ files' = files
        /\ runjson' = runjson /\ command' = command /\ lane' = lane
    BY <1>5 DEF EndComparison, Exit, fileVars
  <2>2. Present(ComparisonFiles) /\ Present(ComparisonFiles)'
    BY <2>1 DEF FilesInv, PlaceTells, Present
  <2>3. CASE command = "paired"
    BY <1>1, <2>1, <2>2, <2>3, PairedTellsFiles DEF Paired, Same
  <2>4. CASE command # "paired"
    <3>1. Moves
      BY <2>1, <2>4 DEF Moves
    <3>. QED BY <1>1, <2>1, <3>1, IdleWalks, WalksKeeps DEF Idle
  <2>. QED BY <2>3, <2>4
<1>6. CASE Discard
  <2>1. /\ at = "discard" /\ UNCHANGED runjson
        /\ \E k \in 0..2 : Removed(ComparisonFiles, k)
        /\ (\E kind : AfterDiscard(kind)) \/ Killed
    BY <1>6 DEF Discard
  <2>2. Same(Names \ ComparisonNames)
    BY <2>1, ComparisonLeaves
  <2>3. CASE command = "paired"
    <3>1. /\ UNCHANGED <<command, lane>> /\ at' = "ended"
          /\ code' \in {"interrupted", "1", "killed"}
      BY <2>1, <2>3 DEF AfterDiscard, Exit, Killed
    <3>. QED BY <1>1, <2>1, <2>2, <2>3, <3>1, PairedTellsFiles DEF Paired
  <2>4. CASE command # "paired"
    <3>1. /\ lane = "catalog" /\ at = "discard" /\ runjson' = runjson
          /\ lane' = lane /\ command' = command /\ lanes' = lanes
          /\ at' \in {"undo", "ended"} /\ (code' = code \/ at' = "ended")
      BY <1>1, <2>1, <2>4 DEF AfterDiscard, Exit, Killed, SnapInv, PlacesOfLanes
    <3>2. runjson["catalog"] \notin Completed \cup FailedStatuses
      BY <3>1 DEF FilesInv, LaneTells, Tells, Lanes
    <3>3. Same(Names \ NamesFor("catalog"))
      BY <2>2, LaneNames DEF Same, NamesFor
    <3>4. Working("catalog")
      BY <3>1, <3>2, <3>3 DEF Working, Settled
    <3>. QED BY <3>4, WorkingKeeps DEF Lanes
  <2>. QED BY <2>3, <2>4
<1>. QED BY <1>2, <1>3, <1>4, <1>5, <1>6 DEF Compare, BenchStep

LEMMA StatusWorks ==
    ASSUME SnapInv, FilesInv, NEW l \in Lanes, lane = l,
           UNCHANGED <<command, lane, lanes, code, files>>,
           at \notin Settled \cup {"finish", "start"},
           at' \in {"tools", "suite", "identify", "engine"},
           NEW s \in {"running", "measuring", "executing"}, Status(l, s)
    PROVE  FilesInv'
<1>1. /\ runjson'[l] = s
      /\ \A o \in Owners \ {l} : runjson'[o] = runjson[o]
  BY DEF Status, SnapInv, Typed, Owners
<1>2. s \notin Completed \cup FailedStatuses
  BY DEF Completed, FailedStatuses
<1>3. files'["w3c/report.json"] = "new" => Present(W3cTables)'
  BY DEF FilesInv, ManifestTells, Present
<1>4. Working(l)
  BY <1>1, <1>2, <1>3 DEF Working, Same
<1>. QED BY <1>4, WorkingKeeps

LEMMA CompleteTells ==
    ASSUME SnapInv, FilesInv, NEW l \in Lanes, lane = l, at = "complete",
           Goto("returned"), UNCHANGED <<lanes, files>>,
           NEW s \in Completed, Status(l, s)
    PROVE  FilesInv'
<1>1. /\ runjson'[l] = s
      /\ \A o \in Owners \ {l} : runjson'[o] = runjson[o]
  BY DEF Status, SnapInv, Typed, Owners, Completed
<1>2. s \notin FailedStatuses
  BY DEF Completed, FailedStatuses
<1>3. files'["w3c/report.json"] = "new" => Present(W3cTables)'
  BY DEF FilesInv, ManifestTells, Present
<1>4. Present(LaneFiles(l)) /\ Present(LaneFiles(l))'
  BY DEF FilesInv, PlaceTells, Present
<1>5. /\ UNCHANGED <<command, lane, code>> /\ at' = "returned"
  BY DEF Goto
<1>6. Working(l)
  BY <1>1, <1>2, <1>3, <1>4, <1>5 DEF Working, Same, Settled
<1>. QED BY <1>6, WorkingKeeps

LEMMA CatalogPublished ==
    ASSUME SnapInv, FilesInv, UNCHANGED lanes, at = "publish", lane = "catalog",
           PublishAll(CatalogFiles, "complete") \/ PublishCut(CatalogFiles)
    PROVE  FilesInv'
<1>1. /\ DOMAIN CatalogFiles = 1..2 /\ Len(CatalogFiles) = 2
      /\ Listed(CatalogFiles) \subseteq CatalogNames /\ CatalogNames \subseteq Names
  BY FileGroups, NamesOfAll DEF CatalogFiles
<1>2. Handler = "undo"
  BY DEF Handler, InComparison, InLane, Lanes
<1>3. /\ Same(Names \ Listed(CatalogFiles))
      /\ UNCHANGED <<command, lane, runjson>>
      /\ \/ /\ \A n \in Listed(CatalogFiles) : files'[n] = "new"
            /\ at' = "complete" /\ code' = code
         \/ at' = "undo" /\ code' = code
         \/ at' = "ended"
  <2>1. CASE PublishAll(CatalogFiles, "complete")
    <3>1. files' = Wrote(CatalogFiles, Len(CatalogFiles), "new")
      BY <2>1 DEF PublishAll
    <3>2. /\ \A n \in Listed(CatalogFiles) : files'[n] = "new"
          /\ Same(Names \ Listed(CatalogFiles))
      BY <1>1, <3>1, WroteAll
    <3>. QED BY <2>1, <3>2 DEF PublishAll, Goto
  <2>2. CASE PublishCut(CatalogFiles)
    <3>1. /\ Len(CatalogFiles) \in Nat /\ DOMAIN CatalogFiles = 1..Len(CatalogFiles)
          /\ Listed(CatalogFiles) \subseteq Names
      BY <1>1
    <3>2. /\ Same(Names \ Listed(CatalogFiles))
          /\ UNCHANGED <<runjson, command, lane>>
          /\ \/ at' = Handler /\ code' = code
             \/ at' = "ended" /\ code' = "killed"
      BY <2>2, <3>1, CutFiles
    <3>. QED BY <1>2, <3>2
  <2>. QED BY <2>1, <2>2
<1>4. at' = "complete" => Present(LaneFiles("catalog"))'
  <2>1. SUFFICES ASSUME at' = "complete", NEW n \in CatalogNames
                 PROVE  files'[n] = "new"
    BY FileGroups DEF Present
  <2>2. CASE n \in Listed(CatalogFiles)
    BY <1>3, <2>1, <2>2
  <2>3. CASE n \notin Listed(CatalogFiles)
    <3>1. n \in ComparisonNames /\ files'[n] = files[n]
      BY <1>1, <1>3, <2>3, FileGroups DEF Same
    <3>2. files[n] = "new"
      BY <3>1, FileGroups DEF FilesInv, PlaceTells, Present
    <3>. QED BY <3>1, <3>2
  <2>. QED BY <2>2, <2>3
<1>5. Same(Names \ NamesFor("catalog"))
  BY <1>1, <1>3 DEF Same, NamesFor
<1>6. runjson["catalog"] \notin Completed \cup FailedStatuses
  BY DEF FilesInv, LaneTells, Tells, Lanes
<1>7. Working("catalog")
  BY <1>3, <1>4, <1>5, <1>6 DEF Working, Settled
<1>. QED BY <1>7, WorkingKeeps DEF Lanes

LEMMA UndoTells ==
    ASSUME SnapInv, FilesInv, UNCHANGED lanes, Undo \/ UndoCut PROVE FilesInv'
<1>1. at = "undo" /\ lane \in Lanes
  BY DEF Undo, UndoCut, FilesInv, PlaceTells
<1>2. /\ UNCHANGED <<command, lane>> /\ at' \in {"withdraw", "failed", "ended"}
      /\ code' = code \/ at' = "ended"
  BY DEF Undo, UndoCut, AfterUndo, Exit, Killed
<1>3. /\ DOMAIN LaneFiles(lane) = 1..Len(LaneFiles(lane)) /\ Len(LaneFiles(lane)) \in {4, 8}
      /\ lane = "w3c" => LaneFiles(lane)[1] = "w3c/report.json"
  <2>1. CASE lane = "catalog"
    <3>1. /\ LaneFiles(lane) = CatalogFiles \o ComparisonFiles /\ lane # "w3c"
      BY <2>1 DEF LaneFiles
    <3>. QED BY <3>1 DEF CatalogFiles, ComparisonFiles
  <2>2. CASE lane = "w3c"
    <3>1. LaneFiles(lane) =
            <<"w3c/report.json", "w3c/summary.md", "w3c/comparison.tsv",
              "w3c/suite-manifest.json">> \o ConformanceFiles
      BY <2>2 DEF LaneFiles
    <3>. QED BY <3>1 DEF ConformanceFiles
  <2>. QED BY <1>1, <2>1, <2>2 DEF Lanes
<1>4. Listed(LaneFiles(lane)) = NamesFor(lane) /\ NamesFor(lane) \subseteq Names
  BY <1>1, LaneNames
<1>5. PICK k \in 0..Len(LaneFiles(lane)) : Removed(LaneFiles(lane), k)
  BY <1>3 DEF Undo, UndoCut
<1>6. /\ Same(Names \ NamesFor(lane)) /\ (k = 0 => Same(Names))
      /\ \A i \in 1..k : LaneFiles(lane)[i] \in Names => files'[LaneFiles(lane)[i]] = "absent"
  <2>1. 1..k \subseteq 1..Len(LaneFiles(lane))
    BY <1>3, <1>5
  <2>. QED BY <1>3, <1>4, <1>5, <2>1, WroteSome DEF Removed
<1>7. files'["w3c/report.json"] = "new" /\ lane = "w3c" => Present(W3cTables)'
  <2>1. SUFFICES ASSUME files'["w3c/report.json"] = "new", lane = "w3c"
                 PROVE  Present(W3cTables)'
    OBVIOUS
  <2>2. k = 0
    BY <1>3, <1>5, <1>6, <2>1, LaneNames, NamesOfAll
  <2>3. Same(W3cNames) /\ "w3c/report.json" \in W3cNames
    BY <1>6, <2>2, LaneNames, NamesOfAll DEF Same
  <2>4. Present(W3cTables)
    BY <2>1, <2>3 DEF FilesInv, ManifestTells, Same
  <2>. QED BY <2>3, <2>4, FileGroups DEF Present, Same
<1>8. runjson[lane] \notin Completed \cup FailedStatuses
  BY <1>1 DEF FilesInv, LaneTells, Tells
<1>9. CASE UNCHANGED runjson
  <2>1. Working(lane)
    BY <1>1, <1>2, <1>6, <1>7, <1>8, <1>9 DEF Working, Settled
  <2>. QED BY <1>1, <2>1, WorkingKeeps
<1>10. CASE Undo
  <2>1. /\ files' = Wrote(LaneFiles(lane), Len(LaneFiles(lane)), "absent")
        /\ runjson' = [runjson EXCEPT ![lane] = FailedStatus]
    BY <1>10 DEF Undo, Removed, Status
  <2>2. \A n \in Listed(LaneFiles(lane)) : files'[n] = "absent"
    BY <1>3, <1>4, <2>1, WroteAll
  <2>3. Gone(LaneFiles(lane))'
    BY <1>1, <1>2, <2>2 DEF Gone
  <2>4. runjson'[lane] \in FailedStatuses
        /\ \A o \in Owners \ {lane} : runjson'[o] = runjson[o]
    BY <1>1, <2>1 DEF SnapInv, Typed, Owners, FailedStatus, FailedStatuses
  <2>5. runjson'[lane] \notin Completed
    BY <2>4 DEF Completed, FailedStatuses
  <2>6. Working(lane)
    BY <1>1, <1>2, <1>6, <1>7, <2>3, <2>4, <2>5 DEF Working, Settled
  <2>. QED BY <1>1, <2>6, WorkingKeeps
<1>. QED BY <1>9, <1>10 DEF UndoCut

LEMMA StartLaneTells ==
    ASSUME SnapInv, FilesInv, UNCHANGED lanes, StartLane PROVE FilesInv'
<1>1. /\ command \in Lanes /\ at = "start" /\ lane' = command /\ at' = "begin"
      /\ command' = command /\ code' = code /\ files' = files /\ runjson' = runjson
  BY DEF StartLane, fileVars
<1>2. LaneTells'
  <2>1. SUFFICES ASSUME NEW m \in Lanes PROVE Tells(m)'
    BY DEF LaneTells
  <2>2. Tells(m)
    BY DEF FilesInv, LaneTells
  <2>3. runjson[m] = "absent" /\ command \in LaneCommands /\ command # "campaign"
    BY <1>1, <2>2 DEF Tells, Lanes, LaneCommands
  <2>. QED BY <1>1, <2>2, <2>3 DEF Tells, Completed, FailedStatuses
<1>3. PlaceTells'
  BY <1>1 DEF FilesInv, PlaceTells, Lanes
<1>4. ManifestTells'
  <2>1. files["plots.tsv"] # "new" /\ runjson["campaign"] # "published"
    BY <1>1 DEF FilesInv, ManifestTells
  <2>2. /\ files["w3c/report.json"] = "new" => Present(W3cTables)
        /\ command # "conformance"
    BY <1>1 DEF FilesInv, ManifestTells, Lanes
  <2>. QED BY <1>1, <2>1, <2>2 DEF ManifestTells, Present
<1>. QED BY <1>2, <1>3, <1>4 DEF FilesInv

LEMMA CatalogOrLaneKeepsFiles ==
    ASSUME SnapInv, FilesInv, CatalogOrLane PROVE FilesInv'
<1>1. UNCHANGED lanes
  BY DEF CatalogOrLane, afterBench, afterSuite, campaignVars
<1>2. ASSUME NEW l \in Lanes, NEW p \in {"tools", "suite"}, BeginLane(l, p)
      PROVE  FilesInv'
  <2>1. /\ at = "begin" /\ lane = l /\ Status(l, "running") /\ files' = files
        /\ at' = p /\ UNCHANGED <<command, lane, code>>
    BY <1>2 DEF BeginLane, Goto
  <2>2. at \notin Settled \cup {"finish", "start"}
    BY <2>1 DEF Settled
  <2>. QED BY <1>1, <2>1, <2>2, StatusWorks
<1>3. CASE ValidateBuild \/ RunControls \/ RecordQualified \/ RecordFailed
  <2>1. /\ at \in {"built", "controls", "qualify"} /\ UNCHANGED fileVars
        /\ \/ UNCHANGED whereVars
           \/ \E p \in {"controls", "qualify", "build"} : Goto(p)
    BY <1>3 DEF ValidateBuild, RunControls, RecordQualified, RecordFailed
  <2>2. CASE UNCHANGED whereVars
    BY <1>1, <2>1, <2>2, IdleWalks, WalksKeeps DEF Idle, Moves, whereVars, fileVars
  <2>3. ASSUME NEW p \in {"controls", "qualify", "build"}, Goto(p) PROVE FilesInv'
    <3>1. Moves /\ UNCHANGED <<command, lane>>
      BY <2>1, <2>3, GoMoves DEF Settled, Arrivals
    <3>. QED BY <1>1, <2>1, <3>1, IdleWalks, WalksKeeps DEF Idle, fileVars
  <2>. QED BY <2>1, <2>2, <2>3
<1>4. CASE CatalogGate \/ ValidateComparison \/ ValidateSources
           \/ (Measure /\ UNCHANGED runjson)
  <2>1. /\ at \in {"build", "validate", "sources", "measure"}
        /\ UNCHANGED <<files, runjson>>
        /\ \/ \E kind : Raise(kind)
           \/ Goto("measure")
           \/ at = "validate" /\ Goto("sources")
           \/ at = "sources" /\ Goto("publish")
           \/ Goto("identify")
    BY <1>4 DEF CatalogGate, ValidateComparison, ValidateSources, Measure, fileVars
  <2>2. Moves /\ UNCHANGED <<command, lane>>
    BY <2>1, GoMoves, RaiseMoves DEF Settled, Arrivals
  <2>. QED BY <1>1, <2>1, <2>2, IdleWalks, WalksKeeps DEF Idle
<1>5. CASE Measure /\ ~UNCHANGED runjson
  <2>1. /\ at = "measure" /\ Status("catalog", "measuring") /\ files' = files
        /\ at' = "identify" /\ UNCHANGED <<command, lane, code>>
    BY <1>5 DEF Measure, Goto
  <2>2. lane = "catalog" /\ at \notin Settled \cup {"finish", "start"}
    BY <2>1 DEF SnapInv, PlacesOfLanes, Settled
  <2>. QED BY <1>1, <2>1, <2>2, StatusWorks DEF Lanes
<1>6. CASE PublishCatalog
  BY <1>1, <1>6, CatalogPublished DEF PublishCatalog
<1>7. CASE CompleteCatalog
  BY <1>1, <1>7, CompleteTells DEF CompleteCatalog, Lanes, Completed
<1>8. CASE Undo \/ UndoCut
  BY <1>1, <1>8, UndoTells
<1>9. CASE StartLane
  BY <1>1, <1>9, StartLaneTells
<1>10. CASE EndLane
  <2>1. command \in Lanes /\ at = "returned" /\ UNCHANGED fileVars
        /\ \E c : Exit(c)
    BY <1>10 DEF EndLane
  <2>2. Moves /\ UNCHANGED <<command, lane>>
    BY <2>1, ExitMoves DEF Lanes
  <2>. QED BY <1>1, <2>1, <2>2, IdleWalks, WalksKeeps DEF Idle, fileVars
<1>. QED BY <1>2, <1>3, <1>4, <1>5, <1>6, <1>7, <1>8, <1>9, <1>10
         DEF CatalogOrLane, CatalogStep, Lanes

LEMMA ConformanceWalks ==
    ASSUME SnapInv, FilesInv, Conformance PROVE Walks
<1>1. UNCHANGED lanes /\ command = "conformance"
  BY DEF Conformance, afterSuite, campaignVars, ConformanceStep, StartConformance,
         Setup, RunConformanceCase, SetupError, Judge, WriteReports, EndConformance
<1>2. CASE StartConformance
  <2>1. /\ at = "start" /\ UNCHANGED runjson
        /\ \E k \in 0..4 : Removed(ConformanceFiles, k)
        /\ Goto("setup") \/ Exit("1")
    BY <1>2 DEF StartConformance
  <2>2. DOMAIN ConformanceFiles = 1..Len(ConformanceFiles) /\ Len(ConformanceFiles) = 4
    BY DEF ConformanceFiles
  <2>3. Same(Names \ ConformanceNames)
    <3>1. PICK k \in 0..4 : Removed(ConformanceFiles, k)
      BY <2>1
    <3>2. 1..k \subseteq 1..Len(ConformanceFiles)
      BY <2>2
    <3>. QED BY <2>2, <3>1, <3>2, WroteSome, FileGroups DEF Removed
  <2>4. Moves /\ UNCHANGED <<command, lane>>
    BY <1>1, <2>1, GoMoves, ExitMoves DEF Settled, Arrivals
  <2>. QED BY <1>1, <2>1, <2>3, <2>4 DEF Walks, Same
<1>3. CASE Setup \/ RunConformanceCase \/ SetupError \/ Judge
  <2>1. /\ at \in {"setup", "case", "judge"} /\ UNCHANGED fileVars
        /\ \/ UNCHANGED whereVars
           \/ \E p \in {"case", "judge", "reports"} : Goto(p)
    BY <1>3 DEF Setup, RunConformanceCase, SetupError, Judge
  <2>2. Moves /\ UNCHANGED <<command, lane>>
    <3>1. CASE UNCHANGED whereVars
      BY <3>1 DEF whereVars, Moves
    <3>2. CASE \E p \in {"case", "judge", "reports"} : Goto(p)
      BY <2>1, <3>2, GoMoves DEF Settled, Arrivals
    <3>. QED BY <2>1, <3>1, <3>2
  <2>. QED BY <1>1, <2>1, <2>2, IdleWalks DEF Idle, fileVars
<1>4. CASE WriteReports
  <2>1. /\ at = "reports"
        /\ PublishAll(ConformanceFiles, "reported") \/ PublishCut(ConformanceFiles)
    BY <1>4 DEF WriteReports
  <2>2. /\ Same(Names \ ConformanceNames) /\ UNCHANGED <<command, lane, runjson>>
        /\ Moves
    <3>1. /\ DOMAIN ConformanceFiles = 1..Len(ConformanceFiles)
          /\ Len(ConformanceFiles) \in Nat
          /\ Listed(ConformanceFiles) = ConformanceNames
          /\ Listed(ConformanceFiles) \subseteq Names
      BY FileGroups, FourFiles DEF ConformanceFiles
    <3>2. CASE PublishAll(ConformanceFiles, "reported")
      <4>1. files' = Wrote(ConformanceFiles, Len(ConformanceFiles), "new")
            /\ Goto("reported") /\ UNCHANGED runjson
        BY <3>2 DEF PublishAll
      <4>2. Same(Names \ Listed(ConformanceFiles))
        BY <3>1, <4>1, WroteAll
      <4>. QED BY <2>1, <3>1, <4>1, <4>2, GoMoves DEF Settled, Arrivals
    <3>3. CASE PublishCut(ConformanceFiles)
      <4>1. /\ Same(Names \ Listed(ConformanceFiles)) /\ UNCHANGED <<runjson, command, lane>>
        BY <3>1, <3>3, CutFiles
      <4>2. Moves
        BY <1>1, <2>1, <3>3, RaiseMoves, ExitMoves DEF PublishCut, Killed
      <4>. QED BY <3>1, <4>1, <4>2
    <3>. QED BY <2>1, <3>2, <3>3
  <2>. QED BY <1>1, <2>2 DEF Walks, Same
<1>5. CASE EndConformance
  <2>1. at = "reported" /\ UNCHANGED fileVars /\ \E c : Exit(c)
    BY <1>5 DEF EndConformance
  <2>2. Moves /\ UNCHANGED <<command, lane>>
    BY <1>1, <2>1, ExitMoves
  <2>. QED BY <1>1, <2>1, <2>2, IdleWalks DEF Idle, fileVars
<1>. QED BY <1>2, <1>3, <1>4, <1>5 DEF Conformance, ConformanceStep

LEMMA EightFiles ==
    /\ DOMAIN W3cFiles = 1..8 /\ Len(W3cFiles) = 8
    /\ \A i \in 1..8 : W3cFiles[i] = "w3c/report.json" => i = 7
    /\ \A n \in Listed(W3cTables) :
        n # W3cFiles[8] /\ \E i \in 1..7 : W3cFiles[i] = n
<1>1. /\ DOMAIN W3cFiles = 1..8 /\ Len(W3cFiles) = 8
      /\ W3cFiles[1] = "conformance/junit.xml"
      /\ W3cFiles[2] = "conformance/results.tsv"
      /\ W3cFiles[3] = "conformance/summary.json"
      /\ W3cFiles[4] = "conformance/summary.md"
      /\ W3cFiles[5] = "w3c/comparison.tsv"
      /\ W3cFiles[6] = "w3c/suite-manifest.json"
      /\ W3cFiles[7] = "w3c/report.json"
      /\ W3cFiles[8] = "w3c/summary.md"
  BY DEF W3cFiles, ConformanceFiles
<1>2. \A i \in 1..8 : W3cFiles[i] = "w3c/report.json" => i = 7
  BY <1>1
<1>3. Listed(W3cTables) = {W3cFiles[i] : i \in 1..7}
  <2>1. W3cTables = SubSeq(W3cFiles, 1, 7)
    BY <1>1 DEF W3cTables
  <2>2. DOMAIN W3cTables = 1..7 /\ \A k \in 1..7 : W3cTables[k] = W3cFiles[k]
    BY <1>1, <2>1
  <2>. QED BY <2>2 DEF Listed
<1>. QED BY <1>1, <1>2, <1>3

LEMMA W3cPublished ==
    ASSUME SnapInv, FilesInv, UNCHANGED lanes, at = "publish", lane = "w3c",
           PublishAll(W3cFiles, "complete") \/ PublishCut(W3cFiles)
    PROVE  FilesInv'
<1>1. /\ DOMAIN W3cFiles = 1..Len(W3cFiles) /\ Len(W3cFiles) \in Nat
      /\ Listed(W3cFiles) = W3cNames /\ W3cNames \subseteq Names
  BY FileGroups, NamesOfAll, EightFiles
<1>2. Handler = "undo"
  BY DEF Handler, InComparison, InLane, Lanes
<1>3. /\ Same(Names \ W3cNames)
      /\ UNCHANGED <<command, lane, runjson>>
      /\ \/ /\ \A n \in W3cNames : files'[n] = "new"
            /\ at' = "complete" /\ code' = code
         \/ at' = "undo" /\ code' = code
         \/ at' = "ended"
  <2>1. CASE PublishAll(W3cFiles, "complete")
    <3>1. files' = Wrote(W3cFiles, Len(W3cFiles), "new")
      BY <2>1 DEF PublishAll
    <3>2. /\ \A n \in Listed(W3cFiles) : files'[n] = "new"
          /\ Same(Names \ Listed(W3cFiles))
      BY <1>1, <3>1, WroteAll
    <3>. QED BY <1>1, <2>1, <3>2 DEF PublishAll, Goto
  <2>2. CASE PublishCut(W3cFiles)
    <3>1. /\ Same(Names \ Listed(W3cFiles))
          /\ UNCHANGED <<runjson, command, lane>>
          /\ \/ at' = Handler /\ code' = code
             \/ at' = "ended" /\ code' = "killed"
      BY <1>1, <2>2, CutFiles
    <3>. QED BY <1>1, <1>2, <3>1
  <2>. QED BY <2>1, <2>2
<1>4. at' = "complete" => Present(LaneFiles("w3c"))'
  BY <1>3, FileGroups DEF Present
<1>5. files["w3c/report.json"] # "new"
  BY DEF SnapInv, ReportsHold, ReportOf, LatePlaces, Lanes
<1>6. files'["w3c/report.json"] = "new" => Present(W3cTables)'
  <2>1. CASE PublishAll(W3cFiles, "complete")
    <3>1. files' = Wrote(W3cFiles, Len(W3cFiles), "new")
      BY <2>1 DEF PublishAll
    <3>2. \A n \in Listed(W3cFiles) : files'[n] = "new"
      BY <1>1, <3>1, WroteAll
    <3>. QED BY <1>1, <3>2, FileGroups DEF Present
  <2>2. CASE PublishCut(W3cFiles)
    <3>1. PICK k \in 0..7 : CutAfter(W3cFiles, k)
      <4>1. \E k \in 0..(Len(W3cFiles) - 1) : CutAfter(W3cFiles, k)
        BY <1>1, <2>2, CutFiles
      <4>. QED BY <4>1, EightFiles
    <3>2. SUFFICES ASSUME files'["w3c/report.json"] = "new" PROVE Present(W3cTables)'
      OBVIOUS
    <3>3. PICK i \in 1..k : W3cFiles[i] = "w3c/report.json"
      <4>1. "w3c/report.json" \in Names
        BY <1>1, LaneNames
      <4>. QED BY <1>5, <3>1, <3>2, <4>1 DEF CutAfter
    <3>4. k = 7
      BY <3>3, EightFiles
    <3>5. SUFFICES ASSUME NEW n \in Listed(W3cTables) PROVE files'[n] = "new"
      BY DEF Present
    <3>6. n \in Names /\ n # W3cFiles[8] /\ \E j \in 1..7 : W3cFiles[j] = n
      BY <1>1, FileGroups, EightFiles
    <3>. QED BY <3>1, <3>4, <3>6 DEF CutAfter
  <2>. QED BY <2>1, <2>2
<1>7. Same(Names \ NamesFor("w3c"))
  BY <1>3 DEF NamesFor
<1>8. runjson["w3c"] \notin Completed \cup FailedStatuses
  BY DEF FilesInv, LaneTells, Tells, Lanes
<1>9. Working("w3c")
  BY <1>3, <1>4, <1>6, <1>7, <1>8 DEF Working, Settled
<1>. QED BY <1>9, WorkingKeeps DEF Lanes

LEMMA W3cKeepsFiles == ASSUME SnapInv, FilesInv, W3c PROVE FilesInv'
<1>1. UNCHANGED lanes
  BY DEF W3c, afterSuite, campaignVars
<1>2. CASE PrepareSuite \/ RecordExecuted \/ BeginEngine \/ CheckInput \/ RunW3cCase
           \/ RecheckInput \/ CheckMatrix \/ CheckW3cSources \/ CheckW3cArtifacts
  <2>1. /\ at \in {"suite", "qualify", "engine", "input", "run", "recheck input",
                   "matrix", "sources", "artifacts"}
        /\ UNCHANGED fileVars
        /\ \/ Raise("error")
           \/ \E p \in {"tools", "build", "input", "run", "recheck input", "matrix",
                        "engine", "artifacts"} : Goto(p)
           \/ at = "matrix" /\ Goto("sources")
           \/ at = "artifacts" /\ Goto("publish")
    BY <1>2 DEF PrepareSuite, RecordExecuted, BeginEngine, CheckInput, RunW3cCase,
                RecheckInput, CheckMatrix, CheckW3cSources, CheckW3cArtifacts
  <2>2. at \in {"matrix", "artifacts"} => lane # "catalog"
    BY DEF SnapInv, PlacesOfLanes
  <2>3. Moves /\ UNCHANGED <<command, lane>>
    <3>1. CASE Raise("error")
      BY <2>1, <3>1, RaiseMoves
    <3>2. CASE \E p \in {"tools", "build", "input", "run", "recheck input", "matrix",
                         "engine", "artifacts"} : Goto(p)
      BY <2>1, <3>2, GoMoves DEF Settled, Arrivals
    <3>3. CASE \/ at = "matrix" /\ Goto("sources")
               \/ at = "artifacts" /\ Goto("publish")
      BY <2>2, <3>3, GoMoves DEF Settled, Arrivals
    <3>. QED BY <2>1, <3>1, <3>2, <3>3
  <2>. QED BY <1>1, <2>1, <2>3, IdleWalks, WalksKeeps DEF Idle, fileVars
<1>3. CASE W3cGate
  <2>1. /\ at = "build" /\ lane = "w3c" /\ files' = files
        /\ \/ Raise("error") /\ UNCHANGED runjson
           \/ Status("w3c", "executing") /\ Goto("engine")
    BY <1>3 DEF W3cGate
  <2>2. CASE Raise("error") /\ UNCHANGED runjson
    <3>1. Moves /\ UNCHANGED <<command, lane>>
      BY <2>1, <2>2, RaiseMoves
    <3>. QED BY <1>1, <2>1, <2>2, <3>1, IdleWalks, WalksKeeps DEF Idle
  <2>3. CASE Status("w3c", "executing") /\ Goto("engine")
    <3>1. at' = "engine" /\ UNCHANGED <<command, lane, code>>
          /\ at \notin Settled \cup {"finish", "start"}
      BY <2>1, <2>3 DEF Goto, Settled
    <3>. QED BY <1>1, <2>1, <2>3, <3>1, StatusWorks DEF Lanes
  <2>. QED BY <2>1, <2>2, <2>3
<1>4. CASE PublishW3c
  BY <1>1, <1>4, W3cPublished DEF PublishW3c
<1>5. CASE CompleteW3c
  BY <1>1, <1>5, CompleteTells DEF CompleteW3c, W3cStatus, Lanes, Completed
<1>. QED BY <1>2, <1>3, <1>4, <1>5 DEF W3c, W3cStep

LEMMA RegressionWalks == ASSUME SnapInv, FilesInv, Regression PROVE Walks
<1>1. UNCHANGED lanes
  BY DEF Regression, campaignVars
<1>2. CASE StartRegression
  <2>1. /\ at = "start" /\ lane' = "regression" /\ at' = "tools" /\ files' = files
        /\ UNCHANGED <<command, code>> /\ Status("regression", "running")
        /\ command # "paired"
    BY <1>2 DEF StartRegression
  <2>2. lane \notin Lanes /\ lane' \notin Lanes
    BY <2>1 DEF SnapInv, LanesBeginOnce, Lanes
  <2>3. \A o \in Lanes \cup {"campaign"} : runjson'[o] = runjson[o]
    BY <2>1 DEF Status, SnapInv, Typed, Owners, Lanes
  <2>4. Moves
    BY <2>1 DEF Moves, Settled, Arrivals
  <2>. QED BY <1>1, <2>1, <2>2, <2>3, <2>4 DEF Walks, Same
<1>3. CASE SkipFailed \/ TraceCases \/ RunLifecycle \/ EndTraces
  <2>1. /\ at \in {"built", "trace", "lifecycle", "build"} /\ UNCHANGED fileVars
        /\ \/ Raise("error")
           \/ \E p \in {"build", "trace", "lifecycle", "reports"} : Goto(p)
    BY <1>3 DEF SkipFailed, TraceCases, RunLifecycle, EndTraces
  <2>2. Moves /\ UNCHANGED <<command, lane>>
    <3>1. CASE Raise("error")
      BY <2>1, <3>1, RaiseMoves
    <3>2. CASE \E p \in {"build", "trace", "lifecycle", "reports"} : Goto(p)
      BY <2>1, <3>2, GoMoves DEF Settled, Arrivals
    <3>. QED BY <2>1, <3>1, <3>2
  <2>. QED BY <1>1, <2>1, <2>2, IdleWalks DEF Idle, fileVars
<1>4. CASE PublishRegression
  <2>1. /\ at = "reports" /\ command = "regression"
        /\ PublishAll(RegressionFiles, "reported") \/ PublishCut(RegressionFiles)
    BY <1>4 DEF PublishRegression
  <2>2. /\ Same(Names \ RegressionNames) /\ UNCHANGED <<command, lane, runjson>>
        /\ Moves
    <3>1. /\ DOMAIN RegressionFiles = 1..Len(RegressionFiles)
          /\ Len(RegressionFiles) \in Nat
          /\ Listed(RegressionFiles) = RegressionNames
          /\ Listed(RegressionFiles) \subseteq Names
      BY FileGroups, NamesOfAll DEF RegressionFiles
    <3>2. CASE PublishAll(RegressionFiles, "reported")
      <4>1. files' = Wrote(RegressionFiles, Len(RegressionFiles), "new")
            /\ Goto("reported") /\ UNCHANGED runjson
        BY <3>2 DEF PublishAll
      <4>2. Same(Names \ Listed(RegressionFiles))
        BY <3>1, <4>1, WroteAll
      <4>. QED BY <2>1, <3>1, <4>1, <4>2, GoMoves DEF Settled, Arrivals
    <3>3. CASE PublishCut(RegressionFiles)
      <4>1. /\ Same(Names \ Listed(RegressionFiles)) /\ UNCHANGED <<runjson, command, lane>>
        BY <3>1, <3>3, CutFiles
      <4>2. Moves
        BY <2>1, <3>3, RaiseMoves, ExitMoves DEF PublishCut, Killed
      <4>. QED BY <3>1, <4>1, <4>2
    <3>. QED BY <2>1, <3>2, <3>3
  <2>3. Same(ConformanceNames)
    BY <2>2, LaneNames, NamesOfAll DEF Same
  <2>. QED BY <1>1, <2>2, <2>3 DEF Walks, Same
<1>5. CASE EndRegression \/ AbortRegression
  <2>1. /\ at \in {"reported", "abort"} /\ files' = files /\ command = "regression"
        /\ \E c : Exit(c)
        /\ UNCHANGED runjson \/ \E s : Status("regression", s)
    BY <1>5 DEF EndRegression, AbortRegression
  <2>2. Moves /\ UNCHANGED <<command, lane>>
    BY <2>1, ExitMoves
  <2>3. \A o \in Lanes \cup {"campaign"} : runjson'[o] = runjson[o]
    BY <2>1 DEF Status, SnapInv, Typed, Owners, Lanes
  <2>. QED BY <1>1, <2>1, <2>2, <2>3 DEF Walks, Same
<1>. QED BY <1>2, <1>3, <1>4, <1>5 DEF Regression, RegressionStep

LEMMA StartCampaignTells ==
    ASSUME SnapInv, FilesInv, StartCampaign PROVE FilesInv'
<1>1. /\ command = "campaign" /\ at = "start" /\ files' = files /\ lanes' = lanes
      /\ \/ Goto("lane") /\ Status("campaign", "running")
         \/ Exit("2") /\ UNCHANGED runjson
  BY DEF StartCampaign, campaignVars
<1>2. CASE Exit("2") /\ UNCHANGED runjson
  <2>1. Moves /\ UNCHANGED <<command, lane>>
    BY <1>1, <1>2, ExitMoves
  <2>. QED BY <1>1, <1>2, <2>1, IdleWalks, WalksKeeps DEF Idle
<1>3. CASE Goto("lane") /\ Status("campaign", "running")
  <2>1. /\ at' = "lane" /\ command' = command /\ lane' = lane /\ code' = code
        /\ \A l \in Lanes : runjson'[l] = runjson[l]
        /\ runjson'["campaign"] = "running"
    BY <1>3 DEF Goto, Status, SnapInv, Typed, Owners, Lanes
  <2>2. lane \notin Lanes
    BY <1>1 DEF SnapInv, LanesBeginOnce, Lanes
  <2>3. LaneTells'
    <3>1. SUFFICES ASSUME NEW m \in Lanes PROVE Tells(m)'
      BY DEF LaneTells
    <3>2. Tells(m)
      BY DEF FilesInv, LaneTells
    <3>3. runjson[m] = "absent"
      BY <1>1, <3>2 DEF Tells
    <3>. QED BY <1>1, <2>1, <2>2, <3>2, <3>3 DEF Tells, Completed, FailedStatuses
  <2>4. PlaceTells'
    BY <1>1, <2>1, <2>2 DEF PlaceTells, Lanes
  <2>5. ManifestTells'
    <3>1. files["plots.tsv"] # "new"
      BY <1>1 DEF FilesInv, ManifestTells
    <3>2. files["w3c/report.json"] = "new" => Present(W3cTables)
      BY DEF FilesInv, ManifestTells
    <3>. QED BY <1>1, <2>1, <3>1, <3>2 DEF ManifestTells, Present
  <2>. QED BY <2>3, <2>4, <2>5 DEF FilesInv
<1>. QED BY <1>1, <1>2, <1>3

LEMMA PublishSummaryTells ==
    ASSUME SnapInv, FilesInv, PublishSummary PROVE FilesInv'
<1>1. /\ at = "summary" /\ lanes' = lanes
      /\ PublishAll(SummaryFiles, "plots") \/ PublishCut(SummaryFiles)
  BY DEF PublishSummary
<1>2. /\ lane \notin Lanes /\ command = "campaign"
      /\ files["plots.tsv"] # "new" /\ runjson["campaign"] # "published"
  BY <1>1 DEF FilesInv, PlaceTells, ManifestTells
<1>3. /\ DOMAIN SummaryFiles = 1..Len(SummaryFiles)
      /\ Len(SummaryFiles) \in Nat
      /\ Listed(SummaryFiles) = SummaryNames /\ SummaryNames \subseteq Names
  BY FileGroups, NamesOfAll DEF SummaryFiles
<1>4. Handler = "withdraw"
  BY <1>1, <1>2 DEF Handler, InComparison, InLane
<1>5. /\ Same(Names \ SummaryNames) /\ UNCHANGED <<command, lane, runjson>>
      /\ \/ at' = "plots" /\ Present(SummaryFiles)'
         \/ at' \in {"withdraw", "ended"}
  <2>1. CASE PublishAll(SummaryFiles, "plots")
    <3>1. /\ files' = Wrote(SummaryFiles, Len(SummaryFiles), "new")
          /\ at' = "plots" /\ UNCHANGED <<command, lane, runjson>>
      BY <2>1 DEF PublishAll, Goto
    <3>2. /\ \A n \in Listed(SummaryFiles) : files'[n] = "new"
          /\ Same(Names \ Listed(SummaryFiles))
      BY <1>3, <3>1, WroteAll
    <3>. QED BY <1>3, <3>1, <3>2 DEF Present
  <2>2. CASE PublishCut(SummaryFiles)
    <3>1. /\ Same(Names \ Listed(SummaryFiles))
          /\ UNCHANGED <<runjson, command, lane>>
          /\ \/ at' = Handler /\ code' = code
             \/ at' = "ended" /\ code' = "killed"
      BY <1>3, <2>2, CutFiles
    <3>. QED BY <1>3, <1>4, <3>1
  <2>. QED BY <1>1, <2>1, <2>2
<1>6. files'["plots.tsv"] # "new" /\ Same(Names \ (PlotSet \cup SummaryNames))
  BY <1>2, <1>5, LaneNames, NamesOfAll DEF Same
<1>7. Publishing
  BY <1>1, <1>2, <1>5, <1>6 DEF Publishing
<1>. QED BY <1>7, PublishingKeeps

LEMMA PublishPlotsTells ==
    ASSUME SnapInv, FilesInv, PublishPlots PROVE FilesInv'
<1>1. /\ at = "plots" /\ lanes' = lanes
      /\ \/ Raise("error") /\ UNCHANGED fileVars
         \/ PublishAll(PlotFiles, "finish") \/ PublishCut(PlotFiles)
  BY DEF PublishPlots, campaignVars
<1>2. /\ lane \notin Lanes /\ command = "campaign" /\ Present(SummaryFiles)
      /\ files["plots.tsv"] # "new" /\ runjson["campaign"] # "published"
  BY <1>1 DEF FilesInv, PlaceTells, ManifestTells
<1>3. Handler = "withdraw"
  BY <1>1, <1>2 DEF Handler, InComparison, InLane
<1>4. CASE Raise("error") /\ UNCHANGED fileVars
  <2>1. Moves /\ UNCHANGED <<command, lane>>
    BY <1>1, <1>4, RaiseMoves
  <2>. QED BY <1>1, <1>4, <2>1, IdleWalks, WalksKeeps DEF Idle, fileVars
<1>5. CASE PublishAll(PlotFiles, "finish") \/ PublishCut(PlotFiles)
  <2>1. /\ DOMAIN PlotFiles = 1..Len(PlotFiles) /\ Len(PlotFiles) \in Nat
        /\ Listed(PlotFiles) \subseteq PlotSet /\ PlotSet \subseteq Names
    BY PlotsLast, NamesOfAll
  <2>2. /\ Same(Names \ PlotSet) /\ UNCHANGED <<command, lane, runjson>>
        /\ \/ at' = "finish" /\ Present(PlotFiles)'
           \/ at' \in {"withdraw", "ended"} /\ files'["plots.tsv"] # "new"
    <3>1. CASE PublishAll(PlotFiles, "finish")
      <4>1. /\ files' = Wrote(PlotFiles, Len(PlotFiles), "new")
            /\ at' = "finish" /\ UNCHANGED <<command, lane, runjson>>
        BY <3>1 DEF PublishAll, Goto
      <4>2. /\ \A n \in Listed(PlotFiles) : files'[n] = "new"
            /\ Same(Names \ Listed(PlotFiles))
        BY <2>1, <4>1, WroteAll
      <4>3. Present(PlotFiles)' /\ Same(Names \ PlotSet)
        BY <1>1, <2>1, <4>2, PlotsOfLanes DEF Present, Same
      <4>. QED BY <4>1, <4>3
    <3>2. CASE PublishCut(PlotFiles)
      <4>1. Listed(PlotFiles) \subseteq Names
        BY <2>1
      <4>2. /\ Same(Names \ Listed(PlotFiles))
            /\ UNCHANGED <<runjson, command, lane>>
            /\ \/ at' = Handler /\ code' = code
               \/ at' = "ended" /\ code' = "killed"
        BY <2>1, <3>2, <4>1, CutFiles
      <4>3. PICK k \in 0..(Len(PlotFiles) - 1) : CutAfter(PlotFiles, k)
        BY <2>1, <3>2, <4>1, CutFiles
      <4>4. \A i \in 1..k : PlotFiles[i] # "plots.tsv"
        BY <4>3, PlotsLast
      <4>5. files'["plots.tsv"] \in {"partial", files["plots.tsv"]}
        BY <2>1, <4>3, <4>4, LaneNames DEF CutAfter
      <4>. QED BY <1>2, <1>3, <2>1, <4>2, <4>5 DEF Same
    <3>. QED BY <1>5, <3>1, <3>2
  <2>3. Present(SummaryFiles)' /\ Same(Names \ (PlotSet \cup SummaryNames))
    BY <1>2, <2>2, FileGroups, LaneNames, NamesOfAll DEF Present, Same
  <2>4. Publishing
    BY <1>1, <1>2, <2>2, <2>3 DEF Publishing
  <2>. QED BY <2>4, PublishingKeeps
<1>. QED BY <1>1, <1>4, <1>5

LEMMA WithdrawnFiles ==
    ASSUME NEW k \in 0..Len(PlotNames), NEW j \in 0..Len(SummaryFiles),
           Withdrawn(k, j)
    PROVE  /\ Same(Names \ (PlotSet \cup SummaryNames))
           /\ files'["plots.tsv"] = "new" => Same(PlotSet)
<1>1. /\ Len(PlotNames) = 4 /\ PlotNames[1] = "plots.tsv" /\ Len(SummaryFiles) = 2
      /\ \A i \in 1..4 : PlotNames[i] \in PlotSet
      /\ \A i \in 1..2 : SummaryFiles[i] \in SummaryNames
  BY DEF PlotNames, SummaryFiles, PlotSet, SummaryNames
<1>2. /\ PlotSet \subseteq Names /\ "plots.tsv" \in PlotSet
      /\ SummaryNames \cap PlotSet = {}
  BY NamesOfAll, LaneNames
<1>3. \A n \in Names :
        files'[n] = IF \/ \E i \in 1..k : PlotNames[i] = n
                       \/ \E i \in 1..j : SummaryFiles[i] = n
                    THEN "absent" ELSE files[n]
  BY DEF Withdrawn
<1>4. (\A i \in 1..k : i \in 1..4) /\ (\A i \in 1..j : i \in 1..2)
  BY <1>1
<1>5. Same(Names \ (PlotSet \cup SummaryNames))
  BY <1>1, <1>3, <1>4 DEF Same
<1>6. CASE k = 0
  <2>1. ~\E i \in 1..k : PlotNames[i] \in PlotSet
    BY <1>6
  <2>2. \A n \in PlotSet : ~\E i \in 1..j : SummaryFiles[i] = n
    BY <1>1, <1>2, <1>4
  <2>3. \A n \in PlotSet : ~\E i \in 1..k : PlotNames[i] = n
    BY <2>1
  <2>. QED BY <1>2, <1>3, <1>5, <2>2, <2>3 DEF Same
<1>7. CASE k # 0
  <2>1. 1 \in 1..k
    BY <1>1, <1>7
  <2>2. files'["plots.tsv"] = "absent"
    BY <1>1, <1>2, <1>3, <2>1
  <2>. QED BY <1>5, <2>2
<1>. QED BY <1>6, <1>7

LEMMA WithdrawTells ==
    ASSUME SnapInv, FilesInv, Withdraw \/ WithdrawLocked \/ WithdrawBroken
    PROVE  FilesInv'
<1>1. at = "withdraw" /\ UNCHANGED lanes
  BY DEF Withdraw, WithdrawLocked, WithdrawBroken, campaignVars
<1>2. /\ UNCHANGED <<command, lane>> /\ at' = "ended" /\ code' # "0"
  BY DEF Withdraw, WithdrawLocked, WithdrawBroken, Exit, Killed
<1>3. \/ UNCHANGED runjson
      \/ Status("campaign", "failed")
  BY DEF Withdraw, WithdrawLocked, WithdrawBroken
<1>4. /\ \A o \in Lanes : runjson'[o] = runjson[o]
      /\ runjson'["campaign"] # "published"
  <2>1. runjson["campaign"] # "published"
    BY <1>1 DEF FilesInv, ManifestTells
  <2>. QED BY <1>3, <2>1 DEF Status, SnapInv, Typed, Owners, Lanes
<1>5. /\ Same(Names \ (PlotSet \cup SummaryNames))
      /\ files'["plots.tsv"] = "new" => Same(PlotSet)
  <2>1. PICK k \in 0..Len(PlotNames), j \in 0..Len(SummaryFiles) : Withdrawn(k, j)
    <3>1. Len(PlotNames) \in 0..Len(PlotNames) /\ Len(SummaryFiles) \in 0..Len(SummaryFiles)
      BY DEF PlotNames, SummaryFiles
    <3>. QED BY <3>1 DEF Withdraw, WithdrawLocked, WithdrawBroken
  <2>. QED BY <2>1, WithdrawnFiles
<1>6. files'["plots.tsv"] = "new" => Present(PlotFiles)'
  <2>1. SUFFICES ASSUME files'["plots.tsv"] = "new" PROVE Present(PlotFiles)'
    OBVIOUS
  <2>2. Same(PlotSet) /\ files["plots.tsv"] = "new"
    BY <1>5, <2>1, LaneNames DEF Same
  <2>3. Present(PlotFiles)
    BY <2>2 DEF FilesInv, ManifestTells
  <2>. QED BY <1>1, <2>2, <2>3, PlotsOfLanes, PlotsLast DEF Present, Same
<1>7. Publishing
  BY <1>1, <1>2, <1>4, <1>5, <1>6 DEF Publishing
<1>. QED BY <1>7, PublishingKeeps

LEMMA CampaignKeepsFiles == ASSUME SnapInv, FilesInv, Campaign PROVE FilesInv'
<1>1. CASE StartCampaign
  BY <1>1, StartCampaignTells
<1>2. CASE NextLane
  BY <1>2, NextLaneTells
<1>3. CASE LaneReturns
  <2>1. /\ command = "campaign" /\ at = "returned"
        /\ LaneEnds(runjson[lane]) \/ LaneEnds("failed")
    BY <1>3 DEF LaneReturns
  <2>2. lane \in Lanes /\ runjson[lane] \in Completed
    BY <2>1 DEF FilesInv, PlaceTells
  <2>3. CASE LaneEnds(runjson[lane])
    BY <2>1, <2>2, <2>3, LaneEndsTells
  <2>4. CASE LaneEnds("failed")
    BY <2>1, <2>4, LaneEndsTells
  <2>. QED BY <2>1, <2>3, <2>4
<1>4. CASE LaneFails
  <2>1. command = "campaign" /\ at = "failed" /\ LaneEnds("failed")
    BY <1>4 DEF LaneFails
  <2>. QED BY <2>1, LaneEndsTells
<1>5. CASE PublishSummary
  BY <1>5, PublishSummaryTells
<1>6. CASE PublishPlots
  BY <1>6, PublishPlotsTells
<1>7. CASE Finish
  <2>1. /\ at = "finish" /\ Status("campaign", "published") /\ files' = files
        /\ lanes' = lanes /\ at' = "ended" /\ UNCHANGED <<command, lane>>
    BY <1>7 DEF Finish, Exit, campaignVars
  <2>2. /\ lane \notin Lanes /\ command = "campaign"
        /\ Present(SummaryFiles) /\ Present(PlotFiles)
    BY <2>1 DEF FilesInv, PlaceTells
  <2>3. Present(SummaryFiles)' /\ Present(PlotFiles)'
    BY <2>1, <2>2, PlotsOfLanes DEF Present
  <2>4. \A o \in Lanes : runjson'[o] = runjson[o]
    BY <2>1 DEF Status, SnapInv, Typed, Owners, Lanes
  <2>5. Publishing
    BY <2>1, <2>2, <2>3, <2>4 DEF Publishing, Same
  <2>. QED BY <2>5, PublishingKeeps
<1>8. CASE Withdraw \/ WithdrawLocked \/ WithdrawBroken
  BY <1>8, WithdrawTells
<1>. QED BY <1>1, <1>2, <1>3, <1>4, <1>5, <1>6, <1>7, <1>8 DEF Campaign, CampaignStep

LEMMA BreaksOffFiles ==
    ASSUME SnapInv, FilesInv, StepFails \/ Interrupt \/ KillCommand \/ Abort
    PROVE  FilesInv'
<1>1. UNCHANGED <<lanes, files, runjson>>
  BY DEF StepFails, Interrupt, KillCommand, Abort, fileVars, afterBench, afterSuite,
         campaignVars
<1>2. Moves /\ UNCHANGED <<command, lane>>
  <2>1. CASE StepFails
    <3>1. Raise("error") /\ at \notin {"withdraw", "abort", "ended"}
      BY <2>1 DEF StepFails, MayFail
    <3>. QED BY <3>1, RaiseMoves
  <2>2. CASE Interrupt
    <3>1. /\ at \notin {"withdraw", "abort", "ended"}
          /\ Raise("interrupt") \/ UNCHANGED whereVars
      BY <2>2 DEF Interrupt, Uninterruptible
    <3>2. CASE Raise("interrupt")
      BY <3>1, <3>2, RaiseMoves
    <3>3. CASE UNCHANGED whereVars
      BY <3>3 DEF whereVars, Moves
    <3>. QED BY <3>1, <3>2, <3>3
  <2>3. CASE KillCommand
    <3>1. at # "ended" /\ Exit("killed")
      BY <2>3 DEF KillCommand, Killed
    <3>. QED BY <3>1, ExitMoves
  <2>4. CASE Abort
    <3>1. at # "ended" /\ \E c \in {"interrupted", "1"} : Exit(c)
      BY <2>4 DEF Abort
    <3>. QED BY <3>1, ExitMoves
  <2>. QED BY <2>1, <2>2, <2>3, <2>4
<1>. QED BY <1>1, <1>2, IdleWalks, WalksKeeps DEF Idle

LEMMA OthersKeepFiles ==
    ASSUME FilesInv,
           Prepare \/ Edits \/ EditsSuite \/ PrepareFails \/ OtherBegins
           \/ OtherGoesOn \/ OtherFails \/ Ended \/ UNCHANGED vars
    PROVE  FilesInv'
<1>1. UNCHANGED <<command, lane, at, code, lanes, files, runjson>>
  BY DEF Prepare, Edits, EditsSuite, PrepareFails, OtherBegins, OtherGoesOn,
         OtherFails, Ended, vars, exceptCache, whereVars, fileVars, afterBench,
         afterSuite, campaignVars
<1>. QED BY <1>1, IdleWalks, WalksKeeps DEF Idle, Moves

LEMMA FilesInvStep == SnapInv /\ FilesInv /\ [Next]_vars => FilesInv'
<1>. SUFFICES ASSUME SnapInv, FilesInv, [Next]_vars PROVE FilesInv'
  OBVIOUS
<1>1. CASE Build
  BY <1>1, BuildIdles, IdleWalks, WalksKeeps
<1>2. CASE Tools \/ Builds
  BY <1>2, BuildsWalk, WalksKeeps
<1>3. CASE Compare \/ CatalogOrLane \/ W3c \/ Campaign
  BY <1>3, CompareKeepsFiles, CatalogOrLaneKeepsFiles, W3cKeepsFiles,
     CampaignKeepsFiles
<1>4. CASE Conformance \/ Regression
  BY <1>4, ConformanceWalks, RegressionWalks, WalksKeeps
<1>5. CASE StepFails \/ Interrupt \/ KillCommand \/ Abort
  BY <1>5, BreaksOffFiles
<1>6. CASE Prepare \/ Edits \/ EditsSuite \/ PrepareFails \/ OtherBegins
           \/ OtherGoesOn \/ OtherFails \/ Ended \/ UNCHANGED vars
  BY <1>6, OthersKeepFiles
<1>. QED BY <1>1, <1>2, <1>3, <1>4, <1>5, <1>6 DEF Next, Progress

LEMMA FilesInvInit == Init => FilesInv
<1>. SUFFICES ASSUME Init PROVE FilesInv
  OBVIOUS
<1>1. /\ lane = "none" /\ at = "start" /\ code = "none"
      /\ lanes = [l \in Lanes |-> "pending"]
      /\ runjson = [o \in Owners |-> "absent"]
  BY DEF Init, RunInit, CampaignInit
<1>2. \A n \in Names : files[n] # "new"
  BY DEF Init
<1>3. /\ \A l \in Lanes : runjson[l] = "absent" /\ lanes[l] = "pending" /\ lane # l
      /\ runjson["campaign"] = "absent"
  BY <1>1 DEF Lanes, Owners
<1>4. LaneTells
  BY <1>3 DEF LaneTells, Tells, Completed, FailedStatuses
<1>5. PlaceTells
  BY <1>1 DEF PlaceTells
<1>6. files["plots.tsv"] # "new" /\ files["w3c/report.json"] # "new"
  BY <1>2, LaneNames, NamesOfAll
<1>7. ManifestTells
  BY <1>3, <1>6 DEF ManifestTells
<1>. QED BY <1>4, <1>5, <1>7 DEF FilesInv

(* What run.json and the manifests say of the files is so, at any moment   *)
(* and after any failure: complete and published runs have their files,    *)
(* failed ones none, and no manifest is there before what it names         *)
(* (publish_reports, clear_reports and the except clauses of the lanes, of *)
(* run_comparison and of run_campaign).                                    *)
THEOREM FilesTellTheRunHolds == Spec => []FilesTellTheRun
<1>1. FilesInv => FilesTellTheRun
  <2>. SUFFICES ASSUME FilesInv PROVE FilesTellTheRun
    OBVIOUS
  <2>1. ASSUME NEW l \in Lanes
        PROVE  /\ runjson[l] \in Completed => Present(LaneFiles(l))
               /\ runjson[l] \in FailedStatuses => Gone(LaneFiles(l))
               /\ HasReport(l) => Present(LaneFiles(l))
    BY DEF FilesInv, LaneTells, Tells, HasReport
  <2>2. /\ runjson["campaign"] = "published" => Present(SummaryFiles) /\ Present(PlotFiles)
        /\ files["plots.tsv"] = "new" => Present(PlotFiles)
        /\ files["w3c/report.json"] = "new" => Present(W3cTables)
        /\ command = "paired" /\ code = "0" => Present(ComparisonFiles)
    BY DEF FilesInv, ManifestTells, PlaceTells
  <2>. QED BY <2>1, <2>2 DEF FilesTellTheRun, FailedStatuses, W3cTables
<1>2. Spec => [](BuildInv /\ SnapInv)
  BY SnapInvInit, SnapInvStep, BuildInvInit, BuildInvStep, CacheInside,
     PTL DEF Spec
<1>. QED BY <1>1, <1>2, FilesInvInit, FilesInvStep, PTL DEF Spec
-----------------------------------------------------------------------------
(* Which command is where.                                                 *)
CommandsFit ==
    /\ lane = "probe" => command = "implementations"
    /\ lane = "regression" => command = "regression"
    /\ at \in {"trace", "lifecycle"} => lane = "regression"
    /\ at = "abort" => command # "campaign"
    /\ at = "compared" => command = "paired"

Ordinary(p) == p \notin {"trace", "lifecycle", "abort", "compared"}

(* Most steps stay in their lane.                                          *)
StaysInLane ==
    /\ UNCHANGED <<command, lane>>
    /\ at' = at \/ at' = Handler \/ Ordinary(at')

LEMMA StaysFit == ASSUME CommandsFit, StaysInLane PROVE CommandsFit'
<1>1. Handler = "abort" => command # "campaign"
  BY DEF Handler
<1>2. Handler \in {"discard", "undo", "withdraw", "abort"}
  BY HandlerIsElsewhere
<1>. QED BY <1>1, <1>2 DEF CommandsFit, StaysInLane, Ordinary

LEMMA BuildFits == ASSUME CommandsFit, Build PROVE CommandsFit'
<1>1. StaysInLane
  BY DEF Build, BuildStep, BeginBuild, CallPrepare, TakePrepared, Compile,
         CheckInputs, WriteManifest, BuildFails, Goto, Raise, whereVars, StaysInLane, Ordinary
<1>. QED BY <1>1, StaysFit

LEMMA BuildsFit == ASSUME CommandsFit, Tools \/ Builds PROVE CommandsFit'
<1>1. CASE Builds /\ StartBuilds
  BY <1>1 DEF StartBuilds, CommandsFit
<1>2. CASE Tools \/ (Builds /\ (RecordBuild \/ EndBuilds \/ EndBuildsBadly))
  <2>1. StaysInLane
    BY <1>2 DEF Tools, Toolchain, RecordBuild, EndBuilds, EndBuildsBadly, Goto,
                Exit, StaysInLane, Ordinary
  <2>. QED BY <2>1, StaysFit
<1>. QED BY <1>1, <1>2 DEF Builds

LEMMA CompareFits == ASSUME CommandsFit, Compare PROVE CommandsFit'
<1>1. CASE StartComparison \/ RefuseComparison \/ Identify \/ EndComparison
           \/ SampleFirst \/ Calibrate \/ Warmup \/ MeasurePair
  <2>1. StaysInLane
    BY <1>1 DEF StartComparison, RefuseComparison, Identify, EndComparison,
                SampleFirst, Calibrate, Double, Warmup, MeasurePair, Goto, Exit,
                Raise, whereVars, StaysInLane, Ordinary
  <2>. QED BY <2>1, StaysFit
<1>2. CASE PublishComparison
  <2>1. \E p \in {"compared", "validate"} :
          Goto(p) /\ (p = "compared" => command = "paired")
    BY <1>2 DEF PublishComparison, PublishAll
  <2>. QED BY <2>1 DEF Goto, CommandsFit
<1>3. CASE PublishComparisonCut \/ Discard
  <2>1. StaysInLane
    BY <1>3 DEF PublishComparisonCut, Discard, AfterDiscard, PublishCut, Exit, Killed,
                Raise, StaysInLane, Ordinary
  <2>. QED BY <2>1, StaysFit
<1>. QED BY <1>1, <1>2, <1>3 DEF Compare, BenchStep

LEMMA CatalogOrLaneFits == ASSUME CommandsFit, CatalogOrLane PROVE CommandsFit'
<1>1. CASE StartLane
  BY <1>1 DEF StartLane, CommandsFit, Lanes
<1>2. CASE \/ BeginLane("catalog", "tools") \/ BeginLane("w3c", "suite")
           \/ ValidateBuild \/ RunControls \/ RecordQualified \/ RecordFailed
           \/ CatalogGate \/ Measure \/ ValidateComparison \/ ValidateSources
  <2>1. StaysInLane
    BY <1>2 DEF BeginLane, ValidateBuild, RunControls, RecordQualified, RecordFailed,
                CatalogGate, Measure, ValidateComparison, ValidateSources, Goto,
                Raise, whereVars, StaysInLane, Ordinary
  <2>. QED BY <2>1, StaysFit
<1>3. CASE PublishCatalog \/ CompleteCatalog \/ EndLane \/ Undo \/ UndoCut
  <2>1. StaysInLane
    BY <1>3 DEF PublishCatalog, CompleteCatalog, EndLane, Undo, UndoCut, AfterUndo,
                PublishAll, PublishCut, Goto, Raise, Killed, Exit, StaysInLane, Ordinary
  <2>. QED BY <2>1, StaysFit
<1>. QED BY <1>1, <1>2, <1>3 DEF CatalogOrLane, CatalogStep

LEMMA ConformanceFits == ASSUME CommandsFit, Conformance PROVE CommandsFit'
<1>1. StaysInLane
  BY DEF Conformance, ConformanceStep, StartConformance, Setup, RunConformanceCase,
         SetupError, Judge, WriteReports, EndConformance, PublishAll, PublishCut,
         Goto, Raise, Killed, Exit, whereVars, StaysInLane, Ordinary
<1>. QED BY <1>1, StaysFit

LEMMA W3cFits == ASSUME CommandsFit, W3c PROVE CommandsFit'
<1>1. CASE RecheckInput
  <2>1. StaysInLane
    BY <1>1 DEF RecheckInput, Goto, Raise, StaysInLane, Ordinary
  <2>. QED BY <2>1, StaysFit
<1>2. CASE ~RecheckInput
  <2>1. StaysInLane
    BY <1>2 DEF W3c, W3cStep, PrepareSuite, RecordExecuted, W3cGate, BeginEngine,
                CheckInput, RunW3cCase, CheckMatrix, CheckW3cSources,
                CheckW3cArtifacts, PublishW3c, CompleteW3c, PublishAll, PublishCut,
                Goto, Raise, Killed, Exit, StaysInLane, Ordinary
  <2>. QED BY <2>1, StaysFit
<1>. QED BY <1>1, <1>2

LEMMA RegressionFits == ASSUME CommandsFit, Regression PROVE CommandsFit'
<1>1. CASE StartRegression
  BY <1>1 DEF StartRegression, CommandsFit
<1>2. CASE SkipFailed \/ TraceCases
  BY <1>2 DEF SkipFailed, TraceCases, Goto, CommandsFit
<1>3. CASE RunLifecycle \/ EndTraces \/ PublishRegression \/ EndRegression
           \/ AbortRegression
  <2>1. StaysInLane
    BY <1>3 DEF RunLifecycle, EndTraces, PublishRegression, EndRegression,
                AbortRegression, PublishAll, PublishCut, Goto, Raise, Killed, Exit,
                StaysInLane, Ordinary
  <2>. QED BY <2>1, StaysFit
<1>. QED BY <1>1, <1>2, <1>3 DEF Regression, RegressionStep

LEMMA CampaignFits == ASSUME CommandsFit, Campaign PROVE CommandsFit'
<1>1. CASE NextLane \/ LaneReturns \/ LaneFails
  BY <1>1 DEF NextLane, LaneReturns, LaneFails, LaneEnds, Goto, CommandsFit
<1>2. CASE StartCampaign \/ PublishSummary \/ PublishPlots \/ Finish \/ Withdraw
           \/ WithdrawLocked \/ WithdrawBroken
  <2>1. StaysInLane
    BY <1>2 DEF StartCampaign, PublishSummary, PublishPlots, Finish, Withdraw,
                WithdrawLocked, WithdrawBroken, PublishAll, PublishCut, Goto, Raise,
                Killed, Exit, StaysInLane, Ordinary
  <2>. QED BY <2>1, StaysFit
<1>. QED BY <1>1, <1>2 DEF Campaign, CampaignStep

LEMMA CommandsFitStep == CommandsFit /\ [Next]_vars => CommandsFit'
<1>. SUFFICES ASSUME CommandsFit, [Next]_vars PROVE CommandsFit'
  OBVIOUS
<1>1. CASE Build \/ Tools \/ Builds \/ Compare \/ CatalogOrLane \/ Conformance
           \/ W3c \/ Regression \/ Campaign
  BY <1>1, BuildFits, BuildsFit, CompareFits, CatalogOrLaneFits, ConformanceFits,
     W3cFits, RegressionFits, CampaignFits
<1>2. CASE \/ StepFails \/ Interrupt \/ KillCommand \/ Abort \/ Prepare \/ Edits
           \/ EditsSuite \/ PrepareFails \/ OtherBegins \/ OtherGoesOn
           \/ OtherFails \/ Ended \/ UNCHANGED vars
  <2>1. StaysInLane
    BY <1>2 DEF StepFails, Interrupt, KillCommand, Abort, Prepare, Edits, EditsSuite,
                PrepareFails, OtherBegins, OtherGoesOn, OtherFails, Ended, vars,
                exceptCache, whereVars, Raise, Killed, Exit, StaysInLane, Ordinary
  <2>. QED BY <2>1, StaysFit
<1>. QED BY <1>1, <1>2 DEF Next, Progress

-----------------------------------------------------------------------------
(* What a row of a lane tells of its controls.                             *)
ControlOutcomes == {{"PASS"}, {"PASS", "FAIL"}, {"broken"}}

Passing(l) == IF l = "catalog" THEN "qualified" ELSE "executed"

Fresh == source = [i \in Implementations |-> 0] /\ head = 0

BuildTells ==
    /\ at \notin {"qualify", "ended"} => build.outcomes = {}
    /\ at = "qualify" => build.outcomes \in ControlOutcomes
    /\ Fresh => build.inputs = 0 /\ build.revision = 0

RowTells(l, r) ==
    /\ r.status \in {Passing(l), "failed"}
    /\ r.status = Passing(l) => r.outcomes \in ControlOutcomes
    /\ l = "catalog" /\ r.status = "qualified" => r.outcomes = {"PASS"}
    /\ l = "catalog" /\ r.outcomes = {"PASS"} /\ replaced = {} => r.status = "qualified"
    /\ Fresh => r.inputs = 0 /\ r.revision = 0

RowsTell ==
    /\ BuildTells
    /\ \A l \in Lanes : \A k \in DOMAIN rows[l] : RowTells(l, rows[l][k])

(* The steps that leave the rows alone.                                    *)
LeavesBuild ==
    /\ UNCHANGED inputVars
    /\ \/ build' = NoBuild /\ at' # "qualify"
       \/ build' = build /\ at' = at
       \/ build' = build /\ at \notin {"qualify", "ended"} /\ at' # "qualify"
       \/ build' = build /\ at' = "ended"

LEMMA LeavesBuildTells ==
    ASSUME BuildTells, LeavesBuild PROVE BuildTells'
BY DEF BuildTells, LeavesBuild, inputVars, NoBuild, Fresh

LEMMA RowsStay ==
    ASSUME RowsTell, UNCHANGED <<rows, inputVars>>, BuildTells' PROVE RowsTell'
<1>1. rows' = rows /\ source' = source /\ head' = head /\ replaced' = replaced
  BY DEF inputVars
<1>. QED BY <1>1 DEF RowsTell, RowTells, Fresh

(* A row more.                                                             *)
LEMMA RowAppended ==
    ASSUME RowsTell, BuildInv, UNCHANGED inputVars, NEW r, Append1(r),
           at' # "qualify", lane \in Profiles,
           lane \in Lanes => RowTells(lane, r)
    PROVE  RowsTell'
<1>1. /\ rows \in [Profiles -> Seq(GoodRows)] /\ build' = NoBuild
      /\ rows' = [rows EXCEPT ![lane] = Append(rows[lane], r)]
      /\ source' = source /\ head' = head /\ replaced' = replaced
  BY DEF BuildInv, RowsAreGood, Append1, inputVars
<1>2. BuildTells'
  BY <1>1 DEF BuildTells, NoBuild
<1>3. ASSUME NEW l \in Lanes, NEW k \in DOMAIN rows'[l]
      PROVE  RowTells(l, rows'[l][k])
  <2>1. l \in Profiles /\ rows[l] \in Seq(GoodRows)
    BY <1>1 DEF Profiles
  <2>2. CASE l # lane
    <3>1. rows'[l] = rows[l]
      BY <1>1, <2>1, <2>2
    <3>. QED BY <3>1, <1>3 DEF RowsTell
  <2>3. CASE l = lane
    <3>1. rows'[l] = Append(rows[l], r)
      BY <1>1, <2>1, <2>3
    <3>2. \/ k \in DOMAIN rows[l] /\ rows'[l][k] = rows[l][k]
          \/ rows'[l][k] = r
      BY <2>1, <3>1, <1>3
    <3>. QED BY <3>2, <2>3 DEF RowsTell
  <2>. QED BY <2>2, <2>3
<1>4. ASSUME NEW l \in Lanes, NEW s, RowTells(l, s) PROVE RowTells(l, s)'
  BY <1>1, <1>4 DEF RowTells, Fresh
<1>. QED BY <1>2, <1>3, <1>4 DEF RowsTell

(* build_one: no controls have run yet.                                    *)
LEMMA BuildTellsMore ==
    ASSUME RowsTell, BuildInv, Build PROVE RowsTell'
<1>1. /\ UNCHANGED <<rows, inputVars>> /\ build \in Rows
      /\ source' = source /\ head' = head
  BY DEF Build, BuildStep, BeginBuild, CallPrepare, TakePrepared, Compile,
         CheckInputs, WriteManifest, BuildFails, buildVars, inputVars, BuildInv,
         RowsAreGood, GoodRows
<1>2. /\ BuildTells
      /\ Fresh' => Fresh
      /\ at' # "qualify"
  BY <1>1, HandlerIsElsewhere
     DEF RowsTell, Fresh, Build, BuildStep, BeginBuild, CallPrepare, TakePrepared,
         Compile, CheckInputs, WriteManifest, BuildFails, Goto, Raise, whereVars
<1>3. /\ at \notin {"qualify", "ended"}
      /\ \/ build' = build
         \/ build' = NoBuild
         \/ /\ build'.outcomes = build.outcomes /\ build'.inputs = build.inputs
            /\ build'.revision = build.revision
         \/ BeginBuild
  <2>1. at \notin {"qualify", "ended"}
    BY DEF Build, BuildStep, BeginBuild, CallPrepare, TakePrepared, Compile,
           CheckInputs, WriteManifest, BuildFails, BuildSteps
  <2>2. \/ build' = build
        \/ build' = NoBuild
        \/ build' = [build EXCEPT !.status = "failed"]
        \/ \E u, t : build' = [build EXCEPT !.used = u, !.tree = t]
        \/ build' = [build EXCEPT !.status = "verified"]
        \/ \E i, a : build' = [build EXCEPT !.implementation = i, !.assertions = a,
                                          !.status = "failed"]
        \/ BeginBuild
    BY DEF Build, BuildStep, CallPrepare, TakePrepared, Compile, CheckInputs,
           WriteManifest, BuildFails, Failed, buildVars
  <2>. QED BY <1>1, <2>1, <2>2 DEF Rows
<1>4. CASE BeginBuild
  <2>1. PICK i : /\ i = NextBuild[1] /\ build'.outcomes = {}
                 /\ build'.inputs = source[i] /\ build'.revision = Revision(i)
    BY <1>4 DEF BeginBuild, NoBuild
  <2>2. i \in Implementations
    <3>1. at = "build" /\ ~AllBuilt
      BY <1>4 DEF BeginBuild
    <3>2. lane \in Profiles
      BY <3>1 DEF BuildInv, LaneIsKnown, LanePlaces
    <3>. QED BY <2>1, <3>1, <3>2, NextIsKnown DEF BuildInv
  <2>3. Fresh => build'.inputs = 0 /\ build'.revision = 0
    BY <2>1, <2>2 DEF Fresh, Revision
  <2>4. BuildTells'
    BY <1>2, <2>1, <2>3 DEF BuildTells
  <2>. QED BY <1>1, <2>4, RowsStay
<1>5. CASE ~BeginBuild
  <2>1. BuildTells'
    BY <1>2, <1>3, <1>5 DEF BuildTells, NoBuild
  <2>. QED BY <1>1, <2>1, RowsStay
<1>. QED BY <1>4, <1>5

LEMMA LeavesAll ==
    ASSUME RowsTell, LeavesBuild, UNCHANGED rows PROVE RowsTell'
BY LeavesBuildTells, RowsStay DEF RowsTell, LeavesBuild

LEMMA BuildsTellMore ==
    ASSUME RowsTell, BuildInv, Tools \/ Builds PROVE RowsTell'
<1>1. UNCHANGED inputVars
  BY DEF Tools, Builds
<1>2. CASE Builds /\ RecordBuild
  <2>1. lane = "probe" /\ lane \in Profiles /\ lane \notin Lanes /\ Append1(build)
        /\ at' # "qualify"
    BY <1>2 DEF RecordBuild, Profiles, Lanes, Goto
  <2>. QED BY <1>1, <2>1, RowAppended
<1>3. CASE Tools \/ (Builds /\ (StartBuilds \/ EndBuilds \/ EndBuildsBadly))
  <2>1. /\ UNCHANGED <<build, rows>> /\ at \in {"tools", "start", "build"}
        /\ at' # "qualify"
    BY <1>3 DEF Tools, Builds, Toolchain, StartBuilds, EndBuilds, EndBuildsBadly, Goto,
                Exit, laneVars, buildVars
  <2>. QED BY <1>1, <2>1, LeavesAll DEF LeavesBuild
<1>. QED BY <1>2, <1>3 DEF Builds

(* The lanes: controls run, and the build is recorded.                     *)
LEMMA ControlsTell ==
    ASSUME RowsTell, BuildInv, CatalogOrLane, ValidateBuild \/ RunControls
    PROVE  RowsTell'
<1>1. /\ UNCHANGED <<inputVars, rows>> /\ build \in Rows /\ BuildTells
      /\ source' = source /\ head' = head
  BY DEF CatalogOrLane, ValidateBuild, RunControls, BuildInv, RowsAreGood, GoodRows,
         RowsTell, inputVars
<1>2. CASE ValidateBuild
  <2>1. /\ build'.outcomes = build.outcomes /\ build'.inputs = build.inputs
        /\ build'.revision = build.revision
        /\ at = "built" /\ at' # "qualify"
    BY <1>1, <1>2 DEF ValidateBuild, Failed, Rows, whereVars, Goto
  <2>2. BuildTells'
    BY <1>1, <2>1 DEF BuildTells, Fresh
  <2>. QED BY <1>1, <2>2, RowsStay
<1>3. CASE RunControls
  <2>1. PICK o \in ControlOutcomes : build' = [build EXCEPT !.outcomes = o]
    BY <1>3 DEF RunControls, ControlOutcomes
  <2>2. /\ build'.outcomes = o /\ build'.inputs = build.inputs
        /\ build'.revision = build.revision
        /\ at' = "qualify"
    BY <1>1, <1>3, <2>1 DEF RunControls, Rows, Goto
  <2>3. BuildTells'
    BY <1>1, <2>2 DEF BuildTells, Fresh
  <2>. QED BY <1>1, <2>3, RowsStay
<1>. QED BY <1>2, <1>3

LEMMA RecordsTell ==
    ASSUME RowsTell, BuildInv, UNCHANGED inputVars,
           RecordQualified \/ RecordFailed \/ RecordExecuted
    PROVE  RowsTell'
<1>1. /\ build \in Rows /\ BuildTells /\ lane \in Lanes /\ lane \in Profiles
      /\ at' # "qualify"
  BY DEF BuildInv, RowsAreGood, GoodRows, RowsTell, RecordQualified, RecordFailed,
         RecordExecuted, Goto, Lanes, Profiles
<1>2. CASE RecordFailed
  <2>1. build.status = "failed" /\ build.outcomes = {} /\ Append1(build)
    BY <1>1, <1>2 DEF RecordFailed, BuildTells
  <2>2. RowTells(lane, build)
    BY <1>1, <2>1 DEF RowTells, BuildTells, Passing
  <2>. QED BY <1>1, <2>1, <2>2, RowAppended
<1>3. CASE RecordQualified
  <2>. DEFINE r == [build EXCEPT !.status =
                      IF build.outcomes = {"PASS"} /\ Kept(build)
                      THEN "qualified" ELSE "failed"]
  <2>1. /\ r.status = IF build.outcomes = {"PASS"} /\ Kept(build)
                      THEN "qualified" ELSE "failed"
        /\ r.outcomes = build.outcomes /\ r.inputs = build.inputs
        /\ r.revision = build.revision
    BY <1>1 DEF Rows
  <2>2. lane = "catalog" /\ build.outcomes \in ControlOutcomes /\ Append1(r)
    BY <1>1, <1>3 DEF RecordQualified, BuildTells
  <2>. HIDE DEF r
  <2>3. RowTells(lane, r)
    BY <1>1, <2>1, <2>2 DEF RowTells, BuildTells, Passing, Kept
  <2>. QED BY <1>1, <2>2, <2>3, RowAppended
<1>4. CASE RecordExecuted
  <2>. DEFINE r == [build EXCEPT !.status =
                      IF Kept(build) THEN "executed" ELSE "failed"]
  <2>1. /\ r.status = IF Kept(build) THEN "executed" ELSE "failed"
        /\ r.outcomes = build.outcomes /\ r.inputs = build.inputs
        /\ r.revision = build.revision
    BY <1>1 DEF Rows
  <2>2. lane = "w3c" /\ build.outcomes \in ControlOutcomes /\ Append1(r)
    BY <1>1, <1>4 DEF RecordExecuted, BuildTells
  <2>. HIDE DEF r
  <2>3. RowTells(lane, r)
    BY <1>1, <2>1, <2>2 DEF RowTells, BuildTells, Passing
  <2>. QED BY <1>1, <2>2, <2>3, RowAppended
<1>. QED BY <1>2, <1>3, <1>4

(* All other steps of the scripts.                                         *)
LEMMA ElsewhereLeaves ==
    ASSUME Elsewhere, at # "qualify" PROVE LeavesBuild /\ UNCHANGED rows
BY DEF Elsewhere, LeavesBuild, buildVars

LEMMA NotInControls ==
    /\ Compare \/ Conformance \/ Campaign => at # "qualify"
<1>1. Compare => at # "qualify"
  BY DEF Compare, BenchStep, StartComparison, RefuseComparison, Identify,
         SampleFirst, Calibrate, Warmup, MeasurePair, PublishComparison,
         PublishComparisonCut, EndComparison, Discard
<1>2. Conformance => at # "qualify"
  BY DEF Conformance, ConformanceStep, StartConformance, Setup,
         RunConformanceCase, SetupError, Judge, WriteReports, EndConformance
<1>3. Campaign => at # "qualify"
  BY DEF Campaign, CampaignStep, StartCampaign, NextLane, LaneReturns, LaneFails,
         PublishSummary, PublishPlots, Finish, Withdraw, WithdrawLocked, WithdrawBroken
<1>. QED BY <1>1, <1>2, <1>3

LEMMA CatalogOrLaneTells ==
    ASSUME RowsTell, BuildInv, CatalogOrLane PROVE RowsTell'
<1>1. UNCHANGED inputVars
  BY DEF CatalogOrLane
<1>2. CASE ValidateBuild \/ RunControls
  BY <1>2, ControlsTell
<1>3. CASE RecordQualified \/ RecordFailed
  BY <1>1, <1>3, RecordsTell
<1>4. CASE \/ BeginLane("catalog", "tools") \/ BeginLane("w3c", "suite")
           \/ CatalogGate \/ Measure \/ ValidateComparison \/ ValidateSources
           \/ PublishCatalog \/ CompleteCatalog
           \/ StartLane \/ EndLane
  <2>1. UNCHANGED <<build, rows>> /\ at \notin {"qualify", "ended"} /\ at' # "qualify"
    BY <1>4, HandlerIsElsewhere
       DEF BeginLane, CatalogGate, Measure, ValidateComparison, ValidateSources,
           PublishCatalog, CompleteCatalog, StartLane, EndLane, PublishAll,
           PublishCut, Goto, Raise, Killed, Exit, laneVars, buildVars
  <2>. QED BY <1>1, <2>1, LeavesAll DEF LeavesBuild
<1>5. CASE Undo \/ UndoCut
  <2>1. UNCHANGED <<build, rows>> /\ at = "undo" /\ at' # "qualify"
    BY <1>5 DEF Undo, UndoCut, AfterUndo, Exit, Killed, laneVars, buildVars
  <2>. QED BY <1>1, <2>1, LeavesAll DEF LeavesBuild
<1>. QED BY <1>2, <1>3, <1>4, <1>5 DEF CatalogOrLane, CatalogStep

LEMMA W3cTells ==
    ASSUME RowsTell, BuildInv, W3c PROVE RowsTell'
<1>1. UNCHANGED inputVars
  BY DEF W3c
<1>2. CASE RecordExecuted
  BY <1>1, <1>2, RecordsTell
<1>3. CASE \/ PrepareSuite \/ W3cGate \/ BeginEngine \/ CheckInput \/ RunW3cCase
           \/ CheckMatrix \/ CheckW3cSources \/ CheckW3cArtifacts \/ PublishW3c
           \/ CompleteW3c
  <2>1. UNCHANGED <<build, rows>> /\ at \notin {"qualify", "ended"} /\ at' # "qualify"
    BY <1>3, HandlerIsElsewhere
       DEF PrepareSuite, W3cGate, BeginEngine, CheckInput, RunW3cCase,
           CheckMatrix, CheckW3cSources, CheckW3cArtifacts, PublishW3c,
           CompleteW3c, PublishAll, PublishCut, Goto, Raise, Killed, Exit,
           laneVars, buildVars
  <2>. QED BY <1>1, <2>1, LeavesAll DEF LeavesBuild
<1>4. CASE RecheckInput
  <2>1. /\ at = "recheck input" /\ UNCHANGED <<build, rows>>
        /\ at' \in {Handler, "matrix", "engine", "input"}
    BY <1>4 DEF RecheckInput, Goto, Raise, laneVars, buildVars
  <2>. QED BY <1>1, <2>1, HandlerIsElsewhere, LeavesAll DEF LeavesBuild
<1>. QED BY <1>2, <1>3, <1>4 DEF W3c, W3cStep

LEMMA RegressionTells ==
    ASSUME RowsTell, BuildInv, CommandsFit, Regression PROVE RowsTell'
<1>1. UNCHANGED inputVars
  BY DEF Regression
<1>2. CASE (SkipFailed /\ Append1(build)) \/ RunLifecycle
  <2>1. Append1(build) /\ at' # "qualify" /\ lane \in Profiles
    BY <1>2 DEF SkipFailed, RunLifecycle, Goto, Profiles, BuildInv, LaneIsKnown,
                LanePlaces
  <2>2. lane \notin Lanes
    BY <1>2 DEF SkipFailed, RunLifecycle, CommandsFit, Lanes
  <2>. QED BY <1>1, <2>1, <2>2, RowAppended
<1>3. CASE \/ SkipFailed /\ ~Append1(build)
           \/ StartRegression \/ TraceCases \/ EndTraces
           \/ PublishRegression \/ EndRegression \/ AbortRegression
  <2>1. UNCHANGED <<build, rows>> /\ at \notin {"qualify", "ended"} /\ at' # "qualify"
    BY <1>3, HandlerIsElsewhere
       DEF SkipFailed, StartRegression, TraceCases, EndTraces, PublishRegression,
           EndRegression, AbortRegression, PublishAll, PublishCut, Goto, Raise,
           Killed, Exit, otherThanJudged, laneVars, buildVars
  <2>. QED BY <1>1, <2>1, LeavesAll DEF LeavesBuild
<1>. QED BY <1>2, <1>3 DEF Regression, RegressionStep

(* Who breaks off, and everybody else.  Edits and commits are counted, and *)
(* a replaced executable stays replaced.                                   *)
LEMMA BreaksOffTells ==
    ASSUME RowsTell, StepFails \/ Interrupt \/ KillCommand \/ Abort PROVE RowsTell'
<1>1. UNCHANGED <<rows, inputVars>>
  BY DEF StepFails, Interrupt, KillCommand, Abort, laneVars, buildVars
<1>2. \/ build' = NoBuild /\ at' = Handler
      \/ build' = build /\ at' = at
      \/ build' = build /\ at' = "ended"
  BY DEF StepFails, Interrupt, KillCommand, Abort, Raise, Killed, Exit, whereVars,
         laneVars, buildVars
<1>. QED BY <1>1, <1>2, HandlerIsElsewhere, LeavesAll DEF LeavesBuild

LEMMA EditsTell == ASSUME RowsTell, BuildInv, Edits PROVE RowsTell'
<1>1. UNCHANGED <<rows, build, at>>
  BY DEF Edits, laneVars, buildVars, whereVars
<1>2. source \in [Implementations -> Nat] /\ head \in Nat
  BY DEF BuildInv, RowsAreGood
<1>3. Fresh' => Fresh
  <2>1. CASE EditInputs
    <3>1. PICK who \in {{"xpact"}, {"xpact-core"}, Implementations} :
            source' = [i \in Implementations |->
                        IF i \in who THEN source[i] + 1 ELSE source[i]]
      BY <2>1 DEF EditInputs
    <3>2. PICK i \in Implementations : i \in who
      BY <3>1 DEF Implementations
    <3>3. source'[i] # 0
      BY <1>2, <3>1, <3>2
    <3>. QED BY <3>2, <3>3 DEF Fresh
  <2>2. CASE Commit
    BY <1>2, <2>2 DEF Commit, Fresh
  <2>3. CASE ReplaceExecutable
    BY <2>3 DEF ReplaceExecutable, Fresh
  <2>. QED BY <2>1, <2>2, <2>3 DEF Edits, SourceEvents
<1>4. replaced' = {} => replaced = {}
  BY DEF Edits, SourceEvents, EditInputs, Commit, ReplaceExecutable
<1>. QED BY <1>1, <1>3, <1>4 DEF RowsTell, BuildTells, RowTells

LEMMA RowsTellStep ==
    RowsTell /\ BuildInv /\ CommandsFit /\ [Next]_vars => RowsTell'
<1>. SUFFICES ASSUME RowsTell, BuildInv, CommandsFit, [Next]_vars PROVE RowsTell'
  OBVIOUS
<1>1. CASE Build \/ Tools \/ Builds \/ CatalogOrLane \/ W3c \/ Regression
  BY <1>1, BuildTellsMore, BuildsTellMore, CatalogOrLaneTells, W3cTells,
     RegressionTells
<1>2. CASE Compare \/ Conformance \/ Campaign
  BY <1>2, CompareIsElsewhere, ConformanceIsElsewhere, CampaignIsElsewhere,
     NotInControls, ElsewhereLeaves, LeavesAll
<1>3. CASE StepFails \/ Interrupt \/ KillCommand \/ Abort
  BY <1>3, BreaksOffTells
<1>4. CASE Edits
  BY <1>4, EditsTell
<1>5. CASE \/ Prepare \/ EditsSuite \/ PrepareFails \/ OtherBegins \/ OtherGoesOn
           \/ OtherFails \/ Ended \/ UNCHANGED vars
  <2>1. UNCHANGED <<at, build, rows, inputVars>>
    BY <1>5 DEF Prepare, EditsSuite, PrepareFails, OtherBegins, OtherGoesOn,
                OtherFails, Ended, vars, exceptCache, whereVars, laneVars, buildVars
  <2>. QED BY <2>1, LeavesAll DEF LeavesBuild
<1>. QED BY <1>1, <1>2, <1>3, <1>4, <1>5 DEF Next, Progress

-----------------------------------------------------------------------------
(* What a report stands for: the comparison of the catalog is complete.    *)
CompareTells ==
    /\ lane = "catalog" /\ at \in {"sources", "publish"} => ValidComparison
    /\ files["catalog/report.json"] = "new" => ValidComparison

(* The results of the W3C lane: none before its cases run, all of them     *)
(* after that.                                                             *)
BeforeCases == {"begin", "suite", "tools", "build"} \cup HandledPlaces

CasePlaces == {"engine", "input", "run"}

AfterCases == {"sources", "artifacts", "publish"}

ResultsTell ==
    command # "conformance" =>
        /\ allCases = FALSE /\ InOrder(results)
        /\ \/ at = "start"
           \/ command = "campaign" /\ lanes["w3c"] = "pending"
           \/ lane = "w3c" /\ at \in BeforeCases
           => results = <<>>
        /\ lane = "w3c" /\ at \in CasePlaces => Len(results) < 2 * Size
        /\ \/ lane = "w3c" /\ at \in AfterCases
           \/ files["w3c/report.json"] = "new"
           => Len(results) = 2 * Size

(* The status of a lane that is over, and what the gate of the catalog     *)
(* lane has seen.                                                          *)
GateFailed ==
    /\ Len(rows["catalog"]) = 4
    /\ \E k \in 1..4 : rows["catalog"][k].status # "qualified"

GatePlaces == {"undo", "failed", "ended"}

LanesTell ==
    /\ runjson["catalog"] # "complete_with_failures"
    /\ runjson["w3c"] \in Completed => runjson["w3c"] = W3cStatus
    /\ \A l \in Lanes : lane = l => lanes[l] \notin Completed
    /\ \A l \in Lanes : lanes[l] \in Completed => lanes[l] = runjson[l]
    /\ error = "gate" => lane = "catalog" /\ at \in GatePlaces
    /\ error = "gate" \/ runjson["catalog"] = "gate_failed" => GateFailed

(* What the own summary says, from when it is written.                     *)
AllPassed ==
    /\ \A l \in Lanes : Len(rows[l]) = 4 /\ OwnControlsPass(l)
    /\ Len(results) = Len(Engines) * Len(Cases) /\ OwnCasesPass

SomeFailed == (\E l \in Lanes : ~OwnControlsPass(l)) \/ ~OwnCasesPass

Undisturbed ==
    /\ NothingEdited /\ runjson["catalog"] = "gate_failed"
    /\ OwnControlsPass("catalog") /\ HasReport("w3c")

OwnedTells ==
    \/ owned = "complete" /\ AllPassed
    \/ owned = "complete_with_failures" /\ SomeFailed
    \/ owned = "failed" /\ ~Undisturbed

OwnedCode ==
    CASE owned = "complete" -> "0"
      [] owned = "complete_with_failures" -> "1"
      [] owned = "failed" -> "2"

OwnTells ==
    /\ at \in {"plots", "finish"} => OwnedTells
    /\ runjson["campaign"] = "published" => OwnedTells /\ code = OwnedCode
    /\ command = "campaign" /\ code \in {"0", "1"} => runjson["campaign"] = "published"

OwnInv ==
    /\ CommandsFit /\ RowsTell /\ CompareTells /\ ResultsTell /\ LanesTell
    /\ OwnTells

-----------------------------------------------------------------------------
(* The steps that decide none of this.                                     *)
PlacesFollow ==
    /\ at' = "start" => at = "start"
    /\ lane' = "w3c" /\ at' \in BeforeCases => lane = "w3c" /\ at \in BeforeCases
    /\ lane' = "w3c" /\ at' \in CasePlaces =>
        (lane = "w3c" /\ at \in CasePlaces) \/ Len(results) < 2 * Size
    /\ lane' = "w3c" /\ at' \in AfterCases =>
        (lane = "w3c" /\ at \in AfterCases) \/ Len(results) = 2 * Size
    /\ lane' = "catalog" /\ at' \in {"sources", "publish"} =>
        (lane = "catalog" /\ at \in {"sources", "publish"}) \/ ValidComparison
    /\ at' \in {"plots", "finish"} => at \in {"plots", "finish"}

(* An error of the gate is new, or stays where it was.                     *)
ErrorFollows ==
    \/ error' \in {"none", "error", "interrupt"}
    \/ error' = error /\ (at \in GatePlaces => at' \in GatePlaces)
    \/ lane = "catalog" /\ at' = "undo" /\ GateFailed

RowsFollow == \A l \in Lanes : rows'[l] = rows[l] \/ (lane = l /\ at \in HandledPlaces)

StatusFollows ==
    /\ runjson'["campaign"] = "published" => runjson["campaign"] = "published"
    /\ runjson["campaign"] = "published" => runjson'["campaign"] = "published"
    /\ \A l \in Lanes :
        \/ runjson'[l] = runjson[l]
        \/ /\ lane = l /\ at \in {"begin", "measure", "build"}
           /\ runjson'[l] \in {"running", "measuring", "executing"}

Plain ==
    /\ UNCHANGED <<command, lanes, owned>>
    /\ lane' = lane \/ (lane \notin Lanes /\ lane' \notin Lanes)
    /\ UNCHANGED <<results, allCases>> \/ (command = "conformance" /\ at # "ended")
    /\ \/ UNCHANGED <<identity, measured>>
       \/ at \in InComparisonPlaces /\ at' \notin {"sources", "publish"}
    /\ NothingEdited' => NothingEdited
    /\ \/ code' = code
       \/ at # "ended" /\ (code' \notin {"0", "1"} \/ command # "campaign")
    /\ FilesKeep /\ PlacesFollow /\ ErrorFollows /\ RowsFollow /\ StatusFollows

(* What is read of the rows, results and lanes stays with them.            *)
LEMMA RowsDecideOwn ==
    ASSUME NEW l, rows'[l] = rows[l]
    PROVE  /\ OwnControlsPass(l)' = OwnControlsPass(l)
           /\ l = "w3c" /\ results' = results => W3cStatus' = W3cStatus
           /\ l = "catalog" => GateFailed' = GateFailed
<1>1. ASSUME NEW a PROVE OwnRow(l, a)' = OwnRow(l, a)
  BY DEF OwnRow, RowOf
<1>2. OwnControlsPass(l)' = OwnControlsPass(l)
  BY <1>1 DEF OwnControlsPass
<1>3. l = "w3c" /\ results' = results => W3cStatus' = W3cStatus
  BY DEF W3cStatus, ResultFailures
<1>4. l = "catalog" => GateFailed' = GateFailed
  BY DEF GateFailed
<1>. QED BY <1>2, <1>3, <1>4

LEMMA OwnedStays ==
    ASSUME OwnedTells, UNCHANGED <<owned, results, lanes>>,
           \A l \in Lanes : rows'[l] = rows[l],
           runjson'["catalog"] = runjson["catalog"] \/ owned # "failed",
           NothingEdited' => NothingEdited
    PROVE  OwnedTells'
<1>1. \A l \in Lanes : OwnControlsPass(l)' = OwnControlsPass(l)
                       /\ Len(rows'[l]) = Len(rows[l])
  BY RowsDecideOwn
<1>2. OwnCasesPass' = OwnCasesPass
  BY DEF OwnCasesPass
<1>3. AllPassed => AllPassed'
  BY <1>1, <1>2 DEF AllPassed
<1>4. SomeFailed => SomeFailed'
  BY <1>1, <1>2 DEF SomeFailed
<1>5. owned = "failed" /\ Undisturbed' => Undisturbed
  BY <1>1 DEF Undisturbed, HasReport, Lanes
<1>. QED BY <1>3, <1>4, <1>5 DEF OwnedTells

LEMMA SameResultsTell ==
    ASSUME UNCHANGED <<results, allCases>> PROVE InOrder(results)' = InOrder(results)
<1>1. ASSUME NEW e, NEW c PROVE RowsFor(e, c)' = RowsFor(e, c)
  BY DEF RowsFor, Runnable
<1>. QED BY <1>1 DEF InOrder

(* The W3C lane is over, or the gate of the catalog lane has failed: the   *)
(* rows of the lane stay.                                                  *)
LEMMA DecidedRows ==
    ASSUME FilesInv, LanesTell, RowsFollow
    PROVE  /\ runjson["w3c"] \in Completed => rows'["w3c"] = rows["w3c"]
           /\ error = "gate" \/ runjson["catalog"] = "gate_failed" =>
                rows'["catalog"] = rows["catalog"]
<1>1. \A p \in GatePlaces \cup {"returned", "withdraw", "abort"} : p \notin HandledPlaces
  BY DEF GatePlaces, HandledPlaces, BuildPlaces
<1>2. runjson["w3c"] \in Completed /\ lane = "w3c" =>
        at \in {"returned", "withdraw", "abort", "ended"}
  BY DEF FilesInv, LaneTells, Tells, Lanes
<1>3. runjson["catalog"] = "gate_failed" /\ lane = "catalog" =>
        at \in {"failed", "withdraw", "abort", "ended"}
  BY DEF FilesInv, LaneTells, Tells, Lanes, FailedStatuses
<1>. QED BY <1>1, <1>2, <1>3 DEF LanesTell, RowsFollow, GatePlaces, Lanes

LEMMA PlainLanes ==
    ASSUME SnapInv, FilesInv, OwnInv, Plain PROVE LanesTell'
<1>1. /\ LanesTell /\ UNCHANGED lanes /\ RowsFollow /\ StatusFollows /\ ErrorFollows
      /\ \A l \in Lanes : lane' = l => lane = l
      /\ lane = "catalog" => lane' = "catalog"
  BY DEF OwnInv, Plain, Lanes
<1>2. /\ runjson["w3c"] \in Completed => rows'["w3c"] = rows["w3c"]
      /\ error = "gate" \/ runjson["catalog"] = "gate_failed" =>
           rows'["catalog"] = rows["catalog"]
  BY <1>1, DecidedRows
<1>3. \A l \in Lanes : runjson'[l] \in Completed \cup {"gate_failed"} =>
        runjson'[l] = runjson[l]
  BY <1>1 DEF StatusFollows, Completed
<1>4. runjson'["catalog"] # "complete_with_failures"
  BY <1>1, <1>3 DEF LanesTell, Completed, Lanes
<1>5. runjson'["w3c"] \in Completed => runjson'["w3c"] = W3cStatus'
  <2>1. SUFFICES ASSUME runjson'["w3c"] \in Completed
                 PROVE  runjson'["w3c"] = W3cStatus'
    OBVIOUS
  <2>2. runjson'["w3c"] = runjson["w3c"] /\ rows'["w3c"] = rows["w3c"]
        /\ runjson["w3c"] = W3cStatus
    BY <1>1, <1>2, <1>3, <2>1 DEF LanesTell, Lanes
  <2>3. ~(command = "conformance" /\ at # "ended")
    BY <2>1, <2>2 DEF FilesInv, LaneTells, Tells, LaneCommands, Completed, Lanes
  <2>4. results' = results
    BY <2>3 DEF Plain
  <2>. QED BY <2>2, <2>4, RowsDecideOwn
<1>6. \A l \in Lanes : lane' = l => lanes'[l] \notin Completed
  BY <1>1 DEF LanesTell
<1>7. \A l \in Lanes : lanes'[l] \in Completed => lanes'[l] = runjson'[l]
  <2>1. SUFFICES ASSUME NEW l \in Lanes, lanes[l] \in Completed
                 PROVE  lanes[l] = runjson'[l]
    BY <1>1
  <2>2. lanes[l] = runjson[l] /\ lane # l
    BY <1>1, <2>1 DEF LanesTell, Completed
  <2>. QED BY <1>1, <2>2 DEF StatusFollows
<1>8. error' = "gate" => lane' = "catalog" /\ at' \in GatePlaces /\ GateFailed'
  <2>1. SUFFICES ASSUME error' = "gate"
                 PROVE  lane' = "catalog" /\ at' \in GatePlaces /\ GateFailed'
    OBVIOUS
  <2>2. CASE error' = error /\ (at \in GatePlaces => at' \in GatePlaces)
    <3>1. lane = "catalog" /\ at \in GatePlaces /\ GateFailed
      BY <1>1, <2>1, <2>2 DEF LanesTell
    <3>. QED BY <1>1, <1>2, <2>1, <2>2, <3>1, RowsDecideOwn
  <2>3. CASE lane = "catalog" /\ at' = "undo" /\ GateFailed
    <3>1. rows'["catalog"] = rows["catalog"]
      <4>1. at \notin HandledPlaces
        <5>1. Len(rows["catalog"]) = 4 /\ Len(Order("catalog")) = 4
          BY <2>3, OrderOfLanes DEF GateFailed, Lanes
        <5>2. Len(rows[lane]) = 4 /\ Len(Order(lane)) = 4
          BY <2>3, <5>1
        <5>3. AllBuilt
          BY <5>2 DEF AllBuilt
        <5>. QED BY <5>3 DEF SnapInv, RowsInOrder
      <4>. QED BY <1>1, <4>1 DEF RowsFollow, Lanes
    <3>. QED BY <1>1, <2>3, <3>1, RowsDecideOwn DEF GatePlaces
  <2>. QED BY <1>1, <2>1, <2>2, <2>3 DEF ErrorFollows
<1>9. runjson'["catalog"] = "gate_failed" => GateFailed'
  <2>1. SUFFICES ASSUME runjson'["catalog"] = "gate_failed" PROVE GateFailed'
    OBVIOUS
  <2>2. runjson["catalog"] = "gate_failed" /\ GateFailed
    BY <1>1, <1>3, <2>1 DEF LanesTell, Lanes
  <2>. QED BY <1>2, <2>2, RowsDecideOwn
<1>. QED BY <1>4, <1>5, <1>6, <1>7, <1>8, <1>9 DEF LanesTell

LEMMA PlainKeeps ==
    ASSUME SnapInv, FilesInv, OwnInv, Plain
    PROVE  CompareTells' /\ ResultsTell' /\ LanesTell' /\ OwnTells'
<1>1. /\ files'["catalog/report.json"] = "new" => files["catalog/report.json"] = "new"
      /\ files'["w3c/report.json"] = "new" => files["w3c/report.json"] = "new"
  BY DEF Plain, FilesKeep, ReportOf, Lanes
<1>2. UNCHANGED <<command, lanes, owned>> /\ PlacesFollow
  BY DEF Plain
<1>3. CompareTells'
  <2>1. CASE UNCHANGED <<identity, measured>>
    <3>1. ValidComparison' = ValidComparison
      BY <2>1 DEF ValidComparison
    <3>. QED BY <1>1, <1>2, <3>1 DEF OwnInv, CompareTells, PlacesFollow
  <2>2. CASE at \in InComparisonPlaces /\ at' \notin {"sources", "publish"}
    <3>1. lane = "catalog" \/ command = "paired"
      BY <2>2 DEF SnapInv, PlacesOfLanes
    <3>2. files["catalog/report.json"] # "new"
      BY <2>2, <3>1 DEF SnapInv, ReportsHold, ReportOf, LatePlaces, Lanes,
                        InComparisonPlaces
    <3>3. ~(lane' = "catalog" /\ at' \in {"sources", "publish"})
      BY <2>2
    <3>. QED BY <1>1, <3>2, <3>3 DEF CompareTells
  <2>. QED BY <2>1, <2>2 DEF Plain
<1>4. ResultsTell'
  <2>1. SUFFICES ASSUME command # "conformance" PROVE ResultsTell'
    BY <1>2 DEF ResultsTell
  <2>2. UNCHANGED <<results, allCases>>
    BY <2>1 DEF Plain
  <2>3. InOrder(results)' = InOrder(results)
    BY <2>2, SameResultsTell
  <2>. QED BY <1>1, <1>2, <2>1, <2>2, <2>3 DEF OwnInv, ResultsTell, PlacesFollow
<1>5. LanesTell'
  BY PlainLanes
<1>6. OwnTells'
  <2>1. StatusFollows /\ RowsFollow /\ (NothingEdited' => NothingEdited) /\ OwnTells
    BY DEF Plain, OwnInv
  <2>2. ASSUME OwnedTells, \/ at \in {"plots", "finish"}
                           \/ runjson["campaign"] = "published"
        PROVE  OwnedTells'
    <3>1. /\ at \notin HandledPlaces /\ at \notin {"begin", "measure", "build"}
          /\ ~(command = "conformance" /\ at # "ended")
      BY <2>2 DEF FilesInv, ManifestTells, PlaceTells, HandledPlaces, BuildPlaces
    <3>2. /\ \A l \in Lanes : rows'[l] = rows[l]
          /\ runjson'["catalog"] = runjson["catalog"] /\ results' = results
      BY <2>1, <3>1 DEF StatusFollows, RowsFollow, Lanes, Plain
    <3>. QED BY <1>2, <2>1, <2>2, <3>2, OwnedStays
  <2>3. at' \in {"plots", "finish"} => OwnedTells'
    BY <1>2, <2>1, <2>2 DEF OwnTells, PlacesFollow
  <2>4. runjson'["campaign"] = "published" => OwnedTells' /\ code' = OwnedCode'
    <3>1. SUFFICES ASSUME runjson'["campaign"] = "published"
                   PROVE  OwnedTells' /\ code' = OwnedCode'
      OBVIOUS
    <3>2. runjson["campaign"] = "published" /\ at = "ended"
      BY <2>1, <3>1 DEF StatusFollows, FilesInv, ManifestTells
    <3>3. code' = code /\ OwnedCode' = OwnedCode
      BY <1>2, <3>2 DEF Plain, OwnedCode
    <3>. QED BY <2>1, <2>2, <3>2, <3>3 DEF OwnTells
  <2>5. command' = "campaign" /\ code' \in {"0", "1"} => runjson'["campaign"] = "published"
    BY <1>2, <2>1 DEF Plain, OwnTells, StatusFollows
  <2>. QED BY <2>3, <2>4, <2>5 DEF OwnTells
<1>. QED BY <1>3, <1>4, <1>5, <1>6

(* Most of them write nothing at all.                                      *)
Follows ==
    /\ UNCHANGED <<command, lane>> /\ PlacesFollow /\ ErrorFollows
    /\ \/ code' = code
       \/ at # "ended" /\ (code' \notin {"0", "1"} \/ command # "campaign")

Bare ==
    /\ UNCHANGED <<lanes, owned, results, allCases, identity, measured, inputVars,
                   files, runjson>>
    /\ RowsFollow

LEMMA BareIsPlain == ASSUME Follows, Bare PROVE Plain
<1>1. /\ UNCHANGED <<command, lane, lanes, owned, results, allCases, identity,
                     measured, files, runjson>>
      /\ source' = source /\ head' = head /\ replaced' = replaced
  BY DEF Follows, Bare, inputVars
<1>. QED BY <1>1 DEF Follows, Bare, Plain, NothingEdited, FilesKeep, StatusFollows

LEMMA RaiseFollows ==
    ASSUME NEW kind \in {"error", "interrupt"}, Raise(kind) PROVE Follows
BY HandlerIsElsewhere
   DEF Raise, Follows, PlacesFollow, ErrorFollows, BeforeCases, HandledPlaces,
       BuildPlaces, CasePlaces, AfterCases

LEMMA ExitFollows ==
    ASSUME NEW c, Exit(c), at # "ended", c \notin {"0", "1"} \/ command # "campaign"
    PROVE  Follows
BY DEF Exit, Follows, PlacesFollow, ErrorFollows, BeforeCases, HandledPlaces,
       BuildPlaces, CasePlaces, AfterCases, GatePlaces

LEMMA StayFollows == ASSUME UNCHANGED whereVars PROVE Follows
BY DEF whereVars, Follows, PlacesFollow, ErrorFollows

LEMMA GoFollows ==
    ASSUME NEW p, Goto(p), at \notin GatePlaces,
           p \notin {"start", "plots", "finish"} \cup CasePlaces \cup AfterCases,
           p \in BeforeCases /\ lane = "w3c" => at \in BeforeCases
    PROVE  Follows
<1>1. at' = p /\ UNCHANGED <<command, lane, error, code>>
  BY DEF Goto
<1>2. at' \notin {"start", "plots", "finish", "sources", "publish"}
      /\ at' \notin CasePlaces /\ at' \notin AfterCases
  BY <1>1 DEF AfterCases
<1>3. PlacesFollow
  BY <1>1, <1>2 DEF PlacesFollow
<1>. QED BY <1>1, <1>3 DEF Follows, ErrorFollows

LEMMA RowsStayFollow == ASSUME UNCHANGED rows PROVE RowsFollow
BY DEF RowsFollow

LEMMA AppendFollows ==
    ASSUME BuildInv, NEW r, Append1(r), lane \in Profiles,
           lane \in Lanes => at \in HandledPlaces
    PROVE  RowsFollow
<1>1. rows' = [rows EXCEPT ![lane] = Append(rows[lane], r)]
      /\ rows \in [Profiles -> Seq(GoodRows)]
  BY DEF Append1, BuildInv, RowsAreGood
<1>2. ASSUME NEW l \in Lanes, lane # l PROVE rows'[l] = rows[l]
  BY <1>1, <1>2 DEF Profiles
<1>. QED BY <1>2 DEF RowsFollow

(* build_one and its callers.                                              *)
LEMMA BuildIsPlain == ASSUME Build PROVE Plain
<1>1. Bare
  BY RowsStayFollow
     DEF Build, BuildStep, BeginBuild, CallPrepare, TakePrepared, Compile, CheckInputs,
         WriteManifest, BuildFails, Bare, fileVars, benchVars, afterBench, afterSuite,
         conformanceVars, campaignVars, buildVars
<1>2. /\ at \in {"build"} \cup BuildPlaces
      /\ \/ UNCHANGED whereVars \/ Raise("interrupt")
         \/ \E p \in {"built"} \cup BuildPlaces : Goto(p)
  BY DEF Build, BuildStep, BeginBuild, CallPrepare, TakePrepared, Compile, CheckInputs,
         WriteManifest, BuildFails, BuildSteps, BuildPlaces
<1>3. CASE \E p \in {"built"} \cup BuildPlaces : Goto(p)
  <2>1. PICK p \in {"built"} \cup BuildPlaces : Goto(p)
    BY <1>3
  <2>2. /\ at \notin GatePlaces /\ at \in BeforeCases
        /\ p \notin {"start", "plots", "finish"} \cup CasePlaces \cup AfterCases
    BY <1>2 DEF BuildPlaces, GatePlaces, BeforeCases, HandledPlaces, CasePlaces,
                AfterCases
  <2>. QED BY <1>1, <2>1, <2>2, GoFollows, BareIsPlain
<1>4. CASE UNCHANGED whereVars \/ Raise("interrupt")
  BY <1>1, <1>4, StayFollows, RaiseFollows, BareIsPlain
<1>. QED BY <1>2, <1>3, <1>4

LEMMA BuildsIsPlain ==
    ASSUME SnapInv, BuildInv, CommandsFit, Tools \/ Builds PROVE Plain
<1>1. UNCHANGED <<lanes, owned, results, allCases, identity, measured, inputVars, files>>
  BY DEF Tools, Builds, StartBuilds, RecordBuild, EndBuilds, EndBuildsBadly, Toolchain,
         fileVars, benchVars, laneVars, afterBench, afterSuite, conformanceVars,
         campaignVars
<1>2. CASE Tools \/ RecordBuild
  <2>1. /\ at \in {"tools", "built"} /\ UNCHANGED runjson /\ Goto("build")
        /\ \/ UNCHANGED rows
           \/ lane = "probe" /\ Append1(build)
    BY <1>2 DEF Tools, Toolchain, RecordBuild, fileVars, laneVars, buildVars
  <2>2. RowsFollow
    BY <2>1, RowsStayFollow, AppendFollows DEF Profiles, Lanes
  <2>3. Follows
    BY <2>1, GoFollows DEF GatePlaces, BeforeCases, HandledPlaces, CasePlaces,
                           AfterCases, BuildPlaces
  <2>. QED BY <1>1, <2>1, <2>2, <2>3, BareIsPlain DEF Bare
<1>3. CASE StartBuilds \/ EndBuilds \/ EndBuildsBadly
  <2>1. /\ UNCHANGED rows
        /\ UNCHANGED runjson \/ \E s : Status("implementations", s)
        /\ at \in {"start", "build", "tools"}
        /\ \/ /\ at = "start" /\ lane' = "probe" /\ at' = "tools"
              /\ UNCHANGED <<command, error, code>>
           \/ lane = "probe" /\ \E c : Exit(c)
    BY <1>3 DEF StartBuilds, EndBuilds, EndBuildsBadly, buildVars
  <2>2. StatusFollows
    BY <2>1 DEF StatusFollows, Status, SnapInv, Typed, Owners, Lanes
  <2>3. RowsFollow /\ FilesKeep /\ (NothingEdited' => NothingEdited)
    BY <1>1, <2>1, RowsStayFollow DEF FilesKeep, NothingEdited, inputVars
  <2>4. CASE lane = "probe" /\ \E c : Exit(c)
    <3>1. command # "campaign"
      BY <2>4 DEF CommandsFit
    <3>2. Follows
      BY <2>1, <2>4, <3>1, ExitFollows
    <3>. QED BY <1>1, <2>2, <2>3, <3>2 DEF Plain, Follows
  <2>5. CASE /\ at = "start" /\ lane' = "probe" /\ at' = "tools"
             /\ UNCHANGED <<command, error, code>>
    <3>1. lane \notin Lanes /\ lane' \notin Lanes
      BY <2>5 DEF SnapInv, LanesBeginOnce, Lanes
    <3>2. PlacesFollow /\ ErrorFollows
      BY <2>5 DEF PlacesFollow, ErrorFollows, GatePlaces
    <3>. QED BY <1>1, <2>2, <2>3, <2>5, <3>1, <3>2 DEF Plain
  <2>. QED BY <2>1, <2>4, <2>5
<1>. QED BY <1>2, <1>3 DEF Builds

(* Places that tell nothing.                                               *)
Unmarked(p) ==
    /\ p \notin {"start", "plots", "finish", "sources", "publish"}
    /\ p \notin BeforeCases \cup CasePlaces \cup AfterCases

LEMMA UnmarkedPlaces ==
    \A p \in {"discard", "undo", "failed", "withdraw", "abort", "ended", "identify",
              "calibrate", "warmup", "pair", "compare", "compared", "validate",
              "measure", "complete", "returned", "lane", "summary", "matrix",
              "recheck input", "setup", "case", "judge", "reports", "reported"} :
        Unmarked(p)
BY DEF Unmarked, BeforeCases, HandledPlaces, BuildPlaces, CasePlaces, AfterCases

LEMMA UnmarkedFollows ==
    ASSUME UNCHANGED <<command, lane>>, Unmarked(at') \/ at' = at, ErrorFollows,
           \/ code' = code
           \/ at # "ended" /\ (code' \notin {"0", "1"} \/ command # "campaign")
    PROVE  Follows
<1>1. PlacesFollow
  BY DEF PlacesFollow, Unmarked
<1>. QED BY <1>1 DEF Follows

(* The comparison.                                                         *)
LEMMA CompareIsPlain == ASSUME SnapInv, CommandsFit, Compare PROVE Plain
<1>1. /\ UNCHANGED <<command, lane, lanes, owned, results, allCases, inputVars, rows,
                     runjson>>
  BY DEF Compare, BenchStep, StartComparison, RefuseComparison, Identify, SampleFirst,
         Sample, Calibrate, Double, Warmup, MeasurePair, PublishComparison,
         PublishComparisonCut, EndComparison, Discard, AfterDiscard, PublishAll,
         PublishCut, Goto, Raise, Exit, Killed, whereVars, fileVars, buildVars,
         afterBench, conformanceVars, afterSuite, campaignVars
<1>2. FilesKeep
  <2>1. \/ UNCHANGED files
        \/ \E k : Removed(ComparisonFiles, k)
        \/ \E p : PublishAll(ComparisonFiles, p)
        \/ PublishCut(ComparisonFiles)
    BY DEF Compare, BenchStep, StartComparison, RefuseComparison, Identify, SampleFirst,
           Sample, Calibrate, Double, Warmup, MeasurePair, PublishComparison,
           PublishComparisonCut, EndComparison, Discard, fileVars
  <2>. QED BY <2>1, RemovedKeeps, PublishKeeps DEF FilesKeep
<1>3. /\ Unmarked(at') \/ at' = at
      /\ \/ UNCHANGED <<identity, measured>>
         \/ at \in InComparisonPlaces /\ at' \in {"calibrate", "warmup", "pair", "compare"}
  <2>1. CASE \/ StartComparison \/ RefuseComparison \/ Identify \/ EndComparison
             \/ SampleFirst \/ Warmup \/ MeasurePair
    BY <2>1, UnmarkedPlaces
       DEF StartComparison, RefuseComparison, Identify, EndComparison, SampleFirst,
           Warmup, MeasurePair, Goto, Exit, whereVars, Sample, InComparisonPlaces,
           benchVars
  <2>2. CASE Calibrate \/ PublishComparison \/ PublishComparisonCut \/ Discard
    BY <2>2, UnmarkedPlaces, HandlerIsElsewhere
       DEF Calibrate, Double, PublishComparison, PublishComparisonCut, Discard,
           AfterDiscard, PublishAll, PublishCut, Goto, Raise, Exit, Killed, whereVars,
           Sample, benchVars
  <2>. QED BY <2>1, <2>2 DEF Compare, BenchStep
<1>4. \/ code' = code
      \/ at # "ended" /\ (code' \notin {"0", "1"} \/ command # "campaign")
  BY DEF Compare, BenchStep, StartComparison, RefuseComparison, Identify, SampleFirst,
         Sample, Calibrate, Double, Warmup, MeasurePair, PublishComparison,
         PublishComparisonCut, EndComparison, Discard, AfterDiscard, PublishAll,
         PublishCut, Goto, Raise, Exit, Killed, whereVars, CommandsFit
<1>5. ErrorFollows
  <2>1. CASE Discard
    <3>1. at \notin GatePlaces
      BY <2>1 DEF Discard, GatePlaces
    <3>2. error' \in {error, "error", "interrupt"}
      BY <2>1 DEF Discard, AfterDiscard, Exit, Killed
    <3>. QED BY <3>1, <3>2 DEF ErrorFollows
  <2>2. CASE ~Discard
    <3>1. at \notin GatePlaces \cup {"ended"} /\ error' \in {error, "error", "interrupt"}
      BY <2>2
         DEF Compare, BenchStep, StartComparison, RefuseComparison, Identify,
             SampleFirst, Sample, Calibrate, Double, Warmup, MeasurePair,
             PublishComparison, PublishComparisonCut, EndComparison, PublishAll,
             PublishCut, Goto, Raise, Exit, Killed, whereVars, GatePlaces
    <3>. QED BY <3>1 DEF ErrorFollows
  <2>. QED BY <2>1, <2>2
<1>6. Follows
  BY <1>1, <1>3, <1>4, <1>5, UnmarkedFollows
<1>7. StatusFollows /\ RowsFollow /\ (NothingEdited' => NothingEdited)
  BY <1>1 DEF StatusFollows, RowsFollow, NothingEdited, inputVars
<1>. QED BY <1>1, <1>2, <1>3, <1>6, <1>7 DEF Plain, Follows

(* The lanes, as far as they only build, look, and measure.                *)
LaneLeaves ==
    /\ UNCHANGED <<lanes, owned, results, allCases, identity, measured, inputVars,
                   files>>
    /\ RowsFollow /\ StatusFollows

LEMMA LeavesIsPlain == ASSUME Follows, LaneLeaves PROVE Plain
<1>1. /\ UNCHANGED <<command, lane, lanes, owned, results, allCases, identity,
                     measured, files>>
      /\ source' = source /\ head' = head /\ replaced' = replaced
  BY DEF Follows, LaneLeaves, inputVars
<1>. QED BY <1>1 DEF Follows, LaneLeaves, Plain, NothingEdited, FilesKeep

LEMMA StatusStaysFollow == ASSUME UNCHANGED runjson PROVE StatusFollows
BY DEF StatusFollows

LEMMA LaneStatusFollows ==
    ASSUME SnapInv, NEW l \in Lanes, lane = l, at \in {"begin", "measure", "build"},
           NEW s \in {"running", "measuring", "executing"}, Status(l, s)
    PROVE  StatusFollows
<1>1. runjson \in [Owners -> Statuses] /\ l \in Owners /\ l # "campaign"
  BY DEF SnapInv, Typed, Owners, Lanes
<1>2. \A o \in Owners : runjson'[o] = IF o = l THEN s ELSE runjson[o]
  BY <1>1 DEF Status
<1>. QED BY <1>1, <1>2 DEF StatusFollows, Owners, Lanes

LEMMA GateSees ==
    ASSUME SnapInv, BuildInv, lane = "catalog", AllBuilt, ~AllHave("qualified")
    PROVE  GateFailed
<1>1. Len(rows["catalog"]) = 4 /\ DOMAIN rows["catalog"] = 1..4
  BY FourRows DEF Lanes
<1>. QED BY <1>1 DEF AllHave, GateFailed

LaneBuilds ==
    \/ BeginLane("catalog", "tools") \/ BeginLane("w3c", "suite")
    \/ ValidateBuild \/ RunControls \/ RecordQualified \/ RecordFailed

LaneChecks ==
    CatalogGate \/ Measure \/ ValidateComparison \/ ValidateSources \/ EndLane

LEMMA LaneBuildsIsPlain ==
    ASSUME SnapInv, BuildInv, CatalogOrLane, LaneBuilds PROVE Plain
<1>1. UNCHANGED <<lanes, owned, results, allCases, identity, measured, inputVars, files>>
  BY DEF CatalogOrLane, LaneBuilds, BeginLane, ValidateBuild, RunControls,
         RecordQualified, RecordFailed, fileVars, benchVars, laneVars, afterBench,
         afterSuite, conformanceVars, campaignVars
<1>2. RowsFollow /\ StatusFollows
  <2>1. CASE BeginLane("catalog", "tools") \/ BeginLane("w3c", "suite")
    BY <2>1, RowsStayFollow, LaneStatusFollows DEF BeginLane, laneVars, buildVars, Lanes
  <2>2. CASE ValidateBuild \/ RunControls
    BY <2>2, RowsStayFollow, StatusStaysFollow DEF ValidateBuild, RunControls, fileVars
  <2>3. CASE RecordQualified \/ RecordFailed
    <3>1. PICK r : Append1(r)
      BY <2>3 DEF RecordQualified, RecordFailed
    <3>2. lane \in Profiles /\ at \in HandledPlaces /\ UNCHANGED runjson
      BY <2>3 DEF RecordQualified, RecordFailed, HandledPlaces, Profiles, Lanes, fileVars
    <3>. QED BY <3>1, <3>2, AppendFollows, StatusStaysFollow
  <2>. QED BY <2>1, <2>2, <2>3 DEF LaneBuilds
<1>3. Follows
  <2>1. /\ at \in {"begin", "built", "controls", "qualify"}
        /\ \/ UNCHANGED whereVars
           \/ \E p \in {"tools", "suite", "controls", "qualify", "build"} : Goto(p)
    BY DEF LaneBuilds, BeginLane, ValidateBuild, RunControls, RecordQualified,
           RecordFailed
  <2>2. at \notin GatePlaces /\ at \in BeforeCases
    BY <2>1 DEF GatePlaces, BeforeCases, HandledPlaces
  <2>3. CASE \E p \in {"tools", "suite", "controls", "qualify", "build"} : Goto(p)
    BY <2>2, <2>3, GoFollows DEF CasePlaces, AfterCases
  <2>. QED BY <2>1, <2>3, StayFollows
<1>. QED BY <1>1, <1>2, <1>3, LeavesIsPlain DEF LaneLeaves

LEMMA LaneChecksIsPlain ==
    ASSUME SnapInv, BuildInv, CatalogOrLane, LaneChecks PROVE Plain
<1>1. UNCHANGED <<lanes, owned, results, allCases, identity, measured, inputVars, files,
                  rows>>
  BY DEF CatalogOrLane, LaneChecks, CatalogGate, Measure, ValidateComparison,
         ValidateSources, EndLane, fileVars, benchVars, laneVars, buildVars, afterBench,
         afterSuite, conformanceVars, campaignVars
<1>2. StatusFollows
  <2>1. CASE Measure /\ Status("catalog", "measuring")
    BY <2>1, LaneStatusFollows DEF Measure, SnapInv, PlacesOfLanes, Lanes
  <2>. QED BY <2>1, StatusStaysFollow
           DEF LaneChecks, CatalogGate, Measure, ValidateComparison, ValidateSources,
               EndLane, fileVars
<1>3. Follows
  <2>1. CASE CatalogGate
    <3>1. /\ at = "build" /\ lane = "catalog" /\ AllBuilt /\ UNCHANGED <<command, lane, code>>
          /\ \/ at' = "undo" /\ error' = "gate" /\ ~AllHave("qualified")
             \/ at' = "undo" /\ error' = "error"
             \/ at' = "measure" /\ error' = error
      BY <2>1 DEF CatalogGate, Raise, Goto, Handler, InComparison, InLane, Lanes
    <3>2. ErrorFollows
      BY <3>1, GateSees DEF ErrorFollows, GatePlaces
    <3>. QED BY <3>1, <3>2, UnmarkedPlaces, UnmarkedFollows
  <2>2. CASE Measure
    BY <2>2, RaiseFollows, GoFollows, UnmarkedPlaces
       DEF Measure, GatePlaces, BeforeCases, HandledPlaces, BuildPlaces, CasePlaces,
           AfterCases
  <2>3. CASE ValidateComparison
    <3>1. CASE Raise("error")
      BY <3>1, RaiseFollows
    <3>2. CASE ValidComparison /\ Goto("sources")
      <4>1. lane = "catalog" /\ at = "validate"
        BY <2>3 DEF ValidateComparison, SnapInv, PlacesOfLanes
      <4>2. /\ at' = "sources" /\ UNCHANGED <<command, lane, error, code>>
        BY <3>2 DEF Goto
      <4>3. PlacesFollow
        BY <3>2, <4>1, <4>2 DEF PlacesFollow
      <4>. QED BY <4>1, <4>2, <4>3 DEF Follows, ErrorFollows, GatePlaces
    <3>. QED BY <2>3, <3>1, <3>2 DEF ValidateComparison
  <2>4. CASE ValidateSources
    <3>1. CASE Raise("error")
      BY <3>1, RaiseFollows
    <3>2. CASE Goto("publish")
      <4>1. lane = "catalog" /\ at = "sources"
        BY <2>4 DEF ValidateSources
      <4>2. /\ at' = "publish" /\ UNCHANGED <<command, lane, error, code>>
        BY <3>2 DEF Goto
      <4>3. PlacesFollow
        BY <4>1, <4>2 DEF PlacesFollow
      <4>. QED BY <4>1, <4>2, <4>3 DEF Follows, ErrorFollows, GatePlaces
    <3>. QED BY <2>4, <3>1, <3>2 DEF ValidateSources
  <2>5. CASE EndLane
    BY <2>5, ExitFollows DEF EndLane, Lanes
  <2>. QED BY <2>1, <2>2, <2>3, <2>4, <2>5 DEF LaneChecks
<1>4. RowsFollow
  BY <1>1, RowsStayFollow
<1>. QED BY <1>1, <1>2, <1>3, <1>4, LeavesIsPlain DEF LaneLeaves

(* The conformance command, the regression command.                        *)
LEMMA ConformanceIsPlain == ASSUME SnapInv, Conformance PROVE Plain
<1>1. /\ command = "conformance" /\ command' = command
      /\ at \notin {"ended"} \cup GatePlaces
      /\ UNCHANGED <<lane, lanes, owned, identity, measured, inputVars, rows, runjson>>
  BY DEF Conformance, ConformanceStep, StartConformance, Setup, RunConformanceCase,
         SetupError, Judge, WriteReports, EndConformance, PublishAll, PublishCut, Goto,
         Raise, Exit, Killed, whereVars, fileVars, laneVars, buildVars, benchVars,
         afterSuite, campaignVars, GatePlaces
<1>2. FilesKeep
  <2>1. \/ UNCHANGED files
        \/ \E k : Removed(ConformanceFiles, k)
        \/ \E p : PublishAll(ConformanceFiles, p)
        \/ PublishCut(ConformanceFiles)
    BY DEF Conformance, ConformanceStep, StartConformance, Setup, RunConformanceCase,
           SetupError, Judge, WriteReports, EndConformance, fileVars
  <2>. QED BY <2>1, RemovedKeeps, PublishKeeps DEF FilesKeep
<1>3. Follows
  <2>1. /\ \/ at' = at
           \/ at' \in {"ended", "setup", "case", "judge", "reports", "reported",
                       "discard", "undo", "withdraw", "abort"}
        /\ error' \in {error, "error", "interrupt"}
    BY HandlerIsElsewhere
       DEF Conformance, ConformanceStep, StartConformance, Setup, RunConformanceCase,
           SetupError, Judge, WriteReports, EndConformance, PublishAll, PublishCut,
           Goto, Raise, Exit, Killed, whereVars
  <2>2. ErrorFollows /\ command # "campaign"
    BY <1>1, <2>1 DEF ErrorFollows
  <2>. QED BY <1>1, <2>1, <2>2, UnmarkedPlaces, UnmarkedFollows
<1>4. StatusFollows /\ RowsFollow /\ (NothingEdited' => NothingEdited)
  BY <1>1 DEF StatusFollows, RowsFollow, NothingEdited, inputVars
<1>. QED BY <1>1, <1>2, <1>3, <1>4 DEF Plain, Follows

LEMMA RegressionIsPlain ==
    ASSUME SnapInv, BuildInv, FilesInv, CommandsFit, Regression PROVE Plain
<1>1. /\ command' = command /\ at \notin {"ended", "undo", "failed"}
      /\ UNCHANGED <<lanes, owned, results, allCases, identity, measured, inputVars>>
  BY DEF Regression, RegressionStep, StartRegression, SkipFailed, TraceCases,
         RunLifecycle, EndTraces, PublishRegression, EndRegression, AbortRegression,
         PublishAll, PublishCut, Goto, Raise, Exit, Killed, otherThanJudged, laneVars,
         benchVars, conformanceVars, campaignVars
<1>2. FilesKeep
  <2>1. \/ UNCHANGED files
        \/ \E p : PublishAll(RegressionFiles, p)
        \/ PublishCut(RegressionFiles)
    BY DEF Regression, RegressionStep, StartRegression, SkipFailed, TraceCases,
           RunLifecycle, EndTraces, PublishRegression, EndRegression, AbortRegression,
           fileVars
  <2>. QED BY <2>1, PublishKeeps DEF FilesKeep
<1>3. StatusFollows
  <2>1. UNCHANGED runjson \/ \E s : Status("regression", s)
    BY DEF Regression, RegressionStep, StartRegression, SkipFailed, TraceCases,
           RunLifecycle, EndTraces, PublishRegression, EndRegression, AbortRegression,
           PublishAll, PublishCut, fileVars
  <2>. QED BY <2>1 DEF StatusFollows, Status, SnapInv, Typed, Owners, Lanes
<1>4. CASE StartRegression
  <2>1. /\ at = "start" /\ lane' = "regression" /\ at' = "tools"
        /\ UNCHANGED <<command, error, code, rows>>
    BY <1>4 DEF StartRegression, otherThanJudged, laneVars, buildVars
  <2>2. lane \notin Lanes /\ lane' \notin Lanes
    BY <2>1 DEF SnapInv, LanesBeginOnce, Lanes
  <2>3. PlacesFollow /\ ErrorFollows /\ RowsFollow
    BY <2>1, RowsStayFollow DEF PlacesFollow, ErrorFollows, GatePlaces
  <2>4. NothingEdited' => NothingEdited
    BY <1>1 DEF NothingEdited, inputVars
  <2>. QED BY <1>1, <1>2, <1>3, <2>1, <2>2, <2>3, <2>4 DEF Plain
<1>5. CASE ~StartRegression
  <2>1. command = "regression" \/ lane = "regression"
    BY <1>5 DEF Regression, RegressionStep, SkipFailed, TraceCases, RunLifecycle,
                EndTraces, PublishRegression, EndRegression, AbortRegression,
                CommandsFit
  <2>2. command = "regression"
    BY <2>1 DEF CommandsFit
  <2>3. lane \notin Lanes
    BY <2>2 DEF FilesInv, LaneTells, Tells, LaneCommands
  <2>4. /\ lane' = lane /\ error' \in {error, "error", "interrupt"}
        /\ at' \notin {"start", "plots", "finish"}
    BY <1>5, HandlerIsElsewhere
       DEF Regression, RegressionStep, SkipFailed, TraceCases, RunLifecycle,
           EndTraces, PublishRegression, EndRegression, AbortRegression, PublishAll,
           PublishCut, Goto, Raise, Exit, Killed
  <2>5. PlacesFollow /\ ErrorFollows
    BY <1>1, <2>3, <2>4 DEF PlacesFollow, ErrorFollows, GatePlaces, Lanes
  <2>6. RowsFollow
    <3>1. \/ UNCHANGED rows
          \/ lane = "regression" /\ \E r : Append1(r)
      BY <1>5 DEF Regression, RegressionStep, SkipFailed, TraceCases, RunLifecycle,
                  EndTraces, PublishRegression, EndRegression, AbortRegression,
                  otherThanJudged, laneVars, buildVars, CommandsFit
    <3>. QED BY <2>3, <3>1, RowsStayFollow, AppendFollows DEF Profiles
  <2>7. NothingEdited' => NothingEdited
    BY <1>1 DEF NothingEdited, inputVars
  <2>. QED BY <1>1, <1>2, <1>3, <2>2, <2>4, <2>5, <2>6, <2>7 DEF Plain
<1>. QED BY <1>4, <1>5

(* The W3C lane, but for its cases and its reports.                        *)
LEMMA W3cGoFollows ==
    ASSUME NEW p, Goto(p), lane = "w3c", at \notin GatePlaces,
           p \notin {"start", "plots", "finish"},
           p \in BeforeCases => at \in BeforeCases,
           p \in CasePlaces => at \in CasePlaces \/ Len(results) < 2 * Size,
           p \in AfterCases => at \in AfterCases \/ Len(results) = 2 * Size
    PROVE  Follows
<1>1. at' = p /\ UNCHANGED <<command, lane, error, code>>
  BY DEF Goto
<1>2. PlacesFollow
  BY <1>1 DEF PlacesFollow
<1>. QED BY <1>1, <1>2 DEF Follows, ErrorFollows

LEMMA W3cPlaces ==
    /\ {"suite", "tools", "build", "qualify"} \subseteq BeforeCases
    /\ CasePlaces = {"engine", "input", "run"}
    /\ AfterCases = {"sources", "artifacts", "publish"}
    /\ BeforeCases \cap (CasePlaces \cup AfterCases \cup {"matrix", "recheck input"}) = {}
    /\ GatePlaces = {"undo", "failed", "ended"}
BY DEF BeforeCases, HandledPlaces, BuildPlaces, CasePlaces, AfterCases, GatePlaces

W3cChecks ==
    \/ PrepareSuite \/ RecordExecuted \/ W3cGate \/ BeginEngine \/ CheckInput
    \/ RecheckInput \/ CheckMatrix \/ CheckW3cSources \/ CheckW3cArtifacts

LEMMA W3cChecksFollow ==
    ASSUME SnapInv, FilesInv, OwnInv, W3c, W3cChecks PROVE Follows
<1>1. CASE PrepareSuite \/ RecordExecuted
  <2>1. PICK p \in {"tools", "build"} : Goto(p)
    BY <1>1 DEF PrepareSuite, RecordExecuted
  <2>2. at \in {"suite", "qualify"}
    BY <1>1 DEF PrepareSuite, RecordExecuted
  <2>. QED BY <2>1, <2>2, GoFollows, W3cPlaces
<1>2. CASE ~(PrepareSuite \/ RecordExecuted)
  <2>1. lane = "w3c"
    BY <1>2 DEF W3cChecks, W3cGate, BeginEngine, CheckInput, RecheckInput, CheckMatrix,
                CheckW3cSources, CheckW3cArtifacts, SnapInv, PlacesOfLanes
  <2>2. ResultsTell /\ command # "conformance"
    BY <2>1 DEF OwnInv, FilesInv, LaneTells, Tells, LaneCommands, Lanes
  <2>3. /\ InOrder(results) /\ Size \in Nat \ {0} /\ Len(results) \in Nat
        /\ Len(results) <= 2 * Size
        /\ AllRun <=> Len(results) = 2 * Size
    BY <2>2, CatalogFacts, TwoEngines DEF ResultsTell, InOrder, AllRun, Size
  <2>4. CASE Raise("error")
    BY <2>4, RaiseFollows
  <2>5. CASE W3cGate /\ Goto("engine")
    <3>1. at = "build"
      BY <2>5 DEF W3cGate
    <3>2. results = <<>>
      BY <2>1, <2>2, <3>1, W3cPlaces DEF ResultsTell
    <3>3. Len(results) < 2 * Size
      BY <2>3, <3>2
    <3>. QED BY <2>1, <2>5, <3>1, <3>3, W3cGoFollows, W3cPlaces
  <2>6. CASE \/ BeginEngine /\ Goto("input")
             \/ CheckInput /\ Goto("run")
    <3>1. PICK p \in {"input", "run"} : Goto(p)
      BY <2>6
    <3>2. at \in CasePlaces
      BY <2>6 DEF BeginEngine, CheckInput, CasePlaces
    <3>. QED BY <2>1, <3>1, <3>2, W3cGoFollows, W3cPlaces
  <2>7. CASE RecheckInput /\ ~Raise("error")
    <3>1. PICK p \in {"matrix", "engine", "input"} :
            Goto(p) /\ (p # "matrix" => ~AllRun)
      BY <2>7 DEF RecheckInput
    <3>2. at = "recheck input"
      BY <2>7 DEF RecheckInput
    <3>3. p # "matrix" => Len(results) < 2 * Size
      BY <2>3, <3>1
    <3>. QED BY <2>1, <3>1, <3>2, <3>3, W3cGoFollows, W3cPlaces
  <2>8. CASE CheckMatrix /\ ~Raise("error")
    <3>1. Goto("sources") /\ at = "matrix" /\ comparison_rows
      BY <2>8 DEF CheckMatrix
    <3>2. Len(results) = 2 * Size
      BY <3>1, <2>3, TwoEngines DEF comparison_rows, Size
    <3>. QED BY <2>1, <3>1, <3>2, W3cGoFollows, W3cPlaces
  <2>9. CASE \/ CheckW3cSources /\ Goto("artifacts")
             \/ CheckW3cArtifacts /\ Goto("publish")
    <3>1. PICK p \in {"artifacts", "publish"} : Goto(p)
      BY <2>9
    <3>2. at \in AfterCases
      BY <2>9 DEF CheckW3cSources, CheckW3cArtifacts, AfterCases
    <3>. QED BY <2>1, <3>1, <3>2, W3cGoFollows, W3cPlaces
  <2>. QED BY <1>2, <2>4, <2>5, <2>6, <2>7, <2>8, <2>9
           DEF W3cChecks, W3cGate, BeginEngine, CheckInput, CheckW3cSources,
               CheckW3cArtifacts
<1>. QED BY <1>1, <1>2

LEMMA W3cChecksIsPlain ==
    ASSUME SnapInv, BuildInv, FilesInv, OwnInv, W3c, W3cChecks PROVE Plain
<1>1. UNCHANGED <<lanes, owned, results, allCases, identity, measured, inputVars, files>>
  BY DEF W3c, W3cChecks, PrepareSuite, RecordExecuted, W3cGate, BeginEngine, CheckInput,
         RecheckInput, CheckMatrix, CheckW3cSources, CheckW3cArtifacts, fileVars,
         benchVars, laneVars, afterSuite, conformanceVars, campaignVars
<1>2. RowsFollow
  <2>1. CASE RecordExecuted
    BY <2>1, AppendFollows DEF RecordExecuted, HandledPlaces, Profiles, Lanes
  <2>2. CASE ~RecordExecuted
    BY <2>2, RowsStayFollow
       DEF W3cChecks, PrepareSuite, W3cGate, BeginEngine, CheckInput, RecheckInput,
           CheckMatrix, CheckW3cSources, CheckW3cArtifacts, laneVars, buildVars
  <2>. QED BY <2>1, <2>2
<1>3. StatusFollows
  <2>1. CASE W3cGate /\ Status("w3c", "executing")
    BY <2>1, LaneStatusFollows DEF W3cGate, Lanes
  <2>2. CASE UNCHANGED runjson
    BY <2>2, StatusStaysFollow
  <2>. QED BY <2>1, <2>2
           DEF W3cChecks, PrepareSuite, RecordExecuted, W3cGate, BeginEngine, CheckInput,
               RecheckInput, CheckMatrix, CheckW3cSources, CheckW3cArtifacts, fileVars
<1>. QED BY <1>1, <1>2, <1>3, W3cChecksFollow, LeavesIsPlain DEF LaneLeaves

(* Exceptions from anywhere, and everybody else.                           *)
LEMMA BreaksOffIsPlain ==
    ASSUME SnapInv, BuildInv, FilesInv, CommandsFit,
           StepFails \/ Interrupt \/ KillCommand \/ Abort
    PROVE  Plain
<1>1. UNCHANGED <<lanes, owned, results, allCases, identity, measured, inputVars, files,
                  runjson, rows>>
  BY DEF StepFails, Interrupt, KillCommand, Abort, fileVars, benchVars, laneVars,
         buildVars, afterBench, afterSuite, conformanceVars, campaignVars
<1>2. Follows
  <2>1. CASE (\E kind \in {"error", "interrupt"} : Raise(kind)) \/ UNCHANGED whereVars
    BY <2>1, RaiseFollows, StayFollows
  <2>2. CASE KillCommand
    BY <2>2, ExitFollows DEF KillCommand, Killed
  <2>3. CASE Abort
    BY <2>3, ExitFollows DEF Abort, CommandsFit
  <2>. QED BY <2>1, <2>2, <2>3 DEF StepFails, Interrupt
<1>. QED BY <1>1, <1>2, RowsStayFollow, BareIsPlain DEF Bare

LEMMA OthersAreBare ==
    ASSUME \/ Prepare \/ EditsSuite \/ PrepareFails \/ OtherBegins \/ OtherGoesOn
           \/ OtherFails \/ Ended \/ UNCHANGED vars
    PROVE  Plain
<1>1. UNCHANGED <<whereVars, lanes, owned, results, allCases, identity, measured,
                  inputVars, files, runjson, rows>>
  BY DEF Prepare, EditsSuite, PrepareFails, OtherBegins, OtherGoesOn, OtherFails, Ended,
         vars, exceptCache, fileVars, benchVars, laneVars, buildVars, afterBench,
         afterSuite, conformanceVars, campaignVars
<1>. QED BY <1>1, StayFollows, RowsStayFollow, BareIsPlain DEF Bare

LEMMA EditsIsPlain == ASSUME BuildInv, Edits PROVE Plain
<1>1. UNCHANGED <<whereVars, lanes, owned, results, allCases, identity, measured, files,
                  runjson, rows>>
  BY DEF Edits, fileVars, benchVars, laneVars, buildVars, afterBench, afterSuite,
         conformanceVars, campaignVars
<1>2. Follows
  BY <1>1, StayFollows
<1>3. NothingEdited' => NothingEdited
  <2>1. source \in [Implementations -> Nat] /\ head \in Nat
    BY DEF BuildInv, RowsAreGood
  <2>2. CASE EditInputs
    <3>1. PICK edited_ \in {{"xpact"}, {"xpact-core"}, Implementations} :
            source' = [i \in Implementations |->
                        IF i \in edited_ THEN source[i] + 1 ELSE source[i]]
      BY <2>2 DEF EditInputs
    <3>2. PICK i \in Implementations : i \in edited_
      BY DEF Implementations
    <3>3. source'[i] # 0
      BY <2>1, <3>1, <3>2
    <3>. QED BY <3>2, <3>3 DEF NothingEdited
  <2>3. CASE Commit
    BY <2>1, <2>3 DEF Commit, NothingEdited
  <2>4. CASE ReplaceExecutable
    BY <2>4 DEF ReplaceExecutable, NothingEdited
  <2>. QED BY <2>2, <2>3, <2>4 DEF Edits, SourceEvents
<1>. QED BY <1>1, <1>2, <1>3, RowsStayFollow, StatusStaysFollow
         DEF Follows, Plain, FilesKeep

(* The plots, and the start of a campaign.                                 *)
LEMMA PlotsArePlain == ASSUME SnapInv, FilesInv, Campaign, PublishPlots PROVE Plain
<1>1. /\ at = "plots"
      /\ UNCHANGED <<lanes, owned, results, allCases, identity, measured, inputVars, rows,
                     runjson>>
  BY DEF Campaign, PublishPlots, PublishAll, PublishCut, fileVars, benchVars, laneVars,
         buildVars, elsewhere, conformanceVars, campaignVars
<1>2. FilesKeep
  BY PublishKeeps DEF PublishPlots, FilesKeep, fileVars
<1>3. Follows
  <2>1. CASE \E kind \in {"error", "interrupt"} : Raise(kind)
    BY <2>1, RaiseFollows
  <2>2. CASE Killed
    BY <1>1, <2>2, ExitFollows DEF Killed
  <2>3. CASE Goto("finish")
    <3>1. at' = "finish" /\ UNCHANGED <<command, lane, error, code>>
      BY <2>3 DEF Goto
    <3>2. PlacesFollow
      BY <1>1, <3>1 DEF PlacesFollow, BeforeCases, HandledPlaces, BuildPlaces,
                        CasePlaces, AfterCases
    <3>. QED BY <1>1, <3>1, <3>2 DEF Follows, ErrorFollows, GatePlaces
  <2>. QED BY <2>1, <2>2, <2>3 DEF PublishPlots, PublishAll, PublishCut
<1>4. StatusFollows /\ RowsFollow /\ (NothingEdited' => NothingEdited)
  BY <1>1 DEF StatusFollows, RowsFollow, NothingEdited, inputVars
<1>. QED BY <1>1, <1>2, <1>3, <1>4 DEF Plain, Follows

LEMMA CampaignStartIsPlain ==
    ASSUME SnapInv, FilesInv, Campaign, StartCampaign PROVE Plain
<1>1. /\ at = "start"
      /\ UNCHANGED <<lanes, owned, results, allCases, identity, measured, inputVars,
                     files, rows>>
  BY DEF Campaign, StartCampaign, benchVars, laneVars, buildVars, elsewhere,
         conformanceVars, campaignVars
<1>2. StatusFollows
  <2>1. runjson["campaign"] # "published"
    BY <1>1 DEF FilesInv, ManifestTells
  <2>. QED BY <2>1 DEF StartCampaign, StatusFollows, Status, SnapInv, Typed, Owners, Lanes
<1>3. Follows
  <2>1. CASE Goto("lane")
    <3>1. at' = "lane" /\ UNCHANGED <<command, lane, error, code>>
      BY <2>1 DEF Goto
    <3>2. ErrorFollows
      BY <1>1, <3>1 DEF ErrorFollows, GatePlaces
    <3>. QED BY <3>1, <3>2, UnmarkedPlaces, UnmarkedFollows
  <2>2. CASE Exit("2")
    BY <1>1, <2>2, ExitFollows
  <2>. QED BY <2>1, <2>2 DEF StartCampaign
<1>. QED BY <1>1, <1>2, <1>3, RowsStayFollow, LeavesIsPlain DEF LaneLeaves
-----------------------------------------------------------------------------
(* The steps that decide something, one part after the other.              *)
LEMMA CompareStays ==
    ASSUME CompareTells, UNCHANGED <<identity, measured>>,
           lane' = "catalog" /\ at' \in {"sources", "publish"} => ValidComparison,
           files'["catalog/report.json"] = "new" =>
                files["catalog/report.json"] = "new" \/ ValidComparison
    PROVE  CompareTells'
<1>1. ValidComparison' = ValidComparison
  BY DEF ValidComparison
<1>. QED BY <1>1 DEF CompareTells

LEMMA ResultsStay ==
    ASSUME ResultsTell, UNCHANGED <<command, results, allCases>>, at' # "start",
           command = "campaign" /\ lanes'["w3c"] = "pending" => lanes["w3c"] = "pending",
           lane' = "w3c" => Unmarked(at') \/ results = <<>>,
           at' \in BeforeCases \/ Unmarked(at') \/ lane' # "w3c",
           files'["w3c/report.json"] = "new" =>
                files["w3c/report.json"] = "new" \/ Len(results) = 2 * Size
    PROVE  ResultsTell'
<1>1. InOrder(results)' = InOrder(results)
  BY SameResultsTell
<1>2. lane' = "w3c" => at' \notin CasePlaces \cup AfterCases
  BY W3cPlaces DEF Unmarked
<1>. QED BY <1>1, <1>2 DEF ResultsTell, Unmarked

LEMMA OwnStaysAway ==
    ASSUME FilesInv, OwnTells, command' = command, at # "ended",
           at' \notin {"plots", "finish"}, runjson'["campaign"] # "published",
           code' = code \/ code' \notin {"0", "1"} \/ command # "campaign"
    PROVE  OwnTells'
BY DEF FilesInv, ManifestTells, OwnTells

LEMMA LanesStay ==
    ASSUME LanesTell, UNCHANGED <<lane, lanes, rows>>,
           \A l \in Lanes : runjson'[l] = runjson[l],
           results' = results \/ runjson["w3c"] \notin Completed,
           \/ error' \in {"none", "error", "interrupt"}
           \/ error' = error /\ (at \in GatePlaces => at' \in GatePlaces)
    PROVE  LanesTell'
<1>1. /\ GateFailed' = GateFailed
      /\ results' = results => W3cStatus' = W3cStatus
  BY RowsDecideOwn
<1>2. runjson'["catalog"] = runjson["catalog"] /\ runjson'["w3c"] = runjson["w3c"]
  BY DEF Lanes
<1>. QED BY <1>1, <1>2 DEF LanesTell

OtherTells == CompareTells /\ ResultsTell /\ LanesTell /\ OwnTells

(* A case of the W3C lane.                                                 *)
LEMMA CaseDecides ==
    ASSUME SnapInv, FilesInv, OwnInv, W3c, RunW3cCase PROVE OtherTells'
<1>1. /\ at = "run" /\ lane = "w3c" /\ RunNow
      /\ at' = "recheck input" /\ UNCHANGED <<command, lane, error, code>>
      /\ UNCHANGED <<lanes, owned, allCases, known, identity, measured, rows, files,
                     runjson>>
  BY DEF W3c, RunW3cCase, Goto, fileVars, buildVars, benchVars, afterSuite, campaignVars
<1>2. CompareTells /\ ResultsTell /\ LanesTell /\ OwnTells /\ command # "conformance"
  BY <1>1 DEF OwnInv, FilesInv, LaneTells, Tells, LaneCommands, Lanes
<1>3. CompareTells'
  BY <1>1, <1>2, CompareStays
<1>4. ResultsTell'
  <2>1. InOrder(results) /\ Len(results) < 2 * Size
    BY <1>1, <1>2, W3cPlaces DEF ResultsTell
  <2>2. ~AllRun
    BY <2>1, TwoEngines DEF AllRun, Size
  <2>3. InOrder(results)'
    BY <1>1, <2>1, <2>2, NextAnswer
  <2>4. at' \notin BeforeCases \cup CasePlaces \cup AfterCases
    BY <1>1, W3cPlaces
  <2>5. ~(command' = "campaign" /\ lanes'["w3c"] = "pending")
    BY <1>1 DEF SnapInv, LanesBeginOnce, Lanes
  <2>6. files'["w3c/report.json"] # "new"
    BY <1>1 DEF SnapInv, ReportsHold, ReportOf, LatePlaces, Lanes
  <2>. QED BY <1>1, <1>2, <2>3, <2>4, <2>5, <2>6 DEF ResultsTell
<1>5. LanesTell'
  <2>1. runjson["w3c"] \notin Completed /\ at \notin GatePlaces
    BY <1>1 DEF FilesInv, LaneTells, Tells, GatePlaces, Lanes
  <2>. QED BY <1>1, <1>2, <2>1, LanesStay
<1>6. OwnTells'
  BY <1>1, <1>2, OwnStaysAway DEF FilesInv, ManifestTells
<1>. QED BY <1>3, <1>4, <1>5, <1>6 DEF OtherTells

(* The reports of a lane, and its last status.                             *)
LEMMA LanePublishDecides ==
    ASSUME SnapInv, FilesInv, OwnInv,
           \/ CatalogOrLane /\ PublishCatalog
           \/ W3c /\ PublishW3c
    PROVE  OtherTells'
<1>1. /\ at = "publish" /\ lane \in Lanes
      /\ UNCHANGED <<command, lane, lanes, owned, results, allCases, identity, measured,
                     rows, runjson>>
      /\ at' \in {"complete", "undo", "ended"}
      /\ error' \in {error, "error", "interrupt"} /\ code' \in {code, "killed"}
  BY DEF CatalogOrLane, PublishCatalog, W3c, PublishW3c, PublishAll, PublishCut, Goto,
         Raise, Handler, InComparison, InLane, Killed, Exit, laneVars, buildVars,
         benchVars, afterBench, afterSuite, conformanceVars, campaignVars, Lanes
<1>2. CompareTells /\ ResultsTell /\ LanesTell /\ OwnTells /\ command # "conformance"
  BY <1>1 DEF OwnInv, FilesInv, LaneTells, Tells, LaneCommands, Lanes
<1>3. /\ lane = "catalog" => files'["w3c/report.json"] = files["w3c/report.json"]
      /\ lane = "w3c" => files'["catalog/report.json"] = files["catalog/report.json"]
  <2>1. CASE PublishCatalog
    <3>1. files'[ReportOf("w3c")] = files[ReportOf("w3c")]
      BY <2>1, LanePublishers, PublishSpares DEF PublishCatalog, Lanes
    <3>. QED BY <2>1, <3>1 DEF PublishCatalog, ReportOf
  <2>2. CASE PublishW3c
    <3>1. files'[ReportOf("catalog")] = files[ReportOf("catalog")]
      BY <2>2, LanePublishers, PublishSpares DEF PublishW3c, Lanes
    <3>. QED BY <2>2, <3>1 DEF PublishW3c, ReportOf
  <2>. QED BY <2>1, <2>2
<1>4. /\ lane = "catalog" => ValidComparison
      /\ lane = "w3c" => Len(results) = 2 * Size
  BY <1>1, <1>2 DEF CompareTells, ResultsTell, AfterCases
<1>5. CompareTells'
  BY <1>1, <1>2, <1>3, <1>4, CompareStays DEF Lanes
<1>6. ResultsTell'
  BY <1>1, <1>2, <1>3, <1>4, UnmarkedPlaces, ResultsStay DEF Lanes
<1>7. LanesTell'
  BY <1>1, <1>2, LanesStay DEF GatePlaces
<1>8. OwnTells'
  BY <1>1, <1>2, OwnStaysAway DEF FilesInv, ManifestTells
<1>. QED BY <1>5, <1>6, <1>7, <1>8 DEF OtherTells

LEMMA LaneCompletesDecides ==
    ASSUME SnapInv, FilesInv, OwnInv,
           \/ CatalogOrLane /\ CompleteCatalog
           \/ W3c /\ CompleteW3c
    PROVE  OtherTells'
<1>1. PICK l \in Lanes :
        /\ at = "complete" /\ lane = l
        /\ UNCHANGED <<command, lane, error, code, lanes, owned, results, allCases,
                       identity, measured, rows, files>>
        /\ at' = "returned"
        /\ Status(l, IF l = "catalog" THEN "complete" ELSE W3cStatus)
  BY DEF CatalogOrLane, CompleteCatalog, W3c, CompleteW3c, Goto, laneVars, buildVars,
         benchVars, afterBench, afterSuite, conformanceVars, campaignVars, Lanes
<1>2. CompareTells /\ ResultsTell /\ LanesTell /\ OwnTells /\ command # "conformance"
  BY <1>1 DEF OwnInv, FilesInv, LaneTells, Tells, LaneCommands, Lanes
<1>3. /\ runjson'[l] = IF l = "catalog" THEN "complete" ELSE W3cStatus
      /\ \A o \in Owners : o # l => runjson'[o] = runjson[o]
  BY <1>1 DEF Status, SnapInv, Typed, Owners, Lanes
<1>4. CompareTells'
  BY <1>1, <1>2, CompareStays
<1>5. ResultsTell'
  BY <1>1, <1>2, UnmarkedPlaces, ResultsStay DEF Lanes
<1>6. GateFailed' = GateFailed /\ W3cStatus' = W3cStatus
  BY <1>1, RowsDecideOwn
<1>7. LanesTell'
  <2>1. error # "gate"
    BY <1>1, <1>2 DEF LanesTell, GatePlaces
  <2>2. \A m \in Lanes : lanes[m] \in Completed => m # l /\ runjson'[m] = runjson[m]
    BY <1>1, <1>2, <1>3 DEF LanesTell, Owners
  <2>3. /\ runjson'["catalog"] \in {"complete", runjson["catalog"]}
        /\ runjson'["w3c"] \in {W3cStatus, runjson["w3c"]}
    BY <1>3 DEF Owners, Lanes
  <2>. QED BY <1>1, <1>2, <1>6, <2>1, <2>2, <2>3 DEF LanesTell, W3cStatus
<1>8. OwnTells'
  BY <1>1, <1>2, <1>3, OwnStaysAway DEF FilesInv, ManifestTells, Owners, Lanes
<1>. QED BY <1>4, <1>5, <1>7, <1>8 DEF OtherTells

(* A lane that fails.                                                      *)
LEMMA UndoDecides ==
    ASSUME SnapInv, FilesInv, OwnInv, CatalogOrLane, Undo \/ UndoCut
    PROVE  OtherTells'
<1>1. /\ at = "undo" /\ lane \in Lanes
      /\ UNCHANGED <<command, lane, lanes, owned, results, allCases, identity, measured,
                     rows>>
      /\ at' \in {"withdraw", "failed", "ended"}
      /\ \/ error' \in {"error", "interrupt"}
         \/ error' = error /\ at' \in {"failed", "ended"}
         \/ error' = error /\ error = "interrupt"
      /\ code' = code \/ code' \notin {"0", "1"} \/ command # "campaign"
  BY DEF CatalogOrLane, Undo, UndoCut, AfterUndo, Killed, Exit, laneVars, buildVars,
         benchVars, afterBench, afterSuite, conformanceVars, campaignVars, FilesInv,
         PlaceTells
<1>2. CompareTells /\ ResultsTell /\ LanesTell /\ OwnTells /\ command # "conformance"
  BY <1>1 DEF OwnInv, FilesInv, LaneTells, Tells, LaneCommands, Lanes
<1>3. FilesKeep
  BY RemovedKeeps DEF Undo, UndoCut
<1>4. \/ UNCHANGED runjson
      \/ Status(lane, FailedStatus)
  BY DEF Undo, UndoCut
<1>5. /\ runjson'["campaign"] = runjson["campaign"]
      /\ \A l \in Lanes :
            \/ runjson'[l] = runjson[l]
            \/ l = lane /\ runjson'[l] = FailedStatus
  BY <1>1, <1>4 DEF Status, SnapInv, Typed, Owners, Lanes
<1>6. CompareTells'
  BY <1>1, <1>2, <1>3, CompareStays DEF FilesKeep, ReportOf, Lanes
<1>7. ResultsTell'
  BY <1>1, <1>2, <1>3, UnmarkedPlaces, ResultsStay DEF FilesKeep, ReportOf, Lanes
<1>8. LanesTell'
  <2>1. GateFailed' = GateFailed /\ W3cStatus' = W3cStatus
    BY <1>1, RowsDecideOwn
  <2>2. /\ FailedStatus \notin Completed
        /\ FailedStatus = "gate_failed" => error = "gate"
    BY DEF FailedStatus, Completed
  <2>3. error' = "gate" => error = "gate" /\ at' \in GatePlaces
    BY <1>1 DEF GatePlaces
  <2>4. \A l \in Lanes : lanes'[l] \in Completed => lanes'[l] = runjson'[l]
    BY <1>1, <1>2, <1>5 DEF LanesTell
  <2>5. /\ runjson'["catalog"] \in {runjson["catalog"], FailedStatus}
        /\ runjson'["w3c"] \in {runjson["w3c"], FailedStatus}
    BY <1>5 DEF Lanes
  <2>6. /\ runjson'["catalog"] # "complete_with_failures"
        /\ runjson'["w3c"] \in Completed => runjson'["w3c"] = W3cStatus'
        /\ runjson'["catalog"] = "gate_failed" => GateFailed'
    BY <1>2, <2>1, <2>2, <2>5 DEF LanesTell, Completed
  <2>. QED BY <1>1, <1>2, <2>1, <2>3, <2>4, <2>6 DEF LanesTell
<1>9. OwnTells'
  BY <1>1, <1>2, <1>5, OwnStaysAway DEF FilesInv, ManifestTells
<1>. QED BY <1>6, <1>7, <1>8, <1>9 DEF OtherTells

(* A lane of its own.                                                      *)
LEMMA StartLaneDecides ==
    ASSUME SnapInv, FilesInv, OwnInv, CatalogOrLane, StartLane PROVE OtherTells'
<1>1. /\ at = "start" /\ command \in Lanes /\ lane' = command /\ at' = "begin"
      /\ UNCHANGED <<command, error, code, lanes, owned, results, allCases, identity,
                     measured, rows, files, runjson>>
  BY DEF CatalogOrLane, StartLane, fileVars, laneVars, buildVars, benchVars,
         afterBench, afterSuite, conformanceVars, campaignVars
<1>2. CompareTells /\ ResultsTell /\ LanesTell /\ OwnTells /\ command # "conformance"
  BY <1>1 DEF OwnInv, Lanes
<1>3. CompareTells'
  BY <1>1, <1>2, CompareStays
<1>4. results = <<>>
  BY <1>1, <1>2 DEF ResultsTell
<1>5. ResultsTell'
  BY <1>1, <1>2, <1>4, ResultsStay DEF Lanes, BeforeCases
<1>6. LanesTell'
  <2>1. GateFailed' = GateFailed /\ W3cStatus' = W3cStatus
    BY <1>1, RowsDecideOwn
  <2>2. error # "gate"
    BY <1>1, <1>2 DEF LanesTell, GatePlaces
  <2>3. \A l \in Lanes : lanes[l] \notin Completed
    BY <1>1 DEF FilesInv, LaneTells, Tells, Completed
  <2>. QED BY <1>1, <1>2, <2>1, <2>2, <2>3 DEF LanesTell
<1>7. OwnTells'
  BY <1>1, <1>2, OwnStaysAway DEF FilesInv, ManifestTells
<1>. QED BY <1>3, <1>5, <1>6, <1>7 DEF OtherTells
-----------------------------------------------------------------------------
(* The campaign goes from lane to lane.                                    *)
LEMMA NextLaneDecides ==
    ASSUME SnapInv, FilesInv, OwnInv, Campaign, NextLane PROVE OtherTells'
<1>1. /\ at = "lane" /\ command = "campaign"
      /\ UNCHANGED <<command, error, code, results, allCases, identity, measured, rows,
                     files, runjson>>
      /\ \/ at' = "summary" /\ UNCHANGED <<lane, lanes>>
         \/ \E l \in Lanes :
                /\ lanes[l] = "pending" /\ lanes' = [lanes EXCEPT ![l] = "running"]
                /\ lane' = l /\ at' = "begin"
  BY DEF Campaign, NextLane, Goto, fileVars, elsewhere, laneVars, buildVars, benchVars,
         conformanceVars, Lanes
<1>2. CompareTells /\ ResultsTell /\ LanesTell /\ OwnTells
  BY DEF OwnInv
<1>3. lane \notin Lanes /\ lanes \in [Lanes -> {"pending", "running"} \cup Statuses]
      /\ error # "gate"
  BY <1>1, <1>2 DEF FilesInv, PlaceTells, SnapInv, Typed, LanesTell, GatePlaces
<1>4. GateFailed' = GateFailed /\ W3cStatus' = W3cStatus
  BY <1>1, RowsDecideOwn
<1>5. OwnTells'
  BY <1>1, <1>2, OwnStaysAway DEF FilesInv, ManifestTells
<1>6. CompareTells'
  BY <1>1, <1>2, CompareStays
<1>7. CASE at' = "summary" /\ UNCHANGED <<lane, lanes>>
  <2>1. ResultsTell'
    <3>1. lane' # "w3c" /\ lanes' = lanes /\ at' # "start"
      BY <1>3, <1>7 DEF Lanes
    <3>2. /\ ResultsTell /\ UNCHANGED <<command, results, allCases>>
          /\ files'["w3c/report.json"] = files["w3c/report.json"]
      BY <1>1, <1>2
    <3>. QED BY <3>1, <3>2, ResultsStay, Zenon
  <2>2. LanesTell'
    <3>1. at \notin GatePlaces
      BY <1>1 DEF GatePlaces
    <3>2. /\ LanesTell /\ UNCHANGED <<lane, lanes, rows>> /\ results' = results
          /\ error' = error /\ \A l \in Lanes : runjson'[l] = runjson[l]
      BY <1>1, <1>2, <1>7
    <3>. QED BY <3>1, <3>2, LanesStay, Zenon
  <2>. QED BY <1>5, <1>6, <2>1, <2>2 DEF OtherTells
<1>8. CASE ~(at' = "summary" /\ UNCHANGED <<lane, lanes>>)
  <2>1. PICK l \in Lanes : /\ lanes[l] = "pending" /\ lane' = l /\ at' = "begin"
                           /\ lanes' = [lanes EXCEPT ![l] = "running"]
    BY <1>1, <1>8
  <2>2. \A m \in Lanes : lanes'[m] = IF m = l THEN "running" ELSE lanes[m]
    BY <1>3, <2>1
  <2>3. l = "w3c" => results = <<>>
    BY <1>1, <1>2, <2>1 DEF ResultsTell
  <2>4. at' \in BeforeCases /\ at' # "start"
    BY <2>1 DEF BeforeCases
  <2>5. lanes'["w3c"] = "pending" => lanes["w3c"] = "pending"
    BY <2>2 DEF Lanes
  <2>6. ResultsTell'
    BY <1>1, <1>2, <2>1, <2>3, <2>4, <2>5, ResultsStay
  <2>7. /\ \A m \in Lanes : lane' = m => lanes'[m] \notin Completed
        /\ \A m \in Lanes : lanes'[m] \in Completed => lanes'[m] = runjson'[m]
    BY <1>1, <1>2, <2>1, <2>2 DEF LanesTell, Completed
  <2>8. LanesTell'
    BY <1>1, <1>2, <1>3, <1>4, <2>7 DEF LanesTell
  <2>. QED BY <1>5, <1>6, <2>6, <2>8 DEF OtherTells
<1>. QED BY <1>7, <1>8

LEMMA LaneEndsDecides ==
    ASSUME SnapInv, FilesInv, OwnInv, Campaign, LaneReturns \/ LaneFails
    PROVE  OtherTells'
<1>1. PICK status \in {runjson[lane], "failed"} :
        /\ at \in {"returned", "failed"} /\ command = "campaign"
        /\ status # "failed" => at = "returned"
        /\ lanes' = [lanes EXCEPT ![lane] = status]
        /\ lane' = "none" /\ at' = "lane" /\ error' = "none"
        /\ UNCHANGED <<command, code, results, allCases, identity, measured, rows,
                       files, runjson>>
  BY DEF Campaign, LaneReturns, LaneFails, LaneEnds, fileVars, elsewhere, laneVars,
         buildVars, benchVars, conformanceVars
<1>2. CompareTells /\ ResultsTell /\ LanesTell /\ OwnTells
  BY DEF OwnInv
<1>3. status \in Completed \cup {"failed"}
  BY <1>1 DEF FilesInv, PlaceTells
<1>4. \A m \in Lanes : lanes'[m] = IF m = lane THEN status ELSE lanes[m]
  BY <1>1 DEF SnapInv, Typed
<1>5. CompareTells'
  BY <1>1, <1>2, CompareStays
<1>6. ResultsTell'
  <2>1. lanes'["w3c"] = "pending" => lanes["w3c"] = "pending"
    BY <1>3, <1>4 DEF Completed, Lanes
  <2>. QED BY <1>1, <1>2, <2>1, UnmarkedPlaces, ResultsStay
<1>7. LanesTell'
  <2>1. GateFailed' = GateFailed /\ W3cStatus' = W3cStatus
    BY <1>1, RowsDecideOwn
  <2>2. \A m \in Lanes : lanes'[m] \in Completed => lanes'[m] = runjson'[m]
    BY <1>1, <1>2, <1>4 DEF LanesTell, Completed
  <2>. QED BY <1>1, <1>2, <2>1, <2>2 DEF LanesTell, Lanes
<1>8. OwnTells'
  BY <1>1, <1>2, OwnStaysAway DEF FilesInv, ManifestTells
<1>. QED BY <1>5, <1>6, <1>7, <1>8 DEF OtherTells

LEMMA WithdrawDecides ==
    ASSUME SnapInv, FilesInv, OwnInv, Campaign,
           Withdraw \/ WithdrawLocked \/ WithdrawBroken
    PROVE  OtherTells'
<1>1. /\ at = "withdraw" /\ at' = "ended"
      /\ UNCHANGED <<command, lane, error, lanes, results, allCases, identity, measured,
                     rows>>
      /\ code' \notin {"0", "1"}
  BY DEF Campaign, Withdraw, WithdrawLocked, WithdrawBroken, Killed, Exit, elsewhere,
         laneVars, buildVars, benchVars, conformanceVars, campaignVars
<1>2. CompareTells /\ ResultsTell /\ LanesTell /\ OwnTells
  BY DEF OwnInv
<1>3. FilesKeep
  BY WithdrawnKeeps DEF Withdraw, WithdrawLocked, WithdrawBroken
<1>4. /\ \A l \in Lanes : runjson'[l] = runjson[l]
      /\ runjson'["campaign"] # "published"
  <2>1. UNCHANGED runjson \/ Status("campaign", "failed")
    BY DEF Withdraw, WithdrawLocked, WithdrawBroken
  <2>2. runjson["campaign"] # "published"
    BY <1>1 DEF FilesInv, ManifestTells
  <2>. QED BY <2>1, <2>2 DEF Status, SnapInv, Typed, Owners, Lanes
<1>5. CompareTells'
  BY <1>1, <1>2, <1>3, CompareStays DEF FilesKeep, ReportOf, Lanes
<1>6. ResultsTell'
  BY <1>1, <1>2, <1>3, UnmarkedPlaces, ResultsStay DEF FilesKeep, ReportOf, Lanes
<1>7. LanesTell'
  BY <1>1, <1>2, <1>4, LanesStay DEF GatePlaces
<1>8. OwnTells'
  BY <1>1, <1>2, <1>4, OwnStaysAway
<1>. QED BY <1>5, <1>6, <1>7, <1>8 DEF OtherTells

LEMMA FinishDecides ==
    ASSUME SnapInv, FilesInv, OwnInv, Campaign, Finish PROVE OtherTells'
<1>1. /\ at = "finish" /\ at' = "ended" /\ code' = OwnedCode
      /\ UNCHANGED <<command, lane, error, lanes, owned, results, allCases, identity,
                     measured, rows, files, inputVars>>
      /\ Status("campaign", "published")
  BY DEF Campaign, Finish, Exit, elsewhere, laneVars, buildVars, benchVars,
         conformanceVars, campaignVars, OwnedCode
<1>2. CompareTells /\ ResultsTell /\ LanesTell /\ OwnTells
  BY DEF OwnInv
<1>3. /\ \A l \in Lanes : runjson'[l] = runjson[l]
      /\ runjson'["campaign"] = "published"
  BY <1>1 DEF Status, SnapInv, Typed, Owners, Lanes
<1>4. CompareTells'
  BY <1>1, <1>2, CompareStays
<1>5. ResultsTell'
  BY <1>1, <1>2, UnmarkedPlaces, ResultsStay
<1>6. LanesTell'
  BY <1>1, <1>2, <1>3, LanesStay DEF GatePlaces
<1>7. OwnedTells'
  <2>1. NothingEdited' => NothingEdited
    BY <1>1 DEF NothingEdited, inputVars
  <2>. QED BY <1>1, <1>2, <1>3, <2>1, OwnedStays DEF OwnTells, Lanes
<1>8. OwnedCode' = OwnedCode
  BY <1>1 DEF OwnedCode
<1>9. OwnTells'
  BY <1>1, <1>3, <1>7, <1>8 DEF OwnTells
<1>. QED BY <1>4, <1>5, <1>6, <1>9 DEF OtherTells
-----------------------------------------------------------------------------
(* The own summary.  Four rows of a lane: the first and the third are      *)
(* those of xpact, with assertions and without.                            *)
LEMMA FourInOrder ==
    ASSUME SnapInv, BuildInv, NEW l \in Lanes, Len(rows[l]) = 4
    PROVE  /\ DOMAIN rows[l] = 1..4 /\ \A k \in 1..4 : rows[l][k] \in GoodRows
           /\ rows[l][1].implementation = "xpact" /\ rows[l][1].assertions = TRUE
           /\ rows[l][2].implementation = "xpact-core" /\ rows[l][2].assertions = TRUE
           /\ rows[l][3].implementation = "xpact" /\ rows[l][3].assertions = FALSE
           /\ rows[l][4].implementation = "xpact-core" /\ rows[l][4].assertions = FALSE
<1>. DEFINE p == <<"xpact", TRUE>>
            q == <<"xpact-core", TRUE>>
            r == <<"xpact", FALSE>>
            s == <<"xpact-core", FALSE>>
<1>1. Order(l) = <<p, q, r, s>>
  BY DEF Order, Lanes
<1>2. /\ p[1] = "xpact" /\ q[1] = "xpact-core" /\ r[1] = "xpact" /\ s[1] = "xpact-core"
      /\ p[2] = TRUE /\ q[2] = TRUE /\ r[2] = FALSE /\ s[2] = FALSE
  BY TwoItems, Zenon
<1>. HIDE DEF p, q, r, s
<1>3. /\ Order(l)[1] = p /\ Order(l)[2] = q /\ Order(l)[3] = r /\ Order(l)[4] = s
  BY <1>1, FourItems
<1>4. rows[l] \in Seq(GoodRows) /\ l \in Profiles
  BY DEF BuildInv, RowsAreGood, Lanes, Profiles
<1>5. DOMAIN rows[l] = 1..4 /\ \A k \in 1..4 : rows[l][k] \in GoodRows
  BY <1>4
<1>6. \A k \in 1..4 : /\ rows[l][k].implementation = Order(l)[k][1]
                      /\ rows[l][k].assertions = Order(l)[k][2]
  BY <1>4, <1>5 DEF SnapInv, RowsInOrder
<1>7. 1 \in 1..4 /\ 2 \in 1..4 /\ 3 \in 1..4 /\ 4 \in 1..4
  OBVIOUS
<1>. QED BY <1>2, <1>3, <1>5, <1>6, <1>7, Zenon

LEMMA OwnOfFour ==
    ASSUME SnapInv, BuildInv, NEW l \in Lanes, Len(rows[l]) = 4
    PROVE  /\ Own(l) = {1, 3}
           /\ OwnRow(l, TRUE) = rows[l][1] /\ OwnRow(l, FALSE) = rows[l][3]
           /\ OwnControlsPass(l) <=> /\ rows[l][1].outcomes = {"PASS"}
                                     /\ rows[l][3].outcomes = {"PASS"}
<1>1. /\ DOMAIN rows[l] = 1..4
      /\ rows[l][1].implementation = "xpact" /\ rows[l][1].assertions = TRUE
      /\ rows[l][2].implementation = "xpact-core"
      /\ rows[l][3].implementation = "xpact" /\ rows[l][3].assertions = FALSE
      /\ rows[l][4].implementation = "xpact-core"
  BY FourInOrder
<1>2. 1..4 = {1, 2, 3, 4}
  OBVIOUS
<1>3. Own(l) = {1, 3}
  BY <1>1, <1>2 DEF Own
<1>4. /\ OwnRow(l, TRUE) = rows[l][1] /\ OwnRow(l, FALSE) = rows[l][3]
  <2>1. ASSUME NEW a \in BOOLEAN, NEW k \in {1, 3}, rows[l][k].assertions = a
        PROVE  OwnRow(l, a) = rows[l][k]
    <3>. DEFINE P(n) == /\ rows[l][n].implementation = "xpact"
                        /\ rows[l][n].assertions = a
                c == CHOOSE n \in DOMAIN rows[l] : P(n)
    <3>1. OwnRow(l, a) = rows[l][c]
      BY DEF OwnRow, RowOf
    <3>2. k \in DOMAIN rows[l] /\ P(k)
      BY <1>1, <1>2, <2>1
    <3>3. c \in DOMAIN rows[l] /\ P(c)
      BY <3>2
    <3>. HIDE DEF c
    <3>4. c = k
      BY <1>1, <1>2, <2>1, <3>3
    <3>. QED BY <3>1, <3>4
  <2>. QED BY <1>1, <2>1
<1>5. OwnControlsPass(l) <=> /\ OwnRow(l, TRUE).outcomes = {"PASS"}
                             /\ OwnRow(l, FALSE).outcomes = {"PASS"}
  BY DEF OwnControlsPass
<1>. QED BY <1>3, <1>4, <1>5

(* A report, or the gate, stands for four rows.                            *)
LEMMA ReportStands ==
    ASSUME SnapInv, FilesInv, LanesTell, NEW l \in Lanes, HasReport(l)
    PROVE  /\ runjson[l] = lanes[l] /\ runjson[l] \in Completed
           /\ files[ReportOf(l)] = "new" /\ Qualified(l) /\ Len(rows[l]) = 4
<1>1. /\ runjson[l] = lanes[l] /\ runjson[l] \in Completed
  BY DEF HasReport, LanesTell
<1>2. Present(LaneFiles(l))
  BY <1>1 DEF FilesInv, LaneTells, Tells
<1>3. ReportOf(l) \in Listed(LaneFiles(l))
  BY LaneNames DEF NamesFor, ReportOf, CatalogNames, W3cNames, Lanes
<1>4. files[ReportOf(l)] = "new"
  BY <1>2, <1>3 DEF Present
<1>5. Qualified(l)
  BY <1>4 DEF SnapInv, ReportsHold
<1>. QED BY <1>1, <1>4, <1>5 DEF Qualified

(* Controls that are established tell whether they pass.                   *)
LEMMA EstablishedTell ==
    ASSUME SnapInv, BuildInv, FilesInv, OwnInv, NEW l \in Lanes, ControlsEstablished(l)
    PROVE  /\ Len(rows[l]) = 4
           /\ OwnControlFails(l) <=> ~OwnControlsPass(l)
<1>1. LanesTell /\ RowsTell
  BY DEF OwnInv
<1>2. Len(rows[l]) = 4
  <2>1. CASE HasReport(l)
    BY <1>1, <2>1, ReportStands
  <2>2. CASE CoreGate(l)
    BY <1>1, <2>2 DEF CoreGate, LanesTell, GateFailed
  <2>. QED BY <2>1, <2>2 DEF ControlsEstablished
<1>3. ASSUME NEW k \in {1, 3}
      PROVE  rows[l][k].outcomes \cap {"FAIL", "broken"} = {}
             <=> rows[l][k].outcomes = {"PASS"}
  <2>1. k \in Own(l) /\ k \in DOMAIN rows[l]
    <3>1. Own(l) = {1, 3}
      BY <1>2, OwnOfFour
    <3>2. DOMAIN rows[l] = 1..4
      BY <1>2, FourInOrder
    <3>. QED BY <3>1, <3>2
  <2>2. rows[l][k].status = Passing(l)
    BY <2>1 DEF ControlsEstablished, Passing
  <2>3. rows[l][k].outcomes \in ControlOutcomes
    BY <1>1, <2>1, <2>2 DEF RowsTell, RowTells
  <2>. QED BY <2>3 DEF ControlOutcomes
<1>4. OwnControlFails(l) <=> \E k \in {1, 3} :
                                rows[l][k].outcomes \cap {"FAIL", "broken"} # {}
  BY <1>2, OwnOfFour DEF OwnControlFails
<1>. QED BY <1>2, <1>3, <1>4, OwnOfFour

(* The results of xpact are the first of the two halves, and each tells    *)
(* whether the case passed.                                                *)
LEMMA OwnHalf ==
    ASSUME ResultsTell, command # "conformance", Len(results) = 2 * Size
    PROVE  /\ DOMAIN results = 1..(2 * Size) /\ Size \in Nat
           /\ OwnResults = 1..Size
           /\ \A k \in 1..Size : results[k] \in RowsFor("xpact", Cases[k])
           /\ \A k \in 1..Size : results[k + Size] \in RowsFor("xpact-core", Cases[k])
<1>1. InOrder(results) /\ Size \in Nat \ {0}
  BY CatalogFacts DEF ResultsTell
<1>2. /\ DOMAIN results = 1..(2 * Size)
      /\ \A k \in 1..(2 * Size) : results[k] \in RowsFor(EngineAt(k), CaseAt(k))
  BY <1>1 DEF InOrder
<1>3. ASSUME NEW k \in 1..(2 * Size) PROVE results[k].engine = EngineAt(k)
  <2>1. /\ EngineAt(k) \in {"xpact", "xpact-core"} /\ CaseAt(k) \in Listed(Cases)
        /\ results[k] \in RowsFor(EngineAt(k), CaseAt(k))
    BY <1>2, CatalogFacts DEF EngineAt
  <2>. QED BY <2>1, AnswerFacts
<1>4. OwnResults = 1..Size
  <2>1. \A k \in 1..(2 * Size) : EngineAt(k) = "xpact" <=> k <= Size
    BY <1>1 DEF EngineAt
  <2>2. \A k \in 1..(2 * Size) : k <= Size <=> k \in 1..Size
    BY <1>1
  <2>3. 1..Size \subseteq 1..(2 * Size)
    BY <1>1
  <2>. QED BY <1>2, <1>3, <2>1, <2>2, <2>3 DEF OwnResults
<1>5. ASSUME NEW k \in 1..Size
      PROVE  /\ results[k] \in RowsFor("xpact", Cases[k])
             /\ results[k + Size] \in RowsFor("xpact-core", Cases[k])
  <2>1. k \in 1..(2 * Size) /\ k + Size \in 1..(2 * Size)
        /\ k <= Size /\ ~(k + Size <= Size) /\ (k + Size) - Size = k
    BY <1>1
  <2>. QED BY <1>2, <2>1 DEF EngineAt, CaseAt
<1>. QED BY <1>1, <1>2, <1>4, <1>5

LEMMA OwnCaseTells ==
    ASSUME ResultsTell, command # "conformance", Len(results) = 2 * Size,
           NEW k \in 1..Size
    PROVE  /\ results[k].engine = "xpact" /\ results[k].id = Cases[k].id
           /\ \/ results[k].status = "skipped"
              \/ results[k].status = "passed" /\ results[k].actual = Expected(Cases[k])
              \/ /\ results[k].status \in {"failed", "error"}
                 /\ results[k].actual # Expected(Cases[k])
<1>. DEFINE c == Cases[k]
            r == results[k]
<1>1. r \in RowsFor("xpact", c) /\ c \in Listed(Cases)
  BY OwnHalf, CatalogFacts DEF Listed
<1>2. Expected(c) \in {"ACCEPT", "REJECT", "unspecified"} /\ ~allCases
  BY DEF Expected, Required, ResultsTell
<1>. HIDE DEF c, r
<1>3. r.engine = "xpact" /\ r.id = c.id
  BY <1>1, AnswerFacts
<1>4. CASE Excluded(c)
  <2>1. r = Skipped("xpact", c)
    BY <1>1, <1>2, <1>4 DEF RowsFor, Runnable
  <2>. QED BY <1>3, <2>1 DEF Skipped, Result, c, r
<1>5. CASE ~Excluded(c)
  <2>1. Asked(c) = Expected(c)
    BY <1>5 DEF Asked
  <2>2. \/ r.status = "error" /\ r.actual = "none"
        \/ /\ r.status = "passed" /\ r.actual \in {"ACCEPT", "REJECT"}
           /\ Asked(c) \in {r.actual, "ANY"}
        \/ /\ r.status = "failed" /\ r.actual \in {"ACCEPT", "REJECT"}
           /\ Asked(c) \notin {r.actual, "ANY"}
    BY <1>1, <1>5, AnswerFacts
  <2>. QED BY <1>2, <1>3, <2>1, <2>2 DEF c, r
<1>. QED BY <1>4, <1>5

LEMMA SuiteTells ==
    ASSUME ResultsTell, command # "conformance", Len(results) = 2 * Size
    PROVE  OwnResultFails <=> ~OwnCasesPass
<1>1. /\ DOMAIN results = 1..(2 * Size) /\ Size \in Nat /\ OwnResults = 1..Size
      /\ 1..Size \subseteq 1..(2 * Size)
  BY OwnHalf
<1>2. \A k \in DOMAIN results : results[k].engine = "xpact" <=> k \in 1..Size
  BY <1>1 DEF OwnResults
<1>3. ASSUME NEW k \in 1..Size
      PROVE  results[k].status \in {"failed", "error"} <=>
             ~ \/ results[k].status = "skipped"
               \/ \E c \in Listed(Cases) :
                    c.id = results[k].id /\ results[k].actual = Expected(c)
  <2>1. /\ results[k].id = Cases[k].id
        /\ \/ results[k].status = "skipped"
           \/ results[k].status = "passed" /\ results[k].actual = Expected(Cases[k])
           \/ /\ results[k].status \in {"failed", "error"}
              /\ results[k].actual # Expected(Cases[k])
    BY OwnCaseTells
  <2>2. Cases[k] \in Listed(Cases)
    BY CatalogFacts DEF Listed
  <2>3. ASSUME NEW c \in Listed(Cases), c.id = Cases[k].id PROVE c = Cases[k]
    <3>1. PICK j \in 1..Size : c = Cases[j]
      BY CatalogFacts DEF Listed
    <3>. QED BY <2>3, <3>1, CatalogFacts
  <2>. QED BY <2>1, <2>2, <2>3
<1>. QED BY <1>1, <1>2, <1>3 DEF OwnResultFails, OwnCasesPass

(* Nothing was edited, and xpact-core alone failed the gate: the summary   *)
(* is established.                                                         *)
LEMMA BothConfigurations ==
    ASSUME SnapInv, BuildInv, NEW l \in Lanes, Len(rows[l]) = 4
    PROVE  OwnControls(l)
<1>1. Own(l) = {1, 3}
  BY OwnOfFour
<1>2. rows[l][1].assertions = TRUE /\ rows[l][3].assertions = FALSE
  BY FourInOrder
<1>3. Cardinality({1, 3}) = 2
  <2>1. IsFiniteSet({1})
    BY FS_Singleton
  <2>2. Cardinality({1}) = 1
    BY FS_Singleton
  <2>3. Cardinality({1} \cup {3}) = Cardinality({1}) + 1
    BY <2>1, FS_AddElement
  <2>4. {1} \cup {3} = {1, 3}
    OBVIOUS
  <2>. QED BY <2>2, <2>3, <2>4
<1>4. {rows[l][k].assertions : k \in Own(l)} = {rows[l][1].assertions, rows[l][3].assertions}
  BY <1>1
<1>5. {TRUE, FALSE} = BOOLEAN
  OBVIOUS
<1>. QED BY <1>1, <1>2, <1>3, <1>4, <1>5 DEF OwnControls

LEMMA UndisturbedBuilds ==
    ASSUME SnapInv, BuildInv, OwnInv, NothingEdited, NEW l \in Lanes, Len(rows[l]) = 4
    PROVE  OwnBuildsVerified(l)
<1>1. source["xpact"] = 0 /\ replaced = {} /\ Fresh
  BY DEF NothingEdited, Fresh, Implementations
<1>2. \A k \in Own(l) : rows[l][k].inputs = 0 /\ rows[l][k].revision = 0
  <2>1. \A k \in Own(l) : k \in DOMAIN rows[l]
    BY DEF Own
  <2>. QED BY <1>1, <2>1 DEF OwnInv, RowsTell, RowTells
<1>. QED BY <1>1, <1>2 DEF OwnBuildsVerified

LEMMA UndisturbedIsEstablished ==
    ASSUME SnapInv, BuildInv, FilesInv, OwnInv, command = "campaign", Undisturbed
    PROVE  OwnStatus # "failed"
<1>1. /\ LanesTell /\ RowsTell /\ ResultsTell /\ NothingEdited /\ replaced = {}
      /\ HasReport("w3c") /\ runjson["catalog"] = "gate_failed"
  BY DEF OwnInv, Undisturbed, NothingEdited
<1>2. \A l \in Lanes : Len(rows[l]) = 4
  <2>1. Len(rows["catalog"]) = 4
    BY <1>1 DEF LanesTell, GateFailed
  <2>2. Len(rows["w3c"]) = 4
    BY <1>1, ReportStands DEF Lanes
  <2>. QED BY <2>1, <2>2 DEF Lanes
<1>3. \A l \in Lanes : OwnControls(l) /\ OwnBuildsVerified(l)
  BY <1>1, <1>2, BothConfigurations, UndisturbedBuilds
<1>4. ControlsEstablished("catalog")
  <2>. DEFINE r == rows["catalog"]
  <2>1. /\ DOMAIN r = 1..4 /\ r[2].implementation = "xpact-core"
        /\ r[4].implementation = "xpact-core" /\ Own("catalog") = {1, 3}
        /\ r[1].outcomes = {"PASS"} /\ r[3].outcomes = {"PASS"}
    BY <1>2, FourInOrder, OwnOfFour DEF Undisturbed, Lanes
  <2>2. \A k \in 1..4 : RowTells("catalog", r[k])
    BY <1>1, <2>1 DEF RowsTell, Lanes
  <2>3. r[1].status = "qualified" /\ r[3].status = "qualified"
    BY <1>1, <2>1, <2>2 DEF RowTells
  <2>4. CoreGate("catalog")
    <3>1. PICK k \in 1..4 : r[k].status # "qualified"
      BY <1>1 DEF LanesTell, GateFailed
    <3>2. k \in {2, 4}
      BY <2>3, <3>1
    <3>3. r[k].status = "failed"
      BY <2>2, <3>1 DEF RowTells, Passing
    <3>. QED BY <1>1, <2>1, <3>2, <3>3 DEF CoreGate
  <2>. QED BY <1>3, <2>1, <2>3, <2>4 DEF ControlsEstablished, Lanes
<1>5. ControlsEstablished("w3c")
  <2>1. Qualified("w3c") /\ DOMAIN rows["w3c"] = 1..4 /\ Own("w3c") = {1, 3}
    BY <1>1, <1>2, ReportStands, FourInOrder, OwnOfFour DEF Lanes
  <2>2. \A k \in 1..4 : rows["w3c"][k].status = "executed"
    BY <1>1, <2>1 DEF Qualified, RowsTell, RowTells, Passing, Lanes
  <2>. QED BY <1>1, <1>3, <2>1, <2>2 DEF ControlsEstablished, Lanes
<1>6. OwnSuiteEstablished
  <2>1. Len(results) = 2 * Size
    BY <1>1, ReportStands DEF ResultsTell, ReportOf, Lanes
  <2>2. OwnResults = 1..Size /\ Size \in Nat
    BY <1>1, <2>1, OwnHalf
  <2>3. Cardinality(1..Size) = Size
    BY <2>2, FS_Interval
  <2>. QED BY <1>1, <2>2, <2>3 DEF OwnSuiteEstablished, Size
<1>. QED BY <1>4, <1>5, <1>6 DEF OwnStatus, Lanes

LEMMA OwnStatusTells ==
    ASSUME SnapInv, BuildInv, FilesInv, OwnInv, command = "campaign"
    PROVE  \/ OwnStatus = "complete" /\ AllPassed
           \/ OwnStatus = "complete_with_failures" /\ SomeFailed
           \/ OwnStatus = "failed" /\ ~Undisturbed
<1>1. CASE OwnStatus = "failed"
  BY <1>1, UndisturbedIsEstablished
<1>2. CASE OwnStatus # "failed"
  <2>1. (\A l \in Lanes : ControlsEstablished(l)) /\ OwnSuiteEstablished
    BY <1>2 DEF OwnStatus
  <2>2. \A l \in Lanes : Len(rows[l]) = 4 /\ (OwnControlFails(l) <=> ~OwnControlsPass(l))
    BY <2>1, EstablishedTell
  <2>3. LanesTell /\ ResultsTell /\ HasReport("w3c")
    BY <2>1 DEF OwnInv, OwnSuiteEstablished
  <2>4. Len(results) = 2 * Size
    BY <2>3, ReportStands DEF ResultsTell, ReportOf, Lanes
  <2>5. OwnResultFails <=> ~OwnCasesPass
    BY <2>3, <2>4, SuiteTells
  <2>6. Len(results) = Len(Engines) * Len(Cases)
    BY <2>4, TwoEngines DEF Size
  <2>. QED BY <2>1, <2>2, <2>5, <2>6 DEF OwnStatus, AllPassed, SomeFailed
<1>. QED BY <1>1, <1>2

LEMMA SummaryDecides ==
    ASSUME SnapInv, BuildInv, FilesInv, OwnInv, Campaign, PublishSummary
    PROVE  OtherTells'
<1>1. /\ at = "summary" /\ owned' = OwnStatus
      /\ UNCHANGED <<command, lane, lanes, results, allCases, identity, measured, rows,
                     runjson, inputVars>>
      /\ at' \in {"plots", "discard", "undo", "withdraw", "abort", "ended"}
      /\ error' \in {error, "error", "interrupt"} /\ code' \in {code, "killed"}
  BY HandlerIsElsewhere
     DEF Campaign, PublishSummary, PublishAll, PublishCut, Goto, Raise, Killed, Exit,
         elsewhere, laneVars, buildVars, benchVars, conformanceVars
<1>2. /\ CompareTells /\ ResultsTell /\ LanesTell /\ OwnTells
      /\ command = "campaign" /\ lane \notin Lanes
  BY <1>1 DEF OwnInv, FilesInv, PlaceTells
<1>3. FilesKeep
  BY PublishKeeps DEF PublishSummary, FilesKeep
<1>4. CompareTells'
  BY <1>1, <1>2, <1>3, CompareStays DEF FilesKeep, ReportOf, Lanes
<1>5. ResultsTell'
  <2>1. lane' # "w3c" /\ at' # "start"
    BY <1>1, <1>2 DEF Lanes
  <2>2. files'["w3c/report.json"] = "new" => files["w3c/report.json"] = "new"
    BY <1>3 DEF FilesKeep, ReportOf, Lanes
  <2>3. /\ ResultsTell /\ UNCHANGED <<command, results, allCases, lanes>>
    BY <1>1, <1>2
  <2>. QED BY <2>1, <2>2, <2>3, ResultsStay
<1>6. LanesTell'
  <2>1. at \notin GatePlaces
    BY <1>1 DEF GatePlaces
  <2>. QED BY <1>1, <1>2, <2>1, LanesStay
<1>7. OwnedTells'
  <2>1. /\ \A l \in Lanes : OwnControlsPass(l)' = OwnControlsPass(l)
        /\ OwnCasesPass' = OwnCasesPass
    BY <1>1, RowsDecideOwn DEF OwnCasesPass
  <2>2. AllPassed' = AllPassed /\ SomeFailed' = SomeFailed
    BY <1>1, <2>1 DEF AllPassed, SomeFailed
  <2>3. Undisturbed' = Undisturbed
    BY <1>1, <2>1 DEF Undisturbed, NothingEdited, inputVars, HasReport, Lanes
  <2>. QED BY <1>1, <1>2, <2>2, <2>3, OwnStatusTells DEF OwnedTells
<1>8. OwnTells'
  <2>1. runjson["campaign"] # "published" /\ code' \notin {"0", "1"}
    BY <1>1, <1>2 DEF FilesInv, ManifestTells, OwnTells
  <2>. QED BY <1>1, <1>7, <2>1 DEF OwnTells
<1>. QED BY <1>4, <1>5, <1>6, <1>8 DEF OtherTells
-----------------------------------------------------------------------------
(* The whole invariant.                                                    *)
LEMMA OwnInvInit == Init => OwnInv
<1>. SUFFICES ASSUME Init PROVE OwnInv
  OBVIOUS
<1>1. /\ lane = "none" /\ at = "start" /\ code = "none" /\ error = "none"
      /\ lanes = [l \in Lanes |-> "pending"] /\ runjson = [o \in Owners |-> "absent"]
      /\ build = NoBuild /\ rows = [p \in Profiles |-> <<>>] /\ results = <<>>
      /\ command # "conformance" => allCases = FALSE
  BY DEF Init, RunInit, CampaignInit, BuildInit, ConformanceInit
<1>2. \A n \in Names : files[n] # "new"
  BY DEF Init
<1>3. /\ \A l \in Lanes : runjson[l] = "absent" /\ lanes[l] = "pending" /\ lane # l
                          /\ rows[l] = <<>> /\ files[ReportOf(l)] # "new"
      /\ runjson["campaign"] = "absent"
  BY <1>1, <1>2, ReportIsName DEF Lanes, Owners, Profiles
<1>4. CommandsFit
  BY <1>1 DEF CommandsFit
<1>5. RowsTell
  <2>1. DOMAIN <<>> = {}
    OBVIOUS
  <2>. QED BY <1>1, <1>3, <2>1 DEF RowsTell, BuildTells, NoBuild
<1>6. CompareTells
  BY <1>1, <1>3 DEF CompareTells, ReportOf, Lanes
<1>7. ResultsTell
  <2>1. <<>> \in Seq(Results) /\ Len(<<>>) = 0 /\ 1..Len(<<>>) = {}
    OBVIOUS
  <2>2. InOrder(results)
    BY <1>1, <2>1, CatalogFacts DEF InOrder
  <2>3. files["w3c/report.json"] # "new" /\ lane # "w3c"
    BY <1>3 DEF ReportOf, Lanes
  <2>. QED BY <1>1, <2>2, <2>3 DEF ResultsTell
<1>8. LanesTell
  BY <1>1, <1>3 DEF LanesTell, Completed, Lanes
<1>9. OwnTells
  BY <1>1, <1>3 DEF OwnTells
<1>. QED BY <1>4, <1>5, <1>6, <1>7, <1>8, <1>9 DEF OwnInv

LEMMA OwnInvStep ==
    SnapInv /\ BuildInv /\ FilesInv /\ OwnInv /\ [Next]_vars => OwnInv'
<1>. SUFFICES ASSUME SnapInv, BuildInv, FilesInv, OwnInv, [Next]_vars PROVE OwnInv'
  OBVIOUS
<1>1. CommandsFit /\ RowsTell
  BY DEF OwnInv
<1>2. CommandsFit' /\ RowsTell'
  BY <1>1, CommandsFitStep, RowsTellStep
<1>. SUFFICES OtherTells'
  BY <1>2 DEF OwnInv, OtherTells
<1>3. Plain => OtherTells'
  BY PlainKeeps DEF OtherTells
<1>4. CASE Build \/ Tools \/ Builds \/ Compare \/ Conformance \/ Regression
  BY <1>1, <1>3, <1>4, BuildIsPlain, BuildsIsPlain, CompareIsPlain, ConformanceIsPlain,
     RegressionIsPlain
<1>5. CASE CatalogOrLane
  BY <1>3, <1>5, LaneBuildsIsPlain, LaneChecksIsPlain, LanePublishDecides,
     LaneCompletesDecides, UndoDecides, StartLaneDecides
     DEF CatalogOrLane, CatalogStep, LaneBuilds, LaneChecks
<1>6. CASE W3c
  BY <1>3, <1>6, W3cChecksIsPlain, CaseDecides, LanePublishDecides, LaneCompletesDecides
     DEF W3c, W3cStep, W3cChecks
<1>7. CASE Campaign
  BY <1>3, <1>7, CampaignStartIsPlain, PlotsArePlain, NextLaneDecides, LaneEndsDecides,
     SummaryDecides, FinishDecides, WithdrawDecides
     DEF Campaign, CampaignStep
<1>8. CASE StepFails \/ Interrupt \/ KillCommand \/ Abort \/ Edits
  BY <1>1, <1>3, <1>8, BreaksOffIsPlain, EditsIsPlain
<1>9. CASE \/ Prepare \/ EditsSuite \/ PrepareFails \/ OtherBegins \/ OtherGoesOn
           \/ OtherFails \/ Ended \/ UNCHANGED vars
  BY <1>3, <1>9, OthersAreBare
<1>. QED BY <1>4, <1>5, <1>6, <1>7, <1>8, <1>9 DEF Next, Progress

LEMMA AllInvariants == Spec => [](SnapInv /\ BuildInv /\ FilesInv /\ OwnInv)
<1>1. Spec => [](BuildInv /\ SnapInv)
  BY SnapInvInit, SnapInvStep, BuildInvInit, BuildInvStep, CacheInside,
     PTL DEF Spec
<1>. QED BY <1>1, FilesInvInit, FilesInvStep, OwnInvInit, OwnInvStep, PTL DEF Spec

(* The exit status of a campaign is about xpact alone: 0 when all of its   *)
(* controls and cases passed, 1 when one failed, and 2 is not brought      *)
(* about by xpact-core at the gate (jenkins_xpact_summary.py, and the end  *)
(* of main).                                                               *)
THEOREM OwnGateHolds == Spec => []OwnGate
<1>1. FilesInv /\ OwnInv => OwnGate
  <2>. SUFFICES ASSUME FilesInv, OwnInv, command = "campaign" PROVE OwnGate
    BY DEF OwnGate
  <2>1. runjson["campaign"] = "published" =>
            OwnedTells /\ code = OwnedCode /\ Present(SummaryFiles)
    BY DEF OwnInv, OwnTells, FilesInv, ManifestTells
  <2>2. code \in {"0", "1"} => runjson["campaign"] = "published"
    BY DEF OwnInv, OwnTells
  <2>3. OwnedTells => owned \in {"complete", "complete_with_failures", "failed"}
    BY DEF OwnedTells
  <2>4. code = "0" => AllPassed /\ Present(SummaryFiles)
    BY <2>1, <2>2, <2>3 DEF OwnedTells, OwnedCode
  <2>5. code = "1" => SomeFailed
    BY <2>1, <2>2, <2>3 DEF OwnedTells, OwnedCode
  <2>6. runjson["campaign"] = "published" /\ Undisturbed => code # "2"
    BY <2>1 DEF OwnedTells, OwnedCode
  <2>. QED BY <2>4, <2>5, <2>6 DEF OwnGate, AllPassed, SomeFailed, Undisturbed
<1>. QED BY <1>1, AllInvariants, PTL
-----------------------------------------------------------------------------
(* The publisher of the plots.                                             *)
LEMMA AllPairs ==
    Implementations \X BOOLEAN = {<<"xpact", TRUE>>, <<"xpact-core", TRUE>>,
                                  <<"xpact", FALSE>>, <<"xpact-core", FALSE>>}
<1>. DEFINE S == {<<"xpact", TRUE>>, <<"xpact-core", TRUE>>,
                  <<"xpact", FALSE>>, <<"xpact-core", FALSE>>}
<1>1. ASSUME NEW x \in Implementations \X BOOLEAN PROVE x \in S
  <2>1. PICK i \in Implementations, a \in BOOLEAN : x = <<i, a>>
    OBVIOUS
  <2>2. i = "xpact" \/ i = "xpact-core"
    BY DEF Implementations
  <2>3. CASE a = TRUE
    BY <2>1, <2>2, <2>3, Zenon
  <2>4. CASE a = FALSE
    BY <2>1, <2>2, <2>4, Zenon
  <2>. QED BY <2>3, <2>4
<1>2. ASSUME NEW x \in S PROVE x \in Implementations \X BOOLEAN
  <2>1. \A i \in Implementations, a \in BOOLEAN : <<i, a>> \in Implementations \X BOOLEAN
    OBVIOUS
  <2>2. "xpact" \in Implementations /\ "xpact-core" \in Implementations
    BY DEF Implementations
  <2>3. TRUE \in BOOLEAN /\ FALSE \in BOOLEAN
    OBVIOUS
  <2>. QED BY <2>1, <2>2, <2>3, Zenon
<1>. QED BY <1>1, <1>2, Zenon

LEMMA ReportPassesControls ==
    ASSUME SnapInv, BuildInv, FilesInv, OwnInv, NEW l \in Lanes, HasReport(l)
    PROVE  PlotControls(l)
<1>. DEFINE r == rows[l]
            pairs == {<<r[k].implementation, r[k].assertions>> : k \in DOMAIN r}
<1>1. Qualified(l) /\ Len(r) = 4 /\ RowsTell
  BY ReportStands DEF OwnInv
<1>2. /\ DOMAIN r = 1..4
      /\ r[1].implementation = "xpact" /\ r[1].assertions = TRUE
      /\ r[2].implementation = "xpact-core" /\ r[2].assertions = TRUE
      /\ r[3].implementation = "xpact" /\ r[3].assertions = FALSE
      /\ r[4].implementation = "xpact-core" /\ r[4].assertions = FALSE
  BY <1>1, FourInOrder
<1>3. pairs = Implementations \X BOOLEAN
  <2>1. 1..4 = {1, 2, 3, 4}
    OBVIOUS
  <2>2. pairs = {<<r[1].implementation, r[1].assertions>>,
                 <<r[2].implementation, r[2].assertions>>,
                 <<r[3].implementation, r[3].assertions>>,
                 <<r[4].implementation, r[4].assertions>>}
    BY <1>2, <2>1
  <2>3. pairs = {<<"xpact", TRUE>>, <<"xpact-core", TRUE>>,
                 <<"xpact", FALSE>>, <<"xpact-core", FALSE>>}
    BY <1>2, <2>2
  <2>. QED BY <2>3, AllPairs
<1>4. ASSUME NEW k \in 1..4
      PROVE  /\ r[k].status = Passing(l)
             /\ l = "catalog" => r[k].outcomes = {"PASS"}
  <2>1. RowTells(l, r[k]) /\ r[k].status \in {"qualified", "executed"}
    BY <1>1, <1>2 DEF RowsTell, Qualified
  <2>. QED BY <2>1 DEF RowTells, Passing
<1>. QED BY <1>1, <1>3, <1>4 DEF PlotControls, Passing

LEMMA ExcludedAreSkipped ==
    ASSUME ~allCases, NEW e \in {"xpact", "xpact-core"}, NEW c \in Listed(Cases),
           NEW r \in RowsFor(e, c)
    PROVE  /\ r.engine = e /\ r.status \in {"passed", "failed", "error", "skipped"}
           /\ r.status = "skipped" <=> Excluded(c)
<1>1. /\ r.engine = e /\ r.status \in {"passed", "failed", "error", "skipped"}
      /\ r.status = "skipped" => Excluded(c)
  BY AnswerFacts
<1>2. Excluded(c) => r.status = "skipped"
  <2>1. SUFFICES ASSUME Excluded(c) PROVE r.status = "skipped"
    OBVIOUS
  <2>2. r = Skipped(e, c)
    BY <2>1 DEF RowsFor, Runnable
  <2>. QED BY <2>2 DEF Skipped, Result
<1>. QED BY <1>1, <1>2

(* Both halves of the results have as many, and exclude the same.          *)
HalfOf(e) == IF e = "xpact" THEN 1..Size ELSE (Size + 1)..(2 * Size)

LEMMA Halves ==
    ASSUME ResultsTell, command # "conformance", Len(results) = 2 * Size,
           NEW e \in Listed(Engines), NEW statuses
    PROVE  /\ {k \in DOMAIN results : /\ results[k].engine = e
                                      /\ results[k].status \in statuses}
              = {k \in HalfOf(e) : results[k].status \in statuses}
           /\ \A k \in HalfOf(e) :
                results[k].status \in {"passed", "failed", "error", "skipped"}
           /\ IsFiniteSet(HalfOf(e)) /\ Cardinality(HalfOf(e)) = Size
<1>1. /\ DOMAIN results = 1..(2 * Size) /\ Size \in Nat /\ ~allCases
      /\ \A k \in 1..Size : results[k] \in RowsFor("xpact", Cases[k])
      /\ \A k \in 1..Size : results[k + Size] \in RowsFor("xpact-core", Cases[k])
  BY OwnHalf DEF ResultsTell
<1>2. e \in {"xpact", "xpact-core"}
  BY TwoEngines
<1>3. \A k \in 1..Size : Cases[k] \in Listed(Cases)
  BY CatalogFacts DEF Listed
<1>4. ASSUME NEW k \in 1..(2 * Size)
      PROVE  /\ results[k].engine = e <=> k \in HalfOf(e)
             /\ results[k].status \in {"passed", "failed", "error", "skipped"}
  <2>1. CASE k \in 1..Size
    <3>1. /\ results[k].engine = "xpact"
          /\ results[k].status \in {"passed", "failed", "error", "skipped"}
      BY <1>1, <1>3, <2>1, ExcludedAreSkipped
    <3>. QED BY <1>1, <1>2, <2>1, <3>1 DEF HalfOf
  <2>2. CASE k \notin 1..Size
    <3>1. k - Size \in 1..Size /\ (k - Size) + Size = k
      BY <1>1, <2>2
    <3>2. results[(k - Size) + Size] \in RowsFor("xpact-core", Cases[k - Size])
      BY <1>1, <3>1
    <3>3. /\ results[k].engine = "xpact-core"
          /\ results[k].status \in {"passed", "failed", "error", "skipped"}
      BY <1>1, <1>3, <3>1, <3>2, ExcludedAreSkipped
    <3>. QED BY <1>1, <1>2, <2>2, <3>3 DEF HalfOf
  <2>. QED BY <2>1, <2>2
<1>5. HalfOf(e) \subseteq 1..(2 * Size)
  BY <1>1 DEF HalfOf
<1>6. IsFiniteSet(HalfOf(e)) /\ Cardinality(HalfOf(e)) = Size
  <2>1. IsFiniteSet(1..Size) /\ Cardinality(1..Size) = Size
    BY <1>1, FS_Interval
  <2>2. /\ IsFiniteSet((Size + 1)..(2 * Size))
        /\ Cardinality((Size + 1)..(2 * Size)) = Size
    BY <1>1, FS_Interval
  <2>. QED BY <2>1, <2>2 DEF HalfOf
<1>. QED BY <1>1, <1>4, <1>5, <1>6

LEMMA SkippedAlike ==
    ASSUME ResultsTell, command # "conformance", Len(results) = 2 * Size
    PROVE  Count("xpact-core", {"skipped"}) = Count("xpact", {"skipped"})
<1>. DEFINE S == {k \in 1..Size : results[k].status = "skipped"}
            T == {k \in (Size + 1)..(2 * Size) : results[k].status = "skipped"}
            f == [k \in S |-> k + Size]
<1>1. /\ Size \in Nat /\ ~allCases
      /\ \A k \in 1..Size : results[k] \in RowsFor("xpact", Cases[k])
      /\ \A k \in 1..Size : results[k + Size] \in RowsFor("xpact-core", Cases[k])
  BY OwnHalf DEF ResultsTell
<1>2. Count("xpact", {"skipped"}) = Cardinality(S)
      /\ Count("xpact-core", {"skipped"}) = Cardinality(T)
  <2>1. "xpact" \in Listed(Engines) /\ "xpact-core" \in Listed(Engines)
    BY TwoEngines
  <2>2. Count("xpact", {"skipped"})
        = Cardinality({k \in HalfOf("xpact") : results[k].status \in {"skipped"}})
    BY <2>1, Halves DEF Count
  <2>3. Count("xpact-core", {"skipped"})
        = Cardinality({k \in HalfOf("xpact-core") : results[k].status \in {"skipped"}})
    BY <2>1, Halves DEF Count
  <2>4. {k \in HalfOf("xpact") : results[k].status \in {"skipped"}} = S
    BY DEF HalfOf
  <2>5. {k \in HalfOf("xpact-core") : results[k].status \in {"skipped"}} = T
    BY DEF HalfOf
  <2>. QED BY <2>2, <2>3, <2>4, <2>5
<1>3. \A k \in 1..Size : k \in S <=> k + Size \in T
  <2>. TAKE k \in 1..Size
  <2>1. Cases[k] \in Listed(Cases)
    BY CatalogFacts DEF Listed
  <2>2. results[k].status = "skipped" <=> results[k + Size].status = "skipped"
    BY <1>1, <2>1, ExcludedAreSkipped
  <2>. QED BY <1>1, <2>2
<1>4. IsFiniteSet(S)
  BY <1>1, FS_Interval, FS_Subset
<1>5. f \in Bijection(S, T)
  <2>1. f \in [S -> T]
    BY <1>3
  <2>2. \A j, k \in S : f[j] = f[k] => j = k
    BY <1>1
  <2>3. \A t \in T : \E k \in S : f[k] = t
    <3>. TAKE t \in T
    <3>1. t - Size \in 1..Size /\ (t - Size) + Size = t
      BY <1>1
    <3>2. t - Size \in S
      BY <1>3, <3>1
    <3>. QED BY <3>1, <3>2
  <2>. QED BY <2>1, <2>2, <2>3
          DEF Bijection, Injection, Surjection, IsInjective
<1>. QED BY <1>2, <1>4, <1>5, FS_Bijection DEF ExistsBijection

(* The status of the W3C lane is that of the outcomes of its report.       *)
LEMMA FailuresAreCounted ==
    ASSUME ResultsTell, command # "conformance", Len(results) = 2 * Size
    PROVE  ResultFailures <=> \E e \in Listed(Engines) : Count(e, {"failed", "error"}) > 0
<1>1. ASSUME NEW e \in Listed(Engines)
      PROVE  Count(e, {"failed", "error"}) > 0
             <=> \E k \in HalfOf(e) : results[k].status \in {"failed", "error"}
  <2>. DEFINE F == {k \in HalfOf(e) : results[k].status \in {"failed", "error"}}
  <2>1. Count(e, {"failed", "error"}) = Cardinality(F) /\ IsFiniteSet(HalfOf(e))
    BY Halves DEF Count
  <2>2. IsFiniteSet(F)
    BY <2>1, FS_Subset
  <2>3. Cardinality(F) \in Nat /\ (Cardinality(F) = 0 <=> F = {})
    BY <2>2, FS_CardinalityType, FS_EmptySet
  <2>. QED BY <2>1, <2>3
<1>2. DOMAIN results = 1..(2 * Size) /\ Size \in Nat
  BY OwnHalf
<1>3. \A k \in DOMAIN results : k \in HalfOf("xpact") \/ k \in HalfOf("xpact-core")
  BY <1>2 DEF HalfOf
<1>4. /\ HalfOf("xpact") \subseteq DOMAIN results
      /\ HalfOf("xpact-core") \subseteq DOMAIN results
  BY <1>2 DEF HalfOf
<1>5. ResultFailures <=>
        \/ \E k \in HalfOf("xpact") : results[k].status \in {"failed", "error"}
        \/ \E k \in HalfOf("xpact-core") : results[k].status \in {"failed", "error"}
  BY <1>3, <1>4 DEF ResultFailures
<1>. QED BY <1>1, <1>5, TwoEngines

LEMMA CountsReconcile ==
    ASSUME ResultsTell, command # "conformance", Len(results) = 2 * Size,
           NEW e \in Listed(Engines)
    PROVE  /\ Count(e, {"passed", "failed", "error", "skipped"}) = Len(Cases)
           /\ Count(e, {"skipped"}) = Count("xpact", {"skipped"})
<1>1. Count(e, {"passed", "failed", "error", "skipped"})
      = Cardinality({k \in HalfOf(e) :
                       results[k].status \in {"passed", "failed", "error", "skipped"}})
  BY Halves DEF Count
<1>2. /\ {k \in HalfOf(e) :
            results[k].status \in {"passed", "failed", "error", "skipped"}} = HalfOf(e)
      /\ Cardinality(HalfOf(e)) = Size
  BY Halves
<1>3. Count(e, {"skipped"}) = Count("xpact", {"skipped"})
  BY TwoEngines, SkippedAlike
<1>. QED BY <1>1, <1>2, <1>3 DEF Size

LEMMA CampaignAtPlots ==
    ASSUME FilesInv, at = "plots"
    PROVE  command # "conformance"
BY DEF FilesInv, PlaceTells

LEMMA CatalogIsPlotted ==
    ASSUME SnapInv, BuildInv, FilesInv, OwnInv, HasReport("catalog")
    PROVE  catalog_plots
<1>1. "catalog" \in Lanes
  BY DEF Lanes
<1>2. CompareTells /\ LanesTell
  BY DEF OwnInv
<1>3. /\ runjson["catalog"] = lanes["catalog"] /\ runjson["catalog"] \in Completed
      /\ files[ReportOf("catalog")] = "new"
  BY <1>1, <1>2, ReportStands
<1>4. lanes["catalog"] = "complete"
  BY <1>2, <1>3 DEF LanesTell, Completed
<1>5. ValidComparison
  BY <1>2, <1>3 DEF CompareTells, ReportOf
<1>6. PlotControls("catalog")
  BY <1>1, ReportPassesControls
<1>. QED BY <1>4, <1>5, <1>6 DEF catalog_plots

LEMMA W3cIsPlotted ==
    ASSUME SnapInv, BuildInv, FilesInv, OwnInv, HasReport("w3c"), at = "plots"
    PROVE  w3c_plots
<1>1. "w3c" \in Lanes
  BY DEF Lanes
<1>2. ResultsTell /\ LanesTell
  BY DEF OwnInv
<1>3. /\ runjson["w3c"] = lanes["w3c"] /\ runjson["w3c"] \in Completed
      /\ files["w3c/report.json"] = "new" /\ Len(rows["w3c"]) = 4
  BY <1>1, <1>2, ReportStands DEF ReportOf
<1>4. command # "conformance" /\ Len(results) = 2 * Size
  BY <1>2, <1>3, CampaignAtPlots DEF ResultsTell
<1>5. \A e \in Listed(Engines) :
        /\ Count(e, {"passed", "failed", "error", "skipped"}) = Len(Cases)
        /\ Count(e, {"skipped"}) = Count("xpact", {"skipped"})
  BY <1>2, <1>4, CountsReconcile
<1>6. ResultFailures <=> \E e \in Listed(Engines) : Count(e, {"failed", "error"}) > 0
  BY <1>2, <1>4, FailuresAreCounted
<1>7. DOMAIN rows["w3c"] = 1..4
  BY <1>1, <1>3, FourInOrder
<1>8. lanes["w3c"] = W3cStatus
  BY <1>2, <1>3 DEF LanesTell
<1>9. lanes["w3c"] = "complete_with_failures" <=>
        \/ \E e \in Listed(Engines) : Count(e, {"failed", "error"}) > 0
        \/ \E k \in 1..4 : rows["w3c"][k].outcomes \cap {"FAIL", "broken"} # {}
  BY <1>6, <1>7, <1>8 DEF W3cStatus
<1>10. PlotControls("w3c")
  BY <1>1, ReportPassesControls
<1>. QED BY <1>5, <1>9, <1>10 DEF w3c_plots

(* When the plots are made, publish_reports (validate_controls,            *)
(* catalog_plots and w3c_plots of dual_jenkins_reports.py) finds in the    *)
(* reports of the completed lanes what it asks of them: four controls that *)
(* ran, a valid comparison, as many W3C results of each engine as the      *)
(* catalog has cases, the same ones excluded, and a status that agrees     *)
(* with the outcomes.  A campaign is never refused its plots.              *)
THEOREM PublisherNeverRefuses == Spec => []PublisherAccepts
<1>1. SnapInv /\ BuildInv /\ FilesInv /\ OwnInv => PublisherAccepts
  <2>. SUFFICES ASSUME SnapInv, BuildInv, FilesInv, OwnInv, at = "plots"
                PROVE  PlotsAccepted
    BY DEF PublisherAccepts
  <2>. QED BY CatalogIsPlotted, W3cIsPlotted DEF PlotsAccepted
<1>. QED BY <1>1, AllInvariants, PTL

-----------------------------------------------------------------------------
(* The types of the scripts' variables.  First where the command is: it    *)
(* stays, moves on, or ends with an exit status.                           *)
WhereTyped ==
    /\ command \in Commands /\ lane \in Profiles \cup {"none"}
    /\ error \in {"none", "error", "gate", "interrupt"} /\ code \in Codes
    /\ at = "ended" <=> code # "none"

Proceeds ==
    /\ at # "ended" /\ command' = command
    /\ lane' = lane \/ lane' \in Profiles \cup {"none"}
    /\ error' = error \/ error' \in {"none", "error", "gate", "interrupt"}
    /\ \/ at' # "ended" /\ code' = code
       \/ at' = "ended" /\ code' \in Codes \ {"none"}

LEMMA ProceedsKeepsWhere ==
    ASSUME WhereTyped, UNCHANGED whereVars \/ Proceeds PROVE WhereTyped'
BY DEF WhereTyped, Proceeds, whereVars

LEMMA GotoProceeds == ASSUME NEW p, Goto(p), at # "ended", p # "ended" PROVE Proceeds
BY DEF Goto, Proceeds

LEMMA RaiseProceeds ==
    ASSUME NEW kind \in {"error", "gate", "interrupt"}, Raise(kind), at # "ended"
    PROVE  Proceeds
BY HandlerIsElsewhere DEF Raise, Proceeds

LEMMA ExitProceeds ==
    ASSUME NEW c \in Codes \ {"none"}, Exit(c), at # "ended" PROVE Proceeds
BY DEF Exit, Proceeds

LEMMA PublishersProceed ==
    /\ \A names : PublishCut(names) /\ at # "ended" => Proceeds
    /\ \A names, p : PublishAll(names, p) /\ at # "ended" /\ p # "ended" => Proceeds
<1>1. ASSUME NEW names, PublishCut(names), at # "ended" PROVE Proceeds
  BY <1>1, RaiseProceeds, ExitProceeds DEF PublishCut, Killed, Codes
<1>2. ASSUME NEW names, NEW p, PublishAll(names, p), at # "ended", p # "ended"
      PROVE  Proceeds
  BY <1>2, GotoProceeds DEF PublishAll
<1>. QED BY <1>1, <1>2

(* Then the files, and how many unusual things may still happen.           *)
FilesTyped == files \in [Names -> {"absent", "earlier", "partial", "new"}]

FilesStep ==
    \/ UNCHANGED files
    \/ \E names, k : Removed(names, k)
    \/ \E names, p : PublishAll(names, p)
    \/ \E names : PublishCut(names)
    \/ \E k, j : Withdrawn(k, j)

LEMMA FilesStepKeeps == ASSUME FilesTyped, FilesStep PROVE FilesTyped'
<1>1. ASSUME NEW names, NEW k, NEW status \in {"absent", "new"}
      PROVE  Wrote(names, k, status) \in [Names -> {"absent", "earlier", "partial", "new"}]
  BY DEF Wrote, FilesTyped
<1>2. ASSUME NEW names, PublishCut(names) PROVE FilesTyped'
  <2>1. PICK k \in 0..(Len(names) - 1) :
          files' = [Wrote(names, k, "new") EXCEPT ![names[k + 1]] =
                      IF names[k + 1] \in DirectFiles THEN "partial" ELSE @]
    BY <1>2 DEF PublishCut
  <2>. DEFINE w == Wrote(names, k, "new")
  <2>2. w \in [Names -> {"absent", "earlier", "partial", "new"}]
    BY <1>1
  <2>. HIDE DEF w
  <2>3. files' = [w EXCEPT ![names[k + 1]] =
                      IF names[k + 1] \in DirectFiles THEN "partial" ELSE @]
    BY <2>1 DEF w
  <2>. QED BY <2>2, <2>3 DEF FilesTyped
<1>3. ASSUME NEW k, NEW j, Withdrawn(k, j) PROVE FilesTyped'
  BY <1>3 DEF Withdrawn, FilesTyped
<1>. QED BY <1>1, <1>2, <1>3 DEF FilesStep, FilesTyped, Removed, PublishAll

(* Every edit and commit takes an event, so that no more of them have been *)
(* made than events are gone.                                              *)
Bound == MaxEvents[command]

EventsBounded ==
    /\ events \in 0..Bound
    /\ source \in [Implementations -> Nat] /\ head \in Nat
    /\ \A i \in Implementations : source[i] + events <= Bound
    /\ head + events <= Bound

Uneventful == (Lucky \/ Unlucky) /\ UNCHANGED inputVars

LEMMA BoundIsNatural == ASSUME WhereTyped PROVE Bound \in Nat
BY CommandAssumption DEF WhereTyped, Bound

LEMMA UneventfulKeeps ==
    ASSUME WhereTyped, EventsBounded, command' = command, Uneventful
    PROVE  EventsBounded'
<1>1. events' = events \/ (events > 0 /\ events' = events - 1)
  BY DEF Uneventful, Lucky, Unlucky
<1>2. source' = source /\ head' = head /\ Bound' = Bound
  BY DEF Uneventful, inputVars, Bound
<1>. QED BY <1>1, <1>2, BoundIsNatural DEF EventsBounded

LEMMA EditsKeepBound ==
    ASSUME WhereTyped, EventsBounded, command' = command, Edits
    PROVE  EventsBounded'
<1>1. events > 0 /\ events' = events - 1 /\ Bound' = Bound
  BY DEF Edits, SourceEvents, EditInputs, Commit, ReplaceExecutable, Unlucky, Bound
<1>2. CASE EditInputs
  <2>1. PICK edits \in {{"xpact"}, {"xpact-core"}, Implementations} :
          source' = [i \in Implementations |->
                      IF i \in edits THEN source[i] + 1 ELSE source[i]]
    BY <1>2 DEF EditInputs
  <2>2. head' = head
    BY <1>2 DEF EditInputs
  <2>3. source' \in [Implementations -> Nat]
    BY <2>1 DEF EventsBounded
  <2>4. \A i \in Implementations : source'[i] <= source[i] + 1
    BY <2>1 DEF EventsBounded
  <2>. QED BY <1>1, <2>2, <2>3, <2>4, BoundIsNatural DEF EventsBounded
<1>3. CASE Commit \/ ReplaceExecutable
  <2>1. source' = source /\ (head' = head \/ head' = head + 1)
    BY <1>3 DEF Commit, ReplaceExecutable
  <2>. QED BY <1>1, <2>1, BoundIsNatural DEF EventsBounded
<1>. QED BY <1>2, <1>3 DEF Edits, SourceEvents

(* Every step but an edit is of these kinds.                               *)
Typical == (UNCHANGED whereVars \/ Proceeds) /\ FilesStep /\ Uneventful

LEMMA LuckIsEnough ==
    ASSUME Lucky \/ Unlucky, UNCHANGED inputVars, UNCHANGED files,
           UNCHANGED whereVars \/ Proceeds
    PROVE  Typical
BY DEF Typical, FilesStep, Uneventful

LEMMA BuildIsTypical == ASSUME Build PROVE Typical
<1>1. (Lucky \/ Unlucky) /\ UNCHANGED inputVars /\ UNCHANGED files
  BY DEF Build, BuildStep, BeginBuild, CallPrepare, TakePrepared, Compile, CheckInputs,
         WriteManifest, BuildFails, fileVars
<1>2. /\ at \in {"build"} \cup BuildPlaces
      /\ \/ UNCHANGED whereVars \/ Raise("interrupt")
         \/ \E p \in {"built"} \cup BuildPlaces : Goto(p)
  BY DEF Build, BuildStep, BeginBuild, CallPrepare, TakePrepared, Compile, CheckInputs,
         WriteManifest, BuildFails, BuildSteps, BuildPlaces
<1>3. UNCHANGED whereVars \/ Proceeds
  BY <1>2, GotoProceeds, RaiseProceeds DEF BuildPlaces
<1>. QED BY <1>1, <1>3, LuckIsEnough

LEMMA BuildsIsTypical == ASSUME Tools \/ Builds PROVE Typical
<1>1. (Lucky \/ Unlucky) /\ UNCHANGED inputVars /\ UNCHANGED files
  BY DEF Tools, Builds, StartBuilds, RecordBuild, EndBuilds, EndBuildsBadly, Toolchain,
         fileVars
<1>2. CASE Tools \/ RecordBuild
  <2>1. at \in {"tools", "built"} /\ Goto("build")
    BY <1>2 DEF Tools, Toolchain, RecordBuild
  <2>. QED BY <1>1, <2>1, GotoProceeds, LuckIsEnough
<1>3. CASE StartBuilds
  <2>1. Proceeds
    BY <1>3 DEF StartBuilds, Proceeds, Profiles
  <2>. QED BY <1>1, <2>1, LuckIsEnough
<1>4. CASE EndBuilds \/ EndBuildsBadly
  <2>1. at \in {"build", "tools"} /\ \E c \in {"0", "1"} : Exit(c)
    BY <1>4 DEF EndBuilds, EndBuildsBadly
  <2>. QED BY <1>1, <2>1, ExitProceeds, LuckIsEnough DEF Codes
<1>. QED BY <1>2, <1>3, <1>4 DEF Builds

LEMMA CompareIsTypical == ASSUME WhereTyped, Compare PROVE Typical
<1>1. (Lucky \/ Unlucky) /\ UNCHANGED inputVars
  BY DEF Compare, BenchStep, StartComparison, RefuseComparison, Identify, SampleFirst,
         Sample, Calibrate, Double, Warmup, MeasurePair, PublishComparison,
         PublishComparisonCut, EndComparison, Discard, PublishAll, PublishCut
<1>2. FilesStep
  <2>1. \/ UNCHANGED files
        \/ \E k : Removed(ComparisonFiles, k)
        \/ \E p : PublishAll(ComparisonFiles, p)
        \/ PublishCut(ComparisonFiles)
    BY DEF Compare, BenchStep, StartComparison, RefuseComparison, Identify, SampleFirst,
           Sample, Calibrate, Double, Warmup, MeasurePair, PublishComparison,
           PublishComparisonCut, EndComparison, Discard, fileVars
  <2>. QED BY <2>1 DEF FilesStep
<1>3. CASE \/ StartComparison \/ RefuseComparison \/ Identify \/ EndComparison
           \/ SampleFirst \/ Warmup \/ MeasurePair \/ Calibrate
  <2>1. /\ UNCHANGED whereVars \/ Raise("error") \/ (\E c \in {"0", "1"} : Exit(c))
           \/ \E p \in {"identify", "calibrate", "warmup", "pair", "compare"} : Goto(p)
        /\ at # "ended"
    BY <1>3
       DEF StartComparison, RefuseComparison, Identify, EndComparison, SampleFirst,
           Warmup, MeasurePair, Calibrate, Double
  <2>. QED BY <1>1, <1>2, <2>1, GotoProceeds, ExitProceeds, RaiseProceeds
           DEF Typical, Uneventful, Codes
<1>4. CASE PublishComparison \/ PublishComparisonCut
  <2>1. /\ at = "compare"
        /\ \/ PublishCut(ComparisonFiles)
           \/ \E p \in {"compared", "validate"} : PublishAll(ComparisonFiles, p)
    BY <1>4 DEF PublishComparison, PublishComparisonCut
  <2>. QED BY <1>1, <1>2, <2>1, PublishersProceed DEF Typical, Uneventful
<1>5. CASE Discard
  <2>1. ASSUME NEW kind \in {"none", "error", "gate", "interrupt"}, AfterDiscard(kind),
               at = "discard"
        PROVE  Proceeds
    BY <2>1, ExitProceeds DEF AfterDiscard, Proceeds, Codes
  <2>2. /\ at = "discard"
        /\ AfterDiscard(error) \/ AfterDiscard("error") \/ AfterDiscard("interrupt")
           \/ Exit("killed")
    BY <1>5 DEF Discard, Killed
  <2>3. Proceeds
    BY <2>1, <2>2, ExitProceeds DEF Codes, WhereTyped
  <2>. QED BY <1>1, <1>2, <2>3 DEF Typical, Uneventful
<1>. QED BY <1>3, <1>4, <1>5 DEF Compare, BenchStep

LEMMA CatalogOrLaneIsTypical == ASSUME WhereTyped, CatalogOrLane PROVE Typical
<1>1. UNCHANGED inputVars /\ (Lucky \/ Unlucky)
  BY DEF CatalogOrLane, CatalogStep, BeginLane, ValidateBuild, RunControls,
         RecordQualified, RecordFailed, CatalogGate, Measure, ValidateComparison,
         ValidateSources, PublishCatalog, CompleteCatalog, Undo, UndoCut, StartLane,
         EndLane, PublishAll, PublishCut
<1>2. FilesStep
  <2>1. \/ UNCHANGED files
        \/ \E n, k : Removed(n, k)
        \/ \E p : PublishAll(CatalogFiles, p)
        \/ PublishCut(CatalogFiles)
    BY DEF CatalogOrLane, CatalogStep, BeginLane, ValidateBuild, RunControls,
           RecordQualified, RecordFailed, CatalogGate, Measure, ValidateComparison,
           ValidateSources, PublishCatalog, CompleteCatalog, Undo, UndoCut, StartLane,
           EndLane, fileVars
  <2>. QED BY <2>1 DEF FilesStep
<1>3. CASE \/ BeginLane("catalog", "tools") \/ BeginLane("w3c", "suite")
           \/ ValidateBuild \/ RunControls \/ RecordQualified \/ RecordFailed
           \/ CatalogGate \/ Measure \/ ValidateComparison \/ ValidateSources
           \/ CompleteCatalog \/ EndLane
  <2>1. /\ \/ UNCHANGED whereVars
           \/ \E kind \in {"error", "gate"} : Raise(kind)
           \/ \E c \in {"0", "1"} : Exit(c)
           \/ \E p \in {"tools", "suite", "controls", "qualify", "build", "measure",
                        "identify", "sources", "publish", "returned"} : Goto(p)
        /\ at # "ended"
    BY <1>3
       DEF BeginLane, ValidateBuild, RunControls, RecordQualified, RecordFailed,
           CatalogGate, Measure, ValidateComparison, ValidateSources, CompleteCatalog,
           EndLane
  <2>. QED BY <1>1, <1>2, <2>1, GotoProceeds, ExitProceeds, RaiseProceeds
           DEF Typical, Uneventful, Codes
<1>4. CASE PublishCatalog
  <2>1. /\ at = "publish"
        /\ PublishCut(CatalogFiles) \/ PublishAll(CatalogFiles, "complete")
    BY <1>4 DEF PublishCatalog
  <2>. QED BY <1>1, <1>2, <2>1, PublishersProceed DEF Typical, Uneventful
<1>5. CASE Undo \/ UndoCut
  <2>1. ASSUME NEW kind \in {"none", "error", "gate", "interrupt"}, AfterUndo(kind),
               at = "undo"
        PROVE  Proceeds
    BY <2>1, ExitProceeds DEF AfterUndo, Proceeds, Codes
  <2>2. /\ at = "undo"
        /\ AfterUndo(error) \/ AfterUndo("error") \/ AfterUndo("interrupt")
           \/ Exit("killed")
    BY <1>5 DEF Undo, UndoCut, Killed
  <2>3. Proceeds
    BY <2>1, <2>2, ExitProceeds DEF Codes, WhereTyped
  <2>. QED BY <1>1, <1>2, <2>3 DEF Typical, Uneventful
<1>6. CASE StartLane
  <2>1. Proceeds
    BY <1>6 DEF StartLane, Proceeds, Profiles
  <2>. QED BY <1>1, <1>2, <2>1 DEF Typical, Uneventful
<1>. QED BY <1>3, <1>4, <1>5, <1>6 DEF CatalogOrLane, CatalogStep

LEMMA ConformanceIsTypical == ASSUME Conformance PROVE Typical
<1>1. (Lucky \/ Unlucky) /\ UNCHANGED inputVars
  BY DEF Conformance, ConformanceStep, StartConformance, Setup, RunConformanceCase,
         SetupError, Judge, WriteReports, EndConformance, PublishAll, PublishCut, RunNow
<1>2. FilesStep
  <2>1. \/ UNCHANGED files
        \/ \E k : Removed(ConformanceFiles, k)
        \/ \E p : PublishAll(ConformanceFiles, p)
        \/ PublishCut(ConformanceFiles)
    BY DEF Conformance, ConformanceStep, StartConformance, Setup, RunConformanceCase,
           SetupError, Judge, WriteReports, EndConformance, fileVars
  <2>. QED BY <2>1 DEF FilesStep
<1>3. UNCHANGED whereVars \/ Proceeds
  <2>1. /\ \/ UNCHANGED whereVars
           \/ \E c \in {"0", "1"} : Exit(c)
           \/ \E p \in {"setup", "case", "judge", "reports"} : Goto(p)
           \/ PublishAll(ConformanceFiles, "reported")
           \/ PublishCut(ConformanceFiles)
        /\ at # "ended"
    BY DEF Conformance, ConformanceStep, StartConformance, Setup, RunConformanceCase,
           SetupError, Judge, WriteReports, EndConformance
  <2>. QED BY <2>1, GotoProceeds, ExitProceeds, PublishersProceed DEF Codes
<1>. QED BY <1>1, <1>2, <1>3 DEF Typical, Uneventful

LEMMA W3cIsTypical == ASSUME W3c PROVE Typical
<1>1. (Lucky \/ Unlucky) /\ UNCHANGED inputVars
  BY DEF W3c, W3cStep, PrepareSuite, RecordExecuted, W3cGate, BeginEngine, CheckInput,
         RunW3cCase, RecheckInput, CheckMatrix, CheckW3cSources, CheckW3cArtifacts,
         PublishW3c, CompleteW3c, PublishAll, PublishCut, RunNow
<1>2. FilesStep
  <2>1. \/ UNCHANGED files
        \/ \E p : PublishAll(W3cFiles, p)
        \/ PublishCut(W3cFiles)
    BY DEF W3c, W3cStep, PrepareSuite, RecordExecuted, W3cGate, BeginEngine, CheckInput,
           RunW3cCase, RecheckInput, CheckMatrix, CheckW3cSources, CheckW3cArtifacts,
           PublishW3c, CompleteW3c, fileVars
  <2>. QED BY <2>1 DEF FilesStep
<1>3. UNCHANGED whereVars \/ Proceeds
  <2>1. at # "ended"
    BY DEF W3c, W3cStep, PrepareSuite, RecordExecuted, W3cGate, BeginEngine, CheckInput,
           RunW3cCase, RecheckInput, CheckMatrix, CheckW3cSources, CheckW3cArtifacts,
           PublishW3c, CompleteW3c
  <2>2. CASE RecheckInput
    <3>1. \/ Raise("error")
          \/ \E p \in {"matrix", "engine", "input"} : Goto(p)
      BY <2>2 DEF RecheckInput
    <3>. QED BY <2>1, <3>1, GotoProceeds, RaiseProceeds
  <2>3. CASE ~RecheckInput
    <3>1. \/ Raise("error")
          \/ \E p \in {"tools", "build", "engine", "input", "run", "recheck input",
                       "sources", "artifacts", "publish", "returned"} : Goto(p)
          \/ PublishAll(W3cFiles, "complete")
          \/ PublishCut(W3cFiles)
      BY <2>3
         DEF W3c, W3cStep, PrepareSuite, RecordExecuted, W3cGate, BeginEngine,
             CheckInput, RunW3cCase, CheckMatrix, CheckW3cSources, CheckW3cArtifacts,
             PublishW3c, CompleteW3c
    <3>. QED BY <2>1, <3>1, GotoProceeds, RaiseProceeds, PublishersProceed
  <2>. QED BY <2>2, <2>3
<1>. QED BY <1>1, <1>2, <1>3 DEF Typical, Uneventful

LEMMA RegressionIsTypical == ASSUME Regression PROVE Typical
<1>1. (Lucky \/ Unlucky) /\ UNCHANGED inputVars
  BY DEF Regression, RegressionStep, StartRegression, SkipFailed, TraceCases,
         RunLifecycle, EndTraces, PublishRegression, EndRegression, AbortRegression,
         PublishAll, PublishCut
<1>2. FilesStep
  <2>1. \/ UNCHANGED files
        \/ \E p : PublishAll(RegressionFiles, p)
        \/ PublishCut(RegressionFiles)
    BY DEF Regression, RegressionStep, StartRegression, SkipFailed, TraceCases,
           RunLifecycle, EndTraces, PublishRegression, EndRegression, AbortRegression,
           fileVars
  <2>. QED BY <2>1 DEF FilesStep
<1>3. CASE StartRegression
  <2>1. Proceeds
    BY <1>3 DEF StartRegression, Proceeds, Profiles
  <2>. QED BY <1>1, <1>2, <2>1 DEF Typical, Uneventful
<1>4. CASE SkipFailed \/ TraceCases \/ RunLifecycle \/ EndTraces \/ PublishRegression
  <2>1. /\ \/ Raise("error")
           \/ \E p \in {"build", "trace", "lifecycle", "reports"} : Goto(p)
           \/ PublishAll(RegressionFiles, "reported")
           \/ PublishCut(RegressionFiles)
        /\ at # "ended"
    BY <1>4 DEF SkipFailed, TraceCases, RunLifecycle, EndTraces, PublishRegression
  <2>. QED BY <1>1, <1>2, <2>1, GotoProceeds, RaiseProceeds, PublishersProceed
           DEF Typical, Uneventful
<1>5. CASE EndRegression
  <2>1. at = "reported" /\ \E c \in {"0", "1", "2"} : Exit(c)
    BY <1>5 DEF EndRegression, RegressionStatus
  <2>. QED BY <1>1, <1>2, <2>1, ExitProceeds DEF Typical, Uneventful, Codes
<1>6. CASE AbortRegression
  <2>1. at = "abort" /\ \E c \in {"1", "2", "interrupted"} : Exit(c)
    BY <1>6 DEF AbortRegression
  <2>. QED BY <1>1, <1>2, <2>1, ExitProceeds DEF Typical, Uneventful, Codes
<1>. QED BY <1>3, <1>4, <1>5, <1>6 DEF Regression, RegressionStep

LEMMA CampaignIsTypical == ASSUME OwnInv, Campaign PROVE Typical
<1>1. (Lucky \/ Unlucky) /\ UNCHANGED inputVars
  BY DEF Campaign, CampaignStep, StartCampaign, NextLane, LaneReturns, LaneFails,
         PublishSummary, PublishPlots, Finish, Withdraw, WithdrawLocked,
         WithdrawBroken, PublishAll, PublishCut
<1>2. FilesStep
  BY DEF Campaign, CampaignStep, StartCampaign, NextLane, LaneReturns, LaneFails,
         LaneEnds, PublishSummary, PublishPlots, Finish, Withdraw, WithdrawLocked,
         WithdrawBroken, fileVars, FilesStep
<1>3. CASE StartCampaign \/ Withdraw \/ WithdrawLocked \/ WithdrawBroken
  <2>1. /\ at # "ended"
        /\ Goto("lane") \/ \E c \in {"2", "interrupted", "killed"} : Exit(c)
    BY <1>3 DEF StartCampaign, Withdraw, WithdrawLocked, WithdrawBroken, Killed
  <2>. QED BY <1>1, <1>2, <2>1, ExitProceeds, GotoProceeds DEF Typical, Uneventful, Codes
<1>4. CASE NextLane
  <2>1. Proceeds
    BY <1>4 DEF NextLane, Goto, Proceeds, Profiles, Lanes
  <2>. QED BY <1>1, <1>2, <2>1 DEF Typical, Uneventful
<1>5. CASE LaneReturns \/ LaneFails
  <2>1. Proceeds
    BY <1>5 DEF LaneReturns, LaneFails, LaneEnds, Proceeds
  <2>. QED BY <1>1, <1>2, <2>1 DEF Typical, Uneventful
<1>6. CASE PublishSummary \/ PublishPlots
  <2>1. /\ at # "ended"
        /\ \/ Raise("error")
           \/ \E n, p : p \in {"plots", "finish"} /\ PublishAll(n, p)
           \/ \E n : PublishCut(n)
    BY <1>6 DEF PublishSummary, PublishPlots
  <2>2. Proceeds
    BY <2>1, PublishersProceed, RaiseProceeds
  <2>. QED BY <1>1, <1>2, <2>2 DEF Typical, Uneventful
<1>7. CASE Finish
  <2>1. owned \in {"complete", "complete_with_failures", "failed"}
    BY <1>7 DEF Finish, OwnInv, OwnTells, OwnedTells
  <2>2. at = "finish" /\ \E c \in {"0", "1", "2"} : Exit(c)
    BY <1>7, <2>1 DEF Finish
  <2>. QED BY <1>1, <1>2, <2>2, ExitProceeds DEF Typical, Uneventful, Codes
<1>. QED BY <1>3, <1>4, <1>5, <1>6, <1>7 DEF Campaign, CampaignStep

LEMMA OthersAreTypical ==
    ASSUME \/ StepFails \/ Interrupt \/ KillCommand \/ Abort \/ Prepare \/ EditsSuite
           \/ PrepareFails \/ OtherBegins \/ OtherGoesOn \/ OtherFails \/ Ended
           \/ UNCHANGED vars
    PROVE  Typical
<1>1. (Lucky \/ Unlucky) /\ UNCHANGED inputVars /\ UNCHANGED files
  BY DEF StepFails, Interrupt, KillCommand, Abort, Prepare, EditsSuite, EditSuite,
         PrepareFails, OtherBegins, OtherGoesOn, OtherFails, Ended, vars, exceptCache,
         fileVars, Lucky
<1>2. CASE StepFails \/ Interrupt \/ KillCommand \/ Abort
  <2>1. /\ at # "ended"
        /\ \/ UNCHANGED whereVars
           \/ \E kind \in {"error", "interrupt"} : Raise(kind)
           \/ \E c \in {"killed", "interrupted", "1"} : Exit(c)
    BY <1>2 DEF StepFails, Interrupt, KillCommand, Abort, MayFail, Uninterruptible,
                Killed
  <2>. QED BY <1>1, <2>1, ExitProceeds, RaiseProceeds, LuckIsEnough DEF Codes
<1>3. CASE \/ Prepare \/ EditsSuite \/ PrepareFails \/ OtherBegins \/ OtherGoesOn
           \/ OtherFails \/ Ended \/ UNCHANGED vars
  <2>1. UNCHANGED whereVars
    BY <1>3 DEF Prepare, EditsSuite, PrepareFails, OtherBegins, OtherGoesOn,
                OtherFails, Ended, vars, exceptCache, whereVars
  <2>. QED BY <1>1, <2>1, LuckIsEnough
<1>. QED BY <1>2, <1>3

LEMMA PlacesAndEventsStep ==
    ASSUME WhereTyped, FilesTyped, EventsBounded, OwnInv, [Next]_vars
    PROVE  /\ WhereTyped' /\ FilesTyped' /\ EventsBounded'
           /\ UNCHANGED whereVars \/ Proceeds
           /\ Edits \/ UNCHANGED replaced
<1>1. CASE Typical
  <2>1. command' = command
    BY <1>1 DEF Typical, Proceeds, whereVars
  <2>. QED BY <1>1, <2>1, ProceedsKeepsWhere, FilesStepKeeps, UneventfulKeeps
         DEF Typical, Uneventful, inputVars
<1>2. CASE Edits
  <2>1. UNCHANGED whereVars /\ UNCHANGED files /\ command' = command
    BY <1>2 DEF Edits, fileVars, whereVars
  <2>. QED BY <1>2, <2>1, ProceedsKeepsWhere, EditsKeepBound DEF FilesTyped
<1>. QED BY <1>1, <1>2, BuildIsTypical, BuildsIsTypical, CompareIsTypical,
            CatalogOrLaneIsTypical, ConformanceIsTypical, W3cIsTypical,
            RegressionIsTypical, CampaignIsTypical, OthersAreTypical
         DEF Next, Progress

-----------------------------------------------------------------------------
(* The builds: what they name was there, so it is within the bound.        *)
Within(r) == r.inputs <= Bound /\ r.revision <= Bound /\ r.used <= Bound

RowsWithin ==
    /\ Within(build)
    /\ \A p \in Profiles : \A k \in DOMAIN rows[p] : Within(rows[p][k])

AsBuilt(r) ==
    r.inputs = build.inputs /\ r.revision = build.revision /\ r.used = build.used

Recorded(r) ==
    rows' = [rows EXCEPT ![lane] = Append(@, r)] /\ AsBuilt(r) /\ lane \in Profiles

RowsStep ==
    /\ UNCHANGED rows \/ \E r : Recorded(r)
    /\ \/ build' = NoBuild \/ AsBuilt(build')
       \/ \E i \in Implementations :
            \/ /\ build'.inputs = source[i] /\ build'.used = 0
               /\ build'.revision = 0 \/ build'.revision = head
            \/ /\ build'.inputs = build.inputs /\ build'.revision = build.revision
               /\ build'.used = source[i]

LEMMA RowsStepKeeps ==
    ASSUME WhereTyped, EventsBounded, BuildInv, RowsWithin, RowsStep, command' = command
    PROVE  RowsWithin'
<1>1. Bound' = Bound /\ Bound \in Nat
  BY BoundIsNatural DEF Bound
<1>2. /\ \A i \in Implementations : source[i] \in Nat /\ source[i] <= Bound
      /\ head \in Nat /\ head <= Bound
  BY <1>1 DEF EventsBounded
<1>3. Within(build)'
  BY <1>1, <1>2 DEF RowsStep, Within, AsBuilt, NoBuild, RowsWithin
<1>4. ASSUME NEW p \in Profiles, NEW k \in DOMAIN rows'[p] PROVE Within(rows[p][k])'
  <2>1. CASE UNCHANGED rows
    BY <1>1, <1>4, <2>1 DEF RowsWithin, Within
  <2>2. ASSUME NEW r, Recorded(r) PROVE Within(rows[p][k])'
    <3>1. rows \in [Profiles -> Seq(GoodRows)]
      BY DEF BuildInv, RowsAreGood
    <3>2. rows'[p] = IF p = lane THEN Append(rows[p], r) ELSE rows[p]
      BY <2>2, <3>1 DEF Recorded
    <3>3. \/ k \in DOMAIN rows[p] /\ rows'[p][k] = rows[p][k]
          \/ rows'[p][k] = r
      <4>1. rows[p] \in Seq(GoodRows)
        BY <3>1
      <4>. QED BY <1>4, <3>2, <4>1
    <3>4. r.inputs <= Bound /\ r.revision <= Bound /\ r.used <= Bound
      BY <2>2 DEF Recorded, AsBuilt, RowsWithin, Within
    <3>. QED BY <1>1, <3>3, <3>4 DEF RowsWithin, Within
  <2>. QED BY <2>1, <2>2 DEF RowsStep
<1>. QED BY <1>3, <1>4 DEF RowsWithin

LEMMA BuildStepsRows == ASSUME BuildInv, Build PROVE RowsStep
<1>1. build \in Rows
  BY DEF BuildInv, RowsAreGood, GoodRows
<1>2. UNCHANGED rows
  BY DEF Build, BuildStep, BeginBuild, CallPrepare, TakePrepared, Compile, CheckInputs,
         WriteManifest, BuildFails, buildVars
<1>3. CASE BeginBuild
  <2>. DEFINE i == NextBuild[1]
  <2>1. /\ build'.inputs = source[i] /\ build'.used = 0
        /\ build'.revision = Revision(i)
    BY <1>3 DEF BeginBuild, NoBuild
  <2>2. i \in Implementations
    <3>1. at = "build" /\ ~AllBuilt /\ lane \in Profiles
      BY <1>3 DEF BeginBuild, BuildInv, LaneIsKnown, LanePlaces
    <3>. QED BY <3>1, NextIsKnown DEF BuildInv, RowsAreGood
  <2>. QED BY <1>2, <2>1, <2>2 DEF RowsStep, Revision
<1>4. CASE Compile
  <2>1. build.implementation \in Implementations
    BY <1>4 DEF Compile, BuildInv, InputsFollow, BuildPlaces
  <2>2. /\ build'.inputs = build.inputs /\ build'.revision = build.revision
        /\ build'.used = source[build.implementation]
    BY <1>1, <1>4 DEF Compile, Rows
  <2>. QED BY <1>2, <2>1, <2>2 DEF RowsStep
<1>5. CASE CallPrepare \/ TakePrepared \/ CheckInputs \/ WriteManifest
  <2>1. \/ build' = NoBuild \/ UNCHANGED build
        \/ \E s : build' = [build EXCEPT !.status = s]
    BY <1>5 DEF CallPrepare, TakePrepared, CheckInputs, WriteManifest, Failed, buildVars
  <2>. QED BY <1>1, <1>2, <2>1 DEF RowsStep, AsBuilt, Rows
<1>6. CASE BuildFails
  <2>1. AsBuilt(build')
    BY <1>1, <1>6 DEF BuildFails, AsBuilt, Rows
  <2>. QED BY <1>2, <2>1 DEF RowsStep
<1>. QED BY <1>3, <1>4, <1>5, <1>6 DEF Build, BuildStep

LEMMA AppendStepsRows ==
    ASSUME NEW r, Append1(r), AsBuilt(r), lane \in Profiles PROVE RowsStep
BY DEF Append1, Recorded, RowsStep

LEMMA OthersStepRows ==
    ASSUME BuildInv, Next, ~Build PROVE RowsStep
<1>. DEFINE Keeps == UNCHANGED rows /\ (UNCHANGED build \/ build' = NoBuild)
<1>1. build \in Rows
  BY DEF BuildInv, RowsAreGood, GoodRows
<1>2. Keeps => RowsStep
  BY DEF RowsStep, AsBuilt
<1>3. AsBuilt(build)
  BY DEF AsBuilt
<1>4. CASE Tools \/ Builds
  <2>1. CASE RecordBuild
    BY <1>3, <2>1, AppendStepsRows DEF RecordBuild, Profiles
  <2>2. CASE ~RecordBuild
    BY <1>2, <1>4, <2>2 DEF Tools, Builds, StartBuilds, EndBuilds, EndBuildsBadly,
                            Toolchain, laneVars, buildVars
  <2>. QED BY <2>1, <2>2
<1>5. CASE CatalogOrLane
  <2>1. CASE RecordFailed
    BY <1>3, <2>1, AppendStepsRows DEF RecordFailed, Profiles
  <2>2. CASE RecordQualified
    <3>1. \A s : AsBuilt([build EXCEPT !.status = s])
      BY <1>1 DEF AsBuilt, Rows
    <3>. QED BY <2>2, <3>1, AppendStepsRows DEF RecordQualified, Profiles, Lanes
  <2>3. CASE ValidateBuild \/ RunControls
    <3>1. /\ UNCHANGED rows
          /\ \/ UNCHANGED build
             \/ \E s : build' = [build EXCEPT !.status = s]
             \/ \E o : build' = [build EXCEPT !.outcomes = o]
      BY <2>3 DEF ValidateBuild, RunControls, Failed
    <3>. QED BY <1>1, <3>1 DEF RowsStep, AsBuilt, Rows
  <2>4. CASE ~(RecordFailed \/ RecordQualified \/ ValidateBuild \/ RunControls)
    BY <1>2, <1>5, <2>4
       DEF CatalogOrLane, CatalogStep, BeginLane, CatalogGate, Measure,
           ValidateComparison, ValidateSources, PublishCatalog, CompleteCatalog, Undo,
           UndoCut, StartLane, EndLane, laneVars, buildVars
  <2>. QED BY <2>1, <2>2, <2>3, <2>4
<1>6. CASE W3c
  <2>1. CASE RecordExecuted
    <3>1. \A s : AsBuilt([build EXCEPT !.status = s])
      BY <1>1 DEF AsBuilt, Rows
    <3>. QED BY <2>1, <3>1, AppendStepsRows DEF RecordExecuted, Profiles, Lanes
  <2>2. CASE ~RecordExecuted
    BY <1>2, <1>6, <2>2
       DEF W3c, W3cStep, PrepareSuite, W3cGate, BeginEngine, CheckInput, RunW3cCase,
           RecheckInput, CheckMatrix, CheckW3cSources, CheckW3cArtifacts, PublishW3c,
           CompleteW3c, laneVars, buildVars
  <2>. QED BY <2>1, <2>2
<1>7. CASE Regression
  <2>1. CASE SkipFailed \/ RunLifecycle
    <3>1. lane \in Profiles
      BY <2>1 DEF SkipFailed, RunLifecycle, Profiles, BuildInv, LaneIsKnown, LanePlaces
    <3>2. Append1(build) \/ UNCHANGED buildVars
      BY <2>1 DEF SkipFailed, RunLifecycle
    <3>. QED BY <1>2, <1>3, <3>1, <3>2, AppendStepsRows DEF buildVars
  <2>2. CASE ~(SkipFailed \/ RunLifecycle)
    BY <1>2, <1>7, <2>2
       DEF Regression, RegressionStep, StartRegression, TraceCases, EndTraces,
           PublishRegression, EndRegression, AbortRegression, otherThanJudged, laneVars,
           buildVars
  <2>. QED BY <2>1, <2>2
<1>8. CASE Compare \/ Conformance
  BY <1>2, <1>8
     DEF Compare, Conformance, ConformanceStep, StartConformance, Setup,
         RunConformanceCase, SetupError, Judge, WriteReports, EndConformance, laneVars,
         buildVars
<1>9. CASE Campaign
  BY <1>2, <1>9
     DEF Campaign, CampaignStep, StartCampaign, NextLane, LaneReturns, LaneFails,
         LaneEnds, PublishSummary, PublishPlots, Finish, Withdraw, WithdrawLocked,
         WithdrawBroken, elsewhere, laneVars, buildVars
<1>10. CASE StepFails \/ Interrupt \/ KillCommand \/ Abort
  BY <1>2, <1>10 DEF StepFails, Interrupt, KillCommand, Abort, laneVars, buildVars
<1>11. CASE \/ Prepare \/ Edits \/ EditsSuite \/ PrepareFails \/ OtherBegins
            \/ OtherGoesOn \/ OtherFails \/ Ended
  BY <1>2, <1>11
     DEF Prepare, Edits, EditsSuite, PrepareFails, OtherBegins, OtherGoesOn, OtherFails,
         Ended, vars, exceptCache, laneVars, buildVars
<1>. QED BY <1>4, <1>5, <1>6, <1>7, <1>8, <1>9, <1>10, <1>11 DEF Next, Progress

LEMMA RowsWithinStep ==
    ASSUME WhereTyped, EventsBounded, BuildInv, RowsWithin, [Next]_vars,
           command' = command
    PROVE  RowsWithin'
<1>1. CASE Next
  BY <1>1, BuildStepsRows, OthersStepRows, RowsStepKeeps
<1>2. CASE UNCHANGED vars
  <2>1. RowsStep
    BY <1>2 DEF vars, buildVars, RowsStep, AsBuilt
  <2>. QED BY <2>1, RowsStepKeeps
<1>. QED BY <1>1, <1>2

-----------------------------------------------------------------------------
(* The comparison: nothing is measured before it begins, and each of its   *)
(* phases keeps count of its samples.                                      *)
Sampling == {"calibrate", "warmup", "pair"}
Unmeasured == {"begin", "suite", "tools", "build", "measure"} \cup HandledPlaces

NotMeasured ==
    \/ at \in {"start", "identify"}
    \/ command = "campaign" /\ lanes["catalog"] = "pending"
    \/ lane = "catalog" /\ at \in Unmeasured

PairRows == [order : {<<"A", "B">>, <<"B", "A">>}, iterations : Nat]

PhaseTyped ==
    /\ NotMeasured => measured = <<>> /\ sampled = 0
    /\ at = "calibrate" => sampled \in 0..1 /\ measured = <<>>
    /\ at = "warmup" => sampled <= 2 * Warmups /\ measured = <<>>
    /\ at = "pair" => sampled <= 2 * Pairs /\ Len(measured) = sampled \div 2

BenchTyped ==
    /\ count \in Iterations..MaxIterations
    /\ sampled \in 0..(2 * (Warmups + Pairs))
    /\ measured \in Seq(PairRows) /\ Len(measured) <= Pairs
    /\ identity \subseteq Roles
    /\ PhaseTyped

(* The lanes, and what they took from replaced executables.                *)
LanesTyped ==
    /\ lanes \in [Lanes -> {"pending", "running", "failed"} \cup Completed]
    /\ owned \in {"none", "failed"} \cup Completed
    /\ foreign \subseteq Lanes
    /\ command = "paired" => replaced = {}
    /\ at \in {"controls", "qualify"} => lane \in Lanes

(* Most steps leave all of this as it is.                                  *)
Rests ==
    /\ UNCHANGED <<benchVars, foreign, lanes, owned, command>>
    /\ \/ UNCHANGED <<at, lane>>
       \/ /\ at' \notin Sampling \cup {"start", "identify"}
          /\ lane' = "catalog" /\ at' \in Unmeasured => lane = "catalog" /\ at \in Unmeasured
          /\ at' \in {"controls", "qualify"} => lane' \in Lanes

LEMMA RestsKeepsBench == ASSUME BenchTyped, Rests PROVE BenchTyped'
<1>1. UNCHANGED <<count, sampled, measured, identity, lanes, command>>
  BY DEF Rests, benchVars
<1>2. NotMeasured' => NotMeasured
  BY <1>1 DEF Rests, NotMeasured
<1>3. at' \in Sampling => at' = at
  BY DEF Rests
<1>. QED BY <1>1, <1>2, <1>3 DEF BenchTyped, PhaseTyped, Sampling

LEMMA RestsKeepsLanes ==
    ASSUME LanesTyped, Rests, command = "paired" => replaced' = {} PROVE LanesTyped'
BY DEF LanesTyped, Rests

LEMMA BuildRests == ASSUME Build \/ Tools \/ Builds PROVE Rests
<1>1. UNCHANGED <<benchVars, foreign, lanes, owned, command>>
  BY DEF Build, BuildStep, BeginBuild, CallPrepare, TakePrepared, Compile, CheckInputs,
         WriteManifest, BuildFails, Tools, Toolchain, Builds, StartBuilds, RecordBuild,
         EndBuilds, EndBuildsBadly, Goto, Raise, Exit, whereVars, laneVars, afterBench,
         afterSuite, campaignVars
<1>2. Handler \in {"discard", "undo", "withdraw", "abort"}
  BY HandlerIsElsewhere
<1>3. CASE Build \/ Tools \/ RecordBuild
  <2>1. /\ lane' = lane /\ at \in {"build", "tools", "built"} \cup BuildPlaces
        /\ at' \in {at, "build", "built", Handler} \cup BuildPlaces
    BY <1>3
       DEF Build, BuildStep, BeginBuild, CallPrepare, TakePrepared, Compile, CheckInputs,
           WriteManifest, BuildFails, Tools, Toolchain, RecordBuild, Goto, Raise,
           whereVars, BuildSteps, BuildPlaces
  <2>. QED BY <1>1, <1>2, <2>1 DEF Rests, Sampling, Unmeasured, HandledPlaces, BuildPlaces
<1>4. CASE Builds /\ ~RecordBuild
  <2>1. /\ at' \in {"tools", "ended"} /\ (at' = "tools" => lane' = "probe")
    BY <1>4 DEF Builds, StartBuilds, EndBuilds, EndBuildsBadly, Exit
  <2>. QED BY <1>1, <2>1 DEF Rests, Sampling, Unmeasured, HandledPlaces, BuildPlaces
<1>. QED BY <1>3, <1>4

LEMMA CatalogRests ==
    ASSUME CatalogOrLane, ~StartLane, ~Measure, ~RunControls PROVE Rests
<1>1. UNCHANGED <<benchVars, foreign, lanes, owned, command>>
  BY DEF CatalogOrLane, CatalogStep, BeginLane, ValidateBuild, RecordQualified,
         RecordFailed, CatalogGate, ValidateComparison, ValidateSources, PublishCatalog,
         CompleteCatalog, Undo, UndoCut, EndLane, AfterUndo, PublishAll, PublishCut, Goto,
         Raise, Exit, Killed, whereVars, laneVars, afterBench, afterSuite, campaignVars
<1>2. Handler \in {"discard", "undo", "withdraw", "abort"}
  BY HandlerIsElsewhere
<1>3. \/ UNCHANGED <<at, lane>>
      \/ at' \in {"sources", "publish", "complete", "returned", "ended", "withdraw",
                  "failed", "undo", "engine", Handler}
      \/ /\ lane' = lane /\ at \in Unmeasured
         /\ at' \in {"tools", "suite", "build", "measure"}
      \/ lane' = lane /\ at \in Unmeasured /\ at' = "controls" /\ lane \in Lanes
  BY DEF CatalogOrLane, CatalogStep, BeginLane, ValidateBuild, RecordQualified,
         RecordFailed, CatalogGate, ValidateComparison, ValidateSources, PublishCatalog,
         CompleteCatalog, Undo, UndoCut, EndLane, AfterUndo, PublishAll, PublishCut, Goto,
         Raise, Exit, Killed, whereVars, Unmeasured, HandledPlaces
<1>. QED BY <1>1, <1>2, <1>3 DEF Rests, Sampling, Unmeasured, HandledPlaces, BuildPlaces

LEMMA SuitesRest ==
    ASSUME Conformance \/ (W3c /\ ~RunW3cCase) \/ Regression PROVE Rests
<1>1. UNCHANGED <<benchVars, foreign, lanes, owned, command>>
  BY DEF Conformance, ConformanceStep, StartConformance, Setup, RunConformanceCase,
         SetupError, Judge, WriteReports, EndConformance, W3c, W3cStep, PrepareSuite,
         RecordExecuted, W3cGate, BeginEngine, CheckInput, RecheckInput, CheckMatrix,
         CheckW3cSources, CheckW3cArtifacts, PublishW3c, CompleteW3c, Regression,
         RegressionStep, StartRegression, SkipFailed, TraceCases, RunLifecycle, EndTraces,
         PublishRegression, EndRegression, AbortRegression, PublishAll, PublishCut, Goto,
         Raise, Exit, Killed, whereVars, otherThanJudged, laneVars, afterSuite,
         campaignVars
<1>2. Handler \in {"discard", "undo", "withdraw", "abort"}
  BY HandlerIsElsewhere
<1>3. CASE Conformance
  <2>1. \/ UNCHANGED <<at, lane>>
        \/ at' \in {"setup", "case", "judge", "reports", "reported", "ended", Handler}
    BY <1>3 DEF Conformance, ConformanceStep, StartConformance, Setup,
                RunConformanceCase, SetupError, Judge, WriteReports, EndConformance,
                PublishAll, PublishCut, Goto, Raise, Exit, Killed, whereVars
  <2>. QED BY <1>1, <1>2, <2>1 DEF Rests, Sampling, Unmeasured, HandledPlaces, BuildPlaces
<1>4. CASE W3c /\ ~RunW3cCase
  <2>1. \/ at' \in {"engine", "input", "run", "matrix", "sources", "artifacts",
                    "publish", "complete", "returned", "ended", Handler}
        \/ lane' = lane /\ at \in {"suite", "qualify"} /\ at' \in {"tools", "build"}
    BY <1>4 DEF W3c, W3cStep, PrepareSuite, RecordExecuted, W3cGate, BeginEngine,
                CheckInput, RecheckInput, CheckMatrix, CheckW3cSources,
                CheckW3cArtifacts, PublishW3c, CompleteW3c, PublishAll, PublishCut, Goto,
                Raise, Exit, Killed
  <2>. QED BY <1>1, <1>2, <2>1 DEF Rests, Sampling, Unmeasured, HandledPlaces, BuildPlaces
<1>5. CASE Regression
  <2>1. \/ at' \in {"reports", "reported", "ended", Handler}
        \/ lane' = "regression" /\ at' = "tools"
        \/ lane' = lane /\ at' \in {"build", "trace", "lifecycle"}
           /\ at \in {"built", "trace", "lifecycle"}
    BY <1>5 DEF Regression, RegressionStep, StartRegression, SkipFailed, TraceCases,
                RunLifecycle, EndTraces, PublishRegression, EndRegression,
                AbortRegression, PublishAll, PublishCut, Goto, Raise, Exit, Killed
  <2>. QED BY <1>1, <1>2, <2>1 DEF Rests, Sampling, Unmeasured, HandledPlaces, BuildPlaces
<1>. QED BY <1>3, <1>4, <1>5

LEMMA OthersRest ==
    ASSUME \/ StepFails \/ Interrupt \/ KillCommand \/ Abort \/ Prepare \/ Edits
           \/ EditsSuite \/ PrepareFails \/ OtherBegins \/ OtherGoesOn \/ OtherFails
           \/ Ended \/ UNCHANGED vars
    PROVE  Rests
<1>1. UNCHANGED <<benchVars, foreign, lanes, owned, command>>
  BY DEF StepFails, Interrupt, KillCommand, Abort, Prepare, Edits, EditsSuite,
         PrepareFails, OtherBegins, OtherGoesOn, OtherFails, Ended, vars, exceptCache,
         Raise, Exit, Killed, whereVars, laneVars, afterBench, afterSuite, campaignVars
<1>2. Handler \in {"discard", "undo", "withdraw", "abort"}
  BY HandlerIsElsewhere
<1>3. UNCHANGED <<at, lane>> \/ at' \in {"ended", Handler}
  BY DEF StepFails, Interrupt, KillCommand, Abort, Prepare, Edits, EditsSuite,
         PrepareFails, OtherBegins, OtherGoesOn, OtherFails, Ended, vars, exceptCache,
         Raise, Exit, Killed, whereVars
<1>. QED BY <1>1, <1>2, <1>3 DEF Rests, Sampling, Unmeasured, HandledPlaces, BuildPlaces

(* The phases of the comparison, one after the other.                      *)
LEMMA PhaseNumbers ==
    /\ Iterations \in Nat /\ MaxIterations \in Nat /\ Warmups \in Nat
    /\ Pairs \in Nat /\ Pairs >= 1 /\ Iterations..MaxIterations \subseteq Nat
BY BenchmarkAssumption

LEMMA MeasuringGoesOn ==
    ASSUME SnapInv, at \in InComparisonPlaces \cup {"discard"},
           UNCHANGED <<command, lanes>>, at' \notin Unmeasured \cup {"start", "identify"}
    PROVE  ~NotMeasured'
<1>1. lane = "catalog" \/ command = "paired"
  BY DEF SnapInv, PlacesOfLanes
<1>2. ~(command = "campaign" /\ lanes["catalog"] = "pending")
  BY <1>1 DEF SnapInv, LanesBeginOnce, Lanes
<1>. QED BY <1>2 DEF NotMeasured

LEMMA SampleFirstKeeps ==
    ASSUME SnapInv, BenchTyped, Compare, SampleFirst PROVE BenchTyped'
<1>1. /\ UNCHANGED <<command, lane, at, lanes, count, measured, identity>>
      /\ sampled % 2 = 0 /\ sampled' = sampled + 1
      /\ \/ at = "calibrate"
         \/ at = "warmup" /\ sampled < 2 * Warmups
         \/ at = "pair" /\ sampled < 2 * Pairs
  BY DEF Compare, SampleFirst, FirstSample, Sample, whereVars, afterBench, afterSuite,
         campaignVars
<1>2. sampled \in Nat /\ (at = "calibrate" => sampled = 0)
  BY <1>1, PhaseNumbers DEF BenchTyped, PhaseTyped
<1>3. sampled' \in 0..(2 * (Warmups + Pairs))
  BY <1>1, <1>2, PhaseNumbers
<1>4. ~NotMeasured'
  BY <1>1, MeasuringGoesOn DEF InComparisonPlaces, Unmeasured, HandledPlaces, BuildPlaces
<1>5. sampled' \div 2 = sampled \div 2
  BY <1>1, <1>2
<1>6. PhaseTyped'
  BY <1>1, <1>2, <1>4, <1>5, PhaseNumbers DEF BenchTyped, PhaseTyped
<1>. QED BY <1>1, <1>3, <1>6 DEF BenchTyped

LEMMA CalibrateKeeps ==
    ASSUME SnapInv, BenchTyped, Compare, Calibrate PROVE BenchTyped'
<1>1. /\ UNCHANGED <<command, lane, lanes, measured, identity>>
      /\ at = "calibrate" /\ sampled' = 0 /\ measured = <<>>
      /\ at' \in {"calibrate", "warmup", Handler}
  BY DEF Compare, Calibrate, Double, Sample, Goto, Raise, whereVars, afterBench,
         afterSuite, campaignVars, BenchTyped, PhaseTyped
<1>2. count' \in Iterations..MaxIterations
  BY PhaseNumbers DEF Compare, Calibrate, Double, BenchTyped
<1>3. Handler \in {"discard", "undo", "withdraw", "abort"}
  BY HandlerIsElsewhere
<1>4. ~NotMeasured'
  BY <1>1, <1>3, MeasuringGoesOn
     DEF InComparisonPlaces, Unmeasured, HandledPlaces, BuildPlaces
<1>5. PhaseTyped'
  BY <1>1, <1>3, <1>4, PhaseNumbers DEF PhaseTyped
<1>. QED BY <1>1, <1>2, <1>5, PhaseNumbers DEF BenchTyped

LEMMA WarmupKeeps ==
    ASSUME SnapInv, BenchTyped, Compare, Warmup PROVE BenchTyped'
<1>1. /\ UNCHANGED <<command, lane, lanes, count, measured, identity>>
      /\ at = "warmup" /\ sampled \in Nat /\ sampled <= 2 * Warmups /\ measured = <<>>
      /\ \/ sampled % 2 # 0 /\ sampled' = sampled + 1 /\ at' = "warmup"
         \/ sampled' = 0 /\ at' = "pair"
  BY PhaseNumbers
     DEF Compare, Warmup, FirstSample, Sample, Goto, whereVars, afterBench, afterSuite,
         campaignVars, BenchTyped, PhaseTyped
<1>2. sampled' \in Nat /\ sampled' <= 2 * Warmups
  BY <1>1, PhaseNumbers
<1>3. ~NotMeasured'
  BY <1>1, MeasuringGoesOn DEF InComparisonPlaces, Unmeasured, HandledPlaces, BuildPlaces
<1>4. 0 \div 2 = 0 /\ Len(measured') = 0
  BY <1>1
<1>5. sampled' = 0 => sampled' <= 2 * Pairs /\ Len(measured') = sampled' \div 2
  BY <1>4, PhaseNumbers
<1>6. PhaseTyped'
  BY <1>1, <1>2, <1>3, <1>5 DEF PhaseTyped
<1>7. sampled' \in 0..(2 * (Warmups + Pairs))
  BY <1>2, PhaseNumbers
<1>. QED BY <1>1, <1>6, <1>7 DEF BenchTyped

LEMMA MeasurePairKeeps ==
    ASSUME SnapInv, BenchTyped, Compare, MeasurePair PROVE BenchTyped'
<1>1. /\ UNCHANGED <<command, lane, lanes, count, identity>>
      /\ at = "pair" /\ sampled \in Nat /\ sampled <= 2 * Pairs
      /\ Len(measured) = sampled \div 2 /\ at' \in {"pair", "compare"}
  BY PhaseNumbers
     DEF Compare, MeasurePair, FirstSample, Sample, Goto, whereVars, afterBench,
         afterSuite, campaignVars, BenchTyped, PhaseTyped
<1>2. ~NotMeasured'
  BY <1>1, MeasuringGoesOn DEF InComparisonPlaces, Unmeasured, HandledPlaces, BuildPlaces
<1>3. CASE at' = "pair"
  <2>. DEFINE r == [order |-> OrderOf(sampled \div 2), iterations |-> count]
  <2>1. sampled % 2 # 0 /\ sampled' = sampled + 1 /\ measured' = Append(measured, r)
    BY <1>3 DEF MeasurePair, FirstSample, Goto
  <2>2. r \in PairRows
    BY PhaseNumbers DEF OrderOf, PairRows, BenchTyped
  <2>. HIDE DEF r
  <2>3. measured' \in Seq(PairRows) /\ Len(measured') = Len(measured) + 1
    BY <2>1, <2>2 DEF BenchTyped
  <2>4. /\ sampled' <= 2 * Pairs /\ sampled' \div 2 = (sampled \div 2) + 1
        /\ sampled' \div 2 <= Pairs /\ sampled' \in 0..(2 * (Warmups + Pairs))
    BY <1>1, <2>1, PhaseNumbers
  <2>5. PhaseTyped'
    BY <1>1, <1>2, <1>3, <2>3, <2>4 DEF PhaseTyped
  <2>. QED BY <1>1, <2>3, <2>4, <2>5 DEF BenchTyped
<1>4. CASE at' = "compare"
  <2>1. sampled' = 0 /\ measured' = measured
    BY <1>1, <1>4 DEF MeasurePair, Goto, whereVars
  <2>2. PhaseTyped'
    BY <1>2, <1>4 DEF PhaseTyped
  <2>. QED BY <1>1, <2>1, <2>2, PhaseNumbers DEF BenchTyped
<1>. QED BY <1>1, <1>3, <1>4

LEMMA CompareKeepsBench ==
    ASSUME SnapInv, FilesInv, BenchTyped, Compare PROVE BenchTyped'
<1>1. CASE SampleFirst \/ Calibrate \/ Warmup \/ MeasurePair
  BY <1>1, SampleFirstKeeps, CalibrateKeeps, WarmupKeeps, MeasurePairKeeps
<1>2. CASE StartComparison \/ Identify
  <2>1. /\ UNCHANGED <<command, lanes, count, sampled, measured>>
        /\ at \in {"start", "identify"} /\ at' \in {"identify", "calibrate", "warmup"}
        /\ identity' \subseteq Roles
    BY <1>2 DEF Compare, StartComparison, Identify, Goto, benchVars, afterBench,
                afterSuite, campaignVars, BenchTyped
  <2>2. measured = <<>> /\ sampled = 0
    BY <2>1 DEF BenchTyped, PhaseTyped, NotMeasured
  <2>3. PhaseTyped'
    BY <2>1, <2>2, PhaseNumbers DEF PhaseTyped
  <2>. QED BY <2>1, <2>3 DEF BenchTyped
<1>3. CASE \/ RefuseComparison \/ PublishComparison \/ PublishComparisonCut
           \/ EndComparison \/ Discard
  <2>1. /\ UNCHANGED <<command, lanes, lane, count, sampled, measured, identity>>
        /\ at' \in {"ended", "compared", "validate", "undo", Handler}
    BY <1>3 DEF Compare, RefuseComparison, PublishComparison, PublishComparisonCut,
                EndComparison, Discard, AfterDiscard, PublishAll, PublishCut, Goto,
                Raise, Exit, Killed, benchVars, afterBench, afterSuite, campaignVars
  <2>2. at' \notin Sampling \cup Unmeasured \cup {"start", "identify"}
    BY <2>1, HandlerIsElsewhere
       DEF Sampling, Unmeasured, HandledPlaces, BuildPlaces
  <2>3. NotMeasured' => NotMeasured
    BY <2>1, <2>2 DEF NotMeasured
  <2>4. PhaseTyped'
    BY <2>1, <2>2, <2>3 DEF BenchTyped, PhaseTyped, Sampling
  <2>. QED BY <2>1, <2>4 DEF BenchTyped
<1>. QED BY <1>1, <1>2, <1>3 DEF Compare, BenchStep

(* The steps of the lanes that rest in the comparison.                     *)
LEMMA LanesKeepBench ==
    ASSUME SnapInv, BenchTyped,
           \/ CatalogOrLane /\ (StartLane \/ Measure \/ RunControls)
           \/ W3c /\ RunW3cCase
    PROVE  BenchTyped'
<1>1. /\ UNCHANGED <<command, lanes, count, sampled, measured, identity>>
      /\ at' \notin Sampling \cup {"start"}
  BY HandlerIsElsewhere
     DEF CatalogOrLane, StartLane, Measure, RunControls, W3c, RunW3cCase, Goto, Raise,
         laneVars, benchVars, afterBench, afterSuite, campaignVars, Sampling
<1>2. NotMeasured' => NotMeasured
  <2>1. CASE StartLane
    BY <2>1 DEF StartLane, NotMeasured
  <2>2. CASE Measure
    <3>1. at = "measure" /\ lane = "catalog"
      BY <2>2 DEF Measure, SnapInv, PlacesOfLanes
    <3>. QED BY <3>1 DEF NotMeasured, Unmeasured
  <2>3. CASE RunControls
    BY <1>1, <2>3
       DEF RunControls, Goto, NotMeasured, Unmeasured, HandledPlaces, BuildPlaces
  <2>4. CASE RunW3cCase
    BY <1>1, <2>4
       DEF RunW3cCase, Goto, NotMeasured, Unmeasured, HandledPlaces, BuildPlaces
  <2>. QED BY <2>1, <2>2, <2>3, <2>4
<1>3. PhaseTyped'
  BY <1>1, <1>2 DEF BenchTyped, PhaseTyped, Sampling
<1>. QED BY <1>1, <1>3 DEF BenchTyped

LEMMA CampaignKeepsBench ==
    ASSUME FilesInv, LanesTyped, BenchTyped, Campaign PROVE BenchTyped'
<1>1. UNCHANGED <<command, count, sampled, measured, identity>>
  BY DEF Campaign, CampaignStep, StartCampaign, NextLane, LaneReturns, LaneFails,
         LaneEnds, PublishSummary, PublishPlots, Finish, Withdraw, WithdrawLocked,
         WithdrawBroken, PublishAll, PublishCut, Goto, Raise, Exit, Killed, elsewhere,
         laneVars, benchVars
<1>2. at' \notin Sampling \cup {"start", "identify"}
  BY HandlerIsElsewhere
     DEF Campaign, CampaignStep, StartCampaign, NextLane, LaneReturns, LaneFails,
         LaneEnds, PublishSummary, PublishPlots, Finish, Withdraw, WithdrawLocked,
         WithdrawBroken, PublishAll, PublishCut, Goto, Raise, Exit, Killed, Sampling
<1>3. NotMeasured' => NotMeasured
  <2>1. CASE NextLane
    <3>1. lanes["catalog"] # "pending" => lane' # "catalog" \/ at' = "summary"
      BY <2>1 DEF NextLane, Goto, Lanes
    <3>2. lanes'["catalog"] = "pending" => lanes["catalog"] = "pending"
      BY <2>1 DEF NextLane, LanesTyped, Lanes
    <3>3. command = "campaign"
      BY <2>1 DEF NextLane
    <3>. QED BY <1>1, <1>2, <3>1, <3>2, <3>3
             DEF NotMeasured, Unmeasured, HandledPlaces, BuildPlaces
  <2>2. CASE LaneReturns \/ LaneFails
    <3>1. PICK s : LaneEnds(s) /\ s # "pending"
      BY <2>2 DEF LaneReturns, LaneFails, FilesInv, PlaceTells, Completed
    <3>2. lanes'["catalog"] = "pending" => lanes["catalog"] = "pending"
      BY <3>1 DEF LaneEnds, LanesTyped, Lanes
    <3>. QED BY <1>1, <1>2, <3>1, <3>2 DEF LaneEnds, NotMeasured
  <2>3. CASE ~(NextLane \/ LaneReturns \/ LaneFails)
    <3>1. /\ UNCHANGED lanes
          /\ at' \in {"lane", "plots", "finish", "ended", Handler}
      BY <2>3
         DEF Campaign, CampaignStep, StartCampaign, PublishSummary, PublishPlots, Finish,
             Withdraw, WithdrawLocked, WithdrawBroken, PublishAll, PublishCut, Goto,
             Raise, Exit, Killed, campaignVars
    <3>. QED BY <1>1, <1>2, <3>1, HandlerIsElsewhere
             DEF NotMeasured, Unmeasured, HandledPlaces, BuildPlaces
  <2>. QED BY <2>1, <2>2, <2>3
<1>4. PhaseTyped'
  BY <1>1, <1>2, <1>3 DEF BenchTyped, PhaseTyped, Sampling
<1>. QED BY <1>1, <1>4 DEF BenchTyped

(* And the statuses of the lanes.                                          *)
LEMMA RunsOfLane ==
    ASSUME LanesTyped, NEW exe, Runs(exe), lane \in Lanes \/ replaced = {}
    PROVE  foreign' \subseteq Lanes
BY DEF LanesTyped, Runs

LEMMA CompareKeepsLanes ==
    ASSUME SnapInv, LanesTyped, Compare PROVE LanesTyped'
<1>1. /\ UNCHANGED <<command, lanes, owned, replaced>>
      /\ at' \notin {"controls", "qualify"}
  BY HandlerIsElsewhere
     DEF Compare, BenchStep, StartComparison, RefuseComparison, Identify, SampleFirst,
         Sample, Calibrate, Double, Warmup, MeasurePair, PublishComparison,
         PublishComparisonCut, EndComparison, Discard, AfterDiscard, PublishAll,
         PublishCut, Goto, Raise, Exit, Killed, whereVars, inputVars, afterBench,
         afterSuite, campaignVars
<1>2. foreign' \subseteq Lanes
  <2>1. foreign' = foreign \/ (at \in InComparisonPlaces /\ \E exe : Runs(exe))
    BY DEF Compare, BenchStep, StartComparison, RefuseComparison, Identify, SampleFirst,
           Sample, Calibrate, Warmup, MeasurePair, PublishComparison,
           PublishComparisonCut, EndComparison, Discard, InComparisonPlaces
  <2>2. at \in InComparisonPlaces => lane \in Lanes \/ replaced = {}
    BY DEF SnapInv, PlacesOfLanes, LanesTyped, Lanes
  <2>. QED BY <2>1, <2>2, RunsOfLane DEF LanesTyped
<1>. QED BY <1>1, <1>2 DEF LanesTyped

LEMMA LanesKeepLanes ==
    ASSUME LanesTyped,
           \/ CatalogOrLane /\ (StartLane \/ Measure \/ RunControls)
           \/ W3c /\ RunW3cCase
    PROVE  LanesTyped'
<1>1. UNCHANGED <<command, lanes, owned, replaced>>
  BY DEF CatalogOrLane, StartLane, Measure, RunControls, W3c, RunW3cCase, Goto, Raise,
         inputVars, afterBench, afterSuite, campaignVars
<1>2. CASE StartLane \/ Measure
  BY <1>1, <1>2, HandlerIsElsewhere
     DEF StartLane, Measure, Goto, Raise, laneVars, LanesTyped
<1>3. CASE RunControls
  <2>1. lane \in Lanes /\ lane' = lane /\ Runs(Exe(lane, build))
    BY <1>3 DEF RunControls, Goto, LanesTyped
  <2>. QED BY <1>1, <2>1, RunsOfLane DEF LanesTyped
<1>4. CASE RunW3cCase
  <2>1. /\ lane \in Lanes /\ lane' = lane
        /\ foreign' = foreign \/ Runs(<<"w3c", EngineNow, FALSE>>)
    BY <1>4 DEF RunW3cCase, Goto, Lanes
  <2>. QED BY <1>1, <2>1, RunsOfLane DEF LanesTyped
<1>. QED BY <1>2, <1>3, <1>4

LEMMA CampaignKeepsLanes ==
    ASSUME FilesInv, LanesTyped, Campaign PROVE LanesTyped'
<1>1. /\ UNCHANGED <<command, foreign, replaced>>
      /\ at' \notin {"controls", "qualify"}
  BY HandlerIsElsewhere
     DEF Campaign, CampaignStep, StartCampaign, NextLane, LaneReturns, LaneFails,
         LaneEnds, PublishSummary, PublishPlots, Finish, Withdraw, WithdrawLocked,
         WithdrawBroken, PublishAll, PublishCut, Goto, Raise, Exit, Killed, elsewhere,
         laneVars, inputVars
<1>2. lanes' \in [Lanes -> {"pending", "running", "failed"} \cup Completed]
  <2>1. CASE NextLane
    BY <2>1 DEF NextLane, LanesTyped
  <2>2. CASE LaneReturns \/ LaneFails
    <3>1. PICK s \in {"failed"} \cup Completed : LaneEnds(s)
      BY <2>2 DEF LaneReturns, LaneFails, FilesInv, PlaceTells
    <3>. QED BY <3>1 DEF LaneEnds, LanesTyped
  <2>3. CASE ~(NextLane \/ LaneReturns \/ LaneFails)
    BY <2>3 DEF Campaign, CampaignStep, StartCampaign, PublishSummary, PublishPlots,
                Finish, Withdraw, WithdrawLocked, WithdrawBroken, campaignVars,
                LanesTyped
  <2>. QED BY <2>1, <2>2, <2>3
<1>3. owned' \in {"none", "failed"} \cup Completed
  BY DEF Campaign, CampaignStep, StartCampaign, NextLane, LaneReturns, LaneFails,
         LaneEnds, PublishSummary, PublishPlots, Finish, Withdraw, WithdrawLocked,
         WithdrawBroken, campaignVars, OwnStatus, LanesTyped, Completed
<1>. QED BY <1>1, <1>2, <1>3 DEF LanesTyped

LEMMA BenchAndLanesStep ==
    ASSUME SnapInv, FilesInv, BenchTyped, LanesTyped, [Next]_vars,
           command' = command, Edits \/ UNCHANGED replaced
    PROVE  BenchTyped' /\ LanesTyped'
<1>1. command = "paired" => replaced' = {}
  BY DEF Edits, Builds_, LanesTyped
<1>2. Rests => BenchTyped' /\ LanesTyped'
  BY <1>1, RestsKeepsBench, RestsKeepsLanes
<1>3. CASE Compare
  BY <1>3, CompareKeepsBench, CompareKeepsLanes
<1>4. CASE CatalogOrLane
  BY <1>2, <1>4, CatalogRests, LanesKeepBench, LanesKeepLanes
<1>5. CASE W3c
  BY <1>2, <1>5, SuitesRest, LanesKeepBench, LanesKeepLanes
<1>6. CASE Campaign
  BY <1>6, CampaignKeepsBench, CampaignKeepsLanes
<1>7. CASE ~(Compare \/ CatalogOrLane \/ W3c \/ Campaign)
  BY <1>2, <1>7, BuildRests, SuitesRest, OthersRest DEF Next, Progress
<1>. QED BY <1>3, <1>4, <1>5, <1>6, <1>7

-----------------------------------------------------------------------------
(* The type invariant.                                                     *)
ScriptsTyped ==
    /\ WhereTyped /\ FilesTyped /\ EventsBounded /\ RowsWithin
    /\ BenchTyped /\ LanesTyped

LEMMA ScriptsTypedInit == Init => ScriptsTyped
<1>. SUFFICES ASSUME Init PROVE ScriptsTyped
  OBVIOUS
<1>1. /\ command \in Commands /\ lane = "none" /\ at = "start" /\ error = "none"
      /\ code = "none" /\ events = MaxEvents[command]
      /\ source = [i \in Implementations |-> 0] /\ head = 0 /\ replaced = {}
      /\ build = NoBuild /\ rows = [p \in Profiles |-> <<>>]
  BY DEF Init, RunInit, BuildInit
<1>2. WhereTyped
  BY <1>1 DEF WhereTyped, Codes
<1>3. Bound \in Nat
  BY <1>2, BoundIsNatural
<1>4. FilesTyped
  BY DEF Init, FilesTyped
<1>5. EventsBounded
  BY <1>1, <1>3 DEF EventsBounded, Bound
<1>6. RowsWithin
  <2>1. Within(build)
    BY <1>1, <1>3 DEF Within, NoBuild
  <2>2. \A p \in Profiles : DOMAIN rows[p] = {}
    BY <1>1
  <2>. QED BY <2>1, <2>2 DEF RowsWithin
<1>7. BenchTyped
  <2>1. count = Iterations /\ sampled = 0 /\ measured = <<>> /\ identity = {}
    BY DEF Init, BenchInit
  <2>2. measured \in Seq(PairRows) /\ Len(measured) = 0
    BY <2>1
  <2>3. PhaseTyped
    BY <1>1, <2>1 DEF PhaseTyped
  <2>4. count \in Iterations..MaxIterations /\ sampled \in 0..(2 * (Warmups + Pairs))
    BY <2>1, BenchmarkAssumption
  <2>. QED BY <2>1, <2>2, <2>3, <2>4, PhaseNumbers DEF BenchTyped
<1>8. LanesTyped
  BY <1>1 DEF Init, CampaignInit, BenchInit, LanesTyped
<1>. QED BY <1>2, <1>4, <1>5, <1>6, <1>7, <1>8 DEF ScriptsTyped

LEMMA ScriptsTypedStep ==
    SnapInv /\ BuildInv /\ FilesInv /\ OwnInv /\ ScriptsTyped /\ [Next]_vars
    => ScriptsTyped'
<1>. SUFFICES ASSUME SnapInv, BuildInv, FilesInv, OwnInv, ScriptsTyped, [Next]_vars
              PROVE  ScriptsTyped'
  OBVIOUS
<1>1. /\ WhereTyped' /\ FilesTyped' /\ EventsBounded'
      /\ UNCHANGED whereVars \/ Proceeds
      /\ Edits \/ UNCHANGED replaced
  BY PlacesAndEventsStep DEF ScriptsTyped
<1>2. command' = command
  BY <1>1 DEF whereVars, Proceeds
<1>3. RowsWithin'
  BY <1>2, RowsWithinStep DEF ScriptsTyped
<1>4. BenchTyped' /\ LanesTyped'
  BY <1>1, <1>2, BenchAndLanesStep DEF ScriptsTyped
<1>. QED BY <1>1, <1>3, <1>4 DEF ScriptsTyped

LEMMA RowIsOK ==
    ASSUME WhereTyped, NEW r \in GoodRows, Within(r) PROVE RowOK(r)
<1>1. Bound \in Nat /\ r \in Rows
  BY BoundIsNatural DEF GoodRows
<1>2. /\ r.inputs \in 0..Bound /\ r.used \in 0..Bound /\ r.revision \in 0..Bound
  BY <1>1 DEF Within, Rows
<1>. QED BY <1>1, <1>2 DEF RowOK, Rows, Bound

LEMMA OrderedRows ==
    ASSUME SnapInv, BuildInv, NEW p \in Profiles PROVE Len(rows[p]) <= Len(Order(p))
<1>1. rows[p] \in Seq(GoodRows) /\ DOMAIN rows[p] = 1..Len(rows[p])
  BY DEF BuildInv, RowsAreGood
<1>2. Len(Order(p)) \in Nat /\ DOMAIN Order(p) = 1..Len(Order(p))
  <2>1. /\ <<"xpact", TRUE>> \in Implementations \X BOOLEAN
        /\ <<"xpact-core", TRUE>> \in Implementations \X BOOLEAN
        /\ <<"xpact", FALSE>> \in Implementations \X BOOLEAN
        /\ <<"xpact-core", FALSE>> \in Implementations \X BOOLEAN
    BY DEF Implementations
  <2>2. Order(p) \in Seq(Implementations \X BOOLEAN)
    BY <2>1, ShortSequences, Zenon DEF Order
  <2>. QED BY <2>2
<1>3. \A k \in 1..Len(rows[p]) : k \in 1..Len(Order(p))
  BY <1>1, <1>2 DEF SnapInv, RowsInOrder
<1>4. Len(rows[p]) \in Nat
  BY <1>1
<1>5. CASE Len(rows[p]) = 0
  BY <1>2, <1>5
<1>6. CASE Len(rows[p]) # 0
  <2>1. Len(rows[p]) \in 1..Len(rows[p])
    BY <1>4, <1>6
  <2>. QED BY <1>2, <1>3, <2>1
<1>. QED BY <1>5, <1>6

(* The variables of the scripts have their types: no edit, retry or failed *)
(* build takes a fingerprint, a row of the manifests, the documents of a   *)
(* sample or the pairs measured beyond its bound, and there is an exit     *)
(* status exactly when the command has ended.                              *)
THEOREM ScriptTypes == Spec => []TypeOK
<1>1. SnapInv /\ BuildInv /\ FilesInv /\ OwnInv /\ ScriptsTyped /\ CacheInv => TypeOK
  <2>. SUFFICES ASSUME SnapInv, BuildInv, ScriptsTyped, CacheInv PROVE TypeOK
    OBVIOUS
  <2>1. /\ WhereTyped /\ FilesTyped /\ EventsBounded /\ RowsWithin
        /\ BenchTyped /\ LanesTyped
    BY DEF ScriptsTyped
  <2>2. /\ command \in Commands /\ lane \in Profiles \cup {"none"}
        /\ error \in {"none", "error", "gate", "interrupt"} /\ code \in Codes
        /\ (at = "ended") = (code # "none")
    BY <2>1 DEF WhereTyped
  <2>3. /\ events \in 0..MaxEvents[command] /\ head \in 0..MaxEvents[command]
        /\ source \in [Implementations -> 0..MaxEvents[command]]
    <3>1. Bound \in Nat
      BY <2>1, BoundIsNatural
    <3>2. \A i \in Implementations : source[i] \in 0..Bound
      BY <2>1, <3>1 DEF EventsBounded
    <3>. QED BY <2>1, <3>1, <3>2 DEF EventsBounded, Bound
  <2>4. /\ files \in [Names -> {"absent", "earlier", "partial", "new"}]
        /\ runjson \in [Owners -> Statuses]
    BY <2>1 DEF FilesTyped, SnapInv, Typed
  <2>5. CacheTypeOK
    BY DEF CacheInv
  <2>6. RowOK(build)
    BY <2>1, RowIsOK DEF BuildInv, RowsAreGood, RowsWithin
  <2>7. ASSUME NEW p \in Profiles
        PROVE  /\ Len(rows[p]) <= Len(Order(p))
               /\ \A k \in DOMAIN rows[p] : /\ RowOK(rows[p][k])
                                            /\ rows[p][k].implementation = Order(p)[k][1]
                                            /\ rows[p][k].assertions = Order(p)[k][2]
    <3>1. rows[p] \in Seq(GoodRows)
      BY DEF BuildInv, RowsAreGood
    <3>2. ASSUME NEW k \in DOMAIN rows[p] PROVE RowOK(rows[p][k])
      <4>1. rows[p][k] \in GoodRows /\ Within(rows[p][k])
        BY <2>1, <3>1 DEF RowsWithin
      <4>. QED BY <2>1, <4>1, RowIsOK
    <3>. QED BY <3>2, OrderedRows DEF SnapInv, RowsInOrder
  <2>8. /\ count \in Iterations..MaxIterations
        /\ sampled \in 0..(2 * (Warmups + Pairs)) /\ Len(measured) <= Pairs
        /\ identity \subseteq Roles /\ foreign \subseteq Lanes
        /\ lanes \in [Lanes -> {"pending", "running", "failed"} \cup Completed]
        /\ owned \in {"none", "failed"} \cup Completed
    BY <2>1 DEF BenchTyped, LanesTyped
  <2>. QED BY <2>2, <2>3, <2>4, <2>5, <2>6, <2>7, <2>8 DEF TypeOK
<1>. QED BY <1>1, ScriptsTypedInit, ScriptsTypedStep, AllInvariants, CacheInside, PTL
         DEF Spec
=============================================================================
