------------------------- MODULE TokenSessionProofs -------------------------
(***************************************************************************)
(* What the steps that the two sessions share keep: the position is that   *)
(* of a recount, and the callbacks made are those of the bytes consumed.   *)
(***************************************************************************)
EXTENDS TokenSession, FiniteSetTheorems, SequenceTheorems, WellFoundedInduction, TLAPS

-----------------------------------------------------------------------------
(* The inductive invariant of a session.                                   *)

(* What a step may change but for the control of the call.                 *)
DataOK ==
    /\ doc \in Documents
    /\ supplied \in 0..DocSize /\ finalBuffer \in BOOLEAN
    /\ consumed \in 0..supplied /\ line \in Nat /\ column \in Nat
    /\ stack \in Seq({Name[c] : c \in Callback}) /\ elements \in Nat
    /\ given \in [turn : 0..1, cb : 0..N, from : Nat, to : Nat]
    /\ PositionIsRecount

(* Between two tokens the callbacks made are those of the bytes consumed,  *)
(* and of these only text may be consumed in part.                         *)
AllGiven ==
    /\ \A c \in Callback :
          /\ c <= given.cb <=> First[c] < consumed
          /\ First[c] < consumed /\ consumed < Last[c] => Kind[c] = "text"
    /\ given.cb > 0 => given.to = Reported(given.cb, consumed)

(* Within an empty element the start callback is made, the tag is complete *)
(* in the window and not yet consumed, and the end callback is to come.    *)
TagHalfGiven ==
    /\ \A c \in Callback : c < given.cb <=> First[c] < consumed
    /\ given.cb \in FrontTag("start") /\ First[given.cb] = consumed
    /\ given.to = 1
    /\ Complete /\ FrontTag("end") # {}

GivenIsConsumed == IF pc = "empty" THEN TagHalfGiven ELSE AllGiven

-----------------------------------------------------------------------------
(* The documents.                                                          *)

(* What the assumptions say of the document that is fed.                   *)
LEMMA SessionFacts ==
    ASSUME doc \in Documents
    PROVE  /\ N \in Nat /\ DocSize \in Nat /\ Callback = 1..N
           /\ \A n \in Chunks : n \in Nat
           /\ \A k \in Newlines : k \in Nat /\ k > 0
           /\ \A c \in Callback :
                 /\ c \in Nat /\ First[c] \in Nat /\ Ready[c] \in Nat /\ Last[c] \in Nat
                 /\ First[c] < Ready[c] /\ Ready[c] <= Last[c]
                 /\ Kind[c] \in Kinds
                 /\ Kind[c] \in {"start", "end"} => Ready[c] = Last[c]
<1>1. IsDocument(doc)
    BY DocumentAssumption
<1>2. \A c \in Callback : Kind[c] \in {"start", "end"} => Ready[c] = Last[c]
    BY TokenAssumption DEF Callback, N, Kind, Ready, Last
<1>3. \A k \in Newlines : k \in Nat /\ k > 0
    <2>1. \A k \in Newlines : k \in Nat \ {0}
        BY SessionAssumption DEF Newlines
    <2>. QED BY <2>1
<1>4. N \in Nat /\ DocSize \in Nat /\ \A n \in Chunks : n \in Nat
    BY <1>1 DEF IsDocument, N, DocSize, Chunks
<1>5. \A c \in Callback : /\ First[c] \in Nat /\ Ready[c] \in Nat /\ Last[c] \in Nat
                          /\ First[c] < Ready[c] /\ Ready[c] <= Last[c]
                          /\ Kind[c] \in Kinds
    BY <1>1 DEF IsDocument, N, Kind, First, Ready, Last, Callback
<1>6. Callback = 1..N /\ \A c \in Callback : c \in Nat
    BY <1>4 DEF Callback
<1>. QED BY <1>2, <1>3, <1>4, <1>5, <1>6

(* Two callbacks: of successive tokens, or of an empty element, or of      *)
(* declarations.                                                           *)
LEMMA OrderFacts ==
    ASSUME doc \in Documents, NEW b \in Callback, NEW c \in Callback, b < c
    PROVE  \/ Last[b] <= First[c]
           \/ /\ First[b] = First[c] /\ Last[b] = Last[c]
              /\ Kind[b] # "text" /\ Kind[c] # "text"
              /\ \/ Kind[b] = "start" /\ Kind[c] = "end"
                 \/ Kind[b] \in {"comment", "doctype"} /\ Kind[c] \in {"comment", "doctype"}
<1>1. IsDocument(doc)
    BY DocumentAssumption
<1>2. doc.first[b] = doc.first[c] =>
          \/ doc.kind[b] = "start" /\ doc.kind[c] = "end"
          \/ {doc.kind[b], doc.kind[c]} \subseteq {"comment", "doctype"}
    BY TokenAssumption DEF Callback, N
<1>. QED BY <1>1, <1>2 DEF IsDocument, N, Kind, First, Last, Callback

(* The bytes of the front token.                                           *)
LEMMA FrontFacts ==
    ASSUME doc \in Documents, NEW c \in Front
    PROVE  c \in Callback /\ First[c] <= consumed /\ consumed < Last[c]
BY DEF Front

-----------------------------------------------------------------------------
(* The position.                                                           *)

(* A set of numbers up to a bound has a largest one.                       *)
LEMMA LargestOne ==
    ASSUME NEW m \in Nat, NEW S, \A k \in S : k \in Nat /\ k <= m, S # {}
    PROVE  \E k \in S : \A i \in S : i <= k
<1> DEFINE D == {j \in Nat : m - j \in S}
<1>1. D \in SUBSET Nat /\ D # {}
    <2>1. PICK k \in S : k \in Nat /\ k <= m
        OBVIOUS
    <2>2. m - k \in Nat /\ m - (m - k) = k
        BY <2>1
    <2>3. m - k \in D
        BY <2>1, <2>2
    <2>. QED BY <2>3
<1>2. PICK j \in D : \A i \in D : ~(<<i, j>> \in OpToRel(<, Nat))
    BY <1>1, WFMin, NatLessThanWellFounded
<1>3. j \in Nat /\ m - j \in S
    BY <1>2
<1>4. ASSUME NEW i \in S
      PROVE  i <= m - j
    <2>1. i \in Nat /\ i <= m
        OBVIOUS
    <2>2. m - i \in Nat /\ m - (m - i) = i
        BY <2>1
    <2>3. m - i \in D
        BY <2>2
    <2>4. ~(m - i < j)
        BY <1>2, <1>3, <2>2, <2>3 DEF OpToRel
    <2>. QED BY <1>3, <2>1, <2>4
<1>. QED BY <1>3, <1>4

(* The line feeds of a part of the input.                                  *)
LEMMA NewlinesFinite ==
    ASSUME doc \in Documents, NEW m \in Nat
    PROVE  /\ IsFiniteSet({k \in Newlines : k <= m})
           /\ Cardinality({k \in Newlines : k <= m}) \in Nat
           /\ Cardinality({k \in Newlines : k <= m}) <= m
<1>1. IsFiniteSet(1..m) /\ Cardinality(1..m) = m
    BY FS_Interval
<1>2. \A k \in {k \in Newlines : k <= m} : k \in 1..m
    BY SessionFacts
<1>3. {k \in Newlines : k <= m} \in SUBSET (1..m)
    BY <1>2
<1>4. /\ IsFiniteSet({k \in Newlines : k <= m})
      /\ Cardinality({k \in Newlines : k <= m}) <= Cardinality(1..m)
    BY <1>1, <1>3, FS_Subset
<1>. QED BY <1>1, <1>4, FS_CardinalityType

(* update_position over the bytes consumed agrees with a recount from the  *)
(* first byte.                                                             *)
LEMMA ConsumeKeepsPosition ==
    ASSUME doc \in Documents, UNCHANGED doc, consumed \in Nat, line \in Nat, column \in Nat,
           PositionIsRecount, NEW n \in Nat, Consume(n)
    PROVE  /\ PositionIsRecount' /\ consumed' = consumed + n
           /\ consumed' \in Nat /\ line' \in Nat /\ column' \in Nat
<1> DEFINE before == {k \in Newlines : k <= consumed}
           after == {k \in Newlines : k <= consumed + n}
           new == Newlines \cap (consumed + 1)..(consumed + n)
<1>1. /\ consumed' = consumed + n /\ line' = line + Cardinality(new)
      /\ column' = IF new = {} THEN column + n
                   ELSE CHOOSE k \in 0..n - 1 :
                            consumed + n - k \in new /\ \A i \in new : i <= consumed + n - k
    BY DEF Consume
<1>2. \A k \in Newlines : k \in Nat /\ k > 0
    BY SessionFacts
<1>3. /\ \A k \in new : k \in Newlines /\ k \in Nat /\ consumed < k /\ k <= consumed + n
      /\ \A k \in after : k \in before \/ k \in new
      /\ \A k \in before : k \in after /\ k <= consumed
      /\ \A k \in new : k \in after
    BY <1>2
<1>4. after = before \cup new /\ before \cap new = {}
    BY <1>3
<1>5. /\ consumed + n \in Nat /\ IsFiniteSet(before) /\ IsFiniteSet(after)
      /\ Cardinality(before) \in Nat
    BY NewlinesFinite
<1>6. IsFiniteSet(new) /\ Cardinality(new) \in Nat
    <2>1. new \in SUBSET after
        BY <1>3
    <2>. QED BY <1>5, <2>1, FS_Subset, FS_CardinalityType
<1>7. Cardinality(after) = Cardinality(before) + Cardinality(new)
    <2>1. Cardinality(before \cap new) = 0
        BY <1>4, FS_EmptySet
    <2>2. Cardinality(before \cup new) =
              Cardinality(before) + Cardinality(new) - Cardinality(before \cap new)
        BY <1>5, <1>6, FS_Union
    <2>3. Cardinality(after) = Cardinality(before \cup new)
        BY <1>4
    <2> HIDE DEF before, after, new
    <2>. QED BY <1>5, <1>6, <2>1, <2>2, <2>3
<1>8. line = Cardinality(before) + 1 /\ (\A k \in before : column <= consumed - k)
      /\ consumed - column \in before \cup {0}
    BY DEF PositionIsRecount
<1>9. line' = Cardinality(after) + 1 /\ line' \in Nat
    BY <1>1, <1>5, <1>6, <1>7, <1>8
<1>10. /\ column' \in Nat
       /\ \A k \in after : column' <= consumed + n - k
       /\ consumed + n - column' \in after \cup {0}
    <2>1. CASE new = {}
        <3>1. column' = column + n /\ after = before
            BY <1>1, <1>4, <2>1
        <3>2. ASSUME NEW k \in before
              PROVE  column + n <= consumed + n - k
            BY <1>2, <1>8
        <3>3. consumed + n - column' = consumed - column /\ column' \in Nat
            BY <3>1
        <3>4. \A k \in after : column' <= consumed + n - k
            BY <3>1, <3>2
        <3> HIDE DEF before, after, new
        <3>5. consumed + n - column' \in after \cup {0}
            <4>1. after = before
                BY <3>1
            <4>2. consumed - column \in before \cup {0}
                BY <1>8
            <4>3. consumed + n - column' = consumed - column
                BY <3>3
            <4>. QED BY ONLY <4>1, <4>2, <4>3, Zenon
        <3>. QED BY <3>3, <3>4, <3>5
    <2>2. CASE new # {}
        <3>1. PICK top \in new : \A i \in new : i <= top
            <4>1. consumed + n \in Nat /\ \A k \in new : k \in Nat /\ k <= consumed + n
                BY <1>3, <1>5
            <4> HIDE DEF new
            <4>. QED BY ONLY <2>2, <4>1, LargestOne
        <3>2. top \in Nat /\ consumed < top /\ top <= consumed + n
            BY <1>3
        <3>3. /\ consumed + n - top \in 0..n - 1
              /\ consumed + n - (consumed + n - top) = top
            BY <3>2
        <3>4. \E k \in 0..n - 1 : /\ consumed + n - k \in new
                                  /\ \A i \in new : i <= consumed + n - k
            BY <3>1, <3>3
        <3>5. /\ column' \in 0..n - 1 /\ consumed + n - column' \in new
              /\ \A i \in new : i <= consumed + n - column'
            BY <1>1, <2>2, <3>4
        <3>6. column' \in Nat /\ column' < n
            BY <3>5
        <3>7. ASSUME NEW k \in after
              PROVE  column' <= consumed + n - k
            <4>1. k \in Nat
                BY <1>2
            <4>2. CASE k \in new
                <5>1. k <= consumed + n - column'
                    BY <3>5, <4>2
                <5>2. \A a, b, c, e \in Nat : e <= a + b - c => c <= a + b - e
                    OBVIOUS
                <5>. QED BY <3>6, <4>1, <5>1, <5>2
            <4>3. CASE k \in before
                <5>1. k <= consumed
                    BY <4>3
                <5>. QED BY <3>6, <4>1, <5>1
            <4>. QED BY <1>3, <4>2, <4>3
        <3>. QED BY <1>3, <3>5, <3>6, <3>7
    <2>. QED BY <2>1, <2>2
<1>11. PositionIsRecount'
    <2>1. Newlines' = Newlines
        BY DEF Newlines
    <2>2. {k \in Newlines' : k <= consumed'} = after
        BY <1>1, <2>1
    <2>a. consumed' = consumed + n
        BY <1>1
    <2> HIDE DEF before, after, new
    <2>3. /\ \A k \in after : column' <= consumed' - k
          /\ consumed' - column' \in after \cup {0}
        <3>1. ASSUME NEW k \in after
              PROVE  column' <= consumed' - k
            <4>1. column' <= consumed + n - k
                BY <1>10
            <4>2. k \in Nat
                BY <1>2 DEF after
            <4>. QED BY <2>a, <4>1, <4>2, <1>10
        <3>2. consumed' - column' \in after \cup {0}
            <4>1. consumed + n - column' = consumed' - column'
                BY <2>a, <1>10
            <4>. QED BY <1>10, <4>1
        <3>. QED BY <3>1, <3>2
    <2>4. /\ \A k \in {k \in Newlines' : k <= consumed'} : column' <= consumed' - k
          /\ consumed' - column' \in {k \in Newlines' : k <= consumed'} \cup {0}
          /\ line' = Cardinality({k \in Newlines' : k <= consumed'}) + 1
        BY ONLY <1>9, <2>2, <2>3, Zenon
    <2>. QED BY ONLY <2>4, Zenon DEF PositionIsRecount
<1>. QED BY <1>1, <1>9, <1>10, <1>11

(* The counters lie within the input.                                      *)
LEMMA PositionTypes ==
    ASSUME doc \in Documents, supplied \in Nat, consumed \in 0..supplied, line \in Nat,
           column \in Nat, PositionIsRecount
    PROVE  line \in 1..supplied + 1 /\ column \in 0..supplied
<1>1. Cardinality({k \in Newlines : k <= consumed}) \in Nat
      /\ Cardinality({k \in Newlines : k <= consumed}) <= consumed
    BY NewlinesFinite
<1>2. line \in 1..supplied + 1
    BY <1>1 DEF PositionIsRecount
<1>3. consumed - column \in Nat
    <2>1. consumed - column \in {k \in Newlines : k <= consumed} \cup {0}
        BY DEF PositionIsRecount
    <2>. QED BY <2>1, SessionFacts
<1>. QED BY <1>2, <1>3

-----------------------------------------------------------------------------
(* The callback to make next is that of the token at the front.            *)

(* Text goes on, or begins when all before it is made.                     *)
LEMMA TextIsNext ==
    ASSUME DataOK, AllGiven, NEW c \in FrontText
    PROVE  \/ given.cb = c /\ First[c] < consumed /\ given.to = consumed - First[c]
           \/ given.cb = c - 1 /\ First[c] = consumed
<1>1. doc \in Documents /\ consumed \in Nat /\ given.cb \in 0..N
    BY DEF DataOK
<1>2. c \in Callback /\ First[c] <= consumed /\ consumed < Last[c] /\ Kind[c] = "text"
    BY DEF FrontText, Front
<1>3. \A d \in Callback : d \in Nat /\ First[d] \in Nat /\ Last[d] \in Nat /\ First[d] < Last[d]
    BY <1>1, SessionFacts
<1>4. Callback = 1..N /\ N \in Nat
    BY <1>1, SessionFacts
<1>5. CASE First[c] < consumed
    <2>1. c <= given.cb
        BY <1>2, <1>5 DEF AllGiven
    <2>2. ~(c < given.cb)
        <3> SUFFICES ASSUME c < given.cb
                     PROVE  FALSE
            OBVIOUS
        <3>1. given.cb \in Callback
            BY <1>1, <1>2, <1>3, <1>4
        <3>2. First[given.cb] < consumed
            BY <1>1, <3>1 DEF AllGiven
        <3>3. Last[c] <= First[given.cb]
            BY <1>1, <1>2, <3>1, OrderFacts
        <3>. QED BY <1>1, <1>2, <1>3, <3>1, <3>2, <3>3
    <2>3. given.cb = c
        BY <1>1, <1>2, <1>3, <2>1, <2>2
    <2>4. given.cb > 0
        BY <1>2, <1>4, <2>3
    <2>5. given.to = Reported(c, consumed)
        BY <2>3, <2>4 DEF AllGiven
    <2>6. Reported(c, consumed) = consumed - First[c]
        BY <1>2 DEF Reported
    <2>. QED BY <1>5, <2>3, <2>5, <2>6
<1>6. CASE First[c] = consumed
    <2>1. ~(c <= given.cb)
        BY <1>1, <1>2, <1>3, <1>6 DEF AllGiven
    <2>2. ~(given.cb < c - 1)
        <3> SUFFICES ASSUME given.cb < c - 1
                     PROVE  FALSE
            OBVIOUS
        <3>1. c - 1 \in Callback /\ c - 1 < c
            BY <1>1, <1>2, <1>3, <1>4
        <3>2. Last[c - 1] <= First[c]
            BY <1>1, <1>2, <3>1, OrderFacts
        <3>3. First[c - 1] < consumed
            BY <1>1, <1>3, <1>2, <1>6, <3>1, <3>2
        <3>4. c - 1 <= given.cb
            BY <3>1, <3>3 DEF AllGiven
        <3>. QED BY <1>1, <1>3, <1>2, <3>4
    <2>. QED BY <1>1, <1>2, <1>3, <1>6, <2>1, <2>2
<1>. QED BY <1>1, <1>2, <1>3, <1>5, <1>6

(* A tag begins when all before it is made; the end tag of an empty        *)
(* element is not the first of its callbacks.                              *)
LEMMA TagIsNext ==
    ASSUME DataOK, AllGiven, NEW c \in Front,
           Kind[c] = "start" \/ (Kind[c] = "end" /\ FrontTag("start") = {})
    PROVE  given.cb = c - 1 /\ First[c] = consumed
<1>1. doc \in Documents /\ consumed \in Nat /\ given.cb \in 0..N
    BY DEF DataOK
<1>2. c \in Callback /\ First[c] <= consumed /\ consumed < Last[c] /\ Kind[c] # "text"
    BY DEF Front
<1>3. \A d \in Callback : d \in Nat /\ First[d] \in Nat /\ Last[d] \in Nat /\ First[d] < Last[d]
    BY <1>1, SessionFacts
<1>4. Callback = 1..N /\ N \in Nat
    BY <1>1, SessionFacts
<1>5. First[c] = consumed
    BY <1>1, <1>2, <1>3 DEF AllGiven
<1>6. ~(c <= given.cb)
    BY <1>1, <1>2, <1>3, <1>5 DEF AllGiven
<1>7. ~(given.cb < c - 1)
    <2> SUFFICES ASSUME given.cb < c - 1
                 PROVE  FALSE
        OBVIOUS
    <2>1. c - 1 \in Callback /\ c - 1 < c
        BY <1>1, <1>2, <1>3, <1>4
    <2>2. ~(First[c - 1] < consumed)
        <3>1. ~(c - 1 <= given.cb)
            BY <1>1, <1>2, <1>3
        <3>. QED BY <2>1, <3>1 DEF AllGiven
    <2>3. CASE Last[c - 1] <= First[c]
        <3>1. First[c - 1] < Last[c - 1] /\ First[c - 1] \in Nat /\ Last[c - 1] \in Nat
            BY <1>3, <2>1
        <3>2. First[c] \in Nat
            BY <1>2, <1>3
        <3>3. First[c - 1] < First[c]
            BY ONLY <2>3, <3>1, <3>2
        <3>. QED BY ONLY <1>5, <2>2, <3>3
    <2>4. CASE First[c - 1] = First[c] /\ Last[c - 1] = Last[c]
        <3>1. c - 1 \in Front
            BY <1>2, <2>1, <2>4 DEF Front
        <3>2. ~(Last[c - 1] <= First[c])
            BY <1>2, <1>3, <2>1, <2>4
        <3>3. Kind[c - 1] # "start"
            <4>1. CASE Kind[c] = "start"
                BY <1>1, <1>2, <2>1, <3>2, <4>1, OrderFacts
            <4>2. CASE FrontTag("start") = {}
                BY <3>1, <4>2 DEF FrontTag
            <4>. QED BY <4>1, <4>2
        <3>. QED BY <1>1, <1>2, <2>1, <3>2, <3>3, OrderFacts
    <2>. QED BY <1>1, <1>2, <2>1, <2>3, <2>4, OrderFacts
<1>. QED BY <1>1, <1>2, <1>3, <1>5, <1>6, <1>7

(* Within an empty element it is the end.                                  *)
LEMMA EndIsNext ==
    ASSUME DataOK, TagHalfGiven, NEW c \in FrontTag("end")
    PROVE  given.cb = c - 1 /\ First[c] = consumed /\ Last[c] = Last[given.cb]
<1>1. doc \in Documents /\ consumed \in Nat /\ given.cb \in 0..N
    BY DEF DataOK
<1>2. c \in Callback /\ First[c] <= consumed /\ consumed < Last[c] /\ Kind[c] = "end"
    BY DEF FrontTag, Front
<1>3. \A d \in Callback : d \in Nat /\ First[d] \in Nat /\ Last[d] \in Nat /\ First[d] < Last[d]
    BY <1>1, SessionFacts
<1> DEFINE b == given.cb
<1>4. /\ b \in Callback /\ First[b] = consumed /\ consumed < Last[b] /\ Kind[b] = "start"
    BY DEF TagHalfGiven, FrontTag, Front
<1>5. Callback = 1..N /\ N \in Nat
    BY <1>1, SessionFacts
<1> HIDE DEF b
<1>6. b # c
    BY <1>2, <1>4
<1>7. ~(c < b)
    <2> SUFFICES ASSUME c < b
                 PROVE  FALSE
        OBVIOUS
    <2>1. ~(Last[c] <= First[b])
        BY <1>1, <1>2, <1>3, <1>4
    <2>. QED BY <1>1, <1>2, <1>4, <2>1, OrderFacts
<1>8. b < c
    BY <1>2, <1>3, <1>4, <1>6, <1>7
<1>9. First[c] = consumed /\ Last[c] = Last[b]
    <2>1. ~(Last[b] <= First[c])
        BY <1>1, <1>2, <1>3, <1>4
    <2>. QED BY <1>1, <1>2, <1>4, <1>8, <2>1, OrderFacts
<1>10. ~(b < c - 1)
    <2> SUFFICES ASSUME b < c - 1
                 PROVE  FALSE
        OBVIOUS
    <2>1. c - 1 \in Callback /\ c - 1 < c
        BY <1>2, <1>3, <1>4, <1>5
    <2>2. ~(Last[c - 1] <= First[c])
        <3>1. Last[b] <= First[c - 1] \/ Last[c - 1] = Last[b]
            BY <1>1, <1>4, <2>1, OrderFacts
        <3>. QED BY <1>1, <1>3, <1>2, <1>4, <2>1, <3>1
    <2>3. Kind[c - 1] = "start"
        BY <1>1, <1>2, <2>1, <2>2, OrderFacts
    <2>4. ~(Last[b] <= First[c - 1])
        <3>1. First[c - 1] = First[c]
            BY <1>1, <1>2, <2>1, <2>2, OrderFacts
        <3>. QED BY <1>1, <1>3, <1>2, <1>4, <2>1, <3>1
    <2>. QED BY <1>1, <1>4, <2>1, <2>3, <2>4, OrderFacts
<1>11. b = c - 1
    BY <1>2, <1>3, <1>4, <1>8, <1>10
<1>. QED BY <1>9, <1>11 DEF b
-----------------------------------------------------------------------------
(* What a callback leaves behind.                                          *)

(* The document stays the same while a session lives.                      *)
LEMMA SameDocument ==
    ASSUME UNCHANGED doc
    PROVE  /\ N' = N /\ DocSize' = DocSize /\ Callback' = Callback /\ Newlines' = Newlines
           /\ First' = First /\ Ready' = Ready /\ Last' = Last /\ Kind' = Kind
           /\ Name' = Name
BY DEF N, DocSize, Callback, Newlines, First, Ready, Last, Kind, Name

(* Once the token of a tag is consumed, all of its callbacks are made.     *)
LEMMA TagConsumed ==
    ASSUME doc \in Documents, UNCHANGED doc, consumed \in Nat, NEW c \in Front,
           Kind[c] = "end" \/ (Kind[c] = "start" /\ FrontTag("end") = {}),
           consumed' = Last[c], given'.cb = c, given'.to = 1
    PROVE  AllGiven'
<1>1. c \in Callback /\ First[c] <= consumed /\ consumed < Last[c]
    BY DEF Front
<1>2. \A d \in Callback : d \in Nat /\ First[d] \in Nat /\ Last[d] \in Nat /\ First[d] < Last[d]
    BY SessionFacts
<1>3. ASSUME NEW d \in Callback
      PROVE  /\ d <= c <=> First[d] < Last[c]
             /\ ~(First[d] < Last[c] /\ Last[c] < Last[d])
    <2>1. CASE d = c
        BY <1>2, <2>1
    <2>2. CASE d < c
        <3>1. Last[d] <= First[c] \/ (First[d] = First[c] /\ Last[d] = Last[c])
            BY <1>1, <2>2, OrderFacts
        <3>. QED BY <1>1, <1>2, <2>2, <3>1
    <2>3. CASE c < d
        <3>1. CASE Last[c] <= First[d]
            BY <1>1, <1>2, <2>3, <3>1
        <3>2. CASE First[d] = First[c] /\ Last[d] = Last[c] /\ Kind[d] = "end"
                   /\ Kind[c] = "start"
            <4>1. d \in FrontTag("end")
                BY <1>1, <3>2 DEF FrontTag, Front
            <4>. QED BY <3>2, <4>1
        <3>. QED BY <1>1, <2>3, <3>1, <3>2, OrderFacts
    <2>. QED BY <1>1, <1>2, <2>1, <2>2, <2>3
<1>4. Reported(c, consumed)' = 1
    BY SameDocument DEF Reported
<1>5. \A d \in Callback' : /\ d <= given'.cb <=> First'[d] < consumed'
                           /\ ~(First'[d] < consumed' /\ consumed' < Last'[d])
    BY <1>3, SameDocument
<1>6. given'.to = Reported(given.cb, consumed)'
    BY SameDocument DEF Reported
<1>. QED BY <1>5, <1>6 DEF AllGiven

(* What of a text has been consumed has been reported.                     *)
LEMMA TextConsumed ==
    ASSUME doc \in Documents, UNCHANGED doc, consumed \in Nat, NEW c \in FrontText,
           consumed' \in Nat, consumed < consumed', consumed' <= Last[c],
           given'.cb = c, given'.to = consumed' - First[c]
    PROVE  AllGiven'
<1>1. c \in Callback /\ First[c] <= consumed /\ consumed < Last[c] /\ Kind[c] = "text"
    BY DEF FrontText, Front
<1>2. \A d \in Callback : d \in Nat /\ First[d] \in Nat /\ Last[d] \in Nat /\ First[d] < Last[d]
    BY SessionFacts
<1>3. ASSUME NEW d \in Callback
      PROVE  /\ d <= c <=> First[d] < consumed'
             /\ First[d] < consumed' /\ consumed' < Last[d] => Kind[d] = "text"
    <2>1. CASE d = c
        BY <1>1, <1>2, <2>1
    <2>2. CASE d < c
        <3>1. Last[d] <= First[c]
            BY <1>1, <2>2, OrderFacts
        <3>. QED BY <1>1, <1>2, <2>2, <3>1
    <2>3. CASE c < d
        <3>1. Last[c] <= First[d]
            BY <1>1, <2>3, OrderFacts
        <3>. QED BY <1>1, <1>2, <2>3, <3>1
    <2>. QED BY <1>1, <1>2, <2>1, <2>2, <2>3
<1>4. given'.to = Reported(given.cb, consumed)'
    <2>1. Reported(given.cb, consumed)' =
              IF consumed' < Last[c] THEN consumed' - First[c] ELSE Last[c] - First[c]
        BY <1>1, SameDocument DEF Reported
    <2>2. Last[c] \in Nat
        BY <1>1, <1>2
    <2>. QED BY <2>1, <2>2
<1>5. \A d \in Callback' : /\ d <= given'.cb <=> First'[d] < consumed'
                           /\ First'[d] < consumed' /\ consumed' < Last'[d] => Kind'[d] = "text"
    BY <1>3, SameDocument
<1>. QED BY <1>4, <1>5 DEF AllGiven
-----------------------------------------------------------------------------
(* The steps that make a callback.                                         *)

(* A step that consumes bytes of the window.                               *)
LEMMA ConsumeKeepsData ==
    ASSUME DataOK, UNCHANGED windowVars, NEW n \in Nat, consumed + n <= supplied, Consume(n),
           stack' \in Seq({Name[c] : c \in Callback}), elements' \in Nat,
           given' \in [turn : 0..1, cb : 0..N, from : Nat, to : Nat]
    PROVE  DataOK' /\ consumed' = consumed + n
<1>1. doc \in Documents /\ consumed \in Nat /\ line \in Nat /\ column \in Nat
      /\ supplied \in Nat /\ supplied \in 0..DocSize /\ finalBuffer \in BOOLEAN
      /\ PositionIsRecount
    <2>1. doc \in Documents /\ supplied \in 0..DocSize /\ consumed \in 0..supplied
        BY DEF DataOK
    <2>2. DocSize \in Nat
        BY <2>1, SessionFacts
    <2>. QED BY <2>1, <2>2 DEF DataOK
<1>2. UNCHANGED doc /\ supplied' = supplied /\ finalBuffer' = finalBuffer
    BY DEF windowVars
<1>3. /\ PositionIsRecount' /\ consumed' = consumed + n
      /\ consumed' \in Nat /\ line' \in Nat /\ column' \in Nat
    BY <1>1, <1>2, ConsumeKeepsPosition
<1>4. consumed' \in 0..supplied
    BY <1>1, <1>3
<1>5. doc' \in Documents /\ supplied' \in 0..DocSize' /\ finalBuffer' \in BOOLEAN
      /\ stack' \in Seq({Name'[c] : c \in Callback'})
      /\ given' \in [turn : 0..1, cb : 0..N', from : Nat, to : Nat]
    BY <1>1, <1>2, SameDocument, Zenon
<1>. QED BY <1>2, <1>3, <1>4, <1>5 DEF DataOK

(* The one that consumes nothing.                                          *)
LEMMA GiveKeepsData ==
    ASSUME DataOK, UNCHANGED windowVars, UNCHANGED positionVars,
           stack' \in Seq({Name[c] : c \in Callback}), elements' \in Nat,
           given' \in [turn : 0..1, cb : 0..N, from : Nat, to : Nat]
    PROVE  DataOK'
<1>1. /\ UNCHANGED doc /\ supplied' = supplied /\ finalBuffer' = finalBuffer
      /\ consumed' = consumed /\ line' = line /\ column' = column
    BY DEF windowVars, positionVars
<1>2. PositionIsRecount'
    BY <1>1, SameDocument DEF PositionIsRecount, DataOK
<1>3. doc' \in Documents /\ supplied' \in 0..DocSize' /\ finalBuffer' \in BOOLEAN
      /\ consumed' \in 0..supplied' /\ line' \in Nat /\ column' \in Nat
      /\ stack' \in Seq({Name'[c] : c \in Callback'})
      /\ given' \in [turn : 0..1, cb : 0..N', from : Nat, to : Nat]
    BY <1>1, SameDocument, Zenon DEF DataOK
<1>. QED BY <1>2, <1>3 DEF DataOK

(* The record of a callback.                                               *)
LEMMA GiveTypes ==
    ASSUME DataOK, NEW c \in Front, NEW from \in Nat, NEW to \in Nat, Give(c, from, to)
    PROVE  /\ given' \in [turn : 0..1, cb : 0..N, from : Nat, to : Nat]
           /\ given'.cb = c /\ given'.from = from /\ given'.to = to
           /\ (stopRequested \in BOOLEAN => stopRequested' \in BOOLEAN)
<1>1. c \in 1..N /\ given.turn \in 0..1
    <2>1. doc \in Documents
        BY DEF DataOK
    <2>. QED BY <2>1, SessionFacts DEF DataOK, Front
<1>2. c \in 0..N /\ 1 - given.turn \in 0..1
    <2>1. N \in Nat
        BY SessionFacts DEF DataOK
    <2>. QED BY <1>1, <2>1
<1>. QED BY <1>2 DEF Give

(* Text is reported up to the end of the window.                           *)
LEMMA EmitTextKeeps ==
    ASSUME DataOK, AllGiven, ~Empty, NEW c \in FrontText, EmitText(c), UNCHANGED windowVars
    PROVE  DataOK' /\ AllGiven'
<1>1. doc \in Documents /\ supplied \in Nat /\ consumed \in Nat /\ consumed < supplied
    <2>1. doc \in Documents /\ supplied \in 0..DocSize /\ consumed \in 0..supplied
        BY DEF DataOK
    <2>2. DocSize \in Nat
        BY <2>1, SessionFacts
    <2>. QED BY <2>1, <2>2 DEF Empty
<1>2. c \in Front /\ c \in Callback /\ First[c] <= consumed /\ consumed < Last[c]
    BY DEF FrontText, Front
<1>3. First[c] \in Nat /\ Last[c] \in Nat
    BY <1>1, <1>2, SessionFacts
<1>4. /\ TextLength(c) \in Nat /\ TextLength(c) > 0
      /\ consumed + TextLength(c) <= supplied /\ consumed + TextLength(c) <= Last[c]
      /\ consumed - First[c] \in Nat /\ consumed - First[c] + TextLength(c) \in Nat
    BY <1>1, <1>2, <1>3 DEF TextLength
<1>5. /\ Give(c, consumed - First[c], consumed - First[c] + TextLength(c))
      /\ Consume(TextLength(c)) /\ UNCHANGED elementVars
    BY DEF EmitText
<1>6. /\ given' \in [turn : 0..1, cb : 0..N, from : Nat, to : Nat]
      /\ given'.cb = c /\ given'.to = consumed - First[c] + TextLength(c)
    BY <1>2, <1>4, <1>5, GiveTypes
<1>7. stack' \in Seq({Name[d] : d \in Callback}) /\ elements' \in Nat
    BY <1>5 DEF elementVars, DataOK
<1>8. DataOK' /\ consumed' = consumed + TextLength(c)
    BY <1>4, <1>5, <1>6, <1>7, ConsumeKeepsData
<1>9. UNCHANGED doc
    BY DEF windowVars
<1>10. /\ consumed' \in Nat /\ consumed < consumed' /\ consumed' <= Last[c]
       /\ given'.to = consumed' - First[c]
    BY <1>1, <1>3, <1>4, <1>6, <1>8
<1>11. AllGiven'
    BY <1>1, <1>6, <1>9, <1>10, TextConsumed
<1>. QED BY <1>8, <1>11

(* A tag that ends an element, or begins one that is not empty.            *)
LEMMA TagKeeps ==
    ASSUME DataOK, NEW c \in Front, Complete, UNCHANGED windowVars,
           Kind[c] = "end" \/ (Kind[c] = "start" /\ FrontTag("end") = {}),
           Give(c, 0, 1), Consume(Last[c] - consumed),
           stack' \in Seq({Name[d] : d \in Callback}), elements' \in Nat
    PROVE  DataOK' /\ AllGiven' /\ consumed' = Last[c]
<1>1. doc \in Documents /\ supplied \in Nat /\ consumed \in Nat
    <2>1. doc \in Documents /\ supplied \in 0..DocSize /\ consumed \in 0..supplied
        BY DEF DataOK
    <2>2. DocSize \in Nat
        BY <2>1, SessionFacts
    <2>. QED BY <2>1, <2>2
<1>2. c \in Callback /\ consumed < Last[c] /\ Last[c] <= supplied
    BY DEF Complete, Front
<1>3. Last[c] \in Nat
    BY <1>1, <1>2, SessionFacts
<1>4. /\ Last[c] - consumed \in Nat /\ consumed + (Last[c] - consumed) = Last[c]
    BY <1>1, <1>2, <1>3
<1>5. /\ given' \in [turn : 0..1, cb : 0..N, from : Nat, to : Nat]
      /\ given'.cb = c /\ given'.to = 1
    BY GiveTypes
<1>6. consumed + (Last[c] - consumed) <= supplied
    BY <1>2, <1>4
<1>7. DataOK' /\ consumed' = Last[c]
    BY <1>4, <1>5, <1>6, ConsumeKeepsData
<1>8. UNCHANGED doc
    BY DEF windowVars
<1>9. AllGiven'
    BY <1>1, <1>5, <1>7, <1>8, TagConsumed
<1>. QED BY <1>7, <1>9
(* The start tag: of an element that is then open, or of an empty one.     *)
LEMMA EmitStartKeeps ==
    ASSUME DataOK, AllGiven, NEW c \in FrontTag("start"), EmitStart(c), UNCHANGED windowVars
    PROVE  /\ DataOK'
           /\ FrontTag("end") = {} => AllGiven'
           /\ FrontTag("end") # {} => TagHalfGiven'
<1>1. doc \in Documents /\ consumed \in Nat
    <2>1. doc \in Documents /\ supplied \in 0..DocSize /\ consumed \in 0..supplied
        BY DEF DataOK
    <2>. QED BY <2>1, SessionFacts
<1>2. c \in Front /\ c \in Callback /\ Kind[c] = "start"
    BY DEF FrontTag, Front
<1>3. elements' \in Nat
    BY DEF EmitStart, DataOK
<1>4. stack' \in Seq({Name[d] : d \in Callback})
    <2>1. stack \in Seq({Name[d] : d \in Callback}) /\ Name[c] \in {Name[d] : d \in Callback}
        BY <1>2 DEF DataOK
    <2>2. Append(stack, Name[c]) \in Seq({Name[d] : d \in Callback})
        BY <2>1, AppendProperties
    <2>. QED BY <2>1, <2>2 DEF EmitStart, Opens
<1>5. Give(c, 0, 1) /\ Complete
    BY DEF EmitStart
<1>6. CASE FrontTag("end") = {}
    <2>1. Consume(Last[c] - consumed)
        BY <1>6 DEF EmitStart
    <2>. QED BY <1>2, <1>3, <1>4, <1>5, <1>6, <2>1, TagKeeps
<1>7. CASE FrontTag("end") # {}
    <2>1. UNCHANGED positionVars
        BY <1>7 DEF EmitStart
    <2>2. /\ given' \in [turn : 0..1, cb : 0..N, from : Nat, to : Nat]
          /\ given'.cb = c /\ given'.to = 1
        BY <1>2, <1>5, GiveTypes
    <2>3. DataOK'
        BY <1>3, <1>4, <2>1, <2>2, GiveKeepsData
    <2>4. UNCHANGED doc /\ supplied' = supplied /\ consumed' = consumed
        BY <2>1 DEF windowVars, positionVars
    <2>5. First[c] = consumed /\ given.cb = c - 1
        BY <1>2, TagIsNext
    <2>6. ASSUME NEW d \in Callback
          PROVE  d < c <=> First[d] < consumed
        <3>1. d \in Nat /\ c \in Nat
            BY <1>1, <1>2, SessionFacts
        <3>2. d <= given.cb <=> First[d] < consumed
            BY DEF AllGiven
        <3>. QED BY <2>5, <3>1, <3>2
    <2>7. Front' = Front /\ (Complete <=> Complete') /\ First' = First /\ Callback' = Callback
          /\ FrontTag("start")' = FrontTag("start") /\ FrontTag("end")' = FrontTag("end")
        BY <2>4, SameDocument DEF Front, Complete, FrontTag
    <2>8. TagHalfGiven'
        BY <1>5, <1>7, <2>2, <2>4, <2>5, <2>6, <2>7 DEF TagHalfGiven
    <2>. QED BY <1>7, <2>3, <2>8
<1>. QED BY <1>6, <1>7

(* The end of an empty element.                                            *)
LEMMA EmitEmptyEndKeeps ==
    ASSUME DataOK, TagHalfGiven, NEW c \in FrontTag("end"), EmitEmptyEnd(c),
           UNCHANGED windowVars
    PROVE  DataOK' /\ AllGiven'
<1>1. c \in Front /\ Kind[c] = "end" /\ Complete
    BY DEF FrontTag, TagHalfGiven
<1>2. Give(c, 0, 1) /\ Consume(Last[c] - consumed) /\ UNCHANGED elementVars
    BY DEF EmitEmptyEnd
<1>3. stack' \in Seq({Name[d] : d \in Callback}) /\ elements' \in Nat
    BY <1>2 DEF elementVars, DataOK
<1>. QED BY <1>1, <1>2, <1>3, TagKeeps

(* The end tag of the innermost element.                                   *)
LEMMA EmitEndKeeps ==
    ASSUME DataOK, AllGiven, NEW c \in FrontTag("end"), EmitEnd(c), UNCHANGED windowVars
    PROVE  DataOK' /\ AllGiven'
<1>1. c \in Front /\ Kind[c] = "end"
    BY DEF FrontTag
<1>2. /\ Give(c, 0, 1) /\ Consume(Last[c] - consumed) /\ UNCHANGED elements /\ Complete
      /\ stack # <<>> /\ stack' = SubSeq(stack, 1, Len(stack) - 1)
    BY DEF EmitEnd, Closes
<1>3. stack' \in Seq({Name[d] : d \in Callback})
    <2>1. stack \in Seq({Name[d] : d \in Callback})
        BY DEF DataOK
    <2>2. Len(stack) \in Nat /\ Len(stack) >= 1
        BY <1>2, <2>1, EmptySeq, LenProperties
    <2>. QED BY <1>2, <2>1, <2>2, SubSeqProperties
<1>4. elements' \in Nat
    BY <1>2 DEF DataOK
<1>. QED BY <1>1, <1>2, <1>3, <1>4, TagKeeps

(* A step that makes no callback and consumes nothing.                     *)
LEMMA IdleKeeps ==
    ASSUME UNCHANGED <<doc, finalBuffer, consumed, line, column, stack, elements, given>>,
           supplied' = supplied
    PROVE  /\ DataOK => DataOK'
           /\ AllGiven => AllGiven'
           /\ TagHalfGiven => TagHalfGiven'
<1>1. PositionIsRecount => PositionIsRecount'
    BY SameDocument DEF PositionIsRecount
<1>2. DataOK => DataOK'
    BY <1>1, SameDocument DEF DataOK
<1>3. AllGiven => AllGiven'
    BY SameDocument DEF AllGiven, Reported
<1>4. TagHalfGiven => TagHalfGiven'
    BY SameDocument DEF TagHalfGiven, FrontTag, Front, Complete
<1>. QED BY <1>2, <1>3, <1>4

(* More bytes come.                                                        *)
LEMMA SupplyKeeps ==
    ASSUME DataOK, NEW n \in Chunks, supplied + n <= DocSize, supplied' = supplied + n,
           finalBuffer' \in BOOLEAN,
           UNCHANGED <<doc, consumed, line, column, stack, elements, given>>
    PROVE  /\ DataOK'
           /\ AllGiven => AllGiven'
<1>1. PositionIsRecount'
    BY SameDocument DEF PositionIsRecount, DataOK
<1>2. supplied' \in 0..DocSize /\ consumed \in 0..supplied'
    <2>1. doc \in Documents /\ supplied \in 0..DocSize /\ consumed \in 0..supplied
        BY DEF DataOK
    <2>2. DocSize \in Nat /\ n \in Nat
        BY <2>1, SessionFacts
    <2>. QED BY <2>1, <2>2
<1>3. DataOK'
    BY <1>1, <1>2, SameDocument DEF DataOK
<1>4. AllGiven => AllGiven'
    BY SameDocument DEF AllGiven, Reported
<1>. QED BY <1>3, <1>4

(* At the beginning nothing is consumed and no callback made.              *)
LEMMA InitKeeps ==
    ASSUME SessionInit
    PROVE  DataOK /\ AllGiven
<1>1. doc \in Documents /\ consumed = 0 /\ supplied = 0 /\ line = 1 /\ column = 0
      /\ stack = <<>> /\ elements = 0 /\ given = [turn |-> 0, cb |-> 0, from |-> 0, to |-> 0]
      /\ finalBuffer = FALSE
    BY DEF SessionInit, Nothing
<1>2. /\ N \in Nat /\ DocSize \in Nat /\ Callback = 1..N
      /\ \A k \in Newlines : k \in Nat /\ k > 0
      /\ \A c \in Callback : First[c] \in Nat /\ c \in Nat
    BY <1>1, SessionFacts
<1>3. PositionIsRecount
    <2>1. {k \in Newlines : k <= consumed} = {}
        BY <1>1, <1>2
    <2>2. Cardinality({}) = 0
        BY FS_EmptySet
    <2>3. line = Cardinality({k \in Newlines : k <= consumed}) + 1
        <3>1. Cardinality({k \in Newlines : k <= consumed}) = 0
            BY <2>1, <2>2
        <3>. QED BY <1>1, <3>1
    <2>4. consumed - column \in {k \in Newlines : k <= consumed} \cup {0}
        BY <1>1
    <2>. QED BY <2>1, <2>3, <2>4 DEF PositionIsRecount
<1>4. stack \in Seq({Name[c] : c \in Callback})
    BY <1>1, EmptySeq
<1>5. given \in [turn : 0..1, cb : 0..N, from : Nat, to : Nat]
    BY <1>1, <1>2
<1>6. DataOK
    <2>1. supplied \in 0..DocSize /\ consumed \in 0..supplied /\ line \in Nat
          /\ column \in Nat /\ elements \in Nat
        BY <1>1, <1>2
    <2>2. finalBuffer \in BOOLEAN
        BY <1>1
    <2>. QED BY <1>1, <1>3, <1>4, <1>5, <2>1, <2>2, Zenon DEF DataOK
<1>7. AllGiven
    BY <1>1, <1>2 DEF AllGiven
<1>. QED BY <1>6, <1>7
-----------------------------------------------------------------------------
(* What is not consumed when the window is empty or the token at its front *)
(* is incomplete.                                                          *)

(* The incomplete token starts the window.                                 *)
LEMMA FrontIsUnfinished ==
    ASSUME DataOK, AllGiven, ~Empty, FrontText = {}, ~Complete
    PROVE  \E c \in Unfinished(supplied) : First[c] = consumed
<1>1. doc \in Documents /\ supplied \in Nat /\ consumed \in Nat /\ consumed < supplied
    <2>1. doc \in Documents /\ supplied \in 0..DocSize /\ consumed \in 0..supplied
        BY DEF DataOK
    <2>2. DocSize \in Nat
        BY <2>1, SessionFacts
    <2>. QED BY <2>1, <2>2 DEF Empty
<1>2. PICK c \in Front : ~(Last[c] <= supplied)
    BY DEF Complete
<1>3. /\ c \in Callback /\ First[c] <= consumed /\ consumed < Last[c] /\ Kind[c] # "text"
    BY DEF Front, FrontText
<1>4. First[c] \in Nat /\ Last[c] \in Nat
    BY <1>1, <1>3, SessionFacts
<1>5. ~(First[c] < consumed)
    BY <1>3 DEF AllGiven
<1>6. First[c] = consumed /\ First[c] < supplied /\ supplied < Last[c]
    BY <1>1, <1>2, <1>3, <1>4, <1>5
<1>. QED BY <1>3, <1>6 DEF Unfinished

(* Every callback that a parse of the bytes supplied makes has been made.  *)
LEMMA AllIsMade ==
    ASSUME DataOK, AllGiven, Empty \/ (FrontText = {} /\ ~Complete),
           NEW c \in Callback, Kind[c] \in {"start", "end", "text"}, Ready[c] <= supplied
    PROVE  c < given.cb \/ (c = given.cb /\ given.to = Reported(c, supplied))
<1>1. doc \in Documents /\ supplied \in Nat /\ consumed \in Nat /\ consumed <= supplied
      /\ given.cb \in Nat
    <2>1. doc \in Documents /\ supplied \in 0..DocSize /\ consumed \in 0..supplied
          /\ given.cb \in 0..N
        BY DEF DataOK
    <2>2. DocSize \in Nat /\ N \in Nat
        BY <2>1, SessionFacts
    <2>. QED BY <2>1, <2>2
<1>2. \A d \in Callback : /\ d \in Nat /\ First[d] \in Nat /\ Ready[d] \in Nat /\ Last[d] \in Nat
                          /\ First[d] < Ready[d] /\ Ready[d] <= Last[d]
                          /\ Kind[d] \in {"start", "end"} => Ready[d] = Last[d]
    BY <1>1, SessionFacts
<1>3. First[c] < supplied /\ (Kind[c] # "text" => Last[c] <= supplied)
    BY <1>1, <1>2
<1>4. First[c] < consumed
    <2>1. CASE Empty
        BY <1>1, <1>2, <1>3, <2>1 DEF Empty
    <2>2. CASE ~Empty /\ FrontText = {} /\ ~Complete
        <3>1. PICK d \in Unfinished(supplied) : First[d] = consumed
            BY <2>2, FrontIsUnfinished
        <3>2. d \in Callback /\ Kind[d] # "text" /\ supplied < Last[d]
            BY DEF Unfinished
        <3>3. c # d
            BY <1>1, <1>2, <1>3, <3>2
        <3>4. CASE c < d
            <4>1. Last[c] <= First[d]
                BY <1>1, <1>2, <1>3, <3>2, <3>4, OrderFacts
            <4>. QED BY <1>1, <1>2, <3>1, <3>2, <4>1
        <3>5. CASE d < c
            <4>1. Last[d] <= First[c] \/ (Last[d] = Last[c] /\ Kind[c] # "text")
                BY <1>1, <3>2, <3>5, OrderFacts
            <4>. QED BY <1>1, <1>2, <1>3, <3>2, <4>1
        <3>. QED BY <1>2, <3>2, <3>3, <3>4, <3>5
    <2>. QED BY <2>1, <2>2
<1>5. c <= given.cb
    BY <1>4 DEF AllGiven
<1>6. ASSUME c = given.cb
      PROVE  given.to = Reported(c, supplied)
    <2>1. given.to = Reported(c, consumed)
        <3>1. given.cb > 0
            BY <1>1, <1>2, <1>6, SessionFacts
        <3>. QED BY <1>6, <3>1 DEF AllGiven
    <2>2. CASE Empty
        BY <2>1, <2>2 DEF Empty
    <2>3. CASE FrontText = {}
        <3>1. Kind[c] = "text" => Last[c] <= consumed
            BY <1>1, <1>2, <1>4, <2>3 DEF FrontText, Front
        <3>2. Reported(c, consumed) = Reported(c, supplied)
            BY <1>1, <1>2, <3>1 DEF Reported
        <3>. QED BY <2>1, <3>2
    <2>. QED BY <2>2, <2>3
<1>. QED BY <1>1, <1>2, <1>5, <1>6
-----------------------------------------------------------------------------
(* The elements that are open.                                             *)

Count(d, what, a, b) == Cardinality({k \in a..b : d.kind[k] = what})

(* From an open element on there are as many more start tags than end tags *)
(* as there are open elements.                                             *)
OpenIsCounted(d, g) ==
    \A c \in OpenAfter(d, g) :
        Count(d, "start", c, g)
          = Count(d, "end", c, g) + Cardinality({e \in OpenAfter(d, g) : c <= e})

(* One callback more.                                                      *)
LEMMA CountNext ==
    ASSUME NEW d, NEW what, NEW a \in Nat, NEW g \in Nat, a <= g + 1
    PROVE  /\ Count(d, what, a, g) \in Nat /\ Count(d, what, a, g + 1) \in Nat
           /\ Count(d, what, a, g + 1) =
                  Count(d, what, a, g) + (IF d.kind[g + 1] = what THEN 1 ELSE 0)
<1> DEFINE S == {k \in a..g : d.kind[k] = what}
           T == {k \in a..g + 1 : d.kind[k] = what}
<1>1. IsFiniteSet(a..g)
    BY FS_Interval
<1>2. S \in SUBSET (a..g)
    OBVIOUS
<1>3. IsFiniteSet(S) /\ Cardinality(S) \in Nat
    BY <1>1, <1>2, FS_Subset, FS_CardinalityType
<1>4. \A k \in a..g + 1 : k \in a..g \/ k = g + 1
    OBVIOUS
<1>5. g + 1 \notin S /\ g + 1 \in a..g + 1 /\ \A k \in a..g : k \in a..g + 1
    OBVIOUS
<1>6. CASE d.kind[g + 1] = what
    <2>1. T = S \cup {g + 1}
        BY <1>4, <1>5, <1>6
    <2>2. Cardinality(S \cup {g + 1}) = Cardinality(S) + 1
        BY <1>3, <1>5, FS_AddElement
    <2>. QED BY <1>3, <1>6, <2>1, <2>2 DEF Count
<1>7. CASE d.kind[g + 1] # what
    <2>1. T = S
        BY <1>4, <1>5, <1>7
    <2>. QED BY <1>3, <1>7, <2>1 DEF Count
<1>. QED BY <1>6, <1>7

(* The open elements are some of the callbacks.                            *)
LEMMA OpenFacts ==
    ASSUME NEW d, NEW g \in Nat
    PROVE  /\ \A c \in OpenAfter(d, g) : c \in Nat /\ 1 <= c /\ c <= g
           /\ IsFiniteSet(OpenAfter(d, g)) /\ Cardinality(OpenAfter(d, g)) \in Nat
<1>1. IsFiniteSet(1..g)
    BY FS_Interval
<1>2. OpenAfter(d, g) \in SUBSET (1..g)
    BY DEF OpenAfter
<1>3. \A c \in OpenAfter(d, g) : c \in Nat /\ 1 <= c /\ c <= g
    BY DEF OpenAfter
<1>. QED BY <1>1, <1>2, <1>3, FS_Subset, FS_CardinalityType

(* Which elements are open after one callback more.                        *)
LEMMA OpenNext ==
    ASSUME NEW d, NEW g \in Nat
    PROVE  OpenAfter(d, g + 1) =
               {c \in OpenAfter(d, g) :
                    Count(d, "start", c, g + 1) > Count(d, "end", c, g + 1)}
                 \cup (IF d.kind[g + 1] = "start" THEN {g + 1} ELSE {})
<1>1. \A h \in Nat : OpenAfter(d, h) =
          {c \in 1..h : /\ d.kind[c] = "start"
                        /\ \A e \in c..h : Count(d, "start", c, e) > Count(d, "end", c, e)}
    BY DEF OpenAfter, Count
<1>2. ASSUME NEW c
      PROVE  c \in OpenAfter(d, g + 1) <=>
                 \/ c \in OpenAfter(d, g) /\ Count(d, "start", c, g + 1) > Count(d, "end", c, g + 1)
                 \/ c = g + 1 /\ d.kind[c] = "start"
    <2>1. CASE c = g + 1
        <3>1. c \notin OpenAfter(d, g)
            BY <2>1, OpenFacts
        <3>2. c \in 1..g + 1 /\ \A e \in c..g + 1 : e = c
            BY <2>1
        <3>3. d.kind[c] = "start" => Count(d, "start", c, c) > Count(d, "end", c, c)
            <4>1. {k \in c..g : d.kind[k] = "start"} = {} /\ {k \in c..g : d.kind[k] = "end"} = {}
                BY <2>1
            <4>2. Count(d, "start", c, g) = 0 /\ Count(d, "end", c, g) = 0
                BY <4>1, FS_EmptySet DEF Count
            <4>. QED BY <2>1, <4>2, CountNext
        <3>4. c \in OpenAfter(d, g + 1) <=>
                  d.kind[c] = "start" /\ Count(d, "start", c, c) > Count(d, "end", c, c)
            BY <1>1, <2>1, <3>2
        <3>. QED BY <2>1, <3>1, <3>3, <3>4
    <2>2. CASE c # g + 1
        <3>1. c \in 1..g + 1 <=> c \in 1..g
            BY <2>2
        <3>2. ASSUME c \in 1..g
              PROVE  /\ \A e \in c..g : e \in c..g + 1
                     /\ g + 1 \in c..g + 1
                     /\ \A e \in c..g + 1 : e \in c..g \/ e = g + 1
            BY <3>2
        <3>. QED BY <1>1, <2>2, <3>1, <3>2
    <2>. QED BY <2>1, <2>2
<1>. QED BY <1>2

(* Neither a start nor an end tag.                                         *)
LEMMA OpenAfterOther ==
    ASSUME NEW d, NEW g \in Nat, d.kind[g + 1] \notin {"start", "end"}, OpenIsCounted(d, g)
    PROVE  OpenAfter(d, g + 1) = OpenAfter(d, g) /\ OpenIsCounted(d, g + 1)
<1>1. ASSUME NEW c \in OpenAfter(d, g)
      PROVE  /\ Count(d, "start", c, g + 1) = Count(d, "start", c, g)
             /\ Count(d, "end", c, g + 1) = Count(d, "end", c, g)
             /\ Count(d, "start", c, g) > Count(d, "end", c, g)
    <2>1. c \in Nat /\ c <= g + 1 /\ c <= g
        BY OpenFacts
    <2>2. Count(d, "start", c, g) > Count(d, "end", c, g)
        BY <2>1 DEF OpenAfter, Count
    <2>. QED BY <2>1, <2>2, CountNext
<1>2. \A c \in OpenAfter(d, g) : Count(d, "start", c, g + 1) > Count(d, "end", c, g + 1)
    BY <1>1
<1>3. OpenAfter(d, g + 1) =
          {c \in OpenAfter(d, g) : Count(d, "start", c, g + 1) > Count(d, "end", c, g + 1)}
    <2>1. d.kind[g + 1] # "start"
        OBVIOUS
    <2>. QED BY <2>1, OpenNext
<1>4. OpenAfter(d, g + 1) = OpenAfter(d, g)
    BY <1>2, <1>3
<1>. QED BY <1>1, <1>4 DEF OpenIsCounted

(* A start tag opens its element.                                          *)
LEMMA OpenAfterStart ==
    ASSUME NEW d, NEW g \in Nat, d.kind[g + 1] = "start", OpenIsCounted(d, g)
    PROVE  /\ OpenAfter(d, g + 1) = OpenAfter(d, g) \cup {g + 1}
           /\ g + 1 \notin OpenAfter(d, g)
           /\ OpenIsCounted(d, g + 1)
<1>1. ASSUME NEW c \in OpenAfter(d, g)
      PROVE  /\ Count(d, "start", c, g + 1) = Count(d, "start", c, g) + 1
             /\ Count(d, "end", c, g + 1) = Count(d, "end", c, g)
             /\ Count(d, "start", c, g) > Count(d, "end", c, g)
             /\ Count(d, "start", c, g) \in Nat /\ Count(d, "end", c, g) \in Nat
             /\ c \in Nat /\ c <= g
    <2>1. c \in Nat /\ c <= g + 1 /\ c <= g
        BY OpenFacts
    <2>2. Count(d, "start", c, g) > Count(d, "end", c, g)
        BY <2>1 DEF OpenAfter, Count
    <2>. QED BY <2>1, <2>2, CountNext
<1>2. OpenAfter(d, g + 1) = OpenAfter(d, g) \cup {g + 1}
    <2>1. \A c \in OpenAfter(d, g) : Count(d, "start", c, g + 1) > Count(d, "end", c, g + 1)
        <3> SUFFICES ASSUME NEW c \in OpenAfter(d, g)
                     PROVE  Count(d, "start", c, g + 1) > Count(d, "end", c, g + 1)
            OBVIOUS
        <3>. QED BY <1>1
    <2>2. OpenAfter(d, g + 1) =
              {c \in OpenAfter(d, g) : Count(d, "start", c, g + 1) > Count(d, "end", c, g + 1)}
                  \cup {g + 1}
        BY OpenNext
    <2>. QED BY <2>1, <2>2
<1>3. g + 1 \notin OpenAfter(d, g)
    BY OpenFacts
<1>4. ASSUME NEW c \in OpenAfter(d, g)
      PROVE  Count(d, "start", c, g + 1) = Count(d, "end", c, g + 1)
                 + Cardinality({e \in OpenAfter(d, g + 1) : c <= e})
    <2> DEFINE rest == {e \in OpenAfter(d, g) : c <= e}
    <2>1. {e \in OpenAfter(d, g + 1) : c <= e} = rest \cup {g + 1} /\ g + 1 \notin rest
        BY <1>1, <1>2, <1>3
    <2>2. IsFiniteSet(rest)
        <3>1. rest \in SUBSET OpenAfter(d, g)
            OBVIOUS
        <3>. QED BY <3>1, OpenFacts, FS_Subset
    <2>3. Cardinality(rest \cup {g + 1}) = Cardinality(rest) + 1 /\ Cardinality(rest) \in Nat
        BY <2>1, <2>2, FS_AddElement, FS_CardinalityType
    <2>4. Count(d, "start", c, g) = Count(d, "end", c, g) + Cardinality(rest)
        BY DEF OpenIsCounted
    <2> HIDE DEF rest
    <2>5. Cardinality({e \in OpenAfter(d, g + 1) : c <= e}) = Cardinality(rest) + 1
        BY <2>1, <2>3
    <2>. QED BY <1>1, <2>3, <2>4, <2>5
<1>5. Count(d, "start", g + 1, g + 1) = Count(d, "end", g + 1, g + 1)
          + Cardinality({e \in OpenAfter(d, g + 1) : g + 1 <= e})
    <2>1. {k \in g + 1..g : d.kind[k] = "start"} = {} /\ {k \in g + 1..g : d.kind[k] = "end"} = {}
        OBVIOUS
    <2>2. Count(d, "start", g + 1, g) = 0 /\ Count(d, "end", g + 1, g) = 0
        BY <2>1, FS_EmptySet DEF Count
    <2>3. Count(d, "start", g + 1, g + 1) = 1 /\ Count(d, "end", g + 1, g + 1) = 0
        BY <2>2, CountNext
    <2>4. {e \in OpenAfter(d, g + 1) : g + 1 <= e} = {g + 1}
        BY <1>1, <1>2
    <2>5. Cardinality({g + 1}) = 1
        BY FS_Singleton
    <2>. QED BY <2>3, <2>4, <2>5
<1>. QED BY <1>2, <1>3, <1>4, <1>5 DEF OpenIsCounted

(* An end tag closes the innermost element.                                *)
LEMMA OpenAfterEnd ==
    ASSUME NEW d, NEW g \in Nat, d.kind[g + 1] = "end", OpenIsCounted(d, g),
           NEW m \in OpenAfter(d, g), \A c \in OpenAfter(d, g) : c <= m
    PROVE  OpenAfter(d, g + 1) = OpenAfter(d, g) \ {m} /\ OpenIsCounted(d, g + 1)
<1> DEFINE rest(c) == {e \in OpenAfter(d, g) : c <= e}
<1>1. ASSUME NEW c \in OpenAfter(d, g)
      PROVE  /\ Count(d, "start", c, g + 1) = Count(d, "start", c, g)
             /\ Count(d, "end", c, g + 1) = Count(d, "end", c, g) + 1
             /\ Count(d, "start", c, g) \in Nat /\ Count(d, "end", c, g) \in Nat
             /\ c \in Nat /\ c <= g
             /\ Count(d, "start", c, g) = Count(d, "end", c, g) + Cardinality(rest(c))
             /\ IsFiniteSet(rest(c)) /\ Cardinality(rest(c)) \in Nat
    <2>1. c \in Nat /\ c <= g + 1 /\ c <= g
        BY OpenFacts
    <2>2. rest(c) \in SUBSET OpenAfter(d, g)
        OBVIOUS
    <2>3. IsFiniteSet(rest(c)) /\ Cardinality(rest(c)) \in Nat
        BY <2>2, OpenFacts, FS_Subset, FS_CardinalityType
    <2>4. Count(d, "start", c, g) = Count(d, "end", c, g) + Cardinality(rest(c))
        BY DEF OpenIsCounted
    <2>. QED BY <2>1, <2>3, <2>4, CountNext
<1>2. ASSUME NEW c \in OpenAfter(d, g), c # m
      PROVE  /\ IsFiniteSet(rest(c) \ {m}) /\ Cardinality(rest(c) \ {m}) \in Nat
             /\ Cardinality(rest(c)) = Cardinality(rest(c) \ {m}) + 1
             /\ Cardinality(rest(c) \ {m}) > 0
    <2>1. m \in rest(c) /\ c \in rest(c) \ {m}
        <3>1. c <= c
            BY OpenFacts
        <3>2. c <= m
            OBVIOUS
        <3>. QED BY <1>2, <3>1, <3>2
    <2>2. IsFiniteSet(rest(c))
        BY <1>1
    <2>3. /\ IsFiniteSet(rest(c) \ {m}) /\ Cardinality(rest(c) \ {m}) = Cardinality(rest(c)) - 1
        BY <2>1, <2>2, FS_RemoveElement
    <2>4. Cardinality(rest(c) \ {m}) \in Nat /\ Cardinality(rest(c) \ {m}) # 0
        BY <2>1, <2>3, FS_CardinalityType, FS_EmptySet
    <2>5. Cardinality(rest(c)) \in Nat
        BY <1>1
    <2>. QED BY <2>3, <2>4, <2>5
<1>3. Cardinality(rest(m)) = 1
    <2>1. \A e \in OpenAfter(d, g) : m <= e => e = m
        <3>1. \A e \in OpenAfter(d, g) : e \in Nat /\ e <= m
            BY OpenFacts
        <3>. QED BY <3>1
    <2>2. m <= m
        BY <1>1
    <2>3. rest(m) = {m}
        BY <2>1, <2>2
    <2>. QED BY <2>3, FS_Singleton
<1> HIDE DEF rest
<1>4. ASSUME NEW c \in OpenAfter(d, g)
      PROVE  Count(d, "start", c, g + 1) > Count(d, "end", c, g + 1) <=> c # m
    <2>1. CASE c = m
        <3>1. Cardinality(rest(c)) = 1
            BY <1>3, <2>1
        <3>. QED BY <1>1, <2>1, <3>1
    <2>2. CASE c # m
        <3>1. Cardinality(rest(c)) = Cardinality(rest(c) \ {m}) + 1
              /\ Cardinality(rest(c) \ {m}) > 0 /\ Cardinality(rest(c) \ {m}) \in Nat
            BY <1>2, <2>2
        <3>. QED BY <1>1, <2>2, <3>1
    <2>. QED BY <2>1, <2>2
<1>5. OpenAfter(d, g + 1) = OpenAfter(d, g) \ {m}
    BY <1>4, OpenNext
<1>6. ASSUME NEW c \in OpenAfter(d, g), c # m
      PROVE  Count(d, "start", c, g + 1) = Count(d, "end", c, g + 1)
                 + Cardinality({e \in OpenAfter(d, g + 1) : c <= e})
    <2>1. {e \in OpenAfter(d, g + 1) : c <= e} = rest(c) \ {m}
        BY <1>5 DEF rest
    <2>. QED BY <1>1, <1>2, <1>6, <2>1
<1>. QED BY <1>5, <1>6 DEF OpenIsCounted
-----------------------------------------------------------------------------
(* The element stack.                                                      *)

(* The stack is that of the elements that the callbacks 1..g leave open.   *)
StackFits(g) ==
    /\ Len(stack) = Cardinality(OpenAfter(doc, g))
    /\ \A c \in OpenAfter(doc, g) :
          stack[Cardinality({e \in OpenAfter(doc, g) : e <= c})] = Name[c]

ElementsFit(g) == elements > 0 <=> \E c \in 1..g : Kind[c] = "start"

OpenFits(g) == OpenIsCounted(doc, g) /\ StackFits(g) /\ ElementsFit(g)

(* Within an empty element the stack is that of before it.                 *)
StackInv ==
    IF pc = "empty"
    THEN OpenIsCounted(doc, given.cb - 1) /\ StackFits(given.cb - 1) /\ elements > 0
    ELSE OpenFits(given.cb)

(* How the count of elements follows that of start tags.                   *)
LEMMA ElementsCounted ==
    ASSUME NEW g \in Nat, elements \in Nat, stack \in Seq({Name[c] : c \in Callback}),
           StackFits(g), ElementsFit(g),
           elements' = IF stack = <<>> THEN elements + 1 ELSE elements
    PROVE  elements' > 0
<1>1. CASE stack = <<>>
    BY <1>1
<1>2. CASE stack # <<>>
    <2>1. Len(stack) # 0
        BY <1>2, EmptySeq, LenProperties
    <2>2. OpenAfter(doc, g) # {}
        BY <2>1, FS_EmptySet DEF StackFits
    <2>3. \E c \in 1..g : Kind[c] = "start"
        BY <2>2 DEF OpenAfter, Kind
    <2>. QED BY <1>2, <2>3 DEF ElementsFit
<1>. QED BY <1>1, <1>2

(* An index in the stack.                                                  *)
LEMMA StackIndex ==
    ASSUME NEW d, NEW g \in Nat, NEW c \in OpenAfter(d, g)
    PROVE  Cardinality({e \in OpenAfter(d, g) : e <= c}) \in 1..Cardinality(OpenAfter(d, g))
<1> DEFINE O == OpenAfter(d, g)
           U == {e \in O : e <= c}
<1>1. IsFiniteSet(O) /\ Cardinality(O) \in Nat
    BY OpenFacts
<1>2. c \in U
    BY OpenFacts
<1>3. U \in SUBSET O
    OBVIOUS
<1>4. IsFiniteSet(U) /\ Cardinality(U) \in Nat /\ Cardinality(U) <= Cardinality(O)
    BY <1>1, <1>3, FS_Subset, FS_CardinalityType
<1>5. Cardinality(U) # 0
    BY <1>2, <1>4, FS_EmptySet
<1> HIDE DEF O, U
<1>6. Cardinality(U) \in 1..Cardinality(O)
    BY <1>1, <1>4, <1>5
<1>. QED BY <1>6 DEF O, U

(* A text changes nothing.                                                 *)
LEMMA TextFits ==
    ASSUME doc \in Documents, UNCHANGED doc, NEW c \in Callback, given.cb \in Nat,
           given.cb = c \/ given.cb = c - 1, given'.cb = c, Kind[c] = "text",
           OpenFits(given.cb), UNCHANGED <<stack, elements>>
    PROVE  OpenFits(given.cb)'
<1>1. c \in Nat /\ c > 0
    BY SessionFacts
<1>2. OpenFits(c)
    <2>1. CASE given.cb = c - 1
        <3>1. c - 1 \in Nat /\ (c - 1) + 1 = c
            BY <1>1
        <3>2. doc.kind[(c - 1) + 1] \notin {"start", "end"}
            BY <3>1 DEF Kind
        <3>3. OpenIsCounted(doc, c - 1)
            BY <2>1 DEF OpenFits
        <3>4. OpenAfter(doc, (c - 1) + 1) = OpenAfter(doc, c - 1)
              /\ OpenIsCounted(doc, (c - 1) + 1)
            BY ONLY <3>1, <3>2, <3>3, OpenAfterOther
        <3>5. OpenAfter(doc, c) = OpenAfter(doc, c - 1) /\ OpenIsCounted(doc, c)
            BY <3>1, <3>4
        <3>6. StackFits(c - 1) /\ ElementsFit(c - 1)
            BY <2>1 DEF OpenFits
        <3>7. StackFits(c)
            BY <3>5, <3>6 DEF StackFits
        <3>8. ElementsFit(c)
            <4>1. \A e : e \in 1..c <=> e \in 1..c - 1 \/ e = c
                BY <1>1
            <4>. QED BY <3>6, <4>1 DEF ElementsFit
        <3>. QED BY <3>5, <3>7, <3>8 DEF OpenFits
    <2>2. CASE given.cb = c
        BY <2>2
    <2>. QED BY <2>1, <2>2
<1>. QED BY <1>2, SameDocument DEF OpenFits, OpenIsCounted, StackFits, ElementsFit

(* A start tag pushes the name of its element.                             *)
LEMMA PushFits ==
    ASSUME doc \in Documents, UNCHANGED doc, NEW c \in Callback, given.cb = c - 1,
           given'.cb = c, Kind[c] = "start", OpenFits(given.cb),
           stack \in Seq({Name[d] : d \in Callback}), elements \in Nat,
           stack' = Append(stack, Name[c]),
           elements' = IF stack = <<>> THEN elements + 1 ELSE elements
    PROVE  OpenFits(given.cb)'
<1> DEFINE g == c - 1
           O == OpenAfter(doc, g)
           P == OpenAfter(doc, c)
<1>1. c \in Nat /\ c > 0 /\ g \in Nat /\ g + 1 = c
    BY SessionFacts
<1>2. OpenIsCounted(doc, g) /\ StackFits(g) /\ ElementsFit(g)
    BY DEF OpenFits
<1>3. P = O \cup {c} /\ c \notin O /\ OpenIsCounted(doc, c)
    <2>1. doc.kind[g + 1] = "start"
        BY <1>1 DEF Kind
    <2> HIDE DEF g
    <2>. QED BY <1>1, <1>2, <2>1, OpenAfterStart
<1>4. /\ IsFiniteSet(O) /\ Cardinality(O) \in Nat
      /\ \A e \in O : e \in Nat /\ e <= g
    BY <1>1, OpenFacts
<1>5. Cardinality(P) = Cardinality(O) + 1
    <2> HIDE DEF O, P
    <2>1. Cardinality(O \cup {c}) = Cardinality(O) + 1
        BY <1>3, <1>4, FS_AddElement
    <2>. QED BY <1>3, <2>1
<1>6. /\ Len(stack') = Len(stack) + 1 /\ Len(stack) \in Nat
      /\ \A i \in 1..Len(stack) : stack'[i] = stack[i]
      /\ stack'[Len(stack) + 1] = Name[c]
    <2> DEFINE Names == {Name[d] : d \in Callback}
    <2>1. Name[c] \in Names /\ stack \in Seq(Names)
        OBVIOUS
    <2> HIDE DEF Names
    <2>2. Len(stack) \in Nat
        BY <2>1, LenProperties
    <2>. QED BY <2>1, <2>2, AppendProperties
<1>7. Len(stack) = Cardinality(O)
    BY <1>2 DEF StackFits
<1>8. ASSUME NEW e \in P
      PROVE  stack'[Cardinality({f \in P : f <= e})] = Name[e]
    <2>1. CASE e \in O
        <3>1. {f \in P : f <= e} = {f \in O : f <= e}
            BY <1>1, <1>3, <1>4, <2>1
        <3>2. Cardinality({f \in O : f <= e}) \in 1..Len(stack)
            BY <1>1, <1>7, <2>1, StackIndex
        <3>3. stack[Cardinality({f \in O : f <= e})] = Name[e]
            BY <1>2, <2>1 DEF StackFits
        <3>. QED BY <1>6, <3>1, <3>2, <3>3
    <2>2. CASE e = c
        <3>1. {f \in P : f <= e} = P
            <4>1. \A f \in P : f <= c
                BY <1>1, <1>3, <1>4
            <4> HIDE DEF P
            <4>. QED BY <2>2, <4>1
        <3>2. Cardinality({f \in P : f <= e}) = Len(stack) + 1
            BY <1>5, <1>7, <3>1
        <3>. QED BY <1>6, <2>2, <3>2
    <2>. QED BY <1>3, <2>1, <2>2
<1>9. elements' > 0
    BY <1>1, <1>2, ElementsCounted
<1>10. \E e \in 1..c : Kind[e] = "start"
    BY <1>1
<1>11. Len(stack') = Cardinality(P)
    BY <1>4, <1>5, <1>6, <1>7
<1>12. StackFits(given.cb)'
    BY <1>8, <1>11, SameDocument DEF StackFits
<1>13. ElementsFit(given.cb)'
    BY <1>9, <1>10, SameDocument DEF ElementsFit
<1>14. OpenIsCounted(doc, given.cb)'
    BY <1>3 DEF OpenIsCounted
<1>. QED BY <1>12, <1>13, <1>14 DEF OpenFits
(* The start of an empty element counts it and pushes nothing.             *)
LEMMA EmptyStartFits ==
    ASSUME doc \in Documents, UNCHANGED doc, NEW c \in Callback, given.cb = c - 1,
           given'.cb = c, OpenFits(given.cb),
           stack \in Seq({Name[d] : d \in Callback}), elements \in Nat, UNCHANGED stack,
           elements' = IF stack = <<>> THEN elements + 1 ELSE elements
    PROVE  (OpenIsCounted(doc, given.cb - 1) /\ StackFits(given.cb - 1) /\ elements > 0)'
<1>1. c \in Nat /\ c > 0 /\ c - 1 \in Nat
    BY SessionFacts
<1>2. OpenIsCounted(doc, c - 1) /\ StackFits(c - 1) /\ ElementsFit(c - 1)
    BY DEF OpenFits
<1>3. elements' > 0
    BY <1>1, <1>2, ElementsCounted
<1>. QED BY <1>2, <1>3, SameDocument DEF OpenIsCounted, StackFits

(* Its end leaves no more open than before it.                             *)
LEMMA EmptyEndFits ==
    ASSUME doc \in Documents, UNCHANGED doc, NEW c \in Callback, given.cb = c - 1,
           given.cb \in Callback, Kind[given.cb] = "start", given'.cb = c, Kind[c] = "end",
           OpenIsCounted(doc, given.cb - 1), StackFits(given.cb - 1),
           elements > 0, UNCHANGED <<stack, elements>>
    PROVE  OpenFits(given.cb)'
<1> DEFINE b == c - 1
           g == b - 1
<1>1. c \in Nat /\ b \in Nat /\ b + 1 = c /\ g \in Nat /\ g + 1 = b /\ b <= c /\ b >= 1
    <2>1. c \in Nat /\ b \in Nat /\ b >= 1
        BY SessionFacts
    <2>. QED BY <2>1
<1>2. OpenIsCounted(doc, g) /\ StackFits(g)
    OBVIOUS
<1>3. doc.kind[g + 1] = "start" /\ doc.kind[b + 1] = "end"
    BY <1>1 DEF Kind
<1> HIDE DEF g, b
<1>4. /\ OpenAfter(doc, b) = OpenAfter(doc, g) \cup {b}
      /\ b \notin OpenAfter(doc, g) /\ OpenIsCounted(doc, b)
    BY <1>1, <1>2, <1>3, OpenAfterStart
<1>5. \A e \in OpenAfter(doc, b) : e <= b
    BY <1>1, OpenFacts
<1>6. b \in OpenAfter(doc, b)
    BY <1>4
<1>7. OpenAfter(doc, c) = OpenAfter(doc, b) \ {b} /\ OpenIsCounted(doc, c)
    BY <1>1, <1>3, <1>4, <1>5, <1>6, OpenAfterEnd
<1>8. OpenAfter(doc, c) = OpenAfter(doc, g)
    BY <1>4, <1>7
<1>9. StackFits(c)
    BY <1>2, <1>8 DEF StackFits
<1>10. b \in 1..c /\ Kind[b] = "start"
    BY <1>1 DEF b
<1>11. ElementsFit(c)
    BY <1>10 DEF ElementsFit
<1>12. OpenFits(c)
    BY <1>7, <1>9, <1>11 DEF OpenFits
<1>. QED BY <1>12, SameDocument DEF OpenFits, OpenIsCounted, StackFits, ElementsFit

(* The end tag of the innermost element pops its name.                     *)
LEMMA PopFits ==
    ASSUME doc \in Documents, UNCHANGED doc, NEW c \in Callback, given.cb = c - 1,
           given'.cb = c, Kind[c] = "end", OpenFits(given.cb),
           stack \in Seq({Name[d] : d \in Callback}), stack # <<>>,
           stack' = SubSeq(stack, 1, Len(stack) - 1), UNCHANGED elements
    PROVE  OpenFits(given.cb)'
<1> DEFINE g == c - 1
           O == OpenAfter(doc, g)
           P == OpenAfter(doc, c)
<1>1. c \in Nat /\ c > 0 /\ g \in Nat /\ g + 1 = c
    BY SessionFacts
<1>2. OpenIsCounted(doc, g) /\ StackFits(g) /\ ElementsFit(g)
    BY DEF OpenFits
<1>3. Len(stack) = Cardinality(O)
    BY <1>2 DEF StackFits
<1>4. /\ IsFiniteSet(O) /\ Cardinality(O) \in Nat
      /\ \A e \in O : e \in Nat /\ e <= g
    BY <1>1, OpenFacts
<1>5. Len(stack) \in Nat /\ Len(stack) > 0
    <2>1. Len(stack) # 0
        BY EmptySeq, LenProperties
    <2>. QED BY <1>3, <1>4, <2>1
<1>6. O # {}
    <2>1. Cardinality(O) # 0
        BY <1>3, <1>5
    <2> HIDE DEF O
    <2>. QED BY <2>1, FS_EmptySet
<1>7. PICK m \in O : \A e \in O : e <= m
    <2> HIDE DEF O, g
    <2>. QED BY <1>1, <1>4, <1>6, LargestOne
<1>8. P = O \ {m} /\ OpenIsCounted(doc, c)
    <2>1. doc.kind[g + 1] = "end"
        BY <1>1 DEF Kind
    <2> HIDE DEF g
    <2>. QED BY <1>1, <1>2, <1>7, <2>1, OpenAfterEnd
<1>9. Cardinality(P) = Cardinality(O) - 1
    <2> HIDE DEF O, P
    <2>1. Cardinality(O \ {m}) = Cardinality(O) - 1
        BY <1>4, <1>7, FS_RemoveElement
    <2>. QED BY <1>8, <2>1
<1>10. /\ Len(stack') = Len(stack) - 1
       /\ \A i \in 1..Len(stack) - 1 : stack'[i] = stack[i]
    <2> DEFINE Names == {Name[d] : d \in Callback}
               l == Len(stack) - 1
    <2>1. l \in Nat /\ 1 \in Int /\ l \in Int /\ l - 1 + 1 = l
        BY <1>5
    <2>2. \A i \in 1..l : stack[i] \in Names /\ 1 + i - 1 = i
        <3>1. \A i \in 1..l : i \in 1..Len(stack)
            BY <1>5
        <3>2. stack \in Seq(Names)
            OBVIOUS
        <3> HIDE DEF Names, l
        <3>. QED BY <3>1, <3>2, ElementOfSeq, <2>1
    <2>3. stack' = SubSeq(stack, 1, l)
        OBVIOUS
    <2> HIDE DEF Names, l
    <2>4. /\ Len(SubSeq(stack, 1, l)) = IF 1 <= l THEN l - 1 + 1 ELSE 0
          /\ \A i \in 1..l - 1 + 1 : SubSeq(stack, 1, l)[i] = stack[1 + i - 1]
        BY <2>1, <2>2, SubSeqProperties
    <2>5. Len(stack') = l /\ \A i \in 1..l : stack'[i] = stack[i]
        BY <2>1, <2>2, <2>3, <2>4
    <2>. QED BY <2>5 DEF l
<1>11. Len(stack') = Cardinality(P)
    BY <1>3, <1>9, <1>10
<1>12. ASSUME NEW e \in P
      PROVE  stack'[Cardinality({f \in P : f <= e})] = Name[e]
    <2>1. e \in O /\ e # m /\ ~(m <= e)
        BY <1>4, <1>7, <1>8
    <2>2. {f \in P : f <= e} = {f \in O : f <= e}
        <3> HIDE DEF O, P
        <3>. QED BY <1>8, <2>1
    <2>3. Cardinality({f \in P : f <= e}) \in 1..Cardinality(P)
        BY <1>1, StackIndex
    <2>4. stack[Cardinality({f \in O : f <= e})] = Name[e]
        BY <1>2, <2>1 DEF StackFits
    <2>. QED BY <1>3, <1>9, <1>10, <2>2, <2>3, <2>4
<1>13. StackFits(given.cb)'
    BY <1>11, <1>12, SameDocument DEF StackFits
<1>14. ElementsFit(given.cb)'
    <2>1. \A e : e \in 1..c <=> e \in 1..g \/ e = c
        BY <1>1
    <2>2. ElementsFit(c)
        BY <1>2, <2>1 DEF ElementsFit
    <2>. QED BY <2>2, SameDocument DEF ElementsFit
<1>15. OpenIsCounted(doc, given.cb)'
    BY <1>8 DEF OpenIsCounted
<1>. QED BY <1>13, <1>14, <1>15 DEF OpenFits

(* At the beginning.                                                       *)
LEMMA InitFits ==
    ASSUME SessionInit
    PROVE  OpenFits(given.cb)
<1>1. given.cb = 0 /\ stack = <<>> /\ elements = 0
    BY DEF SessionInit, Nothing
<1>2. OpenAfter(doc, 0) = {}
    BY OpenFacts
<1>3. Cardinality({}) = 0 /\ Len(stack) = 0
    BY <1>1, FS_EmptySet
<1>4. OpenAfter(doc, given.cb) = {}
    BY <1>1, <1>2
<1>5. Len(stack) = Cardinality(OpenAfter(doc, given.cb))
    BY <1>3, <1>4
<1>6. OpenIsCounted(doc, given.cb) /\ StackFits(given.cb)
    BY <1>4, <1>5 DEF OpenIsCounted, StackFits
<1>7. ElementsFit(given.cb)
    BY <1>1 DEF ElementsFit
<1>. QED BY <1>6, <1>7 DEF OpenFits
(* The innermost element gives the name an end tag must have.              *)
LEMMA StackTop ==
    ASSUME DataOK, NEW g \in Nat, StackFits(g), NEW c \in Callback
    PROVE  Closes(c) <=> \E m \in OpenAfter(doc, g) :
                            (\A e \in OpenAfter(doc, g) : e <= m) /\ Name[m] = Name[c]
<1> DEFINE O == OpenAfter(doc, g)
<1>1. /\ IsFiniteSet(O) /\ Cardinality(O) \in Nat
      /\ \A e \in O : e \in Nat /\ e <= g
    BY OpenFacts
<1>2. Len(stack) = Cardinality(O)
    BY DEF StackFits
<1>3. ASSUME NEW m \in O, \A e \in O : e <= m
      PROVE  stack[Len(stack)] = Name[m]
    <2>1. {e \in O : e <= m} = O
        BY <1>3
    <2>2. stack[Cardinality({e \in O : e <= m})] = Name[m]
        BY DEF StackFits
    <2> HIDE DEF O
    <2>. QED BY <1>2, <2>1, <2>2
<1>4. stack # <<>> <=> O # {}
    <2>1. stack # <<>> <=> Len(stack) # 0
        BY EmptySeq, LenProperties DEF DataOK
    <2>2. Cardinality(O) # 0 <=> O # {}
        <3> HIDE DEF O
        <3>. QED BY <1>1, FS_EmptySet
    <2>. QED BY <1>2, <2>1, <2>2
<1>5. O # {} => \E m \in O : \A e \in O : e <= m
    <2> HIDE DEF O
    <2>. QED BY <1>1, LargestOne
<1> HIDE DEF O
<1>6. Closes(c) <=> \E m \in O : (\A e \in O : e <= m) /\ Name[m] = Name[c]
    BY <1>3, <1>4, <1>5 DEF Closes
<1>. QED BY <1>6 DEF O

-----------------------------------------------------------------------------
(* One callback follows the other.                                         *)

(* More of the same text, or the next callback when the last was whole; of *)
(* the bytes supplied.                                                     *)
GoesOn ==
    /\ \/ given'.cb = given.cb /\ given'.from = given.to /\ given'.from < given'.to
       \/ /\ given'.cb = given.cb + 1 /\ given'.from = 0
          /\ given.cb > 0 => given.to = Whole(given.cb)
    /\ given'.cb \in Callback /\ Kind[given'.cb] \in {"start", "end", "text"}
    /\ Ready[given'.cb] <= supplied
    /\ given'.from \in 0..supplied /\ given'.to \in 0..supplied
    /\ given'.to <= Reported(given'.cb, supplied)
    /\ given'.turn = 1 - given.turn

(* When the next callback begins, the one before it is whole.              *)
LEMMA LastIsWhole ==
    ASSUME DataOK, AllGiven, NEW c \in Callback, given.cb = c - 1, First[c] = consumed,
           given.cb > 0
    PROVE  given.to = Whole(given.cb)
<1>1. doc \in Documents /\ consumed \in Nat
    <2>1. doc \in Documents /\ supplied \in 0..DocSize /\ consumed \in 0..supplied
        BY DEF DataOK
    <2>. QED BY <2>1, SessionFacts
<1>2. \A d \in Callback : First[d] \in Nat /\ Last[d] \in Nat
    BY <1>1, SessionFacts
<1>3. c - 1 \in Callback /\ c - 1 < c
    BY <1>1, SessionFacts
<1>4. Last[c - 1] <= First[c] \/ Kind[c - 1] # "text"
    BY <1>1, <1>3, OrderFacts
<1>5. given.to = Reported(c - 1, consumed)
    BY DEF AllGiven
<1>6. Reported(c - 1, consumed) = Whole(c - 1)
    <2>1. Last[c - 1] \in Nat
        BY <1>2, <1>3
    <2>. QED BY <1>1, <1>4, <2>1 DEF Reported, Whole
<1>. QED BY <1>5, <1>6

LEMMA TextGoesOn ==
    ASSUME DataOK, AllGiven, ~Empty, NEW c \in FrontText, EmitText(c)
    PROVE  GoesOn
<1>1. doc \in Documents /\ supplied \in Nat /\ consumed \in Nat /\ consumed < supplied
    <2>1. doc \in Documents /\ supplied \in 0..DocSize /\ consumed \in 0..supplied
        BY DEF DataOK
    <2>2. DocSize \in Nat
        BY <2>1, SessionFacts
    <2>. QED BY <2>1, <2>2 DEF Empty
<1>2. c \in Callback /\ First[c] <= consumed /\ consumed < Last[c] /\ Kind[c] = "text"
    BY DEF FrontText, Front
<1>3. First[c] \in Nat /\ Last[c] \in Nat /\ c \in Nat /\ Ready[c] = First[c] + 1
    <2>1. IsDocument(doc)
        BY <1>1, DocumentAssumption
    <2>2. Ready[c] = First[c] + 1
        BY <1>2, <2>1 DEF IsDocument, Callback, N, Kind, Ready, First
    <2>. QED BY <1>1, <1>2, <2>2, SessionFacts
<1>4. /\ given'.cb = c /\ given'.turn = 1 - given.turn /\ given'.from = consumed - First[c]
      /\ given'.to = consumed - First[c] + TextLength(c)
    BY DEF EmitText, Give
<1>5. /\ TextLength(c) \in Nat /\ TextLength(c) > 0
      /\ consumed + TextLength(c) <= supplied
      /\ consumed + TextLength(c) = IF supplied < Last[c] THEN supplied ELSE Last[c]
    BY <1>1, <1>2, <1>3 DEF TextLength
<1>6. given'.from \in 0..supplied /\ given'.to \in 0..supplied /\ given'.from < given'.to
    BY <1>1, <1>2, <1>3, <1>4, <1>5
<1>7. given'.to <= Reported(given'.cb, supplied)
    BY <1>1, <1>2, <1>3, <1>4, <1>5 DEF Reported
<1>8. Ready[c] <= supplied
    BY <1>1, <1>2, <1>3
<1>9. CASE given.cb = c /\ given.to = consumed - First[c]
    BY <1>2, <1>4, <1>6, <1>7, <1>8, <1>9 DEF GoesOn
<1>10. CASE given.cb = c - 1 /\ First[c] = consumed
    <2>1. given.cb > 0 => given.to = Whole(given.cb)
        BY <1>2, <1>10, LastIsWhole
    <2>2. given'.cb = given.cb + 1 /\ given'.from = 0
        BY <1>1, <1>3, <1>4, <1>10
    <2>. QED BY <1>2, <1>4, <1>6, <1>7, <1>8, <2>1, <2>2 DEF GoesOn
<1>. QED BY <1>9, <1>10, TextIsNext

LEMMA TagGoesOn ==
    ASSUME DataOK, NEW c \in Front, Complete, Kind[c] \in {"start", "end"}, Give(c, 0, 1),
           given.cb = c - 1, given.cb > 0 => given.to = Whole(given.cb)
    PROVE  GoesOn
<1>1. doc \in Documents /\ supplied \in Nat /\ consumed \in Nat
    <2>1. doc \in Documents /\ supplied \in 0..DocSize /\ consumed \in 0..supplied
        BY DEF DataOK
    <2>2. DocSize \in Nat
        BY <2>1, SessionFacts
    <2>. QED BY <2>1, <2>2
<1>2. c \in Callback /\ Last[c] <= supplied
    BY DEF Front, Complete
<1>3. /\ First[c] \in Nat /\ Last[c] \in Nat /\ c \in Nat /\ Ready[c] = Last[c]
      /\ First[c] < Ready[c]
    BY <1>1, <1>2, SessionFacts
<1>4. /\ given'.cb = c /\ given'.turn = 1 - given.turn /\ given'.from = 0 /\ given'.to = 1
    BY DEF Give
<1>5. given'.from \in 0..supplied /\ given'.to \in 0..supplied /\ Ready[c] <= supplied
    BY <1>1, <1>2, <1>3, <1>4
<1>6. given'.to <= Reported(given'.cb, supplied)
    BY <1>4 DEF Reported
<1>7. given'.cb = given.cb + 1
    BY <1>3, <1>4
<1>. QED BY <1>2, <1>4, <1>5, <1>6, <1>7 DEF GoesOn
-----------------------------------------------------------------------------
(* The stack after each callback.                                          *)

LEMMA EmitTextFits ==
    ASSUME DataOK, AllGiven, OpenFits(given.cb), NEW c \in FrontText, EmitText(c),
           UNCHANGED windowVars
    PROVE  OpenFits(given.cb)'
<1>1. doc \in Documents /\ given.cb \in Nat
    BY SessionFacts DEF DataOK
<1>2. c \in Callback /\ Kind[c] = "text"
    BY DEF FrontText, Front
<1>3. given.cb = c \/ given.cb = c - 1
    BY TextIsNext
<1>4. given'.cb = c /\ UNCHANGED <<stack, elements>>
    BY DEF EmitText, Give, elementVars
<1>5. UNCHANGED doc
    BY DEF windowVars
<1>. QED BY <1>1, <1>2, <1>3, <1>4, <1>5, TextFits

LEMMA EmitStartFits ==
    ASSUME DataOK, AllGiven, OpenFits(given.cb), NEW c \in FrontTag("start"), EmitStart(c),
           UNCHANGED windowVars
    PROVE  /\ FrontTag("end") = {} => OpenFits(given.cb)'
           /\ FrontTag("end") # {} =>
                 (OpenIsCounted(doc, given.cb - 1) /\ StackFits(given.cb - 1) /\ elements > 0)'
<1>1. /\ doc \in Documents /\ stack \in Seq({Name[d] : d \in Callback}) /\ elements \in Nat
    BY DEF DataOK
<1>2. c \in Front /\ c \in Callback /\ Kind[c] = "start"
    BY DEF FrontTag, Front
<1>3. given.cb = c - 1
    BY <1>2, TagIsNext
<1>4. /\ given'.cb = c
      /\ elements' = IF stack = <<>> THEN elements + 1 ELSE elements
      /\ stack' = IF FrontTag("end") = {} THEN Append(stack, Name[c]) ELSE stack
    BY DEF EmitStart, Give, Opens
<1>5. UNCHANGED doc
    BY DEF windowVars
<1>6. CASE FrontTag("end") = {}
    <2>1. stack' = Append(stack, Name[c])
        BY <1>4, <1>6
    <2>. QED BY <1>1, <1>2, <1>3, <1>4, <1>5, <1>6, <2>1, PushFits
<1>7. CASE FrontTag("end") # {}
    <2>1. UNCHANGED stack
        BY <1>4, <1>7
    <2>. QED BY <1>1, <1>2, <1>3, <1>4, <1>5, <1>7, <2>1, EmptyStartFits
<1>. QED BY <1>6, <1>7

LEMMA EmitEmptyEndFits ==
    ASSUME DataOK, TagHalfGiven, OpenIsCounted(doc, given.cb - 1), StackFits(given.cb - 1),
           elements > 0, NEW c \in FrontTag("end"), EmitEmptyEnd(c), UNCHANGED windowVars
    PROVE  OpenFits(given.cb)'
<1>1. doc \in Documents
    BY DEF DataOK
<1>2. c \in Callback /\ Kind[c] = "end"
    BY DEF FrontTag, Front
<1>3. given.cb = c - 1
    BY EndIsNext
<1>4. given.cb \in Callback /\ Kind[given.cb] = "start"
    BY DEF TagHalfGiven, FrontTag, Front
<1>5. given'.cb = c /\ UNCHANGED <<stack, elements>>
    BY DEF EmitEmptyEnd, Give, elementVars
<1>6. UNCHANGED doc
    BY DEF windowVars
<1>. QED BY <1>1, <1>2, <1>3, <1>4, <1>5, <1>6, EmptyEndFits

LEMMA EmitEndFits ==
    ASSUME DataOK, AllGiven, OpenFits(given.cb), NEW c \in FrontTag("end"), EmitEnd(c),
           UNCHANGED windowVars
    PROVE  OpenFits(given.cb)'
<1>1. doc \in Documents /\ stack \in Seq({Name[d] : d \in Callback})
    BY DEF DataOK
<1>2. c \in Front /\ c \in Callback /\ Kind[c] = "end"
    BY DEF FrontTag, Front
<1>3. /\ FrontTag("start") = {} /\ stack # <<>> /\ given'.cb = c
      /\ stack' = SubSeq(stack, 1, Len(stack) - 1) /\ UNCHANGED elements
    BY DEF EmitEnd, Closes, Give
<1>4. given.cb = c - 1
    BY <1>2, <1>3, TagIsNext
<1>5. UNCHANGED doc
    BY DEF windowVars
<1>. QED BY <1>1, <1>2, <1>3, <1>4, <1>5, PopFits

LEMMA IdleFits ==
    ASSUME UNCHANGED <<doc, stack, elements, given>>
    PROVE  /\ OpenFits(given.cb) => OpenFits(given.cb)'
           /\ OpenIsCounted(doc, given.cb - 1) /\ StackFits(given.cb - 1) /\ elements > 0 =>
                 (OpenIsCounted(doc, given.cb - 1) /\ StackFits(given.cb - 1) /\ elements > 0)'
BY SameDocument DEF OpenFits, OpenIsCounted, StackFits, ElementsFit
-----------------------------------------------------------------------------
(* The sessions refuse the markup that the document says they do.          *)

(* What the document says of the callbacks it refuses.                     *)
LEMMA RefusedIs ==
    ASSUME doc \in Documents, NEW c \in Callback
    PROVE  RefusedMarkup(doc, c) <=>
              \/ c \in Malformed
              \/ Kind[c] \in {"comment", "doctype"}
              \/ /\ Kind[c] = "end" /\ \A b \in 1..c - 1 : First[b] # First[c]
                 /\ \A e \in OpenAfter(doc, c - 1) :
                       (\A f \in OpenAfter(doc, c - 1) : f <= e) => Name[e] # Name[c]
BY DEF RefusedMarkup, Malformed, Kind, First, Name

(* Malformed are both callbacks of an empty element, or none, and no text. *)
LEMMA MalformedFacts ==
    ASSUME doc \in Documents
    PROVE  /\ \A c \in Callback : c \in Malformed => Kind[c] \in {"start", "end"}
           /\ \A b, c \in Callback :
                 First[b] = First[c] => (b \in Malformed <=> c \in Malformed)
<1>1. \A c \in Callback : c \in Malformed => Kind[c] \in {"start", "end"}
    BY SessionAssumption DEF Malformed, Kind
<1>2. \A b, c \in 1..doc.n :
          doc.first[b] = doc.first[c] => (b \in doc.malformed <=> c \in doc.malformed)
    BY TokenAssumption
<1>. QED BY <1>1, <1>2 DEF Callback, N, First, Malformed

LEMMA StartNotRefused ==
    ASSUME doc \in Documents, NEW c \in FrontTag("start"), EmitStart(c)
    PROVE  c \in Callback /\ ~RefusedMarkup(doc, c)
<1>1. c \in Callback /\ Kind[c] = "start" /\ c \notin Malformed
    BY DEF FrontTag, Front, EmitStart
<1>. QED BY <1>1, RefusedIs

LEMMA EmptyEndNotRefused ==
    ASSUME DataOK, TagHalfGiven, \A b \in 1..given.cb : ~RefusedMarkup(doc, b),
           NEW c \in FrontTag("end")
    PROVE  c \in Callback /\ ~RefusedMarkup(doc, c)
<1>1. doc \in Documents /\ c \in Callback /\ Kind[c] = "end" /\ c \in Nat
    BY SessionFacts DEF FrontTag, Front, DataOK
<1>2. given.cb = c - 1 /\ First[c] = consumed /\ First[given.cb] = consumed
      /\ given.cb \in Callback
    BY EndIsNext DEF TagHalfGiven, FrontTag, Front
<1>3. given.cb \in 1..given.cb /\ given.cb \in 1..c - 1
    BY <1>1, <1>2, SessionFacts
<1>4. ~RefusedMarkup(doc, given.cb)
    BY <1>3
<1>5. c \notin Malformed
    BY <1>1, <1>2, <1>4, RefusedIs, MalformedFacts
<1>. QED BY <1>1, <1>2, <1>3, <1>5, RefusedIs

LEMMA EndNotRefused ==
    ASSUME DataOK, AllGiven, OpenFits(given.cb), NEW c \in FrontTag("end"), EmitEnd(c)
    PROVE  c \in Callback /\ ~RefusedMarkup(doc, c)
<1>1. doc \in Documents /\ c \in Front /\ c \in Callback /\ Kind[c] = "end"
    BY DEF FrontTag, Front, DataOK
<1>2. c \notin Malformed /\ FrontTag("start") = {} /\ Closes(c)
    BY DEF EmitEnd
<1>3. given.cb = c - 1 /\ given.cb \in Nat
    BY <1>1, <1>2, TagIsNext, SessionFacts DEF DataOK
<1>4. \E m \in OpenAfter(doc, c - 1) :
          (\A e \in OpenAfter(doc, c - 1) : e <= m) /\ Name[m] = Name[c]
    <2>1. StackFits(c - 1) /\ c - 1 \in Nat
        BY <1>3 DEF OpenFits
    <2>. QED BY <1>1, <1>2, <2>1, StackTop
<1>. QED BY <1>1, <1>2, <1>4, RefusedIs

(* A tag that a session refuses is one to refuse.                          *)
LEMMA RefusesRefused ==
    ASSUME DataOK, AllGiven, OpenFits(given.cb), NEW c \in Front,
           RefusesTag(c) \/ Kind[c] \in {"comment", "doctype"}
    PROVE  c \in Callback /\ RefusedMarkup(doc, c)
<1>1. doc \in Documents /\ c \in Callback
    BY DEF Front, DataOK
<1>2. CASE c \in Malformed \/ Kind[c] \in {"comment", "doctype"}
    BY <1>1, <1>2, RefusedIs
<1>3. CASE Kind[c] = "end" /\ FrontTag("start") = {} /\ ~Closes(c)
    <2>1. given.cb = c - 1 /\ given.cb \in Nat /\ First[c] = consumed
        BY <1>1, <1>3, TagIsNext, SessionFacts DEF DataOK
    <2>2. \A m \in OpenAfter(doc, c - 1) :
              (\A e \in OpenAfter(doc, c - 1) : e <= m) => Name[m] # Name[c]
        <3>1. StackFits(c - 1) /\ c - 1 \in Nat
            BY <2>1 DEF OpenFits
        <3>. QED BY <1>1, <1>3, <3>1, StackTop
    <2>3. ASSUME NEW b \in 1..c - 1
          PROVE  First[b] # First[c]
        <3> SUFFICES ASSUME First[b] = First[c]
                     PROVE  FALSE
            OBVIOUS
        <3>1. b \in Callback /\ b < c
            BY <1>1, SessionFacts
        <3>2. /\ First[c] \in Nat /\ Last[c] \in Nat /\ Last[b] \in Nat /\ First[b] < Last[b]
            BY <1>1, <3>1, SessionFacts
        <3>3. Last[b] = Last[c] /\ Kind[b] = "start"
            BY <1>1, <1>3, <3>1, <3>2, OrderFacts
        <3>4. b \in FrontTag("start")
            BY <3>1, <3>3 DEF FrontTag, Front
        <3>. QED BY <1>3, <3>4
    <2>. QED BY <1>1, <1>3, <2>2, <2>3, RefusedIs
<1>. QED BY <1>2, <1>3 DEF RefusesTag

(* Two callbacks of one token are refused together.                        *)
LEMMA RefusedTogether ==
    ASSUME doc \in Documents, NEW b \in Callback, NEW c \in Callback, c < b,
           First[c] = First[b], ~RefusedMarkup(doc, c)
    PROVE  Kind[c] = "start" /\ Kind[b] = "end" /\ ~RefusedMarkup(doc, b)
<1>1. c \in 1..b - 1
    BY SessionFacts
<1>2. Kind[c] \notin {"comment", "doctype"} /\ c \notin Malformed
    BY RefusedIs
<1>3. Kind[c] = "start" /\ Kind[b] = "end"
    <2>1. First[b] \in Nat /\ Last[c] \in Nat /\ First[c] < Last[c]
        BY SessionFacts
    <2>. QED BY <1>2, <2>1, OrderFacts
<1>4. b \notin Malformed
    BY <1>2, MalformedFacts
<1>. QED BY <1>1, <1>3, <1>4, RefusedIs

(* Before the error of the document everything that is made is seen.       *)
LEMMA MadeIsSeen ==
    ASSUME doc \in Documents, supplied \in 0..DocSize, NEW c \in Callback,
           Ready[c] <= supplied, DocSize < BadAt \/ Last[c] <= BadFrom
    PROVE  Seen(c, supplied)
<1>1. DocSize \in Nat /\ BadAt \in Nat /\ BadFrom \in Nat
    BY DocumentAssumption DEF IsDocument, DocSize, BadAt, BadFrom
<1>2. Ready[c] \in Nat /\ Last[c] \in Nat /\ Ready[c] <= Last[c]
    BY SessionFacts
<1>. QED BY <1>1, <1>2 DEF Seen

(* When the front of the window is the error, all before it is made.       *)
LEMMA AllBeforeError ==
    ASSUME DataOK, AllGiven, BadFrom = consumed, BadAt <= supplied,
           given.cb > 0 => Last[given.cb] <= consumed,
           NEW d \in Callback, Seen(d, supplied)
    PROVE  d < given.cb \/ (d = given.cb /\ given.to = Reported(d, supplied))
<1>1. /\ doc \in Documents /\ supplied \in Nat /\ consumed \in Nat /\ consumed <= supplied
      /\ BadAt \in Nat /\ given.cb \in Nat
    <2>1. doc \in Documents /\ supplied \in 0..DocSize /\ consumed \in 0..supplied
          /\ given.cb \in 0..N
        BY DEF DataOK
    <2>. QED BY <2>1, SessionFacts, DocumentAssumption DEF IsDocument, BadAt
<1>2. /\ d \in Nat /\ d >= 1 /\ First[d] \in Nat /\ Ready[d] \in Nat /\ Last[d] \in Nat
      /\ First[d] < Ready[d]
    BY <1>1, SessionFacts
<1>3. Ready[d] <= consumed
    BY <1>1 DEF Seen
<1>4. First[d] < consumed
    BY <1>1, <1>2, <1>3
<1>5. d <= given.cb
    BY <1>4 DEF AllGiven
<1>6. CASE d = given.cb
    <2>1. given.to = Reported(d, consumed)
        BY <1>2, <1>6 DEF AllGiven
    <2>2. Last[d] <= consumed
        BY <1>2, <1>6
    <2>3. ~(consumed < Last[d]) /\ ~(supplied < Last[d])
        BY <1>1, <1>2, <2>2
    <2>. QED BY <1>6, <2>1, <2>3 DEF Reported
<1>. QED BY <1>1, <1>2, <1>5, <1>6

(* The document element is complete when the document says so.             *)
LEMMA RootFacts ==
    ASSUME doc \in Documents, NEW refused, RootEnds(doc, refused)
    PROVE  /\ \/ DocSize < RootEnd
              \/ \E r \in Callback : Kind[r] = "end" /\ Last[r] = RootEnd
           /\ \A g \in 0..N :
                 (\A c \in 1..g : c \notin refused) =>
                     ((\E c \in 1..g : Kind[c] = "start") /\ OpenAfter(doc, g) = {}
                        <=> \E r \in 1..g : Kind[r] = "end" /\ Last[r] = RootEnd)
BY DEF RootEnds, DocSize, RootEnd, Callback, N, Kind, Last

LEMMA NothingOpen ==
    ASSUME DataOK, StackFits(given.cb)
    PROVE  stack = <<>> <=> OpenAfter(doc, given.cb) = {}
<1>1. given.cb \in Nat
    BY SessionFacts DEF DataOK
<1>2. IsFiniteSet(OpenAfter(doc, given.cb))
    BY <1>1, OpenFacts
<1>3. Cardinality(OpenAfter(doc, given.cb)) = 0 <=> OpenAfter(doc, given.cb) = {}
    BY <1>2, FS_EmptySet
<1>4. Len(stack) = Cardinality(OpenAfter(doc, given.cb))
    BY DEF StackFits
<1>5. Len(stack) = 0 <=> stack = <<>>
    BY DEF DataOK
<1>. QED BY <1>3, <1>4, <1>5

LEMMA CompleteIsRoot ==
    ASSUME DataOK, OpenFits(given.cb), NEW refused, RootEnds(doc, refused),
           \A c \in 1..given.cb : c \notin refused
    PROVE  DocumentComplete <=>
              \E r \in 1..given.cb : Kind[r] = "end" /\ Last[r] = RootEnd
<1>1. given.cb \in 0..N /\ doc \in Documents
    BY DEF DataOK
<1>2. elements > 0 <=> \E c \in 1..given.cb : Kind[c] = "start"
    BY DEF OpenFits, ElementsFit
<1>3. stack = <<>> <=> OpenAfter(doc, given.cb) = {}
    BY NothingOpen DEF OpenFits
<1>. QED BY <1>1, <1>2, <1>3, RootFacts DEF DocumentComplete

(* Of a document that has all come in, the verdict is that of the stack.   *)
LEMMA EmptyAccepts ==
    ASSUME DataOK, AllGiven, OpenFits(given.cb), Empty, finalBuffer,
           NEW refused, RootEnds(doc, refused), \A c \in 1..given.cb : c \notin refused
    PROVE  Accepts(supplied, finalBuffer) <=> DocumentComplete /\ supplied < BadAt
<1>1. /\ doc \in Documents /\ supplied \in 0..DocSize /\ supplied \in Nat /\ DocSize \in Nat
      /\ RootEnd \in Nat /\ given.cb \in 0..N /\ consumed = supplied
    BY SessionFacts, DocumentAssumption DEF DataOK, IsDocument, RootEnd, Empty
<1>2. Unfinished(supplied) = {}
    BY <1>1 DEF Unfinished, AllGiven
<1>3. ASSUME DocumentComplete
      PROVE  supplied >= RootEnd
    <2>1. PICK r \in 1..given.cb : Kind[r] = "end" /\ Last[r] = RootEnd
        BY <1>3, CompleteIsRoot
    <2>2. r \in Callback /\ r <= given.cb
        BY <1>1, SessionFacts
    <2>3. ~(consumed < Last[r])
        BY <2>1, <2>2 DEF AllGiven
    <2>. QED BY <1>1, <2>1, <2>3
<1>4. ASSUME supplied >= RootEnd
      PROVE  DocumentComplete
    <2>1. PICK r \in Callback : Kind[r] = "end" /\ Last[r] = RootEnd
        BY <1>1, <1>4, RootFacts
    <2>2. First[r] \in Nat /\ Last[r] \in Nat /\ First[r] < Last[r] /\ r \in Nat /\ r >= 1
        BY <1>1, SessionFacts
    <2>3. First[r] < consumed
        BY <1>1, <1>4, <2>1, <2>2
    <2>4. r <= given.cb /\ given.cb \in Nat
        BY <1>1, <2>3, SessionFacts DEF AllGiven
    <2>5. r \in 1..given.cb
        BY <2>2, <2>4
    <2>. QED BY <2>1, <2>5, CompleteIsRoot
<1>. QED BY <1>2, <1>3, <1>4 DEF Accepts
=============================================================================
