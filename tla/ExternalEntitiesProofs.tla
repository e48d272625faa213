----------------------- MODULE ExternalEntitiesProofs -----------------------
(***************************************************************************)
(* What holds of a document with external entities, for every set of texts,*)
(* every chunking and every application of the kind ExternalEntities       *)
(* describes: TypeInv and AskedOnce always; DeclarationsAreTheTexts,       *)
(* AnswersRepeat and ChildrenCountedOnce when no child is finished by a    *)
(* call without text (Faithful).  The run child_finished_empty shows that  *)
(* the last condition is needed: such a call gives the parent nothing.     *)
(*                                                                         *)
(* Weight and Declared are recursive.  Their equations are had from the    *)
(* ranks of places: a rank is lower before a token and in a part, because  *)
(* references lead down, so the equations have a solution (Recursion), and *)
(* what follows from lower ranks holds everywhere (RankInduction).  Both   *)
(* rest on Induction, which needs no operator as a parameter.              *)
(*                                                                         *)
(* The inductive invariant IInv has four parts.  Local says of one parser  *)
(* what its ordinals, its replays and its sums are at the token it has     *)
(* reached, with a number e of tokens delivered before this pass.  Children*)
(* Stacked and Lowest say that those which wait for one another form a     *)
(* stack along the depths of the texts.  Linked says what has gone from a  *)
(* child to its parent.  Each action has a lemma <Action>Step.             *)
(***************************************************************************)
EXTENDS ExternalEntities, WellFoundedInduction, FiniteSetTheorems, TLAPS

-----------------------------------------------------------------------------
(* Induction on numbers, from what the library says of finite sets.        *)

(* A set of numbers that is not empty has a least element.                 *)
LEMMA LeastNumber ==
    ASSUME NEW T \in SUBSET Nat, T # {}
    PROVE  \E n \in T : \A m \in T : n <= m
<1>. DEFINE Below(n) == {m \in Nat : m < n}
            Belows == {Below(n) : n \in T}
<1>1. \A n \in Nat : Below(n) \in FiniteSubsetsOf(Nat)
  <2>. TAKE n \in Nat
  <2>1. Below(n) = 0..(n - 1)
    OBVIOUS
  <2>2. IsFiniteSet(0..(n - 1))
    BY FS_Interval
  <2>. QED BY <2>1, <2>2 DEF FiniteSubsetsOf
<1>2. Belows \subseteq FiniteSubsetsOf(Nat) /\ Belows # {}
  BY <1>1
<1>3. PICK B \in Belows :
        \A C \in Belows : ~(<<C, B>> \in StrictSubsetOrdering(Nat))
  <2>. HIDE DEF Belows
  <2>. QED BY <1>2, WFMin, FS_StrictSubsetOrderingWellFounded
<1>4. PICK n \in T : B = Below(n)
  BY <1>3
<1>5. ASSUME NEW m \in T, ~(n <= m)
      PROVE  FALSE
  <2>1. Below(m) \subseteq B /\ Below(m) # B
    <3>1. m \in B /\ m \notin Below(m)
      BY <1>4, <1>5
    <3>. QED BY <1>4, <1>5, <3>1
  <2>2. Below(m) \in Belows
    OBVIOUS
  <2>3. Below(m) \subseteq Nat /\ B \subseteq Nat
    BY <1>4
  <2>. HIDE DEF Below, Belows
  <2>4. <<Below(m), B>> \in StrictSubsetOrdering(Nat)
    BY <2>1, <2>3 DEF StrictSubsetOrdering
  <2>. QED BY <1>3, <2>2, <2>4
<1>. QED BY <1>5

(* A set with 0 and the successors of its numbers has every number.        *)
LEMMA Induction ==
    ASSUME NEW S, 0 \in S, \A n \in Nat : n \in S => n + 1 \in S
    PROVE  \A n \in Nat : n \in S
<1>. DEFINE T == {n \in Nat : n \notin S}
<1>1. SUFFICES ASSUME T # {} PROVE FALSE
  OBVIOUS
<1>2. PICK n \in T : \A m \in T : n <= m
  BY <1>1, LeastNumber
<1>3. n - 1 \in Nat /\ n - 1 \in S
  BY <1>2
<1>. QED BY <1>2, <1>3
-----------------------------------------------------------------------------
(* Recursion over ranked places: what is defined from lower ranks exists,  *)
(* and what holds when it holds for lower ranks holds.                     *)

(* E maps a function to the right-hand sides of its equations, which only  *)
(* use values of lower rank.                                               *)
Descends(P, V, rank, E) ==
    /\ V # {} /\ rank \in [P -> Nat]
    /\ \E D \in Nat : \A p \in P : rank[p] < D
    /\ E \in [[P -> V] -> [P -> V]]
    /\ \A f, g \in [P -> V] : \A p \in P :
         (\A q \in P : rank[q] < rank[p] => f[q] = g[q]) => E[f][p] = E[g][p]

(* A function defined by values of lower rank exists.                      *)
LEMMA Recursion ==
    ASSUME NEW P, NEW V, NEW rank, NEW E, Descends(P, V, rank, E)
    PROVE  \E f \in [P -> V] : f = E[f]
<1>. USE DEF Descends
<1>. PICK D \in Nat : \A p \in P : rank[p] < D
  OBVIOUS
<1>. DEFINE Solves(f, d) == \A p \in P : rank[p] < d => f[p] = E[f][p]
            S == {d \in Nat : \E f \in [P -> V] : Solves(f, d)}
<1>1. 0 \in S
  <2>. PICK v \in V : TRUE
    OBVIOUS
  <2>1. [p \in P |-> v] \in [P -> V] /\ Solves([p \in P |-> v], 0)
    OBVIOUS
  <2>. HIDE DEF Solves
  <2>. QED BY <2>1
<1>2. ASSUME NEW d \in Nat, d \in S
      PROVE  d + 1 \in S
  <2>1. PICK f \in [P -> V] : Solves(f, d)
    BY <1>2
  <2>. DEFINE g == [p \in P |-> IF rank[p] < d THEN f[p] ELSE E[f][p]]
  <2>2. E[f] \in [P -> V] /\ g \in [P -> V]
    OBVIOUS
  <2>3. \A p \in P : rank[p] < d + 1 => E[f][p] = E[g][p]
    <3>. TAKE p \in P
    <3>. HAVE rank[p] < d + 1
    <3>1. \A q \in P : rank[q] < rank[p] => f[q] = g[q]
      OBVIOUS
    <3>. HIDE DEF g
    <3>. QED BY <3>1, <2>2
  <2>4. Solves(g, d + 1)
    <3>. TAKE p \in P
    <3>. HAVE rank[p] < d + 1
    <3>. QED BY <2>1, <2>3
  <2>. HIDE DEF g, Solves
  <2>. QED BY <2>2, <2>4
<1>3. D \in S
  <2>. HIDE DEF S
  <2>. QED BY <1>1, <1>2, Induction
<1>4. PICK f \in [P -> V] : Solves(f, D)
  BY <1>3
<1>5. E[f] \in [P -> V] /\ \A p \in P : f[p] = E[f][p]
  BY <1>4
<1>. QED BY <1>5

(* Induction on the rank.                                                  *)
LEMMA RankInduction ==
    ASSUME NEW P, NEW rank \in [P -> Nat], NEW S,
           \A p \in P : (\A q \in P : rank[q] < rank[p] => q \in S) => p \in S
    PROVE  P \subseteq S
<1>. DEFINE T == {d \in Nat : \A p \in P : rank[p] < d => p \in S}
<1>1. 0 \in T
  OBVIOUS
<1>2. \A d \in Nat : d \in T => d + 1 \in T
  OBVIOUS
<1>3. \A d \in Nat : d \in T
  <2>. HIDE DEF T
  <2>. QED BY <1>1, <1>2, Induction
<1>4. ASSUME NEW p \in P PROVE p \in S
  <2>1. rank[p] + 1 \in T
    BY <1>3
  <2>. QED BY <2>1
<1>. QED BY <1>4

-----------------------------------------------------------------------------
(* The texts.                                                              *)

(* References lead down.                                                   *)
Falls(depth) ==
    /\ depth \in [Parsers -> 0..Cardinality(Parsers)]
    /\ \A h \in Parsers : \A i \in 1..Len(Text[h]) :
         Text[h][i].kind \in References => depth[Text[h][i].to] < depth[h]

Depth == CHOOSE depth : Falls(depth)

(* The depths of the texts can be named.                                   *)
LEMMA DepthFalls == Falls(Depth)
<1>1. \E depth : Falls(depth)
  BY EntityAssumption DEF EntityAssumption, Falls
<1>. QED BY <1>1 DEF Depth

(* What is known of a token.                                               *)
LEMMA Texts ==
    ASSUME NEW h \in Parsers
    PROVE  /\ Text[h] \in Seq(Tokens) /\ Len(Text[h]) \in Nat
           /\ \A i \in 1..Len(Text[h]) :
                /\ Text[h][i] \in Tokens
                /\ Text[h][i].kind \in Kinds /\ Text[h][i].name \in Names
                /\ Text[h][i].value \in Values /\ Text[h][i].to \in Parsers
<1>1. Text[h] \in Seq(Tokens)
  BY EntityAssumption DEF EntityAssumption
<1>2. \A i \in 1..Len(Text[h]) : Text[h][i] \in Tokens
  BY <1>1
<1>3. \A t \in Tokens : /\ t.kind \in Kinds /\ t.name \in Names
                          /\ t.value \in Values /\ t.to \in Parsers
  BY DEF Tokens
<1>. QED BY <1>1, <1>2, <1>3

(* A text is of the kind its references are for.                           *)
LEMMA Nested ==
    ASSUME NEW h \in Parsers, NEW i \in 1..Len(Text[h]),
           Text[h][i].kind \in References,
           NEW j \in 1..Len(Text[Text[h][i].to])
    PROVE  Text[Text[h][i].to][j].kind \in Within(Text[h][i].kind)
<1>1. PICK depth \in [Parsers -> 0..Cardinality(Parsers)] :
        \A g \in Parsers : \A k \in 1..Len(Text[g]) :
          Text[g][k].kind \in References =>
            \A l \in 1..Len(Text[Text[g][k].to]) :
              Text[Text[g][k].to][l].kind \in Within(Text[g][k].kind)
  BY EntityAssumption DEF EntityAssumption
<1>. QED BY <1>1

(* There is a longest text.                                                *)
LEMMA Bounded == \E m \in Nat : \A h \in Parsers : Len(Text[h]) < m
<1>. DEFINE Has(U) == \E m \in Nat : \A h \in U : Len(Text[h]) < m
            S == {n \in Nat : \A U \in SUBSET Parsers :
                    IsFiniteSet(U) /\ Cardinality(U) = n => Has(U)}
<1>1. 0 \in S
  <2>1. \A U \in SUBSET Parsers : IsFiniteSet(U) /\ Cardinality(U) = 0 => Has(U)
    BY FS_EmptySet
  <2>. QED BY <2>1
<1>2. ASSUME NEW n \in Nat, n \in S
      PROVE  n + 1 \in S
  <2>1. ASSUME NEW U \in SUBSET Parsers, IsFiniteSet(U), Cardinality(U) = n + 1
        PROVE  Has(U)
    <3>1. PICK x \in U : TRUE
      BY <2>1, FS_EmptySet
    <3>2. IsFiniteSet(U \ {x}) /\ Cardinality(U \ {x}) = n
      BY <2>1, <3>1, FS_RemoveElement
    <3>3. PICK m \in Nat : \A h \in U \ {x} : Len(Text[h]) < m
      BY <1>2, <3>2
    <3>4. Len(Text[x]) \in Nat /\ \A h \in U : Len(Text[h]) \in Nat
      BY Texts
    <3>5. \A h \in U : Len(Text[h]) < m + Len(Text[x]) + 1
      BY <3>3, <3>4
    <3>6. m + Len(Text[x]) + 1 \in Nat
      BY <3>4
    <3>. QED BY <3>5, <3>6
  <2>. QED BY <2>1
<1>3. Cardinality(Parsers) \in Nat /\ IsFiniteSet(Parsers)
  BY EntityAssumption, FS_CardinalityType DEF EntityAssumption
<1>4. Cardinality(Parsers) \in S
  <2>. HIDE DEF S
  <2>. QED BY <1>1, <1>2, <1>3, Induction
<1>. QED BY <1>3, <1>4
-----------------------------------------------------------------------------
(* Places of texts have ranks, lower before and lower in a part.           *)
Unit == CHOOSE m \in Nat : \A h \in Parsers : Len(Text[h]) < m
Rank == [p \in Places |-> Depth[p[1]] * Unit + p[2]]

(* A place is a text and a number of its tokens.                           *)
LEMMA PlaceOf ==
    /\ \A h \in Parsers : \A n \in 0..Len(Text[h]) : <<h, n>> \in Places
    /\ \A p \in Places : /\ p[1] \in Parsers /\ p[2] \in 0..Len(Text[p[1]])
                         /\ p = <<p[1], p[2]>>
BY DEF Places

(* Every text is shorter than the unit of the ranks.                       *)
LEMMA UnitBounds == Unit \in Nat /\ \A h \in Parsers : Len(Text[h]) < Unit
BY Bounded DEF Unit

(* A larger factor leaves room for the other.                              *)
LEMMA Product ==
    ASSUME NEW a \in Nat, NEW b \in Nat, NEW m \in Nat, a < b
    PROVE  a * m + m <= b * m /\ a * m \in Nat /\ b * m \in Nat
<1>1. PICK c \in Nat : b = a + 1 + c
  <2>1. b - a - 1 \in Nat /\ b = a + 1 + (b - a - 1)
    OBVIOUS
  <2>. QED BY <2>1
<1>2. b * m = a * m + m + c * m
  BY <1>1
<1>3. c * m \in Nat /\ a * m \in Nat /\ b * m \in Nat
  BY <1>1
<1>. QED BY <1>2, <1>3

(* Ranks are bounded; the places an equation uses have lower ranks.        *)
LEMMA Ranks ==
    /\ Rank \in [Places -> Nat]
    /\ \E D \in Nat : \A p \in Places : Rank[p] < D
    /\ \A p \in Places : p[2] # 0 =>
         LET t == Text[p[1]][p[2]] IN
         /\ <<p[1], p[2] - 1>> \in Places
         /\ Rank[<<p[1], p[2] - 1>>] < Rank[p]
         /\ t.kind \in References =>
              /\ <<t.to, Len(Text[t.to])>> \in Places
              /\ Rank[<<t.to, Len(Text[t.to])>>] < Rank[p]
<1>1. /\ Cardinality(Parsers) \in Nat
      /\ \A h \in Parsers : Depth[h] \in Nat /\ Depth[h] <= Cardinality(Parsers)
  BY EntityAssumption, FS_CardinalityType, DepthFalls DEF EntityAssumption, Falls
<1>2. \A p \in Places : /\ Rank[p] = Depth[p[1]] * Unit + p[2]
                        /\ p[2] \in Nat /\ p[2] < Unit
                        /\ p[1] \in Parsers
                        /\ Depth[p[1]] * Unit \in Nat
  <2>. TAKE p \in Places
  <2>1. p[1] \in Parsers /\ p[2] \in 0..Len(Text[p[1]])
    BY PlaceOf
  <2>2. Len(Text[p[1]]) \in Nat /\ Len(Text[p[1]]) < Unit /\ Unit \in Nat
    BY <2>1, UnitBounds, Texts
  <2>3. Depth[p[1]] * Unit \in Nat
    BY <1>1, <2>1, <2>2
  <2>. QED BY <2>1, <2>2, <2>3 DEF Rank
<1>3. Rank \in [Places -> Nat]
  BY <1>2 DEF Rank
<1>4. \E D \in Nat : \A p \in Places : Rank[p] < D
  <2>. DEFINE D == Cardinality(Parsers) * Unit + Unit + Unit
  <2>1. Unit \in Nat /\ Cardinality(Parsers) * Unit \in Nat
    BY <1>1, UnitBounds
  <2>2. ASSUME NEW p \in Places
        PROVE  Rank[p] < D
    <3>1. Depth[p[1]] \in Nat /\ Depth[p[1]] < Cardinality(Parsers) + 1
      BY <1>1, <1>2
    <3>2. Depth[p[1]] * Unit + Unit <= (Cardinality(Parsers) + 1) * Unit
      BY <1>1, <2>1, <3>1, Product
    <3>3. (Cardinality(Parsers) + 1) * Unit = Cardinality(Parsers) * Unit + Unit
      BY <1>1, <2>1
    <3>. QED BY <1>2, <2>1, <3>2, <3>3
  <2>3. D \in Nat
    BY <2>1
  <2>. HIDE DEF D
  <2>. QED BY <2>2, <2>3
<1>5. ASSUME NEW p \in Places, p[2] # 0
      PROVE  LET t == Text[p[1]][p[2]] IN
             /\ <<p[1], p[2] - 1>> \in Places
             /\ Rank[<<p[1], p[2] - 1>>] < Rank[p]
             /\ t.kind \in References =>
                  /\ <<t.to, Len(Text[t.to])>> \in Places
                  /\ Rank[<<t.to, Len(Text[t.to])>>] < Rank[p]
  <2>. DEFINE t == Text[p[1]][p[2]]
  <2>1. p[1] \in Parsers /\ p[2] \in 1..Len(Text[p[1]]) /\ Len(Text[p[1]]) \in Nat
    BY <1>5, PlaceOf, Texts
  <2>2. <<p[1], p[2] - 1>> \in Places
    BY <2>1, PlaceOf
  <2>3. Rank[<<p[1], p[2] - 1>>] < Rank[p]
    BY <1>2, <2>1, <2>2
  <2>4. ASSUME t.kind \in References
        PROVE  /\ <<t.to, Len(Text[t.to])>> \in Places
               /\ Rank[<<t.to, Len(Text[t.to])>>] < Rank[p]
    <3>1. t.to \in Parsers /\ Len(Text[t.to]) \in Nat
      BY <2>1, Texts
    <3>2. <<t.to, Len(Text[t.to])>> \in Places
      BY <3>1, PlaceOf
    <3>3. Depth[t.to] \in Nat /\ Depth[p[1]] \in Nat /\ Depth[t.to] < Depth[p[1]]
      BY <1>1, <2>1, <2>4, <3>1, DepthFalls DEF Falls
    <3>4. Depth[t.to] * Unit + Unit <= Depth[p[1]] * Unit
      BY <3>3, UnitBounds, Product
    <3>. HIDE DEF t
    <3>5. /\ Rank[<<t.to, Len(Text[t.to])>>] = Depth[t.to] * Unit + Len(Text[t.to])
          /\ Len(Text[t.to]) < Unit /\ Depth[t.to] * Unit \in Nat
      BY <1>2, <3>2
    <3>6. Unit \in Nat
      BY UnitBounds
    <3>. QED BY <1>2, <3>1, <3>2, <3>4, <3>5, <3>6
  <2>. QED BY <2>2, <2>3, <2>4
<1>. QED BY <1>3, <1>4, <1>5
-----------------------------------------------------------------------------
(* What the recursive definitions say, for every text.                     *)

(* The right-hand sides of their equations.                                *)
WeightFrom(f, p) ==
    IF p[2] = 0 THEN 0
    ELSE LET t == Text[p[1]][p[2]] IN
         f[<<p[1], p[2] - 1>>] + 1
         + CASE t.kind \in References -> f[<<t.to, Len(Text[t.to])>>]
             [] t.kind = "use" -> 1
             [] OTHER -> 0

DeclaredFrom(f, p) ==
    IF p[2] = 0 THEN NoBindings
    ELSE LET t == Text[p[1]][p[2]]
             before == f[<<p[1], p[2] - 1>>]
         IN CASE t.kind = "entity" -> Bind(before, t.name, t.value)
              [] t.kind = "literal" -> Bind(before, t.name, t.to)
              [] t.kind = "subset" ->
                   Merge(before, f[<<t.to, Len(Text[t.to])>>])
              [] OTHER -> before

(* Tables.                                                                 *)
LEMMA TablesClosed ==
    /\ NoBindings \in Tables
    /\ \A t, u \in Tables : Merge(t, u) \in Tables
    /\ \A t \in Tables, n \in Names, v \in Values : Bind(t, n, v) \in Tables
BY DEF NoBindings, Tables, Merge, Bind

(* An equation of Weight uses lower ranks only.                            *)
LEMMA WeightLocal ==
    ASSUME NEW f \in [Places -> Nat], NEW g \in [Places -> Nat], NEW p \in Places,
           \A q \in Places : Rank[q] < Rank[p] => f[q] = g[q]
    PROVE  WeightFrom(f, p) = WeightFrom(g, p) /\ WeightFrom(f, p) \in Nat
<1>1. CASE p[2] = 0
  BY <1>1 DEF WeightFrom
<1>2. CASE p[2] # 0
  <2>. DEFINE t == Text[p[1]][p[2]]
              a == <<p[1], p[2] - 1>>
              b == <<t.to, Len(Text[t.to])>>
  <2>1. a \in Places /\ Rank[a] < Rank[p]
    BY <1>2, Ranks
  <2>2. t.kind \in References => b \in Places /\ Rank[b] < Rank[p]
    BY <1>2, Ranks
  <2>3. f[a] = g[a] /\ f[a] \in Nat
    BY <2>1
  <2>4. t.kind \in References => f[b] = g[b] /\ f[b] \in Nat
    BY <2>2
  <2>. HIDE DEF a, b, t
  <2>5. \A e : WeightFrom(e, p) =
                 e[a] + 1 + (IF t.kind \in References THEN e[b]
                             ELSE IF t.kind = "use" THEN 1 ELSE 0)
    BY <1>2 DEF WeightFrom, a, b, t, References
  <2>. QED BY <2>3, <2>4, <2>5
<1>. QED BY <1>1, <1>2

(* Its equations have a solution.                                          *)
LEMMA WeightExists == \E f \in [Places -> Nat] :
                        f = [p \in Places |-> WeightFrom(f, p)]
<1>. DEFINE E == [f \in [Places -> Nat] |-> [p \in Places |-> WeightFrom(f, p)]]
<1>1. E \in [[Places -> Nat] -> [Places -> Nat]]
  BY WeightLocal
<1>2. \A f, g \in [Places -> Nat] : \A p \in Places :
         (\A q \in Places : Rank[q] < Rank[p] => f[q] = g[q])
         => E[f][p] = E[g][p]
  BY WeightLocal
<1>3. \A f \in [Places -> Nat] : E[f] = [p \in Places |-> WeightFrom(f, p)]
  OBVIOUS
<1>. HIDE DEF E
<1>5. \E f \in [Places -> Nat] : f = E[f]
  <2>1. Descends(Places, Nat, Rank, E)
    BY <1>1, <1>2, Ranks DEF Descends
  <2>. QED BY <2>1, Recursion
<1>. QED BY <1>3, <1>5

(* Weight is one.                                                          *)
LEMMA WeightEquation ==
    /\ Weight = [p \in Places |-> WeightFrom(Weight, p)]
    /\ \A p \in Places : Weight[p] \in Nat
<1>1. Weight = [p \in Places |-> WeightFrom(Weight, p)]
  <2>1. \E f : f = [p \in Places |-> WeightFrom(f, p)]
    BY WeightExists
  <2>. QED BY <2>1, Zenon DEF Weight, WeightFrom
<1>2. ASSUME NEW p \in Places,
             \A q \in Places : Rank[q] < Rank[p] => Weight[q] \in Nat
      PROVE  Weight[p] \in Nat
  <2>. DEFINE f == [q \in Places |-> IF Rank[q] < Rank[p] THEN Weight[q] ELSE 0]
  <2>1. f \in [Places -> Nat]
    BY <1>2
  <2>2. CASE p[2] = 0
    BY <1>1, <2>2 DEF WeightFrom
  <2>3. CASE p[2] # 0
    <3>. DEFINE t == Text[p[1]][p[2]]
                a == <<p[1], p[2] - 1>>
                b == <<t.to, Len(Text[t.to])>>
    <3>1. a \in Places /\ Rank[a] < Rank[p]
      BY <2>3, Ranks
    <3>2. t.kind \in References => b \in Places /\ Rank[b] < Rank[p]
      BY <2>3, Ranks
    <3>3. Weight[a] \in Nat
      BY <1>2, <3>1
    <3>4. t.kind \in References => Weight[b] \in Nat
      BY <1>2, <3>2
    <3>. HIDE DEF a, b, t
    <3>5. WeightFrom(Weight, p) =
            Weight[a] + 1 + (IF t.kind \in References THEN Weight[b]
                             ELSE IF t.kind = "use" THEN 1 ELSE 0)
      BY <2>3 DEF WeightFrom, a, b, t, References
    <3>6. Weight[p] = WeightFrom(Weight, p)
      BY <1>1
    <3>. QED BY <3>3, <3>4, <3>5, <3>6
  <2>. QED BY <2>2, <2>3
<1>3. \A p \in Places : Weight[p] \in Nat
  <2>. DEFINE S == {p \in Places : Weight[p] \in Nat}
  <2>1. Places \subseteq S
    <3>1. \A p \in Places :
             (\A q \in Places : Rank[q] < Rank[p] => q \in S) => p \in S
      BY <1>2
    <3>2. Rank \in [Places -> Nat]
      BY Ranks
    <3>. HIDE DEF S
    <3>. QED BY <3>1, <3>2, RankInduction
  <2>. QED BY <2>1
<1>. QED BY <1>1, <1>3

(* An equation of Declared uses lower ranks only.                          *)
LEMMA DeclaredLocal ==
    ASSUME NEW f \in [Places -> Tables], NEW g \in [Places -> Tables],
           NEW p \in Places,
           \A q \in Places : Rank[q] < Rank[p] => f[q] = g[q]
    PROVE  DeclaredFrom(f, p) = DeclaredFrom(g, p) /\ DeclaredFrom(f, p) \in Tables
<1>1. CASE p[2] = 0
  BY <1>1, TablesClosed DEF DeclaredFrom
<1>2. CASE p[2] # 0
  <2>. DEFINE t == Text[p[1]][p[2]]
              a == <<p[1], p[2] - 1>>
              b == <<t.to, Len(Text[t.to])>>
  <2>1. a \in Places /\ Rank[a] < Rank[p]
    BY <1>2, Ranks
  <2>2. t.kind = "subset" => b \in Places /\ Rank[b] < Rank[p]
    BY <1>2, Ranks DEF References
  <2>3. f[a] = g[a] /\ f[a] \in Tables
    BY <2>1
  <2>4. t.kind = "subset" => f[b] = g[b] /\ f[b] \in Tables
    BY <2>2
  <2>5. t.name \in Names /\ t.value \in Values /\ t.to \in Values
    <3>1. p[1] \in Parsers /\ p[2] \in 1..Len(Text[p[1]])
      BY <1>2, PlaceOf, Texts
    <3>2. Parsers \subseteq Values
      BY EntityAssumption DEF EntityAssumption
    <3>. QED BY <3>1, <3>2, Texts
  <2>. HIDE DEF a, b, t
  <2>6. \A e : DeclaredFrom(e, p) =
                 IF t.kind = "entity" THEN Bind(e[a], t.name, t.value)
                 ELSE IF t.kind = "literal" THEN Bind(e[a], t.name, t.to)
                 ELSE IF t.kind = "subset" THEN Merge(e[a], e[b]) ELSE e[a]
    BY <1>2 DEF DeclaredFrom, a, b, t
  <2>. QED BY <2>3, <2>4, <2>5, <2>6, TablesClosed
<1>. QED BY <1>1, <1>2

(* Its equations have a solution.                                          *)
LEMMA DeclaredExists == \E f \in [Places -> Tables] :
                          f = [p \in Places |-> DeclaredFrom(f, p)]
<1>. DEFINE E == [f \in [Places -> Tables] |->
                    [p \in Places |-> DeclaredFrom(f, p)]]
<1>1. E \in [[Places -> Tables] -> [Places -> Tables]]
  BY DeclaredLocal
<1>2. \A f, g \in [Places -> Tables] : \A p \in Places :
         (\A q \in Places : Rank[q] < Rank[p] => f[q] = g[q])
         => E[f][p] = E[g][p]
  BY DeclaredLocal
<1>3. \A f \in [Places -> Tables] : E[f] = [p \in Places |-> DeclaredFrom(f, p)]
  OBVIOUS
<1>. HIDE DEF E
<1>5. \E f \in [Places -> Tables] : f = E[f]
  <2>1. Descends(Places, Tables, Rank, E)
    BY <1>1, <1>2, Ranks, TablesClosed DEF Descends
  <2>. QED BY <2>1, Recursion
<1>. QED BY <1>3, <1>5

(* Declared is one.                                                        *)
LEMMA DeclaredEquation ==
    /\ Declared = [p \in Places |-> DeclaredFrom(Declared, p)]
    /\ \A p \in Places : Declared[p] \in Tables
<1>1. Declared = [p \in Places |-> DeclaredFrom(Declared, p)]
  <2>1. \E f : f = [p \in Places |-> DeclaredFrom(f, p)]
    BY DeclaredExists
  <2>. QED BY <2>1, Zenon DEF Declared, DeclaredFrom
<1>2. ASSUME NEW p \in Places,
             \A q \in Places : Rank[q] < Rank[p] => Declared[q] \in Tables
      PROVE  Declared[p] \in Tables
  <2>. DEFINE f == [q \in Places |-> IF Rank[q] < Rank[p] THEN Declared[q]
                                     ELSE NoBindings]
  <2>1. f \in [Places -> Tables]
    BY <1>2, TablesClosed
  <2>2. DeclaredFrom(f, p) \in Tables
    <3>. HIDE DEF f
    <3>. QED BY <2>1, DeclaredLocal
  <2>3. DeclaredFrom(f, p) = DeclaredFrom(Declared, p)
    <3>1. CASE p[2] = 0
      BY <3>1 DEF DeclaredFrom
    <3>2. CASE p[2] # 0
      <4>. DEFINE t == Text[p[1]][p[2]]
                  a == <<p[1], p[2] - 1>>
                  b == <<t.to, Len(Text[t.to])>>
      <4>1. f[a] = Declared[a]
        BY <3>2, Ranks
      <4>2. t.kind = "subset" => f[b] = Declared[b]
        BY <3>2, Ranks DEF References
      <4>. HIDE DEF a, b, t, f
      <4>3. \A e : DeclaredFrom(e, p) =
                 IF t.kind = "entity" THEN Bind(e[a], t.name, t.value)
                 ELSE IF t.kind = "literal" THEN Bind(e[a], t.name, t.to)
                 ELSE IF t.kind = "subset" THEN Merge(e[a], e[b]) ELSE e[a]
        BY <3>2 DEF DeclaredFrom, a, b, t
      <4>. QED BY <4>1, <4>2, <4>3
    <3>. QED BY <3>1, <3>2
  <2>. HIDE DEF f
  <2>. QED BY <1>1, <2>2, <2>3
<1>3. \A p \in Places : Declared[p] \in Tables
  <2>. DEFINE S == {p \in Places : Declared[p] \in Tables}
  <2>1. Places \subseteq S
    <3>1. \A p \in Places :
             (\A q \in Places : Rank[q] < Rank[p] => q \in S) => p \in S
      BY <1>2
    <3>2. Rank \in [Places -> Nat]
      BY Ranks
    <3>. HIDE DEF S
    <3>. QED BY <3>1, <3>2, RankInduction
  <2>. QED BY <2>1
<1>. QED BY <1>1, <1>3
-----------------------------------------------------------------------------
(* The inductive invariant: what has been counted before a token.          *)

(* How many of the first n tokens of h are of these kinds.                 *)
Number(h, kinds, n) == Cardinality({i \in 1..n : Text[h][i].kind \in kinds})

(* The callbacks of the first n tokens of h, with rep or without reports   *)
(* of declarations; their uses; the bytes of their references.             *)
Calls(rep, h, n) ==
    Number(h, References, n)
    + IF rep THEN Number(h, {"entity", "literal"}, n) ELSE 0
Uses(h, n) == Number(h, {"use"}, n)
Parts(h, n) == Weight[<<h, n>>] - n - Uses(h, n)

Refers(h, i) == Text[h][i].kind \in References
Ordinal(rep, h, i) == Calls(rep, h, i - 1) + 1

(* The bindings in sight after n tokens, and those of them that the part   *)
(* at token i has added.                                                   *)
Base(h, r, n) == Merge(r.inherited, Declared[<<h, n>>])
Own(h, r, i) ==
    LET part == Text[h][i].to IN
    [n \in Names |-> IF Base(h, r, i - 1)[n] = Unbound
                     THEN Declared[<<part, Len(Text[part])>>][n] ELSE Unbound]

-----------------------------------------------------------------------------
(* A parser by itself.  Its asked references are a, and the callbacks up   *)
(* to token e were delivered before this pass.                             *)

Reads(r) == IF r.role = "literal" THEN 0 ELSE r.direct
Live(r) == ~r.failed /\ (r.pc # "idle" \/ r.status # "FINISHED")
HasGiven(r) == r.childParses > r.before

(* The token up to which references have been asked.                       *)
Reach(r, e) ==
    IF r.pc = "callback" THEN r.at
    ELSE IF r.pc = "pass" /\ r.at > e THEN r.at - 1 ELSE e

Increasing(a) ==
    \A i, j \in DOMAIN a : i < j => a[i].token < a[j].token

(* The bytes of the references asked.                                      *)
Total(h, a) == IF a = <<>> THEN 0 ELSE Parts(h, a[Len(a)].token)

(* The references asked are those of the text, one after the other.        *)
AskedAre(rep, h, a) ==
    \A j \in DOMAIN a :
        /\ Refers(h, a[j].token)
        /\ a[j].ordinal = Ordinal(rep, h, a[j].token)
        /\ Parts(h, a[j].token - 1) =
             IF j = 1 THEN 0 ELSE Parts(h, a[j - 1].token)

AskedUpTo(h, a, m) ==
    /\ \A j \in DOMAIN a : a[j].token <= m
    /\ Parts(h, m) = Total(h, a)

(* What was kept of the answer to reference i.                             *)
Kept(rep, h, r, i) ==
    LET k == Ordinal(rep, h, i) IN
    /\ r.contexts[k] = IF Text[h][i].kind = "subset" THEN Own(h, r, i)
                       ELSE NoBindings
    /\ Text[h][i].kind = "subset" => r.counts[k] = RefWeight(h, i)
    /\ Text[h][i].kind = "literal" => r.texts[k] = Text[h][i].to

KeptUpTo(rep, h, r, m) == \A i \in 1..m : Refers(h, i) => Kept(rep, h, r, i)

(* Inside a call, whatever the application does.                           *)
StatusOf(stop) ==
    CASE stop = "no" -> "PARSING" [] stop = "suspend" -> "SUSPENDED"
      [] stop = "abort" -> "FINISHED"

InCall(rep, h, r) ==
    /\ ~r.failed /\ r.status = StatusOf(r.stop)
    /\ r.extent = Reads(r) /\ r.at <= r.extent + 1
    /\ r.suppress = r.delivered /\ r.expanded <= r.at - 1
    /\ r.pc = "pass" =>
         /\ r.sequence = Calls(rep, h, r.at - 1)
         /\ r.stop = "suspend" => /\ r.lastSuspend = r.sequence
                                  /\ r.suppress <= r.sequence
    /\ r.pc = "callback" =>
         /\ r.at <= r.extent /\ Refers(h, r.at)
         /\ r.sequence = Ordinal(rep, h, r.at) /\ r.active = r.sequence
         /\ r.suppress < r.sequence

Steady(rep, h, r, a) ==
    /\ r \in Records(h)
    /\ a \in Seq([token : 1..Len(Text[h]), ordinal : Ordinals(h)])
    /\ Increasing(a) /\ AskedAre(rep, h, a)
    /\ r.pc # "idle" => InCall(rep, h, r)
    /\ r.pc # "callback" => r.active = 0
    /\ r.pc = "callback" => a # <<>> /\ a[Len(a)].token = r.at
    /\ r.final => r.direct = Len(Text[h])
    /\ r.role \in {"subset", "literal"} => r.stop # "suspend"
    /\ r.role # "document" /\ r.pc = "idle" /\ ~r.failed =>
         r.status # "SUSPENDED"
    /\ r.status = "none" => r = NoParser(h) /\ a = <<>>

(* What the parser knows of its parts, when none is finished by a call     *)
(* without text.                                                           *)
Faithful == "finishes_empty" \notin App

Knows(rep, h, r, a) ==
    /\ ~r.failed => r.external = IF r.pc = "callback" /\ ~HasGiven(r)
                                 THEN Parts(h, r.at - 1) ELSE Total(h, a)
    /\ r.pc = "pass" => r.table = Base(h, r, r.at - 1)
    /\ r.pc = "callback" =>
         /\ r.table = IF HasGiven(r) /\ Text[h][r.at].kind = "subset"
                      THEN Base(h, r, r.at) ELSE Base(h, r, r.at - 1)
         /\ IF HasGiven(r)
            THEN Kept(rep, h, [r EXCEPT !.counts[r.active] = RefWeight(h, r.at)],
                      r.at)
            ELSE r.contexts[r.active] = NoBindings
    /\ h # Root /\ r.pc # "idle" =>
         /\ r.expanded = Uses(h, r.at - 1)
         /\ r.final => r.len > 0

LocalAt(rep, h, r, a, e) ==
    /\ r.delivered = Calls(rep, h, e)
    /\ r.pc = "callback" => e < r.at
    /\ AskedUpTo(h, a, Reach(r, e))
    /\ Faithful => KeptUpTo(rep, h, r, IF r.pc = "callback" THEN r.at - 1
                                       ELSE Reach(r, e))

Local(rep, h, r, a) ==
    /\ Steady(rep, h, r, a)
    /\ Faithful => Knows(rep, h, r, a)
    /\ Live(r) => \E e \in 0..Reads(r) : LocalAt(rep, h, r, a, e)

-----------------------------------------------------------------------------
(* The parsers together: those that wait in a callback form a stack.       *)
Active(h) == parser[h].status # "none"
Waits(h) == parser[h].pc = "callback"

(* A child is the part its waiting parent refers to.                       *)
Children ==
    /\ Active(Root) /\ parser[Root].role = "document"
    /\ \A h \in Parsers \ {Root} : Active(h) =>
         LET p == parser[h].parent IN
         /\ p \in Parsers /\ Waits(p) /\ Child(p) = h
         /\ Depth[h] < Depth[Root] /\ parser[h].role = Token(p).kind

(* Who is above waits, and its child is above or is the other.             *)
Stacked ==
    \A h, p \in Parsers : Active(h) /\ Waits(p) /\ h # p =>
        IF Depth[h] > Depth[p] THEN Waits(h) /\ Depth[Child(h)] >= Depth[p]
        ELSE Depth[h] <= Depth[Child(p)]

(* Nobody waits below a parser whose child is not there.                   *)
Lowest ==
    \A p, q \in Parsers : Waits(p) /\ ~Active(Child(p)) /\ Waits(q) =>
        Depth[p] <= Depth[q]

(* What has gone from child c to its parent r.                             *)
Done(c) == c.pc = "idle" /\ c.status = "FINISHED" /\ ~c.failed
Link(h, r, c) ==
    /\ r.childParses = r.before + (IF Done(c) THEN 1 ELSE 0)
    /\ Done(c) => r.lastChild = RefWeight(h, r.at)
    /\ c.status # "none" => c.inherited = Base(h, r, r.at - 1)
Linked ==
    \A h \in Parsers : Waits(h) => Link(h, parser[h], parser[Child(h)])

IInv ==
    /\ reportsDeclarations \in BOOLEAN
    /\ DOMAIN parser = Parsers /\ DOMAIN asked = Parsers
    /\ \A h \in Parsers : Local(reportsDeclarations, h, parser[h], asked[h])
    /\ Children /\ Stacked /\ Lowest
    /\ Faithful => Linked

(* A number counts one token after the other.                              *)
Bounds(h, kinds) == \A n \in Nat : Number(h, kinds, n) \in 0..n
Steps(h, kinds) ==
    \A n \in Nat : Number(h, kinds, n + 1) =
                     Number(h, kinds, n)
                     + IF Text[h][n + 1].kind \in kinds THEN 1 ELSE 0
Grows(h, kinds) ==
    \A n \in Nat : \A m \in 0..n : Number(h, kinds, m) <= Number(h, kinds, n)

(* It does so for every kind of token.                                     *)
LEMMA NumberFacts ==
    ASSUME NEW h \in Parsers, NEW kinds
    PROVE  Bounds(h, kinds) /\ Steps(h, kinds) /\ Grows(h, kinds)
<1>. DEFINE F(n) == {i \in 1..n : Text[h][i].kind \in kinds}
<1>1. \A n \in Nat : IsFiniteSet(1..n) /\ Cardinality(1..n) = n
  BY FS_Interval
<1>2. \A n \in Nat : F(n) \subseteq 1..n
  OBVIOUS
<1>3. ASSUME NEW n \in Nat
      PROVE  /\ IsFiniteSet(F(n)) /\ Cardinality(F(n)) \in Nat
             /\ Cardinality(F(n)) <= n
  <2>. HIDE DEF F
  <2>. QED BY <1>1, <1>2, FS_Subset, FS_CardinalityType
<1>5. ASSUME NEW n \in Nat
      PROVE  Number(h, kinds, n + 1) =
               Number(h, kinds, n)
               + IF Text[h][n + 1].kind \in kinds THEN 1 ELSE 0
  <2>1. CASE Text[h][n + 1].kind \in kinds
    <3>1. F(n + 1) = F(n) \cup {n + 1} /\ n + 1 \notin F(n)
      BY <2>1
    <3>2. Cardinality(F(n + 1)) = Cardinality(F(n)) + 1
      <4>. HIDE DEF F
      <4>. QED BY <1>3, <3>1, FS_AddElement
    <3>. QED BY <2>1, <3>2 DEF Number
  <2>2. CASE Text[h][n + 1].kind \notin kinds
    <3>1. F(n + 1) = F(n)
      BY <2>2
    <3>2. Cardinality(F(n)) \in Nat
      BY <1>3
    <3>3. Number(h, kinds, n + 1) = Cardinality(F(n + 1))
          /\ Number(h, kinds, n) = Cardinality(F(n))
      BY DEF Number
    <3>. HIDE DEF F
    <3>. QED BY <2>2, <3>1, <3>2, <3>3
  <2>. QED BY <2>1, <2>2
<1>6. ASSUME NEW n \in Nat, NEW m \in 0..n
      PROVE  Number(h, kinds, m) <= Number(h, kinds, n)
  <2>1. F(m) \subseteq F(n)
    OBVIOUS
  <2>2. Cardinality(F(m)) <= Cardinality(F(n))
    <3>. HIDE DEF F
    <3>. QED BY <1>3, <2>1, FS_Subset
  <2>. QED BY <2>2 DEF Number
<1>7. \A n \in Nat : Number(h, kinds, n) \in 0..n
  BY <1>3 DEF Number
<1>. QED BY <1>5, <1>6, <1>7 DEF Bounds, Steps, Grows

(* The callbacks a token makes.                                            *)
CallsOf(rep, h, i) ==
    (IF Refers(h, i) THEN 1 ELSE 0)
    + (IF rep /\ Text[h][i].kind \in {"entity", "literal"} THEN 1 ELSE 0)

(* How the number of callbacks grows, whatever the number of tokens.       *)
LEMMA CallsFacts ==
    ASSUME NEW h \in Parsers, NEW rep \in BOOLEAN
    PROVE  \A n \in Nat :
             /\ Calls(rep, h, n) \in 0..2 * n
             /\ Calls(rep, h, n + 1) = Calls(rep, h, n) + CallsOf(rep, h, n + 1)
             /\ \A m \in 0..n : Calls(rep, h, m) <= Calls(rep, h, n)
<1>. DEFINE R(n) == Number(h, References, n)
            D(n) == Number(h, {"entity", "literal"}, n)
<1>1. \A n \in Nat : R(n) \in 0..n /\ D(n) \in 0..n
  BY NumberFacts DEF Bounds
<1>2. \A n \in Nat : \A m \in 0..n : R(m) <= R(n) /\ D(m) <= D(n)
  BY NumberFacts DEF Grows
<1>3. ASSUME NEW n \in Nat
      PROVE  /\ R(n + 1) = R(n) + (IF Refers(h, n + 1) THEN 1 ELSE 0)
             /\ D(n + 1) = D(n) + (IF Text[h][n + 1].kind \in {"entity", "literal"}
                                   THEN 1 ELSE 0)
  BY NumberFacts DEF Steps, Refers
<1>4. \A n : Calls(rep, h, n) = R(n) + IF rep THEN D(n) ELSE 0
  BY DEF Calls
<1>. HIDE DEF R, D
<1>5. ASSUME NEW n \in Nat
      PROVE  Calls(rep, h, n) \in 0..2 * n
  BY <1>1, <1>4
<1>6. ASSUME NEW n \in Nat
      PROVE  Calls(rep, h, n + 1) = Calls(rep, h, n) + CallsOf(rep, h, n + 1)
  <2>1. /\ R(n) \in Nat /\ D(n) \in Nat
        /\ Calls(rep, h, n) = R(n) + IF rep THEN D(n) ELSE 0
        /\ Calls(rep, h, n + 1) = R(n + 1) + IF rep THEN D(n + 1) ELSE 0
    BY <1>1, <1>4
  <2>. QED BY <1>3, <2>1 DEF CallsOf
<1>7. ASSUME NEW n \in Nat, NEW m \in 0..n
      PROVE  Calls(rep, h, m) <= Calls(rep, h, n)
  <2>1. /\ R(n) \in Nat /\ D(n) \in Nat /\ R(m) \in Nat /\ D(m) \in Nat
        /\ R(m) <= R(n) /\ D(m) <= D(n)
        /\ Calls(rep, h, n) = R(n) + IF rep THEN D(n) ELSE 0
        /\ Calls(rep, h, m) = R(m) + IF rep THEN D(m) ELSE 0
    BY <1>1, <1>2, <1>4
  <2>. QED BY <2>1
<1>. QED BY <1>5, <1>6, <1>7

(* The same, for a token of the text.                                      *)
LEMMA CallsStep ==
    ASSUME NEW h \in Parsers, NEW rep \in BOOLEAN, NEW i \in 1..Len(Text[h])
    PROVE  /\ Calls(rep, h, i) = Calls(rep, h, i - 1) + CallsOf(rep, h, i)
           /\ CallsOf(rep, h, i) \in 0..2
           /\ Calls(rep, h, i - 1) \in Nat /\ Calls(rep, h, i) \in Nat
           /\ Refers(h, i) => /\ Ordinal(rep, h, i) \in Ordinals(h)
                              /\ Ordinal(rep, h, i) <= Calls(rep, h, i)
                              /\ CallsOf(rep, h, i) >= 1
<1>1. i \in Nat /\ i - 1 \in Nat /\ i = (i - 1) + 1 /\ i <= Len(Text[h])
      /\ Len(Text[h]) \in Nat
  BY Texts
<1>2. Calls(rep, h, i) = Calls(rep, h, i - 1) + CallsOf(rep, h, i)
  BY <1>1, CallsFacts
<1>3. Calls(rep, h, i - 1) \in 0..2 * (i - 1) /\ Calls(rep, h, i) \in 0..2 * i
  BY <1>1, CallsFacts
<1>4. CallsOf(rep, h, i) \in 0..2 /\ (Refers(h, i) => CallsOf(rep, h, i) >= 1)
  BY DEF CallsOf
<1>. QED BY <1>1, <1>2, <1>3, <1>4 DEF Ordinal, Ordinals

(* A reference before another has a smaller ordinal.                       *)
LEMMA OrdinalsGrow ==
    ASSUME NEW h \in Parsers, NEW rep \in BOOLEAN, NEW n \in Nat, NEW m \in Nat,
           m <= n
    PROVE  Calls(rep, h, m) <= Calls(rep, h, n)
BY CallsFacts

(* What a token adds to the weight of its text.                            *)
LEMMA WeightStep ==
    ASSUME NEW h \in Parsers
    PROVE  /\ Weight[<<h, 0>>] = 0
           /\ \A n \in 0..Len(Text[h]) : Weight[<<h, n>>] \in Nat
           /\ \A i \in 1..Len(Text[h]) :
                /\ Refers(h, i) => RefWeight(h, i) \in Nat
                /\ Weight[<<h, i>>] = Weight[<<h, i - 1>>] + 1
                     + (IF Refers(h, i) THEN RefWeight(h, i)
                        ELSE IF Text[h][i].kind = "use" THEN 1 ELSE 0)
<1>1. \A n \in 0..Len(Text[h]) : /\ <<h, n>> \in Places
                                 /\ Weight[<<h, n>>] \in Nat
                                 /\ Weight[<<h, n>>] = WeightFrom(Weight, <<h, n>>)
  BY PlaceOf, WeightEquation
<1>2. Len(Text[h]) \in Nat
  BY Texts
<1>3. Weight[<<h, 0>>] = 0
  <2>1. <<h, 0>>[2] = 0 /\ 0 \in 0..Len(Text[h])
    BY <1>2
  <2>. QED BY <1>1, <2>1 DEF WeightFrom
<1>4. ASSUME NEW i \in 1..Len(Text[h])
      PROVE  /\ Refers(h, i) => RefWeight(h, i) \in Nat
             /\ Weight[<<h, i>>] = Weight[<<h, i - 1>>] + 1
                     + (IF Refers(h, i) THEN RefWeight(h, i)
                        ELSE IF Text[h][i].kind = "use" THEN 1 ELSE 0)
  <2>1. <<h, i>>[1] = h /\ <<h, i>>[2] = i /\ i # 0 /\ i \in 0..Len(Text[h])
    BY <1>2
  <2>2. Text[h][i].to \in Parsers
    BY Texts
  <2>3. RefWeight(h, i) \in Nat
    <3>1. <<Text[h][i].to, Len(Text[Text[h][i].to])>> \in Places
      BY <2>2, PlaceOf, Texts
    <3>. QED BY <3>1, WeightEquation DEF RefWeight
  <2>4. WeightFrom(Weight, <<h, i>>) = Weight[<<h, i - 1>>] + 1
                     + (IF Refers(h, i) THEN RefWeight(h, i)
                        ELSE IF Text[h][i].kind = "use" THEN 1 ELSE 0)
    BY <2>1 DEF WeightFrom, RefWeight, Refers, References
  <2>. QED BY <1>1, <2>1, <2>3, <2>4
<1>. QED BY <1>1, <1>3, <1>4

(* Only references add to the bytes of the parts.                          *)
LEMMA PartsStep ==
    ASSUME NEW h \in Parsers
    PROVE  /\ Parts(h, 0) = 0
           /\ \A n \in 0..Len(Text[h]) : Parts(h, n) \in Int
           /\ \A i \in 1..Len(Text[h]) :
                Parts(h, i) = Parts(h, i - 1)
                              + (IF Refers(h, i) THEN RefWeight(h, i) ELSE 0)
<1>1. Len(Text[h]) \in Nat
  BY Texts
<1>0. \A n \in Nat : Uses(h, n) \in 0..n
  BY NumberFacts DEF Bounds, Uses
<1>2. Parts(h, 0) = 0
  BY <1>0, WeightStep DEF Parts
<1>3. ASSUME NEW n \in 0..Len(Text[h])
      PROVE  Weight[<<h, n>>] \in Nat /\ Uses(h, n) \in Nat
  <2>1. Weight[<<h, n>>] \in Nat
    BY WeightStep
  <2>2. n \in Nat
    BY <1>1
  <2>. QED BY <1>0, <2>1, <2>2
<1>4. ASSUME NEW i \in 1..Len(Text[h])
      PROVE  Parts(h, i) = Parts(h, i - 1)
                           + (IF Refers(h, i) THEN RefWeight(h, i) ELSE 0)
  <2>1. Uses(h, i) = Uses(h, i - 1) + (IF Text[h][i].kind = "use" THEN 1 ELSE 0)
    <3>1. i - 1 \in Nat /\ i = (i - 1) + 1
      BY <1>1
    <3>2. \A n \in Nat : Uses(h, n + 1) = Uses(h, n)
                           + (IF Text[h][n + 1].kind = "use" THEN 1 ELSE 0)
      BY NumberFacts DEF Steps, Uses
    <3>3. Uses(h, (i - 1) + 1) = Uses(h, i - 1)
                           + (IF Text[h][(i - 1) + 1].kind = "use" THEN 1 ELSE 0)
      BY <3>1, <3>2
    <3>. QED BY <3>1, <3>3
  <2>2. Text[h][i].kind = "use" => ~Refers(h, i)
    BY DEF Refers, References
  <2>3. Refers(h, i) => RefWeight(h, i) \in Nat
    BY WeightStep
  <2>4. i \in 0..Len(Text[h]) /\ i - 1 \in 0..Len(Text[h])
    BY <1>1
  <2>5. Weight[<<h, i>>] = Weight[<<h, i - 1>>] + 1
                     + (IF Refers(h, i) THEN RefWeight(h, i)
                        ELSE IF Text[h][i].kind = "use" THEN 1 ELSE 0)
    BY WeightStep
  <2>6. Weight[<<h, i - 1>>] \in Nat /\ Uses(h, i - 1) \in Nat /\ i \in Nat
    BY <1>3, <2>4
  <2>7. /\ Parts(h, i) = Weight[<<h, i>>] - i - Uses(h, i)
        /\ Parts(h, i - 1) = Weight[<<h, i - 1>>] - (i - 1) - Uses(h, i - 1)
    BY DEF Parts
  <2>. DEFINE w == Weight[<<h, i>>]  v == Weight[<<h, i - 1>>]
              u == Uses(h, i)  t == Uses(h, i - 1)
              p == Parts(h, i)  o == Parts(h, i - 1)
              x == RefWeight(h, i)
  <2>8. /\ u = t + (IF Text[h][i].kind = "use" THEN 1 ELSE 0)
        /\ Refers(h, i) => x \in Nat
        /\ w = v + 1 + (IF Refers(h, i) THEN x
                        ELSE IF Text[h][i].kind = "use" THEN 1 ELSE 0)
        /\ v \in Nat /\ t \in Nat /\ i \in Nat
        /\ p = w - i - u /\ o = v - (i - 1) - t
    BY <2>1, <2>3, <2>5, <2>6, <2>7
  <2>9. p = o + (IF Refers(h, i) THEN x ELSE 0)
    <3>. HIDE DEF w, v, u, t, p, o, x
    <3>1. CASE Refers(h, i)
      BY <2>2, <2>8, <3>1
    <3>2. CASE ~Refers(h, i)
      BY <2>8, <3>2
    <3>. QED BY <3>1, <3>2
  <2>. QED BY <2>9
<1>5. \A n \in 0..Len(Text[h]) : Parts(h, n) \in Int
  BY <1>1, <1>3 DEF Parts
<1>. QED BY <1>2, <1>4, <1>5

(* What a token declares.                                                  *)
LEMMA DeclaredStep ==
    ASSUME NEW h \in Parsers
    PROVE  /\ Declared[<<h, 0>>] = NoBindings
           /\ \A n \in 0..Len(Text[h]) : Declared[<<h, n>>] \in Tables
           /\ \A i \in 1..Len(Text[h]) :
                LET t == Text[h][i]
                    before == Declared[<<h, i - 1>>]
                IN Declared[<<h, i>>] =
                     IF t.kind = "entity" THEN Bind(before, t.name, t.value)
                     ELSE IF t.kind = "literal" THEN Bind(before, t.name, t.to)
                     ELSE IF t.kind = "subset"
                          THEN Merge(before, Declared[<<t.to, Len(Text[t.to])>>])
                     ELSE before
<1>1. \A n \in 0..Len(Text[h]) :
        /\ <<h, n>> \in Places
        /\ Declared[<<h, n>>] \in Tables
        /\ Declared[<<h, n>>] = DeclaredFrom(Declared, <<h, n>>)
  BY PlaceOf, DeclaredEquation
<1>2. Len(Text[h]) \in Nat
  BY Texts
<1>3. Declared[<<h, 0>>] = NoBindings
  <2>1. <<h, 0>>[2] = 0 /\ 0 \in 0..Len(Text[h])
    BY <1>2
  <2>. QED BY <1>1, <2>1 DEF DeclaredFrom
<1>4. ASSUME NEW i \in 1..Len(Text[h])
      PROVE  LET t == Text[h][i]
                 before == Declared[<<h, i - 1>>]
             IN Declared[<<h, i>>] =
                     IF t.kind = "entity" THEN Bind(before, t.name, t.value)
                     ELSE IF t.kind = "literal" THEN Bind(before, t.name, t.to)
                     ELSE IF t.kind = "subset"
                          THEN Merge(before, Declared[<<t.to, Len(Text[t.to])>>])
                     ELSE before
  <2>1. <<h, i>>[1] = h /\ <<h, i>>[2] = i /\ i # 0 /\ i \in 0..Len(Text[h])
    BY <1>2
  <2>. QED BY <1>1, <2>1 DEF DeclaredFrom
<1>. QED BY <1>1, <1>3, <1>4

-----------------------------------------------------------------------------
(* The bindings in sight, token after token.                               *)

LEMMA TablesDeclared ==
    \A h \in Parsers : \A n \in 0..Len(Text[h]) : Declared[<<h, n>>] \in Tables
BY PlaceOf, DeclaredEquation

(* A part declares what is new in it, after its parent or by itself.       *)
LEMMA BaseStep ==
    ASSUME NEW h \in Parsers, NEW r \in Records(h), NEW i \in 1..Len(Text[h])
    PROVE  /\ Base(h, r, i - 1) \in Tables /\ Base(h, r, i) \in Tables
           /\ Text[h][i].kind = "entity" =>
                Base(h, r, i) =
                  Bind(Base(h, r, i - 1), Text[h][i].name, Text[h][i].value)
           /\ Text[h][i].kind = "literal" =>
                Base(h, r, i) =
                  Bind(Base(h, r, i - 1), Text[h][i].name, Text[h][i].to)
           /\ Text[h][i].kind = "subset" =>
                /\ Own(h, r, i) \in Tables
                /\ Base(h, r, i) = Merge(Base(h, r, i - 1), Own(h, r, i))
           /\ Text[h][i].kind \notin {"entity", "literal", "subset"} =>
                Base(h, r, i) = Base(h, r, i - 1)
<1>. DEFINE t == Text[h][i]
            before == Declared[<<h, i - 1>>]
            part == Declared[<<t.to, Len(Text[t.to])>>]
            after == Declared[<<h, i>>]
<1>1. /\ i - 1 \in 0..Len(Text[h]) /\ i \in 0..Len(Text[h])
      /\ t.to \in Parsers /\ Len(Text[t.to]) \in Nat
      /\ t.name \in Names /\ t.value \in Values /\ t.to \in Values
  <2>1. Parsers \subseteq Values
    BY EntityAssumption DEF EntityAssumption
  <2>2. Len(Text[h]) \in Nat
    BY Texts
  <2>3. t.to \in Parsers /\ t.name \in Names /\ t.value \in Values
    BY Texts
  <2>4. Len(Text[t.to]) \in Nat
    BY <2>3, Texts
  <2>. QED BY <2>1, <2>2, <2>3, <2>4
<1>2. before \in Tables /\ after \in Tables /\ part \in Tables
  BY <1>1, TablesDeclared
<1>3. r.inherited \in Tables
  BY DEF Records
<1>4. after = IF t.kind = "entity" THEN Bind(before, t.name, t.value)
                     ELSE IF t.kind = "literal" THEN Bind(before, t.name, t.to)
                     ELSE IF t.kind = "subset" THEN Merge(before, part)
                     ELSE before
  BY DeclaredStep
<1>5. /\ Base(h, r, i - 1) = Merge(r.inherited, before)
      /\ Base(h, r, i) = Merge(r.inherited, after)
      /\ Own(h, r, i) = [n \in Names |-> IF Base(h, r, i - 1)[n] = Unbound
                                         THEN part[n] ELSE Unbound]
  BY DEF Base, Own
<1>6. Unbound \notin Values
  BY EntityAssumption DEF EntityAssumption
<1>. HIDE DEF t, before, part, after
<1>7. Own(h, r, i) \in Tables
  BY <1>2, <1>5 DEF Tables
<1>8. Base(h, r, i - 1) \in Tables /\ Base(h, r, i) \in Tables
  BY <1>2, <1>3, <1>5, TablesClosed
<1>9. \A v \in Values, n \in Names :
        Merge(r.inherited, Bind(before, n, v)) = Bind(Merge(r.inherited, before), n, v)
  BY <1>2, <1>3 DEF Merge, Bind, Tables
<1>10. Merge(r.inherited, Merge(before, part)) =
         Merge(Merge(r.inherited, before), Own(h, r, i))
  BY <1>2, <1>3, <1>5 DEF Merge, Tables
<1>11. /\ t.kind = "entity" => Base(h, r, i) = Bind(Base(h, r, i - 1), t.name, t.value)
       /\ t.kind = "literal" => Base(h, r, i) = Bind(Base(h, r, i - 1), t.name, t.to)
       /\ t.kind = "subset" => Base(h, r, i) = Merge(Base(h, r, i - 1), Own(h, r, i))
       /\ t.kind \notin {"entity", "literal", "subset"} => Base(h, r, i) = Base(h, r, i - 1)
  BY <1>1, <1>4, <1>5, <1>9, <1>10
<1>. QED BY <1>7, <1>8, <1>11 DEF t

(* What a child keeps and gives, when it has read its text to the end.     *)
LEMMA GivenBase ==
    ASSUME NEW h \in Parsers, NEW r \in Records(h), NEW i \in 1..Len(Text[h]),
           Text[h][i].kind = "subset", NEW c \in Records(Text[h][i].to),
           c.inherited = Base(h, r, i - 1),
           c.table = Base(Text[h][i].to, c, Len(Text[Text[h][i].to]))
    PROVE  /\ Merge(NoBindings, Snapshot(c)) = Own(h, r, i)
           /\ Merge(Base(h, r, i - 1), c.table) = Base(h, r, i)
<1>. DEFINE t == Text[h][i]
            part == Declared[<<t.to, Len(Text[t.to])>>]
<1>1. t.to \in Parsers /\ Len(Text[t.to]) \in Nat
  <2>1. t.to \in Parsers
    BY Texts
  <2>. QED BY <2>1, Texts
<1>2. part \in Tables
  BY <1>1, TablesDeclared
<1>3. Base(h, r, i - 1) \in Tables
  BY BaseStep
<1>4. c.table = Merge(c.inherited, part)
  BY DEF Base
<1>5. Own(h, r, i) = [n \in Names |-> IF Base(h, r, i - 1)[n] = Unbound
                                         THEN part[n] ELSE Unbound]
  BY DEF Own
<1>6. Base(h, r, i) = Merge(Base(h, r, i - 1), Own(h, r, i))
  BY BaseStep
<1>. HIDE DEF part
<1>7. Snapshot(c) = Own(h, r, i)
  BY <1>2, <1>3, <1>4, <1>5 DEF Snapshot, Merge, Tables
<1>8. \A u \in Tables : Merge(NoBindings, u) = u
  BY DEF Merge, NoBindings, Tables
<1>9. Merge(Base(h, r, i - 1), c.table) = Merge(Base(h, r, i - 1), Own(h, r, i))
  BY <1>2, <1>3, <1>4, <1>5 DEF Merge, Tables
<1>10. Own(h, r, i) \in Tables
  BY BaseStep
<1>. QED BY <1>6, <1>7, <1>8, <1>9, <1>10

-----------------------------------------------------------------------------
(* A call by itself: what it makes of a parser.                            *)
LEMMA BaseNothing ==
    ASSUME NEW h \in Parsers, NEW r \in Records(h)
    PROVE  Base(h, r, 0) = r.inherited
<1>1. Declared[<<h, 0>>] = NoBindings
  BY DeclaredStep
<1>2. r.inherited \in Tables
  BY DEF Records
<1>. QED BY <1>1, <1>2 DEF Base, Merge, NoBindings, Tables

(* There is no callback and no use before the first token.                 *)
LEMMA NothingBefore ==
    ASSUME NEW h \in Parsers, NEW rep \in BOOLEAN
    PROVE  Calls(rep, h, 0) = 0 /\ Uses(h, 0) = 0
<1>1. Calls(rep, h, 0) \in 0..2 * 0
  BY CallsFacts
<1>2. Uses(h, 0) \in 0..0
  BY NumberFacts DEF Bounds, Uses
<1>. QED BY <1>1, <1>2

Statuses == {"none", "INITIALIZED", "PARSING", "SUSPENDED", "FINISHED"}

(* Record t is r at the start of a call with n more bytes.                 *)
Started(r, t, n, supplied, final) ==
    /\ t.status = "PARSING" /\ t.stop = "no" /\ t.final = final
    /\ t.len = n /\ t.direct = supplied /\ t.sequence = 0
    /\ t.suppress = r.delivered /\ t.delivered = r.delivered
    /\ t.failed = r.failed /\ t.role = r.role
    /\ t.external = r.external /\ t.inherited = r.inherited
    /\ t.active = r.active /\ t.contexts = r.contexts
    /\ t.counts = r.counts /\ t.texts = r.texts

(* The two ways a call starts.                                             *)
WithBytes(r, n, supplied, final) ==
    PrepareReplay([r EXCEPT !.status = "PARSING", !.stop = "no",
                            !.final = final, !.len = n, !.direct = supplied])
IntoPass(r, q, extent) ==
    [q EXCEPT !.pc = "pass", !.at = 1, !.expanded = 0,
              !.table = r.inherited, !.extent = extent]

Starts(h, r, n, supplied, final, extent) ==
    LET q == WithBytes(r, n, supplied, final)
        p == IntoPass(r, q, extent)
    IN /\ q \in Records(h) /\ Started(r, q, n, supplied, final)
       /\ q.pc = r.pc
       /\ p \in Records(h) /\ Started(r, p, n, supplied, final)
       /\ p.pc = "pass" /\ p.at = 1 /\ p.expanded = 0
       /\ p.table = r.inherited /\ p.extent = extent

(* The fields of either record.                                            *)
LEMMA StartFields ==
    ASSUME NEW h \in Parsers, NEW r \in Records(h), NEW n \in 0..Len(Text[h]),
           NEW supplied \in 0..Len(Text[h]), NEW final \in BOOLEAN,
           NEW extent \in 0..Len(Text[h])
    PROVE  Starts(h, r, n, supplied, final, extent)
<1>. DEFINE s == [r EXCEPT !.status = "PARSING", !.stop = "no",
                              !.final = final, !.len = n, !.direct = supplied]
            q == [s EXCEPT !.sequence = 0, !.suppress = r.delivered]
            p == [q EXCEPT !.pc = "pass", !.at = 1, !.expanded = 0,
                              !.table = r.inherited, !.extent = extent]
<1>0. Len(Text[h]) \in Nat /\ 0 \in 0..2 * Len(Text[h])
      /\ 1 \in 1..Len(Text[h]) + 1 /\ 0 \in 0..Len(Text[h])
  BY Texts
<1>1. r.delivered \in 0..2 * Len(Text[h]) /\ r.inherited \in Tables
  BY DEF Records
<1>2. s.delivered = r.delivered
  BY DEF Records
<1>3. q \in Records(h)
  BY <1>0, <1>1 DEF Records
<1>4. Started(r, q, n, supplied, final) /\ q.pc = r.pc
  BY DEF Records, Started
<1>5. p \in Records(h)
  <2>. HIDE DEF q
  <2>. QED BY <1>0, <1>1, <1>3 DEF Records
<1>6. /\ Started(r, p, n, supplied, final)
      /\ p.pc = "pass" /\ p.at = 1 /\ p.expanded = 0
      /\ p.table = r.inherited /\ p.extent = extent
  <2>. HIDE DEF q
  <2>. QED BY <1>3, <1>4 DEF Records, Started
<1>7. PrepareReplay(s) = q
  BY <1>2 DEF PrepareReplay
<1>. HIDE DEF s, q
<1>. QED BY <1>3, <1>4, <1>5, <1>6, <1>7
     DEF s, WithBytes, IntoPass, Starts

(* What is kept depends on the memory of the answers only.                 *)
SameMemory(r, s) ==
    /\ s.inherited = r.inherited /\ s.contexts = r.contexts
    /\ s.counts = r.counts /\ s.texts = r.texts

(* Records with the same memory have kept the same answers.                *)
LEMMA KeptSame ==
    ASSUME NEW rep, NEW h, NEW r, NEW s, SameMemory(r, s)
    PROVE  /\ \A n : Base(h, s, n) = Base(h, r, n)
           /\ \A i : Own(h, s, i) = Own(h, r, i)
           /\ \A i : Kept(rep, h, s, i) = Kept(rep, h, r, i)
           /\ \A m : KeptUpTo(rep, h, s, m) = KeptUpTo(rep, h, r, m)
<1>1. \A n : Base(h, s, n) = Base(h, r, n)
  BY DEF Base, SameMemory
<1>2. \A i : Own(h, s, i) = Own(h, r, i)
  BY <1>1 DEF Own
<1>3. \A i : Kept(rep, h, s, i) = Kept(rep, h, r, i)
  BY <1>2 DEF Kept, SameMemory
<1>. QED BY <1>1, <1>2, <1>3 DEF KeptUpTo

(* A call that starts keeps what holds of its parser.                      *)
LEMMA StartLocal ==
    ASSUME NEW h \in Parsers, NEW rep \in BOOLEAN, NEW r, NEW a,
           Local(rep, h, r, a), NEW n \in 0..Len(Text[h]), NEW final \in BOOLEAN,
           r.pc = "idle", ~r.failed, r.status \notin {"FINISHED", "none"},
           r.direct + n <= Len(Text[h]), final => r.direct + n = Len(Text[h]),
           Faithful /\ h # Root /\ final => n > 0
    PROVE  Local(rep, h, Start(h, r, n, final), a)
<1>. DEFINE supplied == r.direct + n
            extent == IF r.role = "literal" THEN 0 ELSE supplied
            q == WithBytes(r, n, supplied, final)
            p == IntoPass(r, q, extent)
<1>0. Len(Text[h]) \in Nat
  BY Texts
<1>1. r \in Records(h) /\ r.direct \in 0..Len(Text[h]) /\ r.direct \in Nat
  <2>1. r \in Records(h)
    BY DEF Local, Steady
  <2>2. r.direct \in 0..Len(Text[h])
    BY <2>1 DEF Records
  <2>. QED BY <1>0, <2>1, <2>2
<1>2. supplied \in 0..Len(Text[h]) /\ extent \in 0..Len(Text[h])
      /\ r.direct <= supplied
  BY <1>1, Texts
<1>3. Start(h, r, n, final) = q \/ Start(h, r, n, final) = p
  BY DEF Start, WithBytes, IntoPass
<1>4. /\ q \in Records(h) /\ Started(r, q, n, supplied, final)
      /\ q.pc = r.pc
      /\ p \in Records(h) /\ Started(r, p, n, supplied, final)
      /\ p.pc = "pass" /\ p.at = 1 /\ p.expanded = 0
      /\ p.table = r.inherited /\ p.extent = extent
  <2>. HIDE DEF supplied, extent
  <2>1. Starts(h, r, n, supplied, final, extent)
    BY <1>1, <1>2, StartFields
  <2>. QED BY <2>1 DEF Starts
<1>5. PICK e \in 0..Reads(r) : LocalAt(rep, h, r, a, e)
  BY DEF Local, Live
<1>6. ASSUME NEW t \in {q, p}
      PROVE  Local(rep, h, t, a)
  <2>. HIDE DEF supplied, q, p
  <2>1. /\ t \in Records(h) /\ Started(r, t, n, supplied, final)
        /\ t.pc \in {"idle", "pass"}
        /\ t.pc = "pass" => /\ t.at = 1 /\ t.expanded = 0
                            /\ t.table = r.inherited /\ t.extent = extent
    BY <1>4, <1>6
  <2>2. SameMemory(r, t)
    BY <2>1 DEF Started, SameMemory
  <2>3. Reads(t) = extent /\ e \in 0..Reads(t)
    <3>1. Reads(t) = extent
      BY <2>1 DEF Started, Reads
    <3>2. Reads(r) <= extent
      BY <1>1, <1>2 DEF Reads
    <3>3. extent \in Nat /\ Reads(r) \in Nat
      BY <1>1, <1>2, Texts DEF Reads
    <3>. QED BY <1>5, <3>1, <3>2, <3>3
  <2>4. LocalAt(rep, h, t, a, e)
    <3>1. Reach(r, e) = e
      BY DEF Reach
    <3>2. e \in Nat
      BY <1>1, <1>5 DEF Reads
    <3>3. Reach(t, e) = e
      BY <2>1, <3>2 DEF Reach
    <3>4. t.delivered = r.delivered /\ t.pc # "callback" /\ r.pc # "callback"
      BY <2>1 DEF Started
    <3>5. Faithful => KeptUpTo(rep, h, t, e)
      BY <1>5, <3>1, <2>2, KeptSame DEF LocalAt
    <3>. QED BY <1>5, <3>1, <3>3, <3>4, <3>5 DEF LocalAt
  <2>5. Steady(rep, h, t, a)
    <3>1. t.pc # "idle" => InCall(rep, h, t)
      <4>1. Calls(rep, h, 0) = 0
        BY NothingBefore
      <4>2. ASSUME t.pc = "pass"
            PROVE  InCall(rep, h, t)
        <5>1. t.active = 0
          <6>1. r.active = 0
            BY DEF Local, Steady
          <6>. QED BY <2>1, <6>1 DEF Started
        <5>. QED BY <1>2, <2>1, <2>3, <4>1, <4>2, <5>1, Texts
             DEF InCall, Started, StatusOf
      <4>. QED BY <2>1, <4>2
    <3>2. /\ t.status = "PARSING" /\ t.stop = "no" /\ t.final = final
          /\ t.direct = supplied /\ t.active = r.active
      BY <2>1 DEF Started
    <3>3. supplied = Len(Text[h]) \/ ~final
      BY DEF supplied
    <3>4. Steady(rep, h, r, a)
      BY DEF Local
    <3>. QED BY <2>1, <3>1, <3>2, <3>3, <3>4 DEF Steady
  <2>6. Faithful => Knows(rep, h, t, a)
    <3>. HAVE Faithful
    <3>1. t.external = Total(h, a)
      BY <2>1 DEF Local, Knows, Started
    <3>2. t.pc = "pass" => t.table = Base(h, t, t.at - 1)
      BY <2>1, BaseNothing DEF Started
    <3>3. t.pc = "pass" /\ h # Root => t.expanded = Uses(h, t.at - 1)
                                        /\ (t.final => t.len > 0)
      BY <2>1, NothingBefore DEF Started
    <3>. QED BY <2>1, <3>1, <3>2, <3>3 DEF Knows
  <2>. QED BY <2>3, <2>4, <2>5, <2>6 DEF Local
<1>. QED BY <1>3, <1>6

-----------------------------------------------------------------------------
(* A pass, token after token.                                              *)

History(rep, h, a) ==
    /\ a \in Seq([token : 1..Len(Text[h]), ordinal : Ordinals(h)])
    /\ Increasing(a) /\ AskedAre(rep, h, a)

(* What holds all through a pass.                                          *)
MidPass(rep, h, r, a, e) ==
    /\ r \in Records(h) /\ History(rep, h, a)
    /\ r.pc = "pass" /\ r.active = 0
    /\ ~r.failed /\ r.status = StatusOf(r.stop)
    /\ r.extent = Reads(r) /\ r.suppress = r.delivered
    /\ r.stop = "suspend" => /\ r.lastSuspend = r.sequence
                             /\ r.suppress <= r.sequence
    /\ r.final => r.direct = Len(Text[h])
    /\ r.role \in {"subset", "literal"} => r.stop # "suspend"
    /\ e \in 0..Reads(r) /\ r.delivered = Calls(rep, h, e)
    /\ Faithful => /\ r.external = Total(h, a)
                   /\ h # Root /\ r.final => r.len > 0

(* Between two tokens; due callbacks of the last have not been counted.    *)
Passing(rep, h, r, a, e, due) ==
    /\ MidPass(rep, h, r, a, e)
    /\ r.at <= r.extent + 1 /\ r.expanded <= r.at - 1
    /\ r.sequence + due = Calls(rep, h, r.at - 1)
    /\ AskedUpTo(h, a, IF r.at > e THEN r.at - 1 ELSE e)
    /\ Faithful =>
         /\ KeptUpTo(rep, h, r, IF r.at > e THEN r.at - 1 ELSE e)
         /\ r.table = Base(h, r, r.at - 1)
         /\ h # Root => r.expanded = Uses(h, r.at - 1)

(* The reference at the next token, if it is one, has been answered.       *)
Ready(rep, h, r, a, e) ==
    /\ MidPass(rep, h, r, a, e)
    /\ r.at <= r.extent /\ r.expanded <= r.at
    /\ r.sequence = Calls(rep, h, r.at - 1)
                    + (IF Refers(h, r.at) THEN 1 ELSE 0)
    /\ AskedUpTo(h, a, IF r.at > e THEN r.at ELSE e)
    /\ Faithful =>
         /\ KeptUpTo(rep, h, r, IF r.at > e THEN r.at ELSE e)
         /\ r.table = Base(h, r, IF Text[h][r.at].kind = "subset" THEN r.at
                                 ELSE r.at - 1)
         /\ h # Root => r.expanded = Uses(h, r.at)

(* Between two tokens of a pass, what holds of every parser holds.         *)
LEMMA PassingLocal ==
    ASSUME NEW h \in Parsers, NEW rep \in BOOLEAN, NEW r, NEW a, NEW e,
           Passing(rep, h, r, a, e, 0)
    PROVE  Local(rep, h, r, a)
<1>1. Reach(r, e) = IF r.at > e THEN r.at - 1 ELSE e
  BY DEF Reach, Passing, MidPass
<1>2. r \in Records(h) /\ r.sequence \in Nat
  <2>1. r \in Records(h)
    BY DEF Passing, MidPass
  <2>2. Len(Text[h]) \in Nat /\ r.sequence \in 0..2 * Len(Text[h])
    BY <2>1, Texts DEF Records
  <2>. QED BY <2>1, <2>2
<1>3. Steady(rep, h, r, a)
  <2>1. InCall(rep, h, r)
    BY <1>2 DEF Passing, MidPass, InCall
  <2>2. r.status # "none"
    BY <1>2 DEF Passing, MidPass, StatusOf, Records
  <2>. QED BY <2>1, <2>2 DEF Passing, MidPass, History, Steady
<1>4. Faithful => Knows(rep, h, r, a)
  BY DEF Knows, Passing, MidPass
<1>5. e \in 0..Reads(r) /\ LocalAt(rep, h, r, a, e)
  BY <1>1 DEF LocalAt, Passing, MidPass
<1>. QED BY <1>3, <1>4, <1>5 DEF Local

(* And conversely: a parser in a pass is between two tokens.               *)
LEMMA LocalPassing ==
    ASSUME NEW h \in Parsers, NEW rep \in BOOLEAN, NEW r, NEW a,
           Local(rep, h, r, a), r.pc = "pass"
    PROVE  \E e \in 0..Reads(r) : Passing(rep, h, r, a, e, 0)
<1>1. Steady(rep, h, r, a) /\ InCall(rep, h, r)
  BY DEF Local, Steady
<1>2. PICK e \in 0..Reads(r) : LocalAt(rep, h, r, a, e)
  BY <1>1 DEF Local, Live, InCall
<1>3. Reach(r, e) = IF r.at > e THEN r.at - 1 ELSE e
  BY DEF Reach
<1>4. r \in Records(h) /\ r.sequence \in Nat
  <2>1. r \in Records(h)
    BY <1>1 DEF Steady
  <2>2. Len(Text[h]) \in Nat /\ r.sequence \in 0..2 * Len(Text[h])
    BY <2>1, Texts DEF Records
  <2>. QED BY <2>1, <2>2
<1>5. Faithful => Knows(rep, h, r, a)
  BY DEF Local
<1>6. MidPass(rep, h, r, a, e)
  BY <1>1, <1>2, <1>4, <1>5 DEF MidPass, History, Steady, InCall, LocalAt, Knows
<1>7. Passing(rep, h, r, a, e, 0)
  BY <1>1, <1>2, <1>3, <1>4, <1>5, <1>6 DEF Passing, InCall, LocalAt, Knows
<1>. QED BY <1>7
(* A call that ends for good, and one that ends in an error.               *)
Ended(r, t) ==
    /\ t.pc = "idle" /\ t.active = 0
    /\ t.status = r.status /\ t.stop = r.stop
    /\ t.final = r.final /\ t.direct = r.direct /\ t.role = r.role
    /\ t.external = r.external /\ t.indirect = r.indirect
    /\ t.inherited = r.inherited /\ t.table = r.table
    /\ t.parent = r.parent /\ t.childParses = r.childParses
    /\ t.lastChild = r.lastChild /\ t.before = r.before

(* The fields of a parser whose document has ended.                        *)
LEMMA TerminalFields ==
    ASSUME NEW h \in Parsers, NEW r \in Records(h)
    PROVE  /\ Terminal(h, r) \in Records(h) /\ Ended(r, Terminal(h, r))
           /\ Terminal(h, r).failed = r.failed
           /\ Fail(h, r) \in Records(h) /\ Ended(r, Fail(h, r))
           /\ Fail(h, r).failed
<1>. DEFINE m == NoParser(h)
            t == [r EXCEPT !.pc = "idle", !.active = 0, !.delivered = 0,
                           !.suppress = 0, !.lastSuspend = 0]
            u == [t EXCEPT !.contexts = m.contexts, !.counts = m.counts,
                           !.texts = m.texts]
            f == [u EXCEPT !.failed = TRUE]
<1>1. /\ m.contexts \in [Ordinals(h) -> Tables]
      /\ m.counts \in [Ordinals(h) -> Nat] /\ m.texts \in [Ordinals(h) -> Values]
  <2>1. Empty \in Values /\ NoBindings \in Tables
    BY EntityAssumption, TablesClosed DEF EntityAssumption
  <2>2. /\ m.contexts = [k \in Ordinals(h) |-> NoBindings]
        /\ m.counts = [k \in Ordinals(h) |-> 0]
        /\ m.texts = [k \in Ordinals(h) |-> Empty]
    BY DEF NoParser
  <2>. HIDE DEF m
  <2>. QED BY <2>1, <2>2
<1>2. 0 \in 0..2 * Len(Text[h])
  BY Texts
<1>. HIDE DEF m
<1>3. t \in Records(h)
  BY <1>2 DEF Records
<1>4. Ended(r, t) /\ t.failed = r.failed
  BY DEF Ended, Records
<1>5. u \in Records(h) /\ f \in Records(h)
  <2>. HIDE DEF t
  <2>. QED BY <1>1, <1>3 DEF Records
<1>6. Ended(t, u) /\ u.failed = t.failed /\ u = Terminal(h, r)
  <2>1. u = Terminal(h, r)
    BY DEF Terminal, m
  <2>. HIDE DEF t
  <2>2. t.pc = "idle" /\ t.active = 0
    BY <1>4 DEF Ended
  <2>. QED BY <1>3, <2>1, <2>2 DEF Ended, Records
<1>7. Ended(r, u)
  <2>. HIDE DEF t, u
  <2>. QED BY <1>4, <1>6 DEF Ended
<1>8. Ended(u, f) /\ f.failed /\ f = Fail(h, r)
  <2>1. f = Fail(h, r)
    BY <1>6 DEF Fail
  <2>. HIDE DEF u
  <2>2. u.pc = "idle" /\ u.active = 0
    BY <1>7 DEF Ended
  <2>. QED BY <1>5, <2>1, <2>2 DEF Ended, Records
<1>9. Ended(r, f)
  <2>. HIDE DEF t, u, f
  <2>. QED BY <1>7, <1>8 DEF Ended
<1>. HIDE DEF t, u, f
<1>. QED BY <1>4, <1>5, <1>6, <1>7, <1>8, <1>9

(* A parser that has failed.                                               *)
LEMMA FailLocal ==
    ASSUME NEW h \in Parsers, NEW rep \in BOOLEAN, NEW r \in Records(h), NEW a,
           History(rep, h, a), r.status # "none",
           r.final => r.direct = Len(Text[h]),
           r.role \in {"subset", "literal"} => r.stop # "suspend"
    PROVE  Local(rep, h, Fail(h, r), a)
<1>. DEFINE f == Fail(h, r)
<1>1. f \in Records(h) /\ Ended(r, f) /\ f.failed
  BY TerminalFields
<1>. HIDE DEF f
<1>2. Steady(rep, h, f, a)
  BY <1>1 DEF Steady, History, Ended
<1>3. Knows(rep, h, f, a)
  BY <1>1 DEF Knows, Ended
<1>4. ~Live(f)
  BY <1>1 DEF Live
<1>5. Local(rep, h, f, a)
  BY <1>2, <1>3, <1>4 DEF Local
<1>. QED BY <1>5 DEF f

(* A document that has been suspended between two tokens.                  *)
LEMMA SuspendLocal ==
    ASSUME NEW h \in Parsers, NEW rep \in BOOLEAN, NEW r, NEW a, NEW e,
           Passing(rep, h, r, a, e, 0), r.stop = "suspend", r.role = "document"
    PROVE  Local(rep, h, Suspend(r), a)
<1>. DEFINE t == Suspend(r)
            d == IF r.at > e THEN r.at - 1 ELSE e
<1>0. r \in Records(h) /\ Len(Text[h]) \in Nat
  BY Texts DEF Passing, MidPass
<1>1. /\ t \in Records(h) /\ t.pc = "idle" /\ t.status = "SUSPENDED"
      /\ t.delivered = r.lastSuspend
  BY <1>0 DEF Records, Suspend
<1>2. /\ t.stop = r.stop /\ t.final = r.final /\ t.direct = r.direct
      /\ t.role = r.role /\ t.failed = r.failed /\ t.active = r.active
      /\ t.external = r.external /\ SameMemory(r, t)
  BY <1>0 DEF Records, Suspend, SameMemory
<1>. HIDE DEF t
<1>3. /\ r.at \in 1..Len(Text[h]) + 1 /\ r.extent \in 0..Len(Text[h])
      /\ r.sequence \in Nat
  <2>1. r.sequence \in 0..2 * Len(Text[h])
    BY <1>0 DEF Records
  <2>. QED BY <1>0, <2>1 DEF Records
<1>4. MidPass(rep, h, r, a, e)
  BY DEF Passing
<1>5. /\ r.at <= r.extent + 1 /\ r.sequence + 0 = Calls(rep, h, r.at - 1)
      /\ AskedUpTo(h, a, d) /\ (Faithful => KeptUpTo(rep, h, r, d))
  BY DEF Passing
<1>6. e \in Nat /\ d \in 0..r.extent /\ r.extent = Reads(r) /\ Reads(t) = Reads(r)
      /\ e \in 0..r.extent
  BY <1>0, <1>2, <1>3, <1>4, <1>5 DEF MidPass, Reads
<1>7. t.delivered = Calls(rep, h, d)
  <2>1. t.delivered = r.sequence /\ r.sequence = Calls(rep, h, r.at - 1)
        /\ Calls(rep, h, e) <= r.sequence
    BY <1>1, <1>3, <1>4, <1>5 DEF MidPass
  <2>2. CASE r.at > e
    BY <2>1, <2>2
  <2>3. CASE ~(r.at > e)
    <3>1. r.at - 1 \in 0..e
      BY <1>0, <1>3, <1>6, <2>3
    <3>2. Calls(rep, h, r.at - 1) <= Calls(rep, h, e) /\ Calls(rep, h, e) \in 0..2 * e
      BY <1>6, <3>1, CallsFacts
    <3>3. Calls(rep, h, e) = r.sequence
      BY <1>3, <2>1, <3>2
    <3>. QED BY <2>1, <2>3, <3>3
  <2>. QED BY <2>2, <2>3
<1>8. LocalAt(rep, h, t, a, d)
  <2>1. Reach(t, d) = d /\ t.pc # "callback"
    BY <1>1 DEF Reach
  <2>2. Faithful => KeptUpTo(rep, h, t, d)
    BY <1>2, <1>5, KeptSame
  <2>. QED BY <1>5, <1>7, <2>1, <2>2 DEF LocalAt
<1>9. Steady(rep, h, t, a)
  <2>1. History(rep, h, a) /\ t.active = 0 /\ t.role = "document"
        /\ (t.final => t.direct = Len(Text[h]))
    BY <1>2, <1>4 DEF MidPass
  <2>. QED BY <1>1, <2>1 DEF Steady, History
<1>10. Faithful => Knows(rep, h, t, a)
  BY <1>1, <1>2, <1>4 DEF Knows, MidPass
<1>11. Local(rep, h, t, a)
  BY <1>6, <1>8, <1>9, <1>10 DEF Local
<1>. QED BY <1>11 DEF t

(* A parser that looks for a stop after a declaration.                     *)
LEMMA CheckStopLocal ==
    ASSUME NEW h \in Parsers, NEW rep \in BOOLEAN, NEW r, NEW a, NEW e,
           Passing(rep, h, r, a, e, 0), r.role # "content"
    PROVE  Local(rep, h, CheckStop(h, r), a)
<1>1. r \in Records(h) /\ MidPass(rep, h, r, a, e)
  BY DEF Passing, MidPass
<1>2. r.role \in References \cup {"document"} /\ r.stop \in {"no", "suspend", "abort"}
  BY <1>1 DEF Records
<1>3. CASE r.stop = "suspend"
  <2>1. r.role = "document"
    BY <1>1, <1>2, <1>3 DEF MidPass, References
  <2>2. CheckStop(h, r) = Suspend(r)
    BY <1>3 DEF CheckStop
  <2>. QED BY <1>3, <2>1, <2>2, SuspendLocal
<1>4. CASE r.stop = "abort"
  <2>1. CheckStop(h, r) = Fail(h, r)
    BY <1>4 DEF CheckStop
  <2>2. r.status = "FINISHED"
    BY <1>1, <1>4 DEF MidPass, StatusOf
  <2>3. History(rep, h, a) /\ (r.final => r.direct = Len(Text[h]))
    BY <1>1 DEF MidPass
  <2>. QED BY <1>1, <1>4, <2>1, <2>2, <2>3, FailLocal
<1>5. CASE r.stop = "no"
  <2>1. CheckStop(h, r) = r
    BY <1>5 DEF CheckStop
  <2>. QED BY <2>1, PassingLocal
<1>. QED BY <1>2, <1>3, <1>4, <1>5
(* A callback changes the counts and what the application has asked for.   *)
Alike(r, s) ==
    /\ s.failed = r.failed /\ s.role = r.role /\ s.direct = r.direct
    /\ s.external = r.external /\ s.delivered = r.delivered /\ s.final = r.final
    /\ s.len = r.len /\ s.table = r.table /\ s.expanded = r.expanded
    /\ s.pc = r.pc /\ s.at = r.at /\ s.extent = r.extent
    /\ s.suppress = r.suppress /\ s.active = r.active
    /\ s.childParses = r.childParses /\ s.before = r.before
    /\ s.parent = r.parent /\ s.lastChild = r.lastChild
    /\ SameMemory(r, s)

Stops(s) ==
    /\ s.status = StatusOf(s.stop)
    /\ s.stop = "suspend" => s.lastSuspend = s.sequence /\ s.suppress <= s.sequence
    /\ s.role \in {"subset", "literal"} => s.stop # "suspend"

(* A step that only counts callbacks or stops leaves the pass in order.    *)
LEMMA AlikePassing ==
    ASSUME NEW h \in Parsers, NEW rep \in BOOLEAN, NEW r, NEW a, NEW e, NEW due,
           Passing(rep, h, r, a, e, due), NEW s \in Records(h),
           Alike(r, s), Stops(s), s.sequence = r.sequence + due
    PROVE  Passing(rep, h, s, a, e, 0)
<1>1. MidPass(rep, h, r, a, e)
  BY DEF Passing
<1>2. MidPass(rep, h, s, a, e)
  BY <1>1 DEF MidPass, Alike, Stops, Reads
<1>3. SameMemory(r, s)
  BY DEF Alike
<1>4. s.sequence + 0 = Calls(rep, h, s.at - 1)
  <2>1. s.sequence \in 0..2 * Len(Text[h]) /\ Len(Text[h]) \in Nat
    BY Texts DEF Records
  <2>2. s.sequence = Calls(rep, h, s.at - 1)
    BY DEF Passing, Alike
  <2>. QED BY <2>1, <2>2
<1>. QED BY <1>2, <1>3, <1>4, KeptSame DEF Passing, Alike

(* The fields of a parser that has counted a callback.                     *)
LEMMA CountedFields ==
    ASSUME NEW h \in Parsers, NEW r \in Records(h),
           r.sequence + 1 \in 0..2 * Len(Text[h])
    PROVE  /\ Counted(r) \in Records(h) /\ Alike(r, Counted(r))
           /\ Counted(r).sequence = r.sequence + 1
           /\ Counted(r).stop = r.stop /\ Counted(r).status = r.status
           /\ Counted(r).lastSuspend = r.lastSuspend
BY DEF Records, Counted, Alike, SameMemory

(* The fields of a parser that has noted a stop.                           *)
LEMMA RecordStopFields ==
    ASSUME NEW h \in Parsers, NEW r \in Records(h)
    PROVE  /\ RecordStop(r) \in Records(h) /\ Alike(r, RecordStop(r))
           /\ RecordStop(r).sequence = r.sequence
           /\ RecordStop(r).stop = r.stop /\ RecordStop(r).status = r.status
           /\ r.stop = "suspend" => RecordStop(r).lastSuspend = r.sequence
<1>1. CASE r.stop = "suspend"
  <2>. DEFINE s == [r EXCEPT !.lastSuspend = r.sequence]
  <2>1. s \in Records(h)
    BY DEF Records
  <2>2. /\ Alike(r, s) /\ s.sequence = r.sequence /\ s.stop = r.stop
        /\ s.status = r.status /\ s.lastSuspend = r.sequence
    BY DEF Records, Alike, SameMemory
  <2>3. RecordStop(r) = s
    BY <1>1 DEF RecordStop
  <2>. HIDE DEF s
  <2>. QED BY <2>1, <2>2, <2>3
<1>2. CASE r.stop # "suspend"
  <2>1. RecordStop(r) = r
    BY <1>2 DEF RecordStop
  <2>. QED BY <1>2, <2>1 DEF Alike, SameMemory
<1>. QED BY <1>1, <1>2

(* The fields of a parser that has been told to stop.                      *)
LEMMA StoppedFields ==
    ASSUME NEW h \in Parsers, NEW r \in Records(h), NEW how \in {"suspend", "abort"}
    PROVE  /\ Stopped(r, how) \in Records(h) /\ Alike(r, Stopped(r, how))
           /\ Stopped(r, how).sequence = r.sequence
           /\ Stopped(r, how).stop = how
           /\ Stopped(r, how).status = StatusOf(how)
<1>. DEFINE st == IF how = "suspend" THEN "SUSPENDED" ELSE "FINISHED"
            s == [r EXCEPT !.stop = how, !.status = st]
<1>0. st = StatusOf(how)
  BY DEF StatusOf
<1>1. st \in Statuses
  BY DEF Statuses
<1>. HIDE DEF st
<1>2. s \in Records(h)
  <2>1. [r EXCEPT !.stop = how] \in Records(h)
    BY DEF Records
  <2>. QED BY <1>1, <2>1 DEF Records, Statuses
<1>3. Alike(r, s) /\ s.sequence = r.sequence /\ s.stop = how /\ s.status = st
  BY DEF Records, Alike, SameMemory
<1>. QED BY <1>0, <1>2, <1>3 DEF Stopped, st

(* Two such steps are one.                                                 *)
LEMMA AlikeChain ==
    ASSUME NEW r, NEW s, NEW t, Alike(r, s), Alike(s, t)
    PROVE  Alike(r, t)
BY DEF Alike, SameMemory

(* The declaration callback of the token just read.                        *)
LEMMA ReportedPassing ==
    ASSUME NEW h \in Parsers, reportsDeclarations \in BOOLEAN, NEW r, NEW a, NEW e,
           Passing(reportsDeclarations, h, r, a, e,
                   IF reportsDeclarations THEN 1 ELSE 0),
           NEW q \in Reported(r)
    PROVE  Passing(reportsDeclarations, h, q, a, e, 0) /\ q.role = r.role
           /\ q.parent = r.parent /\ q.inherited = r.inherited
<1>1. r \in Records(h) /\ MidPass(reportsDeclarations, h, r, a, e)
  BY DEF Passing, MidPass
<1>2. CASE ~reportsDeclarations
  <2>1. q = r
    BY <1>2 DEF Reported
  <2>. QED BY <1>2, <2>1
<1>3. CASE reportsDeclarations
  <2>1. r.sequence + 1 = Calls(reportsDeclarations, h, r.at - 1)
    BY <1>3 DEF Passing
  <2>2. r.at - 1 \in 0..Len(Text[h]) /\ Len(Text[h]) \in Nat /\ r.at - 1 \in Nat
    <3>1. r.at \in 1..Len(Text[h]) + 1
      BY <1>1 DEF Records
    <3>. QED BY <3>1, Texts
  <2>3. r.sequence + 1 \in 0..2 * Len(Text[h])
    <3>1. Calls(reportsDeclarations, h, r.at - 1) \in 0..2 * (r.at - 1)
      BY <2>2, CallsFacts
    <3>. QED BY <2>1, <2>2, <3>1
  <2>4. ASSUME NEW s \in Records(h), Alike(r, s), Stops(s),
               s.sequence = r.sequence + 1
        PROVE  Passing(reportsDeclarations, h, s, a, e, 0) /\ s.role = r.role
               /\ s.parent = r.parent /\ s.inherited = r.inherited
    <3>1. s.sequence = r.sequence + IF reportsDeclarations THEN 1 ELSE 0
      BY <1>3, <2>4
    <3>. QED BY <2>4, <3>1, AlikePassing DEF Alike, SameMemory
  <2>. DEFINE c == Counted(r)
  <2>5. /\ c \in Records(h) /\ Alike(r, c) /\ c.sequence = r.sequence + 1
        /\ c.stop = r.stop /\ c.status = r.status
    BY <1>1, <2>3, CountedFields
  <2>6. r.sequence \in Nat /\ r.suppress \in Nat
    <3>1. r.sequence \in 0..2 * Len(Text[h]) /\ r.suppress \in 0..2 * Len(Text[h])
      BY <1>1 DEF Records
    <3>. QED BY <2>2, <3>1
  <2>7. CASE Suppressed(r)
    <3>1. q = c
      BY <1>3, <2>7 DEF Reported
    <3>2. r.stop # "suspend"
      BY <1>1, <2>6, <2>7 DEF MidPass, Suppressed
    <3>3. Stops(c)
      BY <1>1, <2>5, <3>2 DEF MidPass, Stops, Alike
    <3>. QED BY <2>4, <2>5, <3>1, <3>3
  <2>8. CASE ~Suppressed(r)
    <3>0. c.suppress <= c.sequence
      BY <2>5, <2>6, <2>8 DEF Suppressed, Alike
    <3>1. CASE q = RecordStop(c)
      <4>1. /\ q \in Records(h) /\ Alike(c, q) /\ q.sequence = c.sequence
            /\ q.stop = c.stop /\ q.status = c.status
            /\ c.stop = "suspend" => q.lastSuspend = c.sequence
        BY <2>5, <3>1, RecordStopFields
      <4>2. Alike(r, q)
        BY <2>5, <4>1, AlikeChain
      <4>3. Stops(q)
        BY <1>1, <2>5, <3>0, <4>1 DEF MidPass, Stops, Alike
      <4>. QED BY <2>4, <2>5, <4>1, <4>2, <4>3
    <3>2. ASSUME NEW how \in {"suspend", "abort"}, MayStop(r, how),
                 q = RecordStop(Counted(Stopped(r, how)))
          PROVE  Passing(reportsDeclarations, h, q, a, e, 0) /\ q.role = r.role
                 /\ q.parent = r.parent /\ q.inherited = r.inherited
      <4>. DEFINE o == Stopped(r, how)
                  d == Counted(o)
      <4>1. /\ o \in Records(h) /\ Alike(r, o) /\ o.sequence = r.sequence
            /\ o.stop = how /\ o.status = StatusOf(how)
        BY <1>1, StoppedFields
      <4>2. o.sequence + 1 \in 0..2 * Len(Text[h])
        BY <2>3, <4>1
      <4>. HIDE DEF o
      <4>3. /\ d \in Records(h) /\ Alike(o, d) /\ d.sequence = o.sequence + 1
            /\ d.stop = how /\ d.status = o.status
        BY <4>1, <4>2, CountedFields
      <4>. HIDE DEF d
      <4>4. /\ q \in Records(h) /\ Alike(d, q) /\ q.sequence = d.sequence
            /\ q.stop = how /\ q.status = d.status
            /\ how = "suspend" => q.lastSuspend = d.sequence
        <5>1. q = RecordStop(d)
          BY <3>2 DEF o, d
        <5>. QED BY <4>3, <5>1, RecordStopFields
      <4>5. Alike(r, q)
        <5>1. Alike(r, d)
          BY <4>1, <4>3, AlikeChain
        <5>. QED BY <4>4, <5>1, AlikeChain
      <4>6. Stops(q)
        <5>1. q.status = StatusOf(q.stop)
          BY <4>1, <4>3, <4>4
        <5>2. q.suppress <= q.sequence
          <6>1. q.suppress = r.suppress /\ q.sequence = r.sequence + 1
            BY <4>1, <4>3, <4>4, <4>5 DEF Alike
          <6>. QED BY <2>6, <2>8, <6>1 DEF Suppressed
        <5>3. q.role \in {"subset", "literal"} => q.stop # "suspend"
          BY <3>2, <4>4, <4>5 DEF MayStop, Alike
        <5>. QED BY <4>4, <5>1, <5>2, <5>3 DEF Stops
      <4>7. q.sequence = r.sequence + 1
        BY <4>1, <4>3, <4>4
      <4>. QED BY <2>4, <4>4, <4>5, <4>6, <4>7
    <3>. QED BY <1>3, <2>8, <3>1, <3>2 DEF Reported
  <2>. QED BY <2>7, <2>8
<1>. QED BY <1>2, <1>3

(* Past a token only the place and the table change.                       *)
Beyond(r, s) ==
    /\ s.failed = r.failed /\ s.role = r.role /\ s.direct = r.direct
    /\ s.external = r.external /\ s.delivered = r.delivered /\ s.final = r.final
    /\ s.len = r.len /\ s.expanded = r.expanded
    /\ s.pc = r.pc /\ s.extent = r.extent
    /\ s.suppress = r.suppress /\ s.active = r.active
    /\ s.sequence = r.sequence /\ s.stop = r.stop /\ s.status = r.status
    /\ s.lastSuspend = r.lastSuspend /\ s.at = r.at + 1
    /\ s.parent = r.parent
    /\ SameMemory(r, s)

Declares(h, i) == Text[h][i].kind \in {"entity", "literal"}

(* The step over a token that is done with.                                *)
LEMMA ReadyPassing ==
    ASSUME NEW h \in Parsers, NEW rep \in BOOLEAN, NEW r, NEW a, NEW e,
           Ready(rep, h, r, a, e), NEW s \in Records(h), Beyond(r, s),
           Faithful => s.table = Base(h, r, r.at)
    PROVE  Passing(rep, h, s, a, e, IF rep /\ Declares(h, r.at) THEN 1 ELSE 0)
<1>. DEFINE i == r.at
            due == IF rep /\ Declares(h, i) THEN 1 ELSE 0
<1>1. r \in Records(h) /\ MidPass(rep, h, r, a, e)
  BY DEF Ready, MidPass
<1>2. /\ i \in 1..Len(Text[h]) /\ i <= r.extent /\ s.at = i + 1 /\ s.at - 1 = i
      /\ i \in Nat /\ r.extent \in Nat
  <2>1. i \in 1..Len(Text[h]) + 1 /\ r.extent \in 0..Len(Text[h])
    BY <1>1 DEF Records
  <2>2. i <= r.extent /\ s.at = i + 1 /\ Len(Text[h]) \in Nat
    BY Texts DEF Ready, Beyond
  <2>. QED BY <2>1, <2>2
<1>3. e \in Nat
  <2>1. e \in 0..r.extent
    BY <1>1 DEF MidPass
  <2>. QED BY <1>2, <2>1
<1>4. (IF s.at > e THEN s.at - 1 ELSE e) = (IF i > e THEN i ELSE e)
  BY <1>2, <1>3
<1>5. MidPass(rep, h, s, a, e)
  BY <1>1 DEF MidPass, Beyond, Reads
<1>6. s.sequence + due = Calls(rep, h, i)
  <2>1. /\ Calls(rep, h, i) = Calls(rep, h, i - 1) + CallsOf(rep, h, i)
        /\ Calls(rep, h, i - 1) \in Nat
    BY <1>2, CallsStep
  <2>2. s.sequence = Calls(rep, h, i - 1) + (IF Refers(h, i) THEN 1 ELSE 0)
    BY DEF Ready, Beyond
  <2>. QED BY <2>1, <2>2 DEF CallsOf, Declares
<1>7. AskedUpTo(h, a, IF i > e THEN i ELSE e) /\ r.expanded <= i
  BY DEF Ready
<1>8. s.at <= s.extent + 1 /\ s.expanded <= s.at - 1
  BY <1>2, <1>7 DEF Beyond
<1>9. ASSUME Faithful
      PROVE  /\ KeptUpTo(rep, h, s, IF i > e THEN i ELSE e)
             /\ s.table = Base(h, s, i)
             /\ h # Root => s.expanded = Uses(h, i)
  <2>1. SameMemory(r, s) /\ s.expanded = r.expanded
    BY DEF Beyond
  <2>. QED BY <1>9, <2>1, KeptSame DEF Ready
<1>. HIDE DEF i, due
<1>10. Passing(rep, h, s, a, e, due)
  BY <1>2, <1>4, <1>5, <1>6, <1>7, <1>8, <1>9 DEF Passing
<1>. QED BY <1>10 DEF i, due

MovesOn(h, r, table) ==
    LET s == [r EXCEPT !.at = @ + 1]
        t == [r EXCEPT !.table = table, !.at = @ + 1]
    IN /\ s \in Records(h) /\ Beyond(r, s) /\ s.table = r.table
       /\ t \in Records(h) /\ Beyond(r, t) /\ t.table = table

(* The fields of a parser that has moved on.                               *)
LEMMA BeyondFields ==
    ASSUME NEW h \in Parsers, NEW r \in Records(h), r.at <= Len(Text[h]),
           NEW table \in Tables
    PROVE  MovesOn(h, r, table)
<1>. DEFINE m == r.at + 1
            s == [r EXCEPT !.at = m]
            u == [[r EXCEPT !.table = table] EXCEPT !.at = m]
<1>1. m \in 1..Len(Text[h]) + 1
  <2>1. r.at \in 1..Len(Text[h]) + 1 /\ Len(Text[h]) \in Nat
    BY Texts DEF Records
  <2>. QED BY <2>1
<1>2. m = r.at + 1
  OBVIOUS
<1>. HIDE DEF m
<1>3. s \in Records(h) /\ u \in Records(h)
  BY <1>1 DEF Records
<1>4. Beyond(r, s) /\ s.table = r.table
  BY <1>2 DEF Records, Beyond, SameMemory
<1>5. Beyond(r, u) /\ u.table = table
  BY <1>2 DEF Records, Beyond, SameMemory
<1>6. s = [r EXCEPT !.at = @ + 1]
  BY <1>2
<1>7. u = [r EXCEPT !.table = table, !.at = @ + 1]
  BY <1>2 DEF Records
<1>. HIDE DEF s, u
<1>. QED BY <1>3, <1>4, <1>5, <1>6, <1>7 DEF MovesOn
(* What a step of a pass leaves as it was for the other parsers.           *)
Outcome(r, q) ==
    /\ q.parent = r.parent /\ q.role = r.role /\ q.inherited = r.inherited
    /\ q.status # "none" /\ q.pc # "callback"
    /\ q.pc = "idle" /\ q.status = "FINISHED" => q.failed

(* A stop, or none, makes no handle vanish.                                *)
LEMMA StatusInCall ==
    \A stop \in {"no", "suspend", "abort"} : StatusOf(stop) # "none"
BY DEF StatusOf

(* The step over a token that declares nothing.                            *)
LEMMA StepsOn ==
    ASSUME NEW h \in Parsers, NEW rep \in BOOLEAN, NEW r, NEW a, NEW e,
           Ready(rep, h, r, a, e), ~Declares(h, r.at)
    PROVE  LET q == [r EXCEPT !.at = @ + 1]
           IN Local(rep, h, q, a) /\ Outcome(r, q)
<1>. DEFINE q == [r EXCEPT !.at = @ + 1]
<1>1. r \in Records(h) /\ MidPass(rep, h, r, a, e)
  BY DEF Ready, MidPass
<1>2. r.at \in 1..Len(Text[h]) /\ r.at <= Len(Text[h]) /\ r.table \in Tables
  <2>1. r.at \in 1..Len(Text[h]) + 1 /\ r.extent \in 0..Len(Text[h])
        /\ r.table \in Tables
    BY <1>1 DEF Records
  <2>2. r.at <= r.extent /\ Len(Text[h]) \in Nat
    BY Texts DEF Ready
  <2>. QED BY <2>1, <2>2
<1>3. q \in Records(h) /\ Beyond(r, q) /\ q.table = r.table
  <2>1. MovesOn(h, r, r.table)
    BY <1>1, <1>2, BeyondFields
  <2>. QED BY <2>1 DEF MovesOn
<1>. HIDE DEF q
<1>4. ASSUME Faithful
      PROVE  q.table = Base(h, r, r.at)
  <2>1. q.table = Base(h, r, IF Text[h][r.at].kind = "subset" THEN r.at
                             ELSE r.at - 1)
    BY <1>3, <1>4 DEF Ready
  <2>2. Text[h][r.at].kind # "subset" => Base(h, r, r.at) = Base(h, r, r.at - 1)
    BY <1>1, <1>2, BaseStep DEF Declares
  <2>. QED BY <2>1, <2>2
<1>5. Passing(rep, h, q, a, e, IF rep /\ Declares(h, r.at) THEN 1 ELSE 0)
  BY <1>3, <1>4, ReadyPassing
<1>6. Passing(rep, h, q, a, e, 0)
  BY <1>5
<1>7. Local(rep, h, q, a)
  BY <1>6, PassingLocal
<1>8. Outcome(r, q)
  <2>1. r.stop \in {"no", "suspend", "abort"}
    BY <1>1 DEF Records
  <2>. QED BY <1>1, <1>3, <2>1, StatusInCall DEF Outcome, MidPass, Beyond, SameMemory
<1>. QED BY <1>7, <1>8 DEF q

(* A look for a stop ends a pass only by failure or suspension.            *)
LEMMA CheckStopOutcome ==
    ASSUME NEW h \in Parsers, NEW rep \in BOOLEAN, NEW r, NEW a, NEW e,
           Passing(rep, h, r, a, e, 0)
    PROVE  Outcome(r, CheckStop(h, r))
<1>1. r \in Records(h) /\ MidPass(rep, h, r, a, e)
  BY DEF Passing, MidPass
<1>2. r.stop \in {"no", "suspend", "abort"}
  BY <1>1 DEF Records
<1>3. CASE r.stop = "suspend"
  <2>1. CheckStop(h, r) = Suspend(r)
    BY <1>3 DEF CheckStop
  <2>2. /\ Suspend(r).pc = "idle" /\ Suspend(r).status = "SUSPENDED"
        /\ Suspend(r).parent = r.parent /\ Suspend(r).role = r.role
        /\ Suspend(r).inherited = r.inherited
    BY <1>1 DEF Suspend, Records
  <2>. QED BY <2>1, <2>2 DEF Outcome
<1>4. CASE r.stop = "abort"
  <2>1. CheckStop(h, r) = Fail(h, r)
    BY <1>4 DEF CheckStop
  <2>2. r.status = "FINISHED"
    BY <1>1, <1>4 DEF MidPass, StatusOf
  <2>3. Ended(r, Fail(h, r)) /\ Fail(h, r).failed
    BY <1>1, TerminalFields
  <2>. QED BY <2>1, <2>2, <2>3 DEF Outcome, Ended
<1>5. CASE r.stop = "no"
  <2>1. CheckStop(h, r) = r
    BY <1>5 DEF CheckStop
  <2>. QED BY <1>1, <1>2, <2>1, StatusInCall DEF Outcome, MidPass
<1>. QED BY <1>2, <1>3, <1>4, <1>5

(* The step over a declaration, its report and its stop included.          *)
LEMMA DeclareLocal ==
    ASSUME NEW h \in Parsers, reportsDeclarations \in BOOLEAN, NEW r, NEW a, NEW e,
           Ready(reportsDeclarations, h, r, a, e),
           Declares(h, r.at), r.role # "content", NEW v \in Values,
           Faithful => v = IF Text[h][r.at].kind = "entity"
                           THEN Text[h][r.at].value ELSE Text[h][r.at].to,
           NEW q \in Declare(h, r, Text[h][r.at].name, v)
    PROVE  Local(reportsDeclarations, h, q, a) /\ Outcome(r, q)
<1>. DEFINE n == Text[h][r.at].name
            table == Bind(r.table, n, v)
            s == [r EXCEPT !.table = table, !.at = @ + 1]
<1>1. r \in Records(h) /\ MidPass(reportsDeclarations, h, r, a, e)
  BY DEF Ready, MidPass
<1>2. r.at \in 1..Len(Text[h]) /\ r.at <= Len(Text[h]) /\ r.table \in Tables
  <2>1. r.at \in 1..Len(Text[h]) + 1 /\ r.extent \in 0..Len(Text[h])
        /\ r.table \in Tables
    BY <1>1 DEF Records
  <2>2. r.at <= r.extent /\ Len(Text[h]) \in Nat
    BY Texts DEF Ready
  <2>. QED BY <2>1, <2>2
<1>3. table \in Tables
  <2>1. n \in Names
    BY <1>2, Texts
  <2>. QED BY <1>2, <2>1, TablesClosed
<1>4. PICK p \in Reported(s) : q = CheckStop(h, p)
  BY DEF Declare
<1>5. ASSUME Faithful
      PROVE  table = Base(h, r, r.at)
  <2>1. r.table = Base(h, r, r.at - 1)
    BY <1>5 DEF Ready, Declares
  <2>2. Text[h][r.at].kind \in {"entity", "literal"}
    BY DEF Declares
  <2>. QED BY <1>1, <1>2, <1>5, <2>1, <2>2, BaseStep
<1>. HIDE DEF table
<1>6. s \in Records(h) /\ Beyond(r, s) /\ s.table = table
  <2>1. MovesOn(h, r, table)
    BY <1>1, <1>2, <1>3, BeyondFields
  <2>. QED BY <2>1 DEF MovesOn
<1>. HIDE DEF s
<1>7. Passing(reportsDeclarations, h, s, a, e,
              IF reportsDeclarations THEN 1 ELSE 0)
  <2>1. Passing(reportsDeclarations, h, s, a, e,
              IF reportsDeclarations /\ Declares(h, r.at) THEN 1 ELSE 0)
    BY <1>5, <1>6, ReadyPassing
  <2>. QED BY <2>1
<1>8. Passing(reportsDeclarations, h, p, a, e, 0) /\ p.role = s.role
      /\ p.parent = s.parent /\ p.inherited = s.inherited
  BY <1>4, <1>7, ReportedPassing
<1>9. p.role # "content"
  BY <1>6, <1>8 DEF Beyond
<1>10. Local(reportsDeclarations, h, q, a) /\ Outcome(p, q)
  BY <1>4, <1>8, <1>9, CheckStopLocal, CheckStopOutcome
<1>. QED BY <1>6, <1>8, <1>10 DEF Outcome, Beyond, SameMemory
-----------------------------------------------------------------------------
(* What is at the next token.                                              *)
LEMMA UsesStep ==
    ASSUME NEW h \in Parsers, NEW i \in 1..Len(Text[h])
    PROVE  /\ Uses(h, i - 1) \in Nat /\ Uses(h, i) \in Nat
           /\ Uses(h, i) = Uses(h, i - 1)
                           + (IF Text[h][i].kind = "use" THEN 1 ELSE 0)
<1>1. Len(Text[h]) \in Nat
  BY Texts
<1>2. i - 1 \in Nat /\ i \in Nat /\ i = (i - 1) + 1
  BY <1>1
<1>3. \A n \in Nat : Uses(h, n) \in 0..n
  BY NumberFacts DEF Bounds, Uses
<1>4. \A n \in Nat : Uses(h, n + 1) = Uses(h, n)
                           + (IF Text[h][n + 1].kind = "use" THEN 1 ELSE 0)
  BY NumberFacts DEF Steps, Uses
<1>5. Uses(h, (i - 1) + 1) = Uses(h, i - 1)
                           + (IF Text[h][(i - 1) + 1].kind = "use" THEN 1 ELSE 0)
  BY <1>2, <1>4
<1>6. Uses(h, i - 1) \in 0..(i - 1) /\ Uses(h, i) \in 0..i
  BY <1>2, <1>3
<1>. QED BY <1>2, <1>5, <1>6

(* The place of the next token.                                            *)
LEMMA NextToken ==
    ASSUME NEW h \in Parsers, NEW rep \in BOOLEAN, NEW r, NEW a, NEW e, NEW due,
           Passing(rep, h, r, a, e, due), r.at <= r.extent
    PROVE  /\ r \in Records(h) /\ r.at \in 1..Len(Text[h]) /\ r.at \in Nat
           /\ r.at <= Len(Text[h]) /\ e \in Nat /\ Len(Text[h]) \in Nat
           /\ r.expanded \in Nat /\ r.sequence \in Nat /\ r.suppress \in Nat
           /\ r.table \in Tables /\ r.extent \in 0..Len(Text[h])
           /\ e \in 0..r.extent
<1>1. r \in Records(h) /\ e \in 0..r.extent
  BY DEF Passing, MidPass
<1>2. Len(Text[h]) \in Nat
  BY Texts
<1>3. /\ r.at \in 1..Len(Text[h]) + 1 /\ r.extent \in 0..Len(Text[h])
      /\ r.expanded \in 0..Len(Text[h]) /\ r.sequence \in 0..2 * Len(Text[h])
      /\ r.suppress \in 0..2 * Len(Text[h]) /\ r.table \in Tables
  BY <1>1 DEF Records
<1>. QED BY <1>1, <1>2, <1>3

(* What is known of one entry of a history.                                *)
LEMMA HistoryAt ==
    ASSUME NEW h \in Parsers, NEW a,
           a \in Seq([token : 1..Len(Text[h]), ordinal : Ordinals(h)])
    PROVE  /\ Len(a) \in Nat /\ DOMAIN a = 1..Len(a)
           /\ \A j \in 1..Len(a) : /\ a[j].token \in 1..Len(Text[h])
                                  /\ a[j].ordinal \in Ordinals(h)
<1>. DEFINE S == [token : 1..Len(Text[h]), ordinal : Ordinals(h)]
<1>1. \A x \in S : x.token \in 1..Len(Text[h]) /\ x.ordinal \in Ordinals(h)
  OBVIOUS
<1>. HIDE DEF S
<1>2. a \in Seq(S)
  BY DEF S
<1>3. \A j \in 1..Len(a) : a[j] \in S
  BY <1>2
<1>. QED BY <1>1, <1>2, <1>3

(* A token that is no reference is done with at once.                      *)
LEMMA PlainReady ==
    ASSUME NEW h \in Parsers, NEW rep \in BOOLEAN, NEW r, NEW a, NEW e,
           Passing(rep, h, r, a, e, 0), r.at <= r.extent, ~Refers(h, r.at),
           NEW s \in Records(h), Alike([r EXCEPT !.expanded = s.expanded], s),
           s.sequence = r.sequence, s.stop = r.stop, s.status = r.status,
           s.lastSuspend = r.lastSuspend,
           s.expanded <= r.at,
           Faithful /\ h # Root => s.expanded = Uses(h, r.at)
    PROVE  Ready(rep, h, s, a, e)
<1>. DEFINE i == r.at
<1>1. /\ r \in Records(h) /\ i \in 1..Len(Text[h]) /\ i \in Nat /\ e \in Nat
      /\ r.sequence \in Nat
  BY NextToken
<1>2. MidPass(rep, h, r, a, e)
  BY DEF Passing
<1>3. /\ s.failed = r.failed /\ s.role = r.role /\ s.direct = r.direct
      /\ s.external = r.external /\ s.delivered = r.delivered
      /\ s.final = r.final /\ s.len = r.len /\ s.table = r.table
      /\ s.pc = r.pc /\ s.at = r.at /\ s.extent = r.extent
      /\ s.suppress = r.suppress /\ s.active = r.active
      /\ SameMemory(r, s)
  BY <1>1 DEF Records, Alike, SameMemory
<1>4. MidPass(rep, h, s, a, e)
  BY <1>2, <1>3 DEF MidPass, Reads
<1>5. ASSUME AskedUpTo(h, a, i - 1)
      PROVE  AskedUpTo(h, a, i)
  <2>1. Parts(h, i - 1) \in Int /\ Parts(h, i) = Parts(h, i - 1) + 0
    <3>1. i - 1 \in 0..Len(Text[h])
      BY <1>1, Texts
    <3>2. Parts(h, i - 1) \in Int
      BY <3>1, PartsStep
    <3>3. Parts(h, i) = Parts(h, i - 1)
                              + (IF Refers(h, i) THEN RefWeight(h, i) ELSE 0)
      BY <1>1, PartsStep
    <3>. QED BY <3>2, <3>3
  <2>2. \A j \in DOMAIN a : a[j].token <= i - 1 => a[j].token <= i
    <3>1. \A j \in DOMAIN a : a[j].token \in 1..Len(Text[h])
      BY <1>2, HistoryAt DEF MidPass, History
    <3>. QED BY <1>1, <3>1, Texts
  <2>. QED BY <1>5, <2>1, <2>2 DEF AskedUpTo
<1>6. KeptUpTo(rep, h, r, i - 1) => KeptUpTo(rep, h, r, i)
  BY <1>1 DEF KeptUpTo
<1>7. AskedUpTo(h, a, IF i > e THEN i ELSE e)
  <2>1. AskedUpTo(h, a, IF i > e THEN i - 1 ELSE e)
    BY DEF Passing
  <2>. QED BY <1>5, <2>1
<1>8. s.sequence = Calls(rep, h, i - 1) + (IF Refers(h, i) THEN 1 ELSE 0)
  BY <1>1 DEF Passing
<1>9. ASSUME Faithful
      PROVE  /\ KeptUpTo(rep, h, s, IF i > e THEN i ELSE e)
             /\ s.table = Base(h, s, IF Text[h][i].kind = "subset" THEN i
                                     ELSE i - 1)
             /\ h # Root => s.expanded = Uses(h, i)
  <2>1. KeptUpTo(rep, h, r, IF i > e THEN i - 1 ELSE e) /\ r.table = Base(h, r, i - 1)
    BY <1>9 DEF Passing
  <2>2. KeptUpTo(rep, h, r, IF i > e THEN i ELSE e)
    BY <1>6, <2>1
  <2>3. Text[h][i].kind # "subset"
    BY DEF Refers, References
  <2>. QED BY <1>3, <1>9, <2>1, <2>2, <2>3, KeptSame
<1>. HIDE DEF i
<1>10. s.at = i /\ s.extent = r.extent /\ i <= r.extent /\ s.expanded <= i
  BY <1>3 DEF i
<1>. QED BY <1>4, <1>7, <1>8, <1>9, <1>10 DEF Ready
(* The reference at the next token is at its ordinal.                      *)
LEMMA NextOrdinal ==
    ASSUME NEW h \in Parsers, NEW rep \in BOOLEAN, NEW r, NEW a, NEW e,
           Passing(rep, h, r, a, e, 0), r.at <= r.extent, Refers(h, r.at)
    PROVE  /\ r.sequence + 1 = Ordinal(rep, h, r.at)
           /\ r.sequence + 1 \in Ordinals(h) /\ r.sequence + 1 \in Nat
           /\ r.sequence + 1 \in 0..2 * Len(Text[h])
           /\ Suppressed(r) => r.at <= e
           /\ ~Suppressed(r) => e < r.at
<1>1. /\ r \in Records(h) /\ r.at \in 1..Len(Text[h]) /\ r.at \in Nat /\ e \in Nat
      /\ r.sequence \in Nat /\ r.suppress \in Nat /\ Len(Text[h]) \in Nat
  BY NextToken
<1>2. /\ r.sequence = Calls(rep, h, r.at - 1) /\ r.suppress = Calls(rep, h, e)
  BY <1>1 DEF Passing, MidPass
<1>3. r.sequence + 1 = Ordinal(rep, h, r.at)
  BY <1>2 DEF Ordinal
<1>4. /\ Calls(rep, h, r.at) = Calls(rep, h, r.at - 1) + CallsOf(rep, h, r.at)
      /\ CallsOf(rep, h, r.at) \in 0..2 /\ CallsOf(rep, h, r.at) >= 1
      /\ Ordinal(rep, h, r.at) \in Ordinals(h) /\ Calls(rep, h, r.at) \in Nat
  BY <1>1, CallsStep
<1>5. ASSUME e < r.at PROVE ~Suppressed(r)
  <2>1. e \in 0..(r.at - 1) /\ r.at - 1 \in Nat
    BY <1>1, <1>5
  <2>2. Calls(rep, h, e) <= Calls(rep, h, r.at - 1)
    BY <2>1, CallsFacts
  <2>. QED BY <1>1, <1>2, <2>2 DEF Suppressed
<1>6. ASSUME r.at <= e PROVE Suppressed(r)
  <2>1. r.at \in 0..e
    BY <1>1, <1>6
  <2>2. Calls(rep, h, r.at) <= Calls(rep, h, e)
    BY <1>1, <2>1, CallsFacts
  <2>. QED BY <1>1, <1>2, <1>4, <2>2 DEF Suppressed
<1>7. r.sequence + 1 \in Ordinals(h)
  BY <1>3, <1>4
<1>8. r.sequence + 1 \in 0..2 * Len(Text[h])
  BY <1>1, <1>7 DEF Ordinals
<1>. QED BY <1>1, <1>3, <1>5, <1>6, <1>7, <1>8

Replays(r, k) == [Counted(r) EXCEPT !.table = Merge(@, r.contexts[k])]

(* A reference that was asked in an earlier pass is answered again.        *)
LEMMA ReplayReady ==
    ASSUME NEW h \in Parsers, NEW rep \in BOOLEAN, NEW r, NEW a, NEW e,
           Passing(rep, h, r, a, e, 0), r.at <= r.extent, Refers(h, r.at),
           Suppressed(r)
    PROVE  LET k == r.sequence + 1
               s == Replays(r, k)
           IN
           /\ Ready(rep, h, s, a, e) /\ s.at = r.at
           /\ s.parent = r.parent /\ s.role = r.role /\ s.inherited = r.inherited
           /\ r.texts[k] \in Values
           /\ Faithful /\ Text[h][r.at].kind = "literal" =>
                r.texts[k] = Text[h][r.at].to
<1>. DEFINE k == r.sequence + 1
            s == Replays(r, k)
            i == r.at
            c == Counted(r)
            table == Merge(r.table, r.contexts[k])
<1>0. k = r.sequence + 1
      /\ s = [Counted(r) EXCEPT !.table = Merge(@, r.contexts[k])]
  BY DEF Replays
<1>. HIDE DEF k, s
<1>1. /\ r \in Records(h) /\ i \in 1..Len(Text[h]) /\ i \in Nat /\ e \in Nat
      /\ r.sequence \in Nat /\ r.suppress \in Nat /\ r.expanded \in Nat
      /\ r.table \in Tables
  BY NextToken
<1>2. k = Ordinal(rep, h, i) /\ k \in Ordinals(h) /\ k \in 0..2 * Len(Text[h])
      /\ i <= e
  BY <1>0, NextOrdinal
<1>3. r.contexts[k] \in Tables /\ r.texts[k] \in Values
  BY <1>1, <1>2 DEF Records
<1>4. table \in Tables
  BY <1>1, <1>3, TablesClosed
<1>5. /\ c \in Records(h) /\ Alike(r, c) /\ c.sequence = k
      /\ c.stop = r.stop /\ c.status = r.status /\ c.lastSuspend = r.lastSuspend
  <2>1. k = r.sequence + 1
    BY <1>0
  <2>. QED BY <1>1, <1>2, <2>1, CountedFields
<1>. HIDE DEF c
<1>6. s = [c EXCEPT !.table = table]
  <2>1. c.table = r.table
    BY <1>5 DEF Alike
  <2>2. s = [c EXCEPT !.table = Merge(c.table, r.contexts[k])]
    BY <1>0 DEF c
  <2>. QED BY <2>1, <2>2
<1>. HIDE DEF table
<1>7. /\ s \in Records(h) /\ s.table = table /\ s.sequence = k
      /\ s.stop = r.stop /\ s.status = r.status /\ s.lastSuspend = r.lastSuspend
  BY <1>4, <1>5, <1>6 DEF Records
<1>8. /\ s.failed = r.failed /\ s.role = r.role /\ s.direct = r.direct
      /\ s.external = r.external /\ s.delivered = r.delivered
      /\ s.final = r.final /\ s.len = r.len /\ s.expanded = r.expanded
      /\ s.pc = r.pc /\ s.at = r.at /\ s.extent = r.extent
      /\ s.suppress = r.suppress /\ s.active = r.active
      /\ s.parent = r.parent /\ SameMemory(r, s)
  <2>1. /\ s.failed = c.failed /\ s.role = c.role /\ s.direct = c.direct
      /\ s.external = c.external /\ s.delivered = c.delivered
      /\ s.final = c.final /\ s.len = c.len /\ s.expanded = c.expanded
      /\ s.pc = c.pc /\ s.at = c.at /\ s.extent = c.extent
      /\ s.suppress = c.suppress /\ s.active = c.active
      /\ s.parent = c.parent /\ SameMemory(c, s)
    BY <1>5, <1>6 DEF Records, SameMemory
  <2>. HIDE DEF table
  <2>. QED BY <1>5, <2>1 DEF Alike, SameMemory
<1>9. MidPass(rep, h, s, a, e)
  <2>1. MidPass(rep, h, r, a, e)
    BY DEF Passing
  <2>2. s.stop # "suspend"
    BY <1>1, <1>7, <2>1 DEF MidPass, Suppressed
  <2>. QED BY <1>7, <1>8, <2>1, <2>2 DEF MidPass, Reads
<1>10. AskedUpTo(h, a, e) /\ ~(i > e) /\ r.expanded <= i - 1
  BY <1>1, <1>2 DEF Passing
<1>11. s.sequence = Calls(rep, h, i - 1) + (IF Refers(h, i) THEN 1 ELSE 0)
  BY <1>2, <1>7 DEF Ordinal
<1>12. ASSUME Faithful
       PROVE  /\ KeptUpTo(rep, h, s, e)
              /\ s.table = Base(h, s, IF Text[h][i].kind = "subset" THEN i
                                      ELSE i - 1)
              /\ h # Root => s.expanded = Uses(h, i)
              /\ Text[h][i].kind = "literal" => r.texts[k] = Text[h][i].to
  <2>1. KeptUpTo(rep, h, r, e) /\ r.table = Base(h, r, i - 1)
        /\ (h # Root => r.expanded = Uses(h, i - 1))
    BY <1>10, <1>12 DEF Passing
  <2>2. i \in 1..e
    BY <1>1, <1>2
  <2>3. Kept(rep, h, r, i)
    BY <2>1, <2>2 DEF KeptUpTo
  <2>4. r.contexts[k] = IF Text[h][i].kind = "subset" THEN Own(h, r, i)
                        ELSE NoBindings
    BY <1>2, <2>3 DEF Kept
  <2>5. table = Base(h, r, IF Text[h][i].kind = "subset" THEN i ELSE i - 1)
    <3>1. CASE Text[h][i].kind = "subset"
      BY <1>1, <2>1, <2>4, <3>1, BaseStep DEF table
    <3>2. CASE Text[h][i].kind # "subset"
      <4>1. \A t \in Tables : Merge(t, NoBindings) = t
        BY DEF Tables, Merge, NoBindings
      <4>. QED BY <1>1, <2>1, <2>4, <3>2, <4>1 DEF table
    <3>. QED BY <3>1, <3>2
  <2>6. Uses(h, i) = Uses(h, i - 1)
    <3>1. Text[h][i].kind # "use"
      BY DEF Refers, References
    <3>. QED BY <1>1, <3>1, UsesStep
  <2>7. Text[h][i].kind = "literal" => r.texts[k] = Text[h][i].to
    BY <1>2, <2>3 DEF Kept
  <2>. QED BY <1>7, <1>8, <2>1, <2>5, <2>6, <2>7, KeptSame
<1>. HIDE DEF i
<1>13. s.at = i /\ i <= s.extent /\ s.expanded <= i
  <2>1. s.at = i /\ s.extent = r.extent /\ i <= r.extent /\ s.expanded = r.expanded
    BY <1>8 DEF i
  <2>. QED BY <1>1, <1>10, <2>1
<1>14. Ready(rep, h, s, a, e)
  BY <1>9, <1>10, <1>11, <1>12, <1>13 DEF Ready
<1>. QED BY <1>3, <1>8, <1>12, <1>14 DEF i, k, s, SameMemory

-----------------------------------------------------------------------------
(* The references asked, one more.                                         *)
LEMMA HistoryAppend ==
    ASSUME NEW h \in Parsers, NEW rep \in BOOLEAN, NEW a, History(rep, h, a),
           NEW i \in 1..Len(Text[h]), Refers(h, i), AskedUpTo(h, a, i - 1)
    PROVE  LET b == Append(a, [token |-> i, ordinal |-> Ordinal(rep, h, i)])
           IN History(rep, h, b) /\ AskedUpTo(h, b, i)
<1>. DEFINE x == [token |-> i, ordinal |-> Ordinal(rep, h, i)]
            b == Append(a, x)
            S == [token : 1..Len(Text[h]), ordinal : Ordinals(h)]
<1>1. Len(a) \in Nat /\ a \in Seq(S)
      /\ DOMAIN a = 1..Len(a)
      /\ \A j \in 1..Len(a) : a[j].token \in 1..Len(Text[h])
  <2>1. a \in Seq(S)
    BY DEF History
  <2>. QED BY <2>1, HistoryAt
<1>2. x \in S /\ x.token = i /\ x.ordinal = Ordinal(rep, h, i)
  <2>1. Ordinal(rep, h, i) \in Ordinals(h)
    BY CallsStep
  <2>. QED BY <2>1
<1>3. i \in Nat /\ Len(Text[h]) \in Nat
  BY Texts
<1>. HIDE DEF x, S
<1>4. /\ b \in Seq(S) /\ Len(b) = Len(a) + 1 /\ DOMAIN b = 1..(Len(a) + 1)
      /\ \A j \in 1..Len(a) : b[j] = a[j]
      /\ b[Len(a) + 1] = x
  BY <1>1, <1>2
<1>. HIDE DEF b
<1>5. \A j \in 1..Len(a) : a[j].token <= i - 1 /\ a[j].token \in Nat
  <2>1. \A j \in 1..Len(a) : a[j].token <= i - 1
    BY <1>1 DEF AskedUpTo
  <2>2. \A j \in 1..Len(a) : a[j].token \in Nat
    BY <1>1, <1>3
  <2>. QED BY <2>1, <2>2
<1>6. Increasing(b)
  <2>1. ASSUME NEW p \in 1..(Len(a) + 1), NEW q \in 1..(Len(a) + 1), p < q
        PROVE  b[p].token < b[q].token
    <3>1. CASE q = Len(a) + 1
      <4>1. p \in 1..Len(a)
        BY <1>1, <2>1, <3>1
      <4>. QED BY <1>2, <1>3, <1>4, <1>5, <3>1, <4>1
    <3>2. CASE q # Len(a) + 1
      <4>1. p \in 1..Len(a) /\ q \in 1..Len(a)
        BY <1>1, <2>1, <3>2
      <4>2. a[p].token < a[q].token
        BY <1>1, <2>1, <4>1 DEF History, Increasing
      <4>. QED BY <1>4, <4>1, <4>2
    <3>. QED BY <3>1, <3>2
  <2>. QED BY <1>4, <2>1 DEF Increasing
<1>7. AskedAre(rep, h, b)
  <2>1. ASSUME NEW j \in 1..(Len(a) + 1)
        PROVE  /\ Refers(h, b[j].token)
               /\ b[j].ordinal = Ordinal(rep, h, b[j].token)
               /\ Parts(h, b[j].token - 1) =
                    IF j = 1 THEN 0 ELSE Parts(h, b[j - 1].token)
    <3>1. CASE j = Len(a) + 1
      <4>1. b[j] = x
        BY <1>4, <3>1
      <4>2. Parts(h, i - 1) = IF j = 1 THEN 0 ELSE Parts(h, b[j - 1].token)
        <5>1. Parts(h, i - 1) = Total(h, a)
          BY DEF AskedUpTo
        <5>2. CASE j = 1
          <6>1. a = <<>>
            BY <1>1, <3>1, <5>2
          <6>. QED BY <5>1, <5>2, <6>1 DEF Total
        <5>3. CASE j # 1
          <6>1. a # <<>> /\ j - 1 = Len(a) /\ b[j - 1] = a[Len(a)]
            BY <1>1, <1>4, <3>1, <5>3
          <6>. QED BY <5>1, <5>3, <6>1 DEF Total
        <5>. QED BY <5>2, <5>3
      <4>. QED BY <1>2, <4>1, <4>2
    <3>2. CASE j # Len(a) + 1
      <4>1. j \in 1..Len(a) /\ b[j] = a[j] /\ (j # 1 => b[j - 1] = a[j - 1])
        BY <1>1, <1>4, <3>2
      <4>2. /\ Refers(h, a[j].token)
            /\ a[j].ordinal = Ordinal(rep, h, a[j].token)
            /\ Parts(h, a[j].token - 1) =
                    IF j = 1 THEN 0 ELSE Parts(h, a[j - 1].token)
        BY <1>1, <4>1 DEF History, AskedAre
      <4>. QED BY <4>1, <4>2
    <3>. QED BY <3>1, <3>2
  <2>. QED BY <1>4, <2>1 DEF AskedAre
<1>8. AskedUpTo(h, b, i)
  <2>1. \A j \in 1..(Len(a) + 1) : b[j].token <= i
    <3>. TAKE j \in 1..(Len(a) + 1)
    <3>1. CASE j = Len(a) + 1
      BY <1>2, <1>3, <1>4, <3>1
    <3>2. CASE j # Len(a) + 1
      <4>1. j \in 1..Len(a)
        BY <1>1, <3>2
      <4>. QED BY <1>3, <1>4, <1>5, <4>1
    <3>. QED BY <3>1, <3>2
  <2>2. Total(h, b) = Parts(h, i)
    <3>1. b # <<>> /\ b[Len(b)].token = i
      BY <1>1, <1>2, <1>4
    <3>. QED BY <3>1 DEF Total
  <2>. QED BY <1>4, <2>1, <2>2 DEF AskedUpTo
<1>. QED BY <1>4, <1>6, <1>7, <1>8 DEF History, b, x, S
(* What is kept under an ordinal, and the others as they were.             *)
Cleared(r, q, k) ==
    /\ q.inherited = r.inherited
    /\ q.contexts = [r.contexts EXCEPT ![k] = NoBindings]
    /\ q.counts = [r.counts EXCEPT ![k] = 0]
    /\ q.texts = [r.texts EXCEPT ![k] = Empty]

(* The record of a parser that asks.                                       *)
Asks(r, k) ==
    [Counted(r) EXCEPT !.pc = "callback", !.active = k,
                       !.before = r.childParses,
                       !.contexts[k] = NoBindings,
                       !.counts[k] = 0, !.texts[k] = Empty]

(* The fields of a parser that asks.                                       *)
LEMMA AskFields ==
    ASSUME NEW h \in Parsers, NEW r \in Records(h), NEW k \in Ordinals(h),
           k = r.sequence + 1, k \in 0..2 * Len(Text[h])
    PROVE  LET q == Asks(r, k) IN
           /\ q \in Records(h) /\ Cleared(r, q, k)
           /\ q.pc = "callback" /\ q.active = k /\ q.sequence = k
           /\ q.before = r.childParses /\ q.childParses = r.childParses
           /\ q.failed = r.failed /\ q.role = r.role /\ q.direct = r.direct
           /\ q.external = r.external /\ q.delivered = r.delivered
           /\ q.final = r.final /\ q.len = r.len /\ q.table = r.table
           /\ q.expanded = r.expanded /\ q.at = r.at /\ q.extent = r.extent
           /\ q.suppress = r.suppress /\ q.stop = r.stop
           /\ q.status = r.status /\ q.lastSuspend = r.lastSuspend
           /\ q.parent = r.parent
<1>. DEFINE q == Asks(r, k)
            c == Counted(r)
            m == [c EXCEPT !.pc = "callback", !.active = k,
                           !.before = r.childParses]
            x == [r.contexts EXCEPT ![k] = NoBindings]
            y == [r.counts EXCEPT ![k] = 0]
            z == [r.texts EXCEPT ![k] = Empty]
            p == [m EXCEPT !.contexts = x, !.counts = y, !.texts = z]
<1>1. r.sequence + 1 \in 0..2 * Len(Text[h])
  OBVIOUS
<1>2. /\ c \in Records(h) /\ Alike(r, c) /\ c.sequence = k
      /\ c.stop = r.stop /\ c.status = r.status /\ c.lastSuspend = r.lastSuspend
  BY <1>1, CountedFields
<1>3. r.childParses \in Nat /\ r.contexts \in [Ordinals(h) -> Tables]
      /\ r.counts \in [Ordinals(h) -> Nat] /\ r.texts \in [Ordinals(h) -> Values]
  BY DEF Records
<1>4. x \in [Ordinals(h) -> Tables] /\ y \in [Ordinals(h) -> Nat]
      /\ z \in [Ordinals(h) -> Values]
  <2>1. Empty \in Values /\ NoBindings \in Tables
    BY EntityAssumption, TablesClosed DEF EntityAssumption
  <2>. QED BY <1>3, <2>1
<1>. HIDE DEF c
<1>5. m \in Records(h)
  BY <1>2, <1>3 DEF Records
<1>6. /\ m.pc = "callback" /\ m.active = k /\ m.sequence = c.sequence
      /\ m.before = r.childParses /\ m.childParses = c.childParses
      /\ m.failed = c.failed /\ m.role = c.role /\ m.direct = c.direct
      /\ m.external = c.external /\ m.delivered = c.delivered
      /\ m.final = c.final /\ m.len = c.len /\ m.table = c.table
      /\ m.expanded = c.expanded /\ m.at = c.at /\ m.extent = c.extent
      /\ m.suppress = c.suppress /\ m.stop = c.stop
      /\ m.status = c.status /\ m.lastSuspend = c.lastSuspend
      /\ m.parent = c.parent
      /\ SameMemory(c, m)
  BY <1>2 DEF Records, SameMemory
<1>7. q = p
  <2>1. /\ m.contexts = r.contexts /\ m.counts = r.counts /\ m.texts = r.texts
    BY <1>2, <1>6 DEF Alike, SameMemory
  <2>2. q = [m EXCEPT !.contexts[k] = NoBindings, !.counts[k] = 0,
                      !.texts[k] = Empty]
    BY DEF c, Asks
  <2>. HIDE DEF m, q
  <2>3. p = [m EXCEPT !.contexts[k] = NoBindings, !.counts[k] = 0,
                      !.texts[k] = Empty]
    BY <1>5, <2>1 DEF Records
  <2>. QED BY <2>2, <2>3
<1>. HIDE DEF m, x, y, z
<1>8. p \in Records(h)
  BY <1>4, <1>5 DEF Records
<1>9. /\ p.pc = m.pc /\ p.active = m.active /\ p.sequence = m.sequence
      /\ p.before = m.before /\ p.childParses = m.childParses
      /\ p.failed = m.failed /\ p.role = m.role /\ p.direct = m.direct
      /\ p.external = m.external /\ p.delivered = m.delivered
      /\ p.final = m.final /\ p.len = m.len /\ p.table = m.table
      /\ p.expanded = m.expanded /\ p.at = m.at /\ p.extent = m.extent
      /\ p.suppress = m.suppress /\ p.stop = m.stop
      /\ p.status = m.status /\ p.lastSuspend = m.lastSuspend
      /\ p.parent = m.parent /\ p.inherited = m.inherited
      /\ p.contexts = x /\ p.counts = y /\ p.texts = z
  BY <1>5 DEF Records
<1>. HIDE DEF p, q
<1>10. Cleared(r, q, k)
  <2>1. q.inherited = r.inherited
    BY <1>2, <1>6, <1>7, <1>9 DEF Alike, SameMemory
  <2>. QED BY <1>7, <1>9, <2>1 DEF Cleared, x, y, z
<1>11. /\ q.pc = "callback" /\ q.active = k /\ q.sequence = k
       /\ q.before = r.childParses /\ q.childParses = r.childParses
       /\ q.failed = r.failed /\ q.role = r.role /\ q.direct = r.direct
       /\ q.external = r.external /\ q.delivered = r.delivered
       /\ q.final = r.final /\ q.len = r.len /\ q.table = r.table
       /\ q.expanded = r.expanded /\ q.at = r.at /\ q.extent = r.extent
       /\ q.suppress = r.suppress /\ q.stop = r.stop
       /\ q.status = r.status /\ q.lastSuspend = r.lastSuspend
       /\ q.parent = r.parent
  BY <1>2, <1>6, <1>7, <1>9 DEF Alike
<1>. QED BY <1>7, <1>8, <1>10, <1>11 DEF q
(* Other ordinals keep what they had.                                      *)
Elsewhere(h, r, q, k) ==
    /\ q.inherited = r.inherited
    /\ \A l \in Ordinals(h) \ {k} :
         /\ q.contexts[l] = r.contexts[l] /\ q.counts[l] = r.counts[l]
         /\ q.texts[l] = r.texts[l]

(* What was kept under another ordinal stays.                              *)
LEMMA ClearedElsewhere ==
    ASSUME NEW h \in Parsers, NEW r \in Records(h), NEW q,
           NEW k \in Ordinals(h), Cleared(r, q, k)
    PROVE  Elsewhere(h, r, q, k)
<1>1. /\ r.contexts \in [Ordinals(h) -> Tables]
      /\ r.counts \in [Ordinals(h) -> Nat] /\ r.texts \in [Ordinals(h) -> Values]
  BY DEF Records
<1>. QED BY <1>1 DEF Cleared, Elsewhere

(* Earlier answers stay kept.                                              *)
LEMMA ElsewhereKeeps ==
    ASSUME NEW h \in Parsers, NEW rep \in BOOLEAN, NEW r, NEW q,
           NEW i \in 1..Len(Text[h]),
           Elsewhere(h, r, q, Ordinal(rep, h, i)), KeptUpTo(rep, h, r, i - 1)
    PROVE  KeptUpTo(rep, h, q, i - 1)
<1>. DEFINE k == Ordinal(rep, h, i)
<1>0. i \in Nat /\ Len(Text[h]) \in Nat
  BY Texts
<1>1. ASSUME NEW j \in 1..(i - 1), Refers(h, j)
      PROVE  Kept(rep, h, q, j)
  <2>. DEFINE l == Ordinal(rep, h, j)
  <2>1. j \in 1..Len(Text[h]) /\ j \in 0..(i - 1) /\ i - 1 \in Nat
    BY <1>0
  <2>2. l # k
    <3>1. Ordinal(rep, h, j) <= Calls(rep, h, j) /\ Calls(rep, h, j) \in Nat
          /\ Ordinal(rep, h, j) \in Ordinals(h)
      BY <1>1, <2>1, CallsStep
    <3>2. Calls(rep, h, j) <= Calls(rep, h, i - 1)
      BY <2>1, CallsFacts
    <3>3. k = Calls(rep, h, i - 1) + 1 /\ Calls(rep, h, i - 1) \in Nat
      BY CallsStep DEF Ordinal
    <3>4. l \in Int
      BY <1>0, <3>1 DEF Ordinals
    <3>. HIDE DEF k, l
    <3>5. l <= Calls(rep, h, j)
      BY <3>1 DEF l
    <3>. QED BY <3>1, <3>2, <3>3, <3>4, <3>5
  <2>3. l \in Ordinals(h)
    BY <1>1, <2>1, CallsStep
  <2>. HIDE DEF k, l
  <2>4. q.contexts[l] = r.contexts[l] /\ q.counts[l] = r.counts[l]
        /\ q.texts[l] = r.texts[l]
    BY <2>2, <2>3 DEF Elsewhere, k
  <2>5. Own(h, q, j) = Own(h, r, j)
    BY DEF Own, Base, Elsewhere
  <2>6. Kept(rep, h, r, j)
    BY <1>1 DEF KeptUpTo
  <2>. QED BY <2>4, <2>5, <2>6 DEF Kept, l
<1>. QED BY <1>1 DEF KeptUpTo

(* A parser that asks for its next reference.                              *)
LEMMA AskLocal ==
    ASSUME NEW h \in Parsers, NEW rep \in BOOLEAN, NEW r, NEW a, NEW e,
           Passing(rep, h, r, a, e, 0), r.at <= r.extent, Refers(h, r.at),
           ~Suppressed(r), NEW k, k = r.sequence + 1
    PROVE  LET q == Asks(r, k) IN
           /\ Local(rep, h, q,
                    Append(a, [token |-> r.at, ordinal |-> k]))
           /\ q.pc = "callback" /\ q.at = r.at /\ q.parent = r.parent
           /\ q.role = r.role /\ q.inherited = r.inherited
           /\ q.status # "none" /\ q.before = q.childParses
<1>. DEFINE i == r.at
            q == Asks(r, k)
            b == Append(a, [token |-> r.at, ordinal |-> k])
<1>1. /\ r \in Records(h) /\ i \in 1..Len(Text[h]) /\ i \in Nat /\ e \in Nat
      /\ r.sequence \in Nat /\ r.suppress \in Nat /\ Len(Text[h]) \in Nat
      /\ r.extent \in 0..Len(Text[h])
  BY NextToken
<1>2. k = Ordinal(rep, h, i) /\ k \in Ordinals(h) /\ k \in 0..2 * Len(Text[h])
      /\ e < i
  BY NextOrdinal
<1>3. /\ q \in Records(h) /\ Cleared(r, q, k)
      /\ q.pc = "callback" /\ q.active = k /\ q.sequence = k
      /\ q.before = r.childParses /\ q.childParses = r.childParses
      /\ q.failed = r.failed /\ q.role = r.role /\ q.direct = r.direct
      /\ q.external = r.external /\ q.delivered = r.delivered
      /\ q.final = r.final /\ q.len = r.len /\ q.table = r.table
      /\ q.expanded = r.expanded /\ q.at = r.at /\ q.extent = r.extent
      /\ q.suppress = r.suppress /\ q.stop = r.stop
      /\ q.status = r.status /\ q.parent = r.parent
  BY <1>1, <1>2, AskFields
<1>. HIDE DEF q
<1>4. /\ MidPass(rep, h, r, a, e) /\ AskedUpTo(h, a, i - 1)
      /\ r.expanded <= i - 1
      /\ Faithful => /\ KeptUpTo(rep, h, r, i - 1) /\ r.table = Base(h, r, i - 1)
                     /\ h # Root => r.expanded = Uses(h, i - 1)
  BY <1>1, <1>2 DEF Passing
<1>5. History(rep, h, b) /\ AskedUpTo(h, b, i)
  BY <1>1, <1>2, <1>4, HistoryAppend DEF MidPass
<1>6. Reach(q, e) = i /\ Reads(q) = Reads(r)
  BY <1>3 DEF Reach, Reads
<1>7. q.status # "none"
  <2>1. r.stop \in {"no", "suspend", "abort"}
    BY <1>1 DEF Records
  <2>. QED BY <1>3, <1>4, <2>1, StatusInCall DEF MidPass
<1>8. InCall(rep, h, q)
  <2>1. r.suppress < k
    BY <1>1 DEF Suppressed
  <2>2. i <= r.extent /\ i <= r.extent + 1
    BY <1>1
  <2>. QED BY <1>2, <1>3, <1>4, <1>6, <2>1, <2>2 DEF InCall, MidPass
<1>9. Steady(rep, h, q, b)
  <2>1. b # <<>> /\ b[Len(b)].token = i
    <3>1. a \in Seq([token : 1..Len(Text[h]), ordinal : Ordinals(h)])
      BY <1>4 DEF MidPass, History
    <3>. QED BY <3>1, HistoryAt DEF b
  <2>. QED BY <1>3, <1>4, <1>5, <1>7, <1>8, <2>1 DEF Steady, History, MidPass
<1>10. Faithful => KeptUpTo(rep, h, q, i - 1)
  <2>1. Elsewhere(h, r, q, k)
    BY <1>1, <1>2, <1>3, ClearedElsewhere
  <2>. QED BY <1>1, <1>2, <1>4, <2>1, ElsewhereKeeps
<1>11. e \in 0..Reads(q) /\ LocalAt(rep, h, q, b, e)
  BY <1>2, <1>3, <1>4, <1>5, <1>6, <1>10 DEF LocalAt, MidPass
<1>12. ASSUME Faithful PROVE Knows(rep, h, q, b)
  <2>1. ~HasGiven(q)
    <3>1. r.childParses \in Nat
      BY <1>1 DEF Records
    <3>. QED BY <1>3, <3>1 DEF HasGiven
  <2>2. q.external = Parts(h, q.at - 1)
    BY <1>3, <1>4, <1>12 DEF MidPass, AskedUpTo
  <2>3. q.table = Base(h, q, q.at - 1)
    BY <1>3, <1>4, <1>12 DEF Base, Cleared
  <2>4. q.contexts[q.active] = NoBindings
    <3>1. r.contexts \in [Ordinals(h) -> Tables]
      BY <1>1 DEF Records
    <3>. QED BY <1>2, <1>3, <3>1 DEF Cleared
  <2>5. h # Root => q.expanded = Uses(h, q.at - 1) /\ (q.final => q.len > 0)
    BY <1>3, <1>4, <1>12 DEF MidPass
  <2>. QED BY <1>3, <2>1, <2>2, <2>3, <2>4, <2>5 DEF Knows
<1>13. Local(rep, h, q, b)
  BY <1>9, <1>11, <1>12 DEF Local
<1>14. q.inherited = r.inherited
  BY <1>3 DEF Cleared
<1>. QED BY <1>3, <1>7, <1>13, <1>14 DEF q

-----------------------------------------------------------------------------
(* The callback returns.                                                   *)
Answers(r, given) ==
    RecordStop([(IF given THEN KeepCount(r) ELSE r)
                  EXCEPT !.pc = "pass", !.active = 0])

(* The fields of a parser whose handler has answered.                      *)
LEMMA AnswerFields ==
    ASSUME NEW h \in Parsers, NEW r \in Records(h), r.active \in Ordinals(h),
           NEW given \in BOOLEAN
    PROVE  LET q == Answers(r, given) IN
           /\ q \in Records(h)
           /\ q.pc = "pass" /\ q.active = 0 /\ q.sequence = r.sequence
           /\ q.failed = r.failed /\ q.role = r.role /\ q.direct = r.direct
           /\ q.external = r.external /\ q.delivered = r.delivered
           /\ q.final = r.final /\ q.len = r.len /\ q.table = r.table
           /\ q.expanded = r.expanded /\ q.at = r.at /\ q.extent = r.extent
           /\ q.suppress = r.suppress /\ q.stop = r.stop
           /\ q.status = r.status /\ q.parent = r.parent
           /\ q.inherited = r.inherited
           /\ q.contexts = r.contexts /\ q.texts = r.texts
           /\ q.counts = IF given
                         THEN [r.counts EXCEPT ![r.active] = r.lastChild]
                         ELSE r.counts
           /\ r.stop = "suspend" => q.lastSuspend = r.sequence
<1>. DEFINE q == Answers(r, given)
            c == IF given THEN [r.counts EXCEPT ![r.active] = r.lastChild]
                 ELSE r.counts
            m == [r EXCEPT !.counts = c]
            s == [m EXCEPT !.pc = "pass", !.active = 0]
<1>1. r.counts \in [Ordinals(h) -> Nat] /\ r.lastChild \in Nat
  BY DEF Records
<1>2. c \in [Ordinals(h) -> Nat]
  BY <1>1
<1>3. q = RecordStop(s)
  <2>1. CASE given
    <3>1. KeepCount(r) = m
      BY <2>1 DEF KeepCount
    <3>. HIDE DEF m
    <3>. QED BY <2>1, <3>1 DEF Answers
  <2>2. CASE ~given
    <3>1. m = r
      BY <2>2 DEF Records
    <3>. HIDE DEF m
    <3>. QED BY <2>2, <3>1 DEF Answers
  <2>. QED BY <2>1, <2>2
<1>. HIDE DEF q, c
<1>4. m \in Records(h) /\ m.counts = c
  BY <1>2 DEF Records
<1>5. /\ m.sequence = r.sequence
      /\ m.failed = r.failed /\ m.role = r.role /\ m.direct = r.direct
      /\ m.external = r.external /\ m.delivered = r.delivered
      /\ m.final = r.final /\ m.len = r.len /\ m.table = r.table
      /\ m.expanded = r.expanded /\ m.at = r.at /\ m.extent = r.extent
      /\ m.suppress = r.suppress /\ m.stop = r.stop
      /\ m.status = r.status /\ m.parent = r.parent
      /\ m.inherited = r.inherited
      /\ m.contexts = r.contexts /\ m.texts = r.texts
  BY DEF Records
<1>. HIDE DEF m
<1>6. s \in Records(h)
  BY <1>4 DEF Records
<1>7. /\ s.pc = "pass" /\ s.active = 0 /\ s.sequence = m.sequence
      /\ s.failed = m.failed /\ s.role = m.role /\ s.direct = m.direct
      /\ s.external = m.external /\ s.delivered = m.delivered
      /\ s.final = m.final /\ s.len = m.len /\ s.table = m.table
      /\ s.expanded = m.expanded /\ s.at = m.at /\ s.extent = m.extent
      /\ s.suppress = m.suppress /\ s.stop = m.stop
      /\ s.status = m.status /\ s.parent = m.parent
      /\ s.inherited = m.inherited
      /\ s.contexts = m.contexts /\ s.texts = m.texts /\ s.counts = c
  BY <1>4 DEF Records
<1>. HIDE DEF s
<1>8. /\ q \in Records(h) /\ Alike(s, q) /\ q.sequence = s.sequence
      /\ q.stop = s.stop /\ q.status = s.status
      /\ s.stop = "suspend" => q.lastSuspend = s.sequence
  BY <1>3, <1>6, RecordStopFields
<1>9. /\ q.pc = "pass" /\ q.active = 0 /\ q.sequence = r.sequence
      /\ q.failed = r.failed /\ q.role = r.role /\ q.direct = r.direct
      /\ q.external = r.external /\ q.delivered = r.delivered
      /\ q.final = r.final /\ q.len = r.len /\ q.table = r.table
      /\ q.expanded = r.expanded /\ q.at = r.at /\ q.extent = r.extent
      /\ q.suppress = r.suppress /\ q.stop = r.stop
      /\ q.status = r.status /\ q.parent = r.parent
      /\ q.inherited = r.inherited
      /\ q.contexts = r.contexts /\ q.texts = r.texts /\ q.counts = c
      /\ r.stop = "suspend" => q.lastSuspend = r.sequence
  BY <1>5, <1>7, <1>8 DEF Alike, SameMemory
<1>. QED BY <1>8, <1>9 DEF q, c
(* A parser in its callback.                                               *)
LEMMA InTheCallback ==
    ASSUME NEW h \in Parsers, NEW rep \in BOOLEAN, NEW r, NEW a,
           Local(rep, h, r, a), r.pc = "callback"
    PROVE  /\ r \in Records(h) /\ History(rep, h, a) /\ InCall(rep, h, r)
           /\ r.at \in 1..Len(Text[h]) /\ r.at \in Nat /\ Len(Text[h]) \in Nat
           /\ Refers(h, r.at) /\ r.extent = Reads(r) /\ r.at <= r.extent
           /\ r.active = Ordinal(rep, h, r.at) /\ r.active \in Ordinals(h)
           /\ r.sequence = r.active
           /\ r.sequence \in Nat /\ r.suppress \in Nat
           /\ r.status # "none" /\ r.status = StatusOf(r.stop) /\ ~r.failed
           /\ r.stop \in {"no", "suspend", "abort"}
           /\ r.final => r.direct = Len(Text[h])
           /\ r.role \in {"subset", "literal"} => r.stop # "suspend"
           /\ a # <<>> /\ a[Len(a)].token = r.at
           /\ Faithful => Knows(rep, h, r, a)
           /\ \E e \in 0..Reads(r) :
                /\ e \in Nat /\ e < r.at /\ r.delivered = Calls(rep, h, e)
                /\ AskedUpTo(h, a, r.at)
                /\ Faithful => KeptUpTo(rep, h, r, r.at - 1)
<1>1. Steady(rep, h, r, a) /\ InCall(rep, h, r)
  BY DEF Local, Steady
<1>2. r \in Records(h) /\ History(rep, h, a)
  BY <1>1 DEF Steady, History
<1>3. Len(Text[h]) \in Nat
  BY Texts
<1>4. /\ r.at \in 1..Len(Text[h]) + 1 /\ r.extent \in 0..Len(Text[h])
      /\ r.sequence \in 0..2 * Len(Text[h]) /\ r.suppress \in 0..2 * Len(Text[h])
      /\ r.stop \in {"no", "suspend", "abort"}
  BY <1>2 DEF Records
<1>5. /\ r.at <= r.extent /\ Refers(h, r.at) /\ r.extent = Reads(r)
      /\ r.sequence = Ordinal(rep, h, r.at) /\ r.active = r.sequence
      /\ r.status = StatusOf(r.stop) /\ ~r.failed
  BY <1>1 DEF InCall
<1>6. r.at \in 1..Len(Text[h]) /\ r.at \in Nat /\ r.sequence \in Nat
      /\ r.suppress \in Nat /\ r.extent \in Nat
  BY <1>3, <1>4, <1>5
<1>7. r.active \in Ordinals(h)
  BY <1>5, <1>6, CallsStep
<1>8. r.status # "none"
  BY <1>4, <1>5, StatusInCall
<1>9. PICK e \in 0..Reads(r) : LocalAt(rep, h, r, a, e)
  BY <1>5 DEF Local, Live
<1>10. /\ e \in Nat /\ e < r.at /\ r.delivered = Calls(rep, h, e)
       /\ AskedUpTo(h, a, r.at)
       /\ Faithful => KeptUpTo(rep, h, r, r.at - 1)
  BY <1>5, <1>6, <1>9 DEF LocalAt, Reach
<1>. QED BY <1>1, <1>2, <1>3, <1>4, <1>5, <1>6, <1>7, <1>8, <1>10 DEF Local, Steady

(* The child of a parameter entity has been merged.                        *)
Gives(h, r) == Text[h][r.at].kind \in {"subset", "literal"} /\ HasGiven(r)

(* An answered reference is done with.                                     *)
LEMMA AnswerReady ==
    ASSUME NEW h \in Parsers, NEW rep \in BOOLEAN, NEW r, NEW a,
           Local(rep, h, r, a), r.pc = "callback",
           Faithful => HasGiven(r) /\ r.lastChild = RefWeight(h, r.at)
    PROVE  LET given == Gives(h, r)
               q == Answers(r, given)
               v == IF given THEN r.texts[r.active] ELSE Empty
           IN
           /\ \E e : Ready(rep, h, q, a, e)
           /\ q.at = r.at /\ q.parent = r.parent /\ q.role = r.role
           /\ q.inherited = r.inherited
           /\ v \in Values
           /\ Faithful /\ Text[h][r.at].kind = "literal" => v = Text[h][r.at].to
<1>. DEFINE i == r.at
            k == r.active
            given == Gives(h, r)
            q == Answers(r, given)
            v == IF given THEN r.texts[k] ELSE Empty
<1>1. /\ r \in Records(h) /\ History(rep, h, a) /\ InCall(rep, h, r)
      /\ i \in 1..Len(Text[h]) /\ i \in Nat /\ Len(Text[h]) \in Nat
      /\ Refers(h, i) /\ r.extent = Reads(r) /\ i <= r.extent
      /\ k = Ordinal(rep, h, i) /\ k \in Ordinals(h) /\ r.sequence = k
      /\ r.sequence \in Nat /\ r.suppress \in Nat
      /\ r.status = StatusOf(r.stop) /\ ~r.failed
      /\ r.final => r.direct = Len(Text[h])
      /\ r.role \in {"subset", "literal"} => r.stop # "suspend"
      /\ Faithful => Knows(rep, h, r, a)
  BY InTheCallback
<1>2. PICK e \in 0..Reads(r) :
                /\ e \in Nat /\ e < i /\ r.delivered = Calls(rep, h, e)
                /\ AskedUpTo(h, a, i)
                /\ Faithful => KeptUpTo(rep, h, r, i - 1)
  BY InTheCallback
<1>3. /\ q \in Records(h)
      /\ q.pc = "pass" /\ q.active = 0 /\ q.sequence = r.sequence
      /\ q.failed = r.failed /\ q.role = r.role /\ q.direct = r.direct
      /\ q.external = r.external /\ q.delivered = r.delivered
      /\ q.final = r.final /\ q.len = r.len /\ q.table = r.table
      /\ q.expanded = r.expanded /\ q.at = r.at /\ q.extent = r.extent
      /\ q.suppress = r.suppress /\ q.stop = r.stop
      /\ q.status = r.status /\ q.parent = r.parent
      /\ q.inherited = r.inherited
      /\ q.contexts = r.contexts /\ q.texts = r.texts
      /\ q.counts = IF given
                    THEN [r.counts EXCEPT ![k] = r.lastChild]
                    ELSE r.counts
      /\ r.stop = "suspend" => q.lastSuspend = r.sequence
  <2>1. r \in Records(h) /\ r.active \in Ordinals(h) /\ given \in BOOLEAN
    BY <1>1 DEF Gives
  <2>. HIDE DEF given
  <2>. QED BY <2>1, AnswerFields
<1>4. r.texts[k] \in Values /\ Empty \in Values /\ r.counts \in [Ordinals(h) -> Nat]
      /\ r.lastChild \in Nat
  <2>1. Empty \in Values
    BY EntityAssumption DEF EntityAssumption
  <2>2. /\ r.texts \in [Ordinals(h) -> Values] /\ r.lastChild \in Nat
        /\ r.counts \in [Ordinals(h) -> Nat]
    BY <1>1 DEF Records
  <2>. QED BY <1>1, <2>1, <2>2
<1>. HIDE DEF q, given
<1>5. Reads(q) = Reads(r)
  BY <1>3 DEF Reads
<1>6. r.suppress = r.delivered /\ r.suppress < r.sequence /\ r.expanded <= i - 1
  BY <1>1 DEF InCall
<1>7. ASSUME Faithful
      PROVE  /\ HasGiven(r) /\ r.external = Total(h, a)
             /\ r.table = Base(h, r, IF Text[h][i].kind = "subset" THEN i
                                     ELSE i - 1)
             /\ Kept(rep, h, [r EXCEPT !.counts[r.active] = RefWeight(h, r.at)], i)
             /\ h # Root => r.expanded = Uses(h, i - 1) /\ (r.final => r.len > 0)
  BY <1>1, <1>7 DEF Knows
<1>8. MidPass(rep, h, q, a, e)
  BY <1>1, <1>2, <1>3, <1>5, <1>6, <1>7 DEF MidPass
<1>9. AskedUpTo(h, a, IF i > e THEN i ELSE e)
  BY <1>1, <1>2
<1>10. q.sequence = Calls(rep, h, i - 1) + (IF Refers(h, i) THEN 1 ELSE 0)
  BY <1>1, <1>3 DEF Ordinal
<1>11. ASSUME Faithful PROVE Kept(rep, h, q, i)
  <2>. DEFINE m == [r EXCEPT !.counts[r.active] = RefWeight(h, r.at)]
  <2>1. /\ m.contexts = r.contexts /\ m.texts = r.texts
        /\ m.inherited = r.inherited
        /\ m.counts = [r.counts EXCEPT ![k] = RefWeight(h, i)]
    BY <1>1 DEF Records
  <2>2. Kept(rep, h, m, i)
    BY <1>7, <1>11
  <2>. HIDE DEF m
  <2>3. Own(h, m, i) = Own(h, q, i)
    BY <1>3, <2>1 DEF Own, Base
  <2>4. Text[h][i].kind = "subset" => given
    BY <1>7, <1>11 DEF Gives, given
  <2>5. Text[h][i].kind = "subset" => q.counts[k] = RefWeight(h, i)
    BY <1>1, <1>3, <1>4, <1>11, <2>4
  <2>. QED BY <1>1, <1>3, <2>1, <2>2, <2>3, <2>5 DEF Kept
<1>12. ASSUME Faithful PROVE KeptUpTo(rep, h, q, i - 1)
  <2>1. Elsewhere(h, r, q, k)
    BY <1>3, <1>4 DEF Elsewhere
  <2>. QED BY <1>1, <1>2, <1>12, <2>1, ElsewhereKeeps
<1>13. ASSUME Faithful PROVE KeptUpTo(rep, h, q, i)
  BY <1>1, <1>11, <1>12, <1>13 DEF KeptUpTo
<1>14. ASSUME Faithful
       PROVE  /\ q.table = Base(h, q, IF Text[h][i].kind = "subset" THEN i
                                      ELSE i - 1)
              /\ h # Root => q.expanded = Uses(h, i)
  <2>1. Uses(h, i) = Uses(h, i - 1)
    <3>1. Text[h][i].kind # "use"
      BY <1>1 DEF Refers, References
    <3>. QED BY <1>1, <3>1, UsesStep
  <2>. QED BY <1>3, <1>7, <1>14, <2>1 DEF Base
<1>15. v \in Values
  BY <1>4
<1>16. ASSUME Faithful, Text[h][i].kind = "literal"
       PROVE  v = Text[h][i].to
  <2>1. given
    BY <1>7, <1>16 DEF Gives, given
  <2>2. q.texts[k] = Text[h][i].to
    BY <1>1, <1>11, <1>16 DEF Kept
  <2>. QED BY <1>3, <2>1, <2>2
<1>. HIDE DEF i, v, k
<1>17. q.at = i /\ i <= q.extent /\ q.expanded <= i
  <2>1. r.expanded \in Nat
    <3>1. r.expanded \in 0..Len(Text[h])
      BY <1>1 DEF Records
    <3>. QED BY <1>1, <3>1
  <2>. QED BY <1>1, <1>3, <1>6, <2>1 DEF i
<1>18. i > e
  BY <1>1, <1>2
<1>19. Ready(rep, h, q, a, e)
  BY <1>8, <1>9, <1>10, <1>13, <1>14, <1>17, <1>18 DEF Ready
<1>. QED BY <1>3, <1>15, <1>16, <1>19 DEF i, v, k, q, given

-----------------------------------------------------------------------------
(* XML_StopParser in a callback.                                           *)
LEMMA CountKept ==
    ASSUME NEW rep, NEW h \in Parsers, NEW r \in Records(h), NEW w, NEW i
    PROVE  LET m == [r EXCEPT !.counts[r.active] = w] IN
           /\ m.contexts = r.contexts /\ m.texts = r.texts
           /\ m.inherited = r.inherited
           /\ m.counts = [r.counts EXCEPT ![r.active] = w]
BY DEF Records

(* What a parser knows depends on few fields.                              *)
LEMMA KnowsAlike ==
    ASSUME NEW h \in Parsers, NEW rep \in BOOLEAN, NEW r \in Records(h), NEW a,
           NEW s \in Records(h), Alike(r, s), Knows(rep, h, r, a)
    PROVE  Knows(rep, h, s, a)
<1>1. SameMemory(r, s)
  BY DEF Alike
<1>2. \A n : Base(h, s, n) = Base(h, r, n)
  BY <1>1, KeptSame
<1>3. HasGiven(s) = HasGiven(r)
  BY DEF HasGiven, Alike
<1>. DEFINE m == [r EXCEPT !.counts[r.active] = RefWeight(h, r.at)]
            n == [s EXCEPT !.counts[s.active] = RefWeight(h, s.at)]
<1>4. SameMemory(m, n)
  <2>1. /\ m.contexts = r.contexts /\ m.texts = r.texts
        /\ m.inherited = r.inherited
        /\ m.counts = [r.counts EXCEPT ![r.active] = RefWeight(h, r.at)]
    BY CountKept
  <2>2. /\ n.contexts = s.contexts /\ n.texts = s.texts
        /\ n.inherited = s.inherited
        /\ n.counts = [s.counts EXCEPT ![s.active] = RefWeight(h, s.at)]
    BY CountKept
  <2>. HIDE DEF m, n
  <2>. QED BY <1>1, <2>1, <2>2 DEF SameMemory, Alike
<1>. HIDE DEF m, n
<1>5. Kept(rep, h, n, s.at) = Kept(rep, h, m, r.at)
  <2>1. s.at = r.at
    BY DEF Alike
  <2>. QED BY <1>4, <2>1, KeptSame
<1>6. /\ s.failed = r.failed /\ s.external = r.external /\ s.pc = r.pc
      /\ s.at = r.at /\ s.table = r.table /\ s.active = r.active
      /\ s.expanded = r.expanded /\ s.final = r.final /\ s.len = r.len
      /\ s.contexts = r.contexts
  BY DEF Alike, SameMemory
<1>7. r.pc = "callback" =>
        /\ r.table = IF HasGiven(r) /\ Text[h][r.at].kind = "subset"
                     THEN Base(h, r, r.at) ELSE Base(h, r, r.at - 1)
        /\ IF HasGiven(r) THEN Kept(rep, h, m, r.at)
           ELSE r.contexts[r.active] = NoBindings
  BY DEF Knows, m
<1>8. s.pc = "callback" =>
        /\ s.table = IF HasGiven(s) /\ Text[h][s.at].kind = "subset"
                     THEN Base(h, s, s.at) ELSE Base(h, s, s.at - 1)
        /\ IF HasGiven(s) THEN Kept(rep, h, n, s.at)
           ELSE s.contexts[s.active] = NoBindings
  BY <1>2, <1>3, <1>5, <1>6, <1>7
<1>9. s.pc = "pass" => s.table = Base(h, s, s.at - 1)
  BY <1>2, <1>6 DEF Knows
<1>10. ~s.failed => s.external = IF s.pc = "callback" /\ ~HasGiven(s)
                                 THEN Parts(h, s.at - 1) ELSE Total(h, a)
  BY <1>3, <1>6 DEF Knows
<1>11. h # Root /\ s.pc # "idle" =>
         /\ s.expanded = Uses(h, s.at - 1)
         /\ s.final => s.len > 0
  BY <1>6 DEF Knows
<1>. QED BY <1>8, <1>9, <1>10, <1>11 DEF Knows, n

(* A parser stopped by its handler.                                        *)
LEMMA StopLocal ==
    ASSUME NEW h \in Parsers, NEW rep \in BOOLEAN, NEW r, NEW a,
           Local(rep, h, r, a), r.pc = "callback",
           NEW how \in {"suspend", "abort"}, MayStop(r, how)
    PROVE  LET s == Stopped(r, how) IN
           /\ Local(rep, h, s, a) /\ Alike(r, s) /\ s.status # "none"
<1>. DEFINE s == Stopped(r, how)
<1>1. /\ r \in Records(h) /\ History(rep, h, a) /\ InCall(rep, h, r)
      /\ r.final => r.direct = Len(Text[h])
      /\ Faithful => Knows(rep, h, r, a)
  BY InTheCallback
<1>2. PICK e \in 0..Reads(r) :
                /\ e \in Nat /\ e < r.at /\ r.delivered = Calls(rep, h, e)
                /\ AskedUpTo(h, a, r.at)
                /\ Faithful => KeptUpTo(rep, h, r, r.at - 1)
  BY InTheCallback
<1>3. /\ s \in Records(h) /\ Alike(r, s)
      /\ s.sequence = r.sequence /\ s.stop = how /\ s.status = StatusOf(how)
  BY <1>1, StoppedFields
<1>. HIDE DEF s
<1>4. s.pc = "callback" /\ s.at = r.at /\ Reads(s) = Reads(r) /\ SameMemory(r, s)
  BY <1>3 DEF Alike, Reads
<1>5. InCall(rep, h, s)
  BY <1>1, <1>3, <1>4 DEF InCall, Alike
<1>6. s.status # "none"
  BY <1>3, StatusInCall
<1>7. Steady(rep, h, s, a)
  <2>1. s.role \in {"subset", "literal"} => s.stop # "suspend"
    BY <1>3 DEF MayStop, Alike
  <2>2. s.final => s.direct = Len(Text[h])
    BY <1>1, <1>3 DEF Alike
  <2>3. a # <<>> /\ a[Len(a)].token = s.at
    BY <1>1, <1>4, InTheCallback
  <2>. QED BY <1>1, <1>3, <1>4, <1>5, <1>6, <2>1, <2>2, <2>3 DEF Steady, History
<1>8. Faithful => Knows(rep, h, s, a)
  BY <1>1, <1>3, KnowsAlike
<1>9. e \in 0..Reads(s) /\ LocalAt(rep, h, s, a, e)
  <2>1. Reach(s, e) = r.at
    BY <1>4 DEF Reach
  <2>2. s.delivered = r.delivered
    BY <1>3 DEF Alike
  <2>. QED BY <1>2, <1>4, <2>1, <2>2, KeptSame DEF LocalAt
<1>10. Local(rep, h, s, a)
  BY <1>7, <1>8, <1>9 DEF Local
<1>. QED BY <1>3, <1>6, <1>10 DEF s

-----------------------------------------------------------------------------
(* The end of a pass.                                                      *)

(* How a pass ends, for good or until more text comes.                     *)
Closed(h, r) == [Terminal(h, r) EXCEPT !.status = "FINISHED"]
Paused(r) ==
    [r EXCEPT !.pc = "idle", !.status = "PARSING",
              !.delivered = IF r.sequence > @ THEN r.sequence ELSE @]

(* The fields of a parser that has accounted for its pass.                 *)
LEMMA AccountedFields ==
    ASSUME NEW h \in Parsers, NEW r \in Records(h)
    PROVE  LET s == Accounted(r) IN
           /\ s \in Records(h) /\ s.indirect = r.external + r.expanded
           /\ Alike(r, s) /\ s.sequence = r.sequence /\ s.stop = r.stop
           /\ s.status = r.status /\ s.lastSuspend = r.lastSuspend
<1>. DEFINE x == r.external + r.expanded
            s == [r EXCEPT !.indirect = x]
<1>1. x \in Nat
  <2>1. r.external \in Nat /\ r.expanded \in 0..Len(Text[h]) /\ Len(Text[h]) \in Nat
    BY Texts DEF Records
  <2>. QED BY <2>1
<1>2. x = r.external + r.expanded /\ Accounted(r) = [r EXCEPT !.indirect = x]
  BY DEF Accounted
<1>. HIDE DEF x
<1>3. s \in Records(h) /\ s.indirect = x
  BY <1>1 DEF Records
<1>4. /\ Alike(r, s) /\ s.sequence = r.sequence /\ s.stop = r.stop
      /\ s.status = r.status /\ s.lastSuspend = r.lastSuspend
  BY DEF Records, Alike, SameMemory
<1>. HIDE DEF s
<1>. QED BY <1>2, <1>3, <1>4 DEF s

(* The fields of a parser that waits for more text.                        *)
LEMMA PausedFields ==
    ASSUME NEW h \in Parsers, NEW r \in Records(h)
    PROVE  LET q == Paused(r) IN
           /\ q \in Records(h) /\ q.pc = "idle" /\ q.status = "PARSING"
           /\ q.delivered = IF r.sequence > r.delivered THEN r.sequence
                            ELSE r.delivered
           /\ q.failed = r.failed /\ q.active = r.active
           /\ q.stop = r.stop /\ q.final = r.final /\ q.direct = r.direct
           /\ q.role = r.role /\ q.external = r.external
           /\ q.parent = r.parent /\ SameMemory(r, q)
<1>. DEFINE d == IF r.sequence > r.delivered THEN r.sequence ELSE r.delivered
            q == [r EXCEPT !.pc = "idle", !.status = "PARSING", !.delivered = d]
<1>1. d \in 0..2 * Len(Text[h])
  BY DEF Records
<1>2. Paused(r) = q
  <2>1. [r EXCEPT !.pc = "idle", !.status = "PARSING"].delivered = r.delivered
    BY DEF Records
  <2>. QED BY <2>1 DEF Paused
<1>. HIDE DEF d
<1>3. q \in Records(h)
  BY <1>1 DEF Records
<1>4. /\ q.pc = "idle" /\ q.status = "PARSING" /\ q.delivered = d
           /\ q.failed = r.failed /\ q.active = r.active
           /\ q.stop = r.stop /\ q.final = r.final /\ q.direct = r.direct
           /\ q.role = r.role /\ q.external = r.external
           /\ q.parent = r.parent /\ SameMemory(r, q)
  BY DEF Records, SameMemory
<1>. HIDE DEF q
<1>. QED BY <1>2, <1>3, <1>4 DEF d

(* The fields of a parser whose text has ended.                            *)
LEMMA ClosedFields ==
    ASSUME NEW h \in Parsers, NEW r \in Records(h)
    PROVE  LET q == Closed(h, r) IN
           /\ q \in Records(h) /\ q.pc = "idle" /\ q.status = "FINISHED"
           /\ q.failed = r.failed /\ q.active = 0
           /\ q.stop = r.stop /\ q.final = r.final /\ q.direct = r.direct
           /\ q.role = r.role /\ q.external = r.external
           /\ q.parent = r.parent /\ q.inherited = r.inherited
<1>. DEFINE t == Terminal(h, r)
            q == [t EXCEPT !.status = "FINISHED"]
<1>1. t \in Records(h) /\ Ended(r, t) /\ t.failed = r.failed
  BY TerminalFields
<1>2. Closed(h, r) = q
  BY DEF Closed
<1>. HIDE DEF t
<1>3. q \in Records(h)
  BY <1>1 DEF Records
<1>4. /\ q.pc = t.pc /\ q.status = "FINISHED"
           /\ q.failed = t.failed /\ q.active = t.active
           /\ q.stop = t.stop /\ q.final = t.final /\ q.direct = t.direct
           /\ q.role = t.role /\ q.external = t.external
           /\ q.parent = t.parent /\ q.inherited = t.inherited
  BY <1>1 DEF Records
<1>. HIDE DEF q
<1>. QED BY <1>1, <1>2, <1>3, <1>4 DEF Ended

(* Accounting leaves the pass in order.                                    *)
LEMMA EndPassing ==
    ASSUME NEW h \in Parsers, NEW rep \in BOOLEAN, NEW r, NEW a, NEW e,
           Passing(rep, h, r, a, e, 0), r.at > r.extent
    PROVE  /\ r \in Records(h) /\ r.extent \in 0..Len(Text[h])
           /\ r.at = r.extent + 1 /\ r.at - 1 = r.extent
           /\ e \in 0..r.extent /\ r.extent = Reads(r) /\ r.extent \in Nat
           /\ AskedUpTo(h, a, r.extent)
           /\ r.sequence = Calls(rep, h, r.extent)
           /\ Faithful =>
                /\ KeptUpTo(rep, h, r, r.extent)
                /\ r.table = Base(h, r, r.extent)
                /\ h # Root => r.expanded = Uses(h, r.extent)
<1>1. r \in Records(h) /\ e \in 0..r.extent /\ r.extent = Reads(r)
  BY DEF Passing, MidPass
<1>2. Len(Text[h]) \in Nat
  BY Texts
<1>3. /\ r.at \in 1..Len(Text[h]) + 1 /\ r.extent \in 0..Len(Text[h])
      /\ r.sequence \in 0..2 * Len(Text[h])
  BY <1>1 DEF Records
<1>4. r.at = r.extent + 1 /\ r.at - 1 = r.extent /\ r.at > e /\ r.sequence \in Nat
      /\ r.extent \in Nat
  BY <1>1, <1>2, <1>3 DEF Passing
<1>. QED BY <1>1, <1>3, <1>4 DEF Passing

(* The end of a pass.                                                      *)
LEMMA EndPassLocal ==
    ASSUME NEW h \in Parsers, NEW rep \in BOOLEAN, NEW r, NEW a,
           Local(rep, h, r, a), r.pc = "pass", r.at > r.extent
    PROVE  LET s == Accounted(r)
               q == IF s.final THEN Closed(h, s) ELSE Paused(s)
           IN /\ Local(rep, h, q, a) /\ q.status # "none" /\ q.pc = "idle"
              /\ q.parent = r.parent /\ q.role = r.role
              /\ q.inherited = r.inherited /\ s.parent = r.parent
              /\ s.final = r.final /\ s.len = r.len
              /\ IF r.final THEN q.status = "FINISHED" /\ ~q.failed
                 ELSE q.status = "PARSING"
<1>. DEFINE s == Accounted(r)
            n == r.extent
<1>1. PICK e \in 0..Reads(r) : Passing(rep, h, r, a, e, 0)
  BY LocalPassing
<1>2. /\ r \in Records(h) /\ n \in 0..Len(Text[h])
      /\ e \in 0..n /\ n = Reads(r) /\ n \in Nat
      /\ AskedUpTo(h, a, n) /\ r.sequence = Calls(rep, h, n)
      /\ Faithful => KeptUpTo(rep, h, r, n)
  BY <1>1, EndPassing
<1>3. MidPass(rep, h, r, a, e)
  BY <1>1 DEF Passing
<1>4. /\ s \in Records(h) /\ Alike(r, s) /\ s.sequence = r.sequence
      /\ s.stop = r.stop /\ s.status = r.status
  BY <1>2, AccountedFields
<1>. HIDE DEF s
<1>5. /\ s.final = r.final /\ s.len = r.len /\ s.parent = r.parent
      /\ s.role = r.role /\ s.inherited = r.inherited /\ s.failed = r.failed
      /\ s.direct = r.direct /\ s.external = r.external /\ s.active = r.active
      /\ s.delivered = r.delivered /\ SameMemory(r, s)
  BY <1>4 DEF Alike, SameMemory
<1>6. CASE r.final
  <2>. DEFINE q == Closed(h, s)
  <2>1. /\ q \in Records(h) /\ q.pc = "idle" /\ q.status = "FINISHED"
        /\ q.failed = s.failed /\ q.active = 0
        /\ q.stop = s.stop /\ q.final = s.final /\ q.direct = s.direct
        /\ q.role = s.role /\ q.external = s.external
        /\ q.parent = s.parent /\ q.inherited = s.inherited
    BY <1>4, ClosedFields
  <2>. HIDE DEF q
  <2>2. Steady(rep, h, q, a)
    BY <1>3, <1>4, <1>5, <2>1 DEF Steady, MidPass, History
  <2>3. Faithful => Knows(rep, h, q, a)
    BY <1>3, <1>5, <2>1 DEF Knows, MidPass
  <2>4. ~Live(q)
    BY <2>1 DEF Live
  <2>5. Local(rep, h, q, a)
    BY <2>2, <2>3, <2>4 DEF Local
  <2>6. ~q.failed
    BY <1>3, <1>5, <2>1 DEF MidPass
  <2>. QED BY <1>5, <1>6, <2>1, <2>5, <2>6 DEF q, s
<1>7. CASE ~r.final
  <2>. DEFINE q == Paused(s)
  <2>1. /\ q \in Records(h) /\ q.pc = "idle" /\ q.status = "PARSING"
        /\ q.delivered = IF s.sequence > s.delivered THEN s.sequence
                            ELSE s.delivered
        /\ q.failed = s.failed /\ q.active = s.active
        /\ q.stop = s.stop /\ q.final = s.final /\ q.direct = s.direct
        /\ q.role = s.role /\ q.external = s.external
        /\ q.parent = s.parent /\ SameMemory(s, q)
    BY <1>4, PausedFields
  <2>. HIDE DEF q
  <2>2. Steady(rep, h, q, a)
    BY <1>3, <1>4, <1>5, <2>1 DEF Steady, MidPass, History
  <2>3. Faithful => Knows(rep, h, q, a)
    BY <1>3, <1>5, <2>1 DEF Knows, MidPass
  <2>4. q.delivered = Calls(rep, h, n)
    <3>1. s.delivered = Calls(rep, h, e) /\ s.sequence = Calls(rep, h, n)
      BY <1>2, <1>3, <1>4, <1>5 DEF MidPass
    <3>2. Calls(rep, h, e) <= Calls(rep, h, n)
      BY <1>2, CallsFacts
    <3>3. Calls(rep, h, e) \in Nat /\ Calls(rep, h, n) \in Nat
      <4>1. e \in Nat
        BY <1>2
      <4>2. Calls(rep, h, e) \in 0..2 * e /\ Calls(rep, h, n) \in 0..2 * n
        BY <1>2, <4>1, CallsFacts
      <4>. QED BY <1>2, <4>1, <4>2
    <3>. QED BY <2>1, <3>1, <3>2, <3>3
  <2>5. Reads(q) = n /\ n \in 0..Reads(q) /\ Reach(q, n) = n
    <3>1. Reads(q) = n
      BY <1>2, <1>5, <2>1 DEF Reads
    <3>. QED BY <1>2, <2>1, <3>1 DEF Reach
  <2>6. Faithful => KeptUpTo(rep, h, q, n)
    <3>1. SameMemory(r, q)
      BY <1>5, <2>1 DEF SameMemory
    <3>. QED BY <1>2, <3>1, KeptSame
  <2>7. LocalAt(rep, h, q, a, n)
    BY <1>2, <2>1, <2>4, <2>5, <2>6 DEF LocalAt
  <2>8. Local(rep, h, q, a)
    BY <2>2, <2>3, <2>5, <2>7 DEF Local
  <2>. QED BY <1>5, <1>7, <2>1, <2>8 DEF q, s, SameMemory
<1>. QED BY <1>6, <1>7

-----------------------------------------------------------------------------
(* What a child gives its parent.                                          *)

(* A text without references and uses is what it is.                       *)
LEMMA FlatText ==
    ASSUME NEW h \in Parsers,
           \A i \in 1..Len(Text[h]) : Text[h][i].kind = "other"
    PROVE  Weight[<<h, Len(Text[h])>>] = Len(Text[h])
<1>. DEFINE S == {n \in Nat : n <= Len(Text[h]) => Weight[<<h, n>>] = n}
<1>0. Len(Text[h]) \in Nat
  BY Texts
<1>1. 0 \in S
  BY WeightStep
<1>2. ASSUME NEW n \in Nat, n \in S PROVE n + 1 \in S
  <2>1. SUFFICES ASSUME n + 1 <= Len(Text[h])
                 PROVE  Weight[<<h, n + 1>>] = n + 1
    OBVIOUS
  <2>2. n + 1 \in 1..Len(Text[h]) /\ (n + 1) - 1 = n
    BY <1>0, <2>1
  <2>3. Text[h][n + 1].kind = "other"
    BY <2>2
  <2>4. Weight[<<h, n + 1>>] = Weight[<<h, (n + 1) - 1>>] + 1
                     + (IF Refers(h, n + 1) THEN RefWeight(h, n + 1)
                        ELSE IF Text[h][n + 1].kind = "use" THEN 1 ELSE 0)
    BY <2>2, WeightStep
  <2>5. ~Refers(h, n + 1)
    BY <2>3 DEF Refers, References
  <2>6. Weight[<<h, n>>] = n
    BY <1>0, <1>2, <2>1
  <2>. QED BY <2>2, <2>3, <2>4, <2>5, <2>6
<1>3. \A n \in Nat : n \in S
  <2>. HIDE DEF S
  <2>. QED BY <1>1, <1>2, Induction
<1>. QED BY <1>0, <1>3

(* What a finished child has to give.                                      *)
LEMMA EndGives ==
    ASSUME NEW h \in Parsers, NEW rep \in BOOLEAN, NEW r, NEW a,
           Local(rep, h, r, a), r.pc = "pass", r.at > r.extent, r.final,
           Faithful, h # Root,
           r.role = "literal" =>
             \A i \in 1..Len(Text[h]) : Text[h][i].kind = "other"
    PROVE  LET s == Accounted(r) IN
           /\ s.direct + s.indirect = Weight[<<h, Len(Text[h])>>]
           /\ r.role # "literal" => s.table = Base(h, s, Len(Text[h]))
<1>. DEFINE s == Accounted(r)
            n == r.extent
            w == Weight[<<h, Len(Text[h])>>]
<1>1. PICK e \in 0..Reads(r) : Passing(rep, h, r, a, e, 0)
  BY LocalPassing
<1>2. /\ r \in Records(h) /\ n \in 0..Len(Text[h])
      /\ n = Reads(r) /\ n \in Nat /\ AskedUpTo(h, a, n)
      /\ r.table = Base(h, r, n) /\ r.expanded = Uses(h, n)
  BY <1>1, EndPassing
<1>3. /\ r.direct = Len(Text[h]) /\ r.external = Total(h, a)
  BY <1>1 DEF Passing, MidPass
<1>4. /\ s.indirect = r.external + r.expanded /\ Alike(r, s)
  BY <1>2, AccountedFields
<1>. HIDE DEF s
<1>5. /\ s.indirect = Parts(h, n) + Uses(h, n) /\ s.direct = Len(Text[h])
      /\ s.table = Base(h, s, n)
  BY <1>2, <1>3, <1>4, KeptSame DEF Alike, AskedUpTo
<1>6. CASE r.role = "literal"
  <2>1. n = 0
    BY <1>2, <1>6 DEF Reads
  <2>2. Parts(h, 0) = 0 /\ Uses(h, 0) = 0
    <3>1. Uses(h, 0) = 0
      BY NothingBefore
    <3>2. Parts(h, 0) = 0
      BY PartsStep
    <3>. QED BY <3>1, <3>2
  <2>3. w = Len(Text[h])
    BY <1>6, FlatText
  <2>4. Len(Text[h]) \in Nat
    BY Texts
  <2>. QED BY <1>5, <1>6, <2>1, <2>2, <2>3, <2>4 DEF s
<1>7. CASE r.role # "literal"
  <2>1. n = Len(Text[h])
    BY <1>2, <1>3, <1>7 DEF Reads
  <2>2. Parts(h, n) = w - Len(Text[h]) - Uses(h, n)
    BY <2>1 DEF Parts
  <2>3. w \in Nat /\ Len(Text[h]) \in Nat
    <3>1. Len(Text[h]) \in Nat
      BY Texts
    <3>2. \A m \in 0..Len(Text[h]) : Weight[<<h, m>>] \in Nat
      BY WeightStep
    <3>. QED BY <3>1, <3>2
  <2>4. Uses(h, n) \in Nat
    <3>1. \A m \in Nat : Uses(h, m) \in 0..m
      BY NumberFacts DEF Bounds, Uses
    <3>. QED BY <1>2, <3>1
  <2>. HIDE DEF w, n
  <2>5. s.direct + s.indirect = w
    BY <1>5, <2>2, <2>3, <2>4
  <2>. QED BY <1>5, <2>1, <2>5 DEF w, s
<1>. QED BY <1>6, <1>7

-----------------------------------------------------------------------------
(* A child has been read: what its parent takes over.                      *)

(* What a child leaves of the call its parent is in.                       *)
SameCall(p, q) ==
    /\ q.status = p.status /\ q.failed = p.failed /\ q.stop = p.stop
    /\ q.parent = p.parent /\ q.role = p.role /\ q.direct = p.direct
    /\ q.delivered = p.delivered /\ q.final = p.final /\ q.len = p.len
    /\ q.inherited = p.inherited /\ q.expanded = p.expanded /\ q.pc = p.pc
    /\ q.at = p.at /\ q.extent = p.extent /\ q.sequence = p.sequence
    /\ q.suppress = p.suppress /\ q.lastSuspend = p.lastSuspend
    /\ q.active = p.active /\ q.before = p.before /\ q.counts = p.counts

(* A snapshot is a table.                                                  *)
LEMMA SnapshotTable ==
    ASSUME NEW h \in Parsers, NEW c \in Records(h)
    PROVE  Snapshot(c) \in Tables
BY DEF Snapshot, Records, Tables

(* The fields of a parent that has merged a child.                         *)
LEMMA FinishedFields ==
    ASSUME NEW g \in Parsers, NEW p \in Records(g), p.active \in Ordinals(g),
           NEW child \in Parsers, NEW c \in Records(child)
    PROVE  LET q == Finished(p, c, child) IN
           /\ q \in Records(g) /\ SameCall(p, q)
           /\ q.external = p.external + (c.direct + c.indirect)
           /\ q.childParses = p.childParses + 1
           /\ q.lastChild = c.direct + c.indirect
           /\ q.table = IF c.role = "subset" THEN Merge(p.table, c.table)
                        ELSE p.table
           /\ q.contexts = IF c.role = "subset"
                           THEN [p.contexts EXCEPT ![p.active] =
                                   Merge(p.contexts[p.active], Snapshot(c))]
                           ELSE p.contexts
           /\ q.texts = IF c.role = "literal"
                        THEN [p.texts EXCEPT ![p.active] = child]
                        ELSE p.texts
<1>. DEFINE sum == c.direct + c.indirect
            external == p.external + sum
            indirect == external + p.expanded
            parses == p.childParses + 1
            m == [p EXCEPT !.external = external, !.indirect = indirect,
                           !.childParses = parses, !.lastChild = sum]
            table == Merge(p.table, c.table)
            context == Merge(p.contexts[p.active], Snapshot(c))
            contexts == [p.contexts EXCEPT ![p.active] = context]
            texts == [p.texts EXCEPT ![p.active] = child]
<1>1. sum \in Nat /\ external \in Nat /\ indirect \in Nat /\ parses \in Nat
  <2>1. /\ p.external \in Nat /\ p.expanded \in 0..Len(Text[g]) /\ Len(Text[g]) \in Nat
        /\ p.childParses \in Nat
    BY Texts DEF Records
  <2>2. /\ c.direct \in 0..Len(Text[child]) /\ Len(Text[child]) \in Nat
        /\ c.indirect \in Nat
    BY Texts DEF Records
  <2>3. sum \in Nat
    BY <2>2
  <2>4. p.expanded \in Nat
    BY <2>1
  <2>. HIDE DEF sum
  <2>5. external \in Nat
    BY <2>1, <2>3
  <2>. HIDE DEF external
  <2>6. indirect \in Nat
    BY <2>4, <2>5
  <2>. QED BY <2>1, <2>3, <2>5, <2>6
<1>2. /\ p.contexts \in [Ordinals(g) -> Tables] /\ p.table \in Tables
      /\ p.texts \in [Ordinals(g) -> Values] /\ c.table \in Tables
  BY DEF Records
<1>3. table \in Tables /\ context \in Tables
  <2>1. p.contexts[p.active] \in Tables /\ Snapshot(c) \in Tables
    BY <1>2, SnapshotTable
  <2>. QED BY <2>1, <1>2, TablesClosed
<1>4. contexts \in [Ordinals(g) -> Tables] /\ texts \in [Ordinals(g) -> Values]
  <2>1. child \in Values
    BY EntityAssumption
  <2>2. contexts \in [Ordinals(g) -> Tables]
    <3>. HIDE DEF context
    <3>. QED BY <1>2, <1>3
  <2>3. texts \in [Ordinals(g) -> Values]
    BY <2>1, <1>2
  <2>. QED BY <2>2, <2>3
<1>5. /\ external = p.external + (c.direct + c.indirect)
      /\ parses = p.childParses + 1 /\ sum = c.direct + c.indirect
  OBVIOUS
<1>6. Finished(p, c, child) =
        CASE c.role = "subset" ->
               KeepContext([m EXCEPT !.table = Merge(@, c.table)], c)
          [] c.role = "literal" -> [m EXCEPT !.texts[p.active] = child]
          [] OTHER -> m
  <2>1. /\ indirect = external + p.expanded /\ external = p.external + sum
    OBVIOUS
  <2>. QED BY DEF Finished
<1>. HIDE DEF sum, external, indirect, parses
<1>7. m \in Records(g)
  BY <1>1 DEF Records
<1>8. /\ SameCall(p, m) /\ m.external = external /\ m.childParses = parses
      /\ m.lastChild = sum /\ m.table = p.table /\ m.contexts = p.contexts
      /\ m.texts = p.texts
  BY DEF Records, SameCall
<1>. HIDE DEF m
<1>9. CASE c.role = "subset"
  <2>. DEFINE w == [m EXCEPT !.table = table]
              q == [w EXCEPT !.contexts = contexts]
  <2>. HIDE DEF table
  <2>1. w \in Records(g)
    BY <1>3, <1>7 DEF Records
  <2>2. /\ SameCall(m, w) /\ w.external = m.external
        /\ w.childParses = m.childParses /\ w.lastChild = m.lastChild
        /\ w.table = table /\ w.contexts = m.contexts /\ w.texts = m.texts
    BY <1>7 DEF Records, SameCall
  <2>. HIDE DEF w
  <2>3. KeepContext(w, c) = [w EXCEPT !.contexts[p.active] = context]
    <3>1. w.active = p.active /\ w.contexts[w.active] = p.contexts[p.active]
      BY <1>8, <2>2 DEF SameCall
    <3>. QED BY <3>1 DEF KeepContext
  <2>4. KeepContext(w, c) = q
    <3>. HIDE DEF context
    <3>1. w.contexts = p.contexts
      BY <1>8, <2>2
    <3>. QED BY <2>3, <3>1
  <2>5. Finished(p, c, child) = q
    <3>1. [m EXCEPT !.table = Merge(@, c.table)] = w
      BY <1>8 DEF w, table
    <3>. HIDE DEF q
    <3>. QED BY <1>6, <1>9, <2>4, <3>1
  <2>. HIDE DEF contexts
  <2>6. q \in Records(g)
    BY <1>4, <2>1 DEF Records
  <2>7. /\ SameCall(w, q) /\ q.external = w.external
        /\ q.childParses = w.childParses /\ q.lastChild = w.lastChild
        /\ q.table = w.table /\ q.contexts = contexts /\ q.texts = w.texts
    BY <2>1 DEF Records, SameCall
  <2>. HIDE DEF q
  <2>8. SameCall(p, q)
    BY <1>8, <2>2, <2>7 DEF SameCall
  <2>9. /\ q.external = external /\ q.childParses = parses /\ q.lastChild = sum
        /\ q.table = table /\ q.contexts = contexts /\ q.texts = p.texts
    BY <1>8, <2>2, <2>7
  <2>. QED BY <1>5, <1>9, <2>5, <2>6, <2>8, <2>9 DEF table, contexts
<1>10. CASE c.role = "literal"
  <2>. DEFINE q == [m EXCEPT !.texts = texts]
  <2>1. Finished(p, c, child) = q
    BY <1>6, <1>10, <1>8
  <2>. HIDE DEF texts
  <2>2. q \in Records(g)
    BY <1>4, <1>7 DEF Records
  <2>3. /\ SameCall(m, q) /\ q.external = m.external
        /\ q.childParses = m.childParses /\ q.lastChild = m.lastChild
        /\ q.table = m.table /\ q.contexts = m.contexts /\ q.texts = texts
    BY <1>7 DEF Records, SameCall
  <2>. HIDE DEF q
  <2>4. SameCall(p, q)
    BY <1>8, <2>3 DEF SameCall
  <2>. QED BY <1>5, <1>8, <1>10, <2>1, <2>2, <2>3, <2>4 DEF texts
<1>11. CASE c.role \notin {"subset", "literal"}
  <2>1. Finished(p, c, child) = m
    BY <1>6, <1>11
  <2>. QED BY <1>5, <1>7, <1>8, <1>11, <2>1
<1>. QED BY <1>9, <1>10, <1>11

(* A parent that merges the child it waits for.                            *)
LEMMA FinishedLocal ==
    ASSUME NEW g \in Parsers, NEW rep \in BOOLEAN, NEW p, NEW a,
           Local(rep, g, p, a), p.pc = "callback",
           NEW child, child = Text[g][p.at].to,
           NEW c \in Records(child), c.role = Text[g][p.at].kind,
           Faithful =>
             /\ p.childParses = p.before
             /\ c.direct + c.indirect = RefWeight(g, p.at)
             /\ c.role = "subset" =>
                  /\ c.inherited = Base(g, p, p.at - 1)
                  /\ c.table = Base(child, c, Len(Text[child]))
    PROVE  LET q == Finished(p, c, child) IN
           /\ Local(rep, g, q, a) /\ SameCall(p, q)
           /\ q.childParses = p.childParses + 1
           /\ Faithful => q.lastChild = RefWeight(g, p.at)
<1>. DEFINE q == Finished(p, c, child)
            k == p.active
            i == p.at
<1>1. /\ p \in Records(g) /\ History(rep, g, a) /\ InCall(rep, g, p)
      /\ i \in 1..Len(Text[g]) /\ i \in Nat /\ Len(Text[g]) \in Nat
      /\ Refers(g, i)
      /\ k = Ordinal(rep, g, i) /\ k \in Ordinals(g)
      /\ p.status # "none" /\ ~p.failed
      /\ p.final => p.direct = Len(Text[g])
      /\ p.role \in {"subset", "literal"} => p.stop # "suspend"
      /\ Faithful => Knows(rep, g, p, a)
  BY InTheCallback
<1>2. PICK e \in 0..Reads(p) :
        /\ e \in Nat /\ e < i /\ p.delivered = Calls(rep, g, e)
        /\ AskedUpTo(g, a, i)
        /\ Faithful => KeptUpTo(rep, g, p, i - 1)
  BY InTheCallback
<1>3. child \in Parsers
  BY <1>1, Texts
<1>4. /\ q \in Records(g) /\ SameCall(p, q)
      /\ q.external = p.external + (c.direct + c.indirect)
      /\ q.childParses = p.childParses + 1
      /\ q.lastChild = c.direct + c.indirect
      /\ q.table = IF c.role = "subset" THEN Merge(p.table, c.table)
                   ELSE p.table
      /\ q.contexts = IF c.role = "subset"
                      THEN [p.contexts EXCEPT ![k] =
                              Merge(p.contexts[k], Snapshot(c))]
                      ELSE p.contexts
      /\ q.texts = IF c.role = "literal"
                   THEN [p.texts EXCEPT ![k] = child]
                   ELSE p.texts
  <2>1. p \in Records(g) /\ p.active \in Ordinals(g)
    BY <1>1
  <2>. HIDE DEF k
  <2>2. k = p.active
    BY DEF k
  <2>. QED BY ONLY <2>1, <2>2, <1>3, c \in Records(child), g \in Parsers,
                  FinishedFields
<1>. HIDE DEF q
<1>5. Steady(rep, g, q, a)
  <2>1. InCall(rep, g, q)
    BY <1>1, <1>4 DEF InCall, SameCall, Reads
  <2>2. q.pc = "callback" /\ q.status # "none"
    BY <1>1, <1>4 DEF SameCall
  <2>3. /\ q.final => q.direct = Len(Text[g])
        /\ q.role \in {"subset", "literal"} => q.stop # "suspend"
    BY <1>1, <1>4 DEF SameCall
  <2>4. a # <<>> /\ a[Len(a)].token = q.at
    BY <1>4, InTheCallback DEF SameCall
  <2>. QED BY <1>1, <1>4, <2>1, <2>2, <2>3, <2>4 DEF Steady, History
<1>6. Elsewhere(g, p, q, k)
  <2>1. /\ p.contexts \in [Ordinals(g) -> Tables]
        /\ p.texts \in [Ordinals(g) -> Values]
    BY <1>1 DEF Records
  <2>2. \A l \in Ordinals(g) \ {k} :
           q.contexts[l] = p.contexts[l] /\ q.texts[l] = p.texts[l]
    BY <1>4, <2>1
  <2>3. q.counts = p.counts /\ q.inherited = p.inherited
    BY <1>4 DEF SameCall
  <2>. QED BY <2>2, <2>3 DEF Elsewhere
<1>7. Faithful => KeptUpTo(rep, g, q, i - 1)
  BY <1>1, <1>2, <1>6, ElsewhereKeeps
<1>8. ASSUME Faithful PROVE Knows(rep, g, q, a)
  <2>1. /\ p.childParses = p.before /\ c.direct + c.indirect = RefWeight(g, i)
        /\ c.role = "subset" =>
             /\ c.inherited = Base(g, p, i - 1)
             /\ c.table = Base(child, c, Len(Text[child]))
        /\ Knows(rep, g, p, a)
    BY <1>8, <1>1
  <2>2. ~HasGiven(p) /\ HasGiven(q)
    <3>1. p.childParses \in Nat /\ q.before = p.before
      BY <1>1, <1>4 DEF Records, SameCall
    <3>. QED BY <2>1, <1>4, <3>1 DEF HasGiven
  <2>3. /\ p.external = Parts(g, i - 1) /\ p.table = Base(g, p, i - 1)
        /\ p.contexts[k] = NoBindings
        /\ g # Root => /\ p.expanded = Uses(g, i - 1)
                       /\ p.final => p.len > 0
    BY <1>1, <2>1, <2>2 DEF Knows
  <2>4. q.external = Total(g, a)
    <3>1. Parts(g, i) = Parts(g, i - 1) + RefWeight(g, i)
      BY <1>1, PartsStep
    <3>2. Total(g, a) = Parts(g, i)
      BY <1>2 DEF AskedUpTo
    <3>. QED BY <1>4, <2>1, <2>3, <3>1, <3>2
  <2>5. q.inherited = p.inherited /\ q.at = i /\ q.active = k /\ q.pc = "callback"
        /\ q.expanded = p.expanded /\ q.final = p.final /\ q.len = p.len
    BY <1>4 DEF SameCall
  <2>6. \A n : Base(g, q, n) = Base(g, p, n)
    BY <2>5 DEF Base
  <2>7. Own(g, q, i) = Own(g, p, i)
    BY <2>6 DEF Own
  <2>8. Text[g][i].kind = "subset" =>
          /\ q.table = Base(g, q, i) /\ q.contexts[k] = Own(g, q, i)
    <3>. SUFFICES ASSUME Text[g][i].kind = "subset"
                  PROVE  q.table = Base(g, q, i) /\ q.contexts[k] = Own(g, q, i)
      OBVIOUS
    <3>1. /\ Merge(NoBindings, Snapshot(c)) = Own(g, p, i)
          /\ Merge(Base(g, p, i - 1), c.table) = Base(g, p, i)
      BY <1>1, <2>1, GivenBase
    <3>2. q.table = Merge(p.table, c.table)
      BY <1>4
    <3>3. q.contexts[k] = Merge(p.contexts[k], Snapshot(c))
      <4>1. p.contexts \in [Ordinals(g) -> Tables]
        BY <1>1 DEF Records
      <4>. QED BY <1>1, <1>4, <4>1
    <3>. QED BY <2>3, <2>6, <2>7, <3>1, <3>2, <3>3
  <2>9. Text[g][i].kind # "subset" =>
          q.table = Base(g, q, i - 1) /\ q.contexts[k] = NoBindings
    BY <1>4, <2>3, <2>6
  <2>10. Text[g][i].kind = "literal" => q.texts[k] = Text[g][i].to
    <3>1. p.texts \in [Ordinals(g) -> Values]
      BY <1>1 DEF Records
    <3>. QED BY <1>1, <1>4, <3>1
  <2>11. Kept(rep, g, [q EXCEPT !.counts[q.active] = RefWeight(g, q.at)], q.at)
    <3>. DEFINE m == [q EXCEPT !.counts[q.active] = RefWeight(g, q.at)]
    <3>1. /\ m.contexts = q.contexts /\ m.texts = q.texts
          /\ m.inherited = q.inherited
          /\ m.counts = [q.counts EXCEPT ![q.active] = RefWeight(g, q.at)]
      BY <1>4, CountKept
    <3>. HIDE DEF m
    <3>2. m.counts[k] = RefWeight(g, i)
      <4>1. q.counts \in [Ordinals(g) -> Nat]
        BY <1>4 DEF Records
      <4>. QED BY <1>1, <2>5, <3>1, <4>1
    <3>3. Own(g, m, i) = Own(g, q, i)
      BY <3>1 DEF Own, Base
    <3>4. m.contexts[k] = IF Text[g][i].kind = "subset" THEN Own(g, m, i)
                          ELSE NoBindings
      BY <2>8, <2>9, <3>1, <3>3
    <3>5. Kept(rep, g, m, i)
      BY <1>1, <2>10, <3>1, <3>2, <3>4 DEF Kept
    <3>. QED BY <2>5, <3>5 DEF m
  <2>12. q.table = IF HasGiven(q) /\ Text[g][q.at].kind = "subset"
                   THEN Base(g, q, q.at) ELSE Base(g, q, q.at - 1)
    BY <2>2, <2>5, <2>8, <2>9
  <2>13. /\ ~q.failed => q.external = IF q.pc = "callback" /\ ~HasGiven(q)
                                      THEN Parts(g, q.at - 1) ELSE Total(g, a)
         /\ g # Root /\ q.pc # "idle" =>
              /\ q.expanded = Uses(g, q.at - 1)
              /\ q.final => q.len > 0
    BY <2>2, <2>3, <2>4, <2>5
  <2>. QED BY <2>2, <2>5, <2>11, <2>12, <2>13 DEF Knows
<1>9. e \in 0..Reads(q) /\ LocalAt(rep, g, q, a, e)
  <2>1. /\ q.delivered = p.delivered /\ q.pc = "callback" /\ q.at = i
        /\ Reads(q) = Reads(p)
    BY <1>4 DEF SameCall, Reads
  <2>. QED BY <1>2, <1>7, <2>1 DEF LocalAt, Reach
<1>10. Local(rep, g, q, a)
  BY <1>5, <1>8, <1>9 DEF Local
<1>11. Faithful => q.lastChild = RefWeight(g, i)
  BY <1>4
<1>. QED BY <1>4, <1>10, <1>11 DEF q

-----------------------------------------------------------------------------
(* Parsers that have read nothing.                                         *)

Fresh(r) ==
    /\ r.pc = "idle" /\ ~r.failed /\ r.stop = "no" /\ ~r.final
    /\ r.delivered = 0 /\ r.external = 0 /\ r.active = 0

(* They are as the invariant says.                                         *)
LEMMA FreshLocal ==
    ASSUME NEW h \in Parsers, NEW rep \in BOOLEAN, NEW r \in Records(h),
           Fresh(r), r.status = "INITIALIZED" \/ r = NoParser(h)
    PROVE  Local(rep, h, r, <<>>)
<1>1. /\ <<>> \in Seq([token : 1..Len(Text[h]), ordinal : Ordinals(h)])
      /\ Increasing(<<>>) /\ AskedAre(rep, h, <<>>)
  BY DEF Increasing, AskedAre
<1>2. r.status \in {"INITIALIZED", "none"}
  BY DEF NoParser
<1>3. Steady(rep, h, r, <<>>)
  BY <1>1, <1>2 DEF Steady, Fresh
<1>4. Parts(h, 0) = Total(h, <<>>) /\ Total(h, <<>>) = 0
  BY PartsStep DEF Total
<1>5. Faithful => Knows(rep, h, r, <<>>)
  BY <1>4 DEF Knows, Fresh
<1>6. 0 \in 0..Reads(r)
  <2>1. r.direct \in 0..Len(Text[h]) /\ Len(Text[h]) \in Nat
    BY Texts DEF Records
  <2>. QED BY <2>1 DEF Reads
<1>7. LocalAt(rep, h, r, <<>>, 0)
  <2>1. Reach(r, 0) = 0
    BY DEF Reach, Fresh
  <2>2. AskedUpTo(h, <<>>, 0)
    BY <1>4 DEF AskedUpTo
  <2>3. KeptUpTo(rep, h, r, 0)
    BY DEF KeptUpTo
  <2>4. r.delivered = Calls(rep, h, 0)
    BY NothingBefore DEF Fresh
  <2>. QED BY <2>1, <2>2, <2>3, <2>4 DEF LocalAt, Fresh
<1>. QED BY <1>3, <1>5, <1>6, <1>7 DEF Local

(* What there is before any parser and when one has been made.             *)
LEMMA NoParserFields ==
    ASSUME NEW h \in Parsers
    PROVE  /\ NoParser(h) \in Records(h) /\ Fresh(NoParser(h))
           /\ NoParser(h).status = "none" /\ NoParser(h).parent = h
           /\ NoParser(h).role = "document"
<1>. DEFINE contexts == [k \in Ordinals(h) |-> NoBindings]
            counts == [k \in Ordinals(h) |-> 0]
            texts == [k \in Ordinals(h) |-> Empty]
<1>1. Len(Text[h]) \in Nat
  BY Texts
<1>2. /\ contexts \in [Ordinals(h) -> Tables]
      /\ counts \in [Ordinals(h) -> Nat]
      /\ texts \in [Ordinals(h) -> Values]
      /\ NoBindings \in Tables
  <2>1. NoBindings \in Tables /\ Empty \in Values
    BY TablesClosed, EntityAssumption
  <2>2. contexts \in [Ordinals(h) -> Tables]
    BY <2>1
  <2>3. counts \in [Ordinals(h) -> Nat]
    OBVIOUS
  <2>4. texts \in [Ordinals(h) -> Values]
    BY <2>1
  <2>. HIDE DEF contexts, counts, texts
  <2>. QED BY <2>1, <2>2, <2>3, <2>4
<1>3. /\ 0 \in 0..Len(Text[h]) /\ 0 \in 0..2 * Len(Text[h])
      /\ 1 \in 1..Len(Text[h]) + 1
  BY <1>1
<1>. DEFINE r ==
            [status |-> "none", failed |-> FALSE, stop |-> "no",
             childParses |-> 0, lastChild |-> 0, parent |-> h,
             role |-> "document", direct |-> 0, external |-> 0,
             indirect |-> 0, delivered |-> 0, final |-> FALSE,
             len |-> 0, inherited |-> NoBindings,
             table |-> NoBindings, expanded |-> 0, pc |-> "idle",
             at |-> 1, extent |-> 0, sequence |-> 0, suppress |-> 0,
             lastSuspend |-> 0, active |-> 0, before |-> 0,
             contexts |-> contexts, counts |-> counts,
             texts |-> texts]
<1>4. NoParser(h) = r
  BY DEF NoParser
<1>. HIDE DEF contexts, counts, texts
<1>5. r \in Records(h)
  BY <1>2, <1>3, EntityAssumption DEF Records
<1>6. /\ Fresh(r) /\ r.status = "none" /\ r.parent = h /\ r.role = "document"
  BY DEF Fresh
<1>. HIDE DEF r
<1>. QED BY <1>4, <1>5, <1>6

(* The fields of a new parser.                                             *)
LEMMA NewParserFields ==
    ASSUME NEW h \in Parsers
    PROVE  /\ NewParser(h) \in Records(h) /\ Fresh(NewParser(h))
           /\ NewParser(h).status = "INITIALIZED"
           /\ NewParser(h).parent = h /\ NewParser(h).role = "document"
<1>. DEFINE r == NoParser(h)
            s == [r EXCEPT !.status = "INITIALIZED"]
<1>1. /\ r \in Records(h) /\ Fresh(r) /\ r.parent = h /\ r.role = "document"
  BY NoParserFields
<1>2. NewParser(h) = s
  BY DEF NewParser
<1>. HIDE DEF r
<1>3. s \in Records(h)
  <2>1. r \in Records(h)
    BY <1>1
  <2>. QED BY <2>1 DEF Records
<1>4. /\ Fresh(s) /\ s.status = "INITIALIZED" /\ s.parent = r.parent
      /\ s.role = r.role
  BY <1>1 DEF Records, Fresh
<1>. HIDE DEF s
<1>. QED BY <1>1, <1>2, <1>3, <1>4

(* The record of a child.                                                  *)
Created(child, h, role, table) ==
    [NewParser(child) EXCEPT !.parent = h, !.role = role,
                             !.inherited = table, !.table = table]

(* The fields of a new child.                                              *)
LEMMA CreatedFields ==
    ASSUME NEW child \in Parsers, NEW h \in Parsers,
           NEW role \in References, NEW table \in Tables
    PROVE  LET c == Created(child, h, role, table) IN
           /\ c \in Records(child) /\ Fresh(c)
           /\ c.status = "INITIALIZED" /\ c.parent = h /\ c.role = role
           /\ c.inherited = table
<1>. DEFINE r == NewParser(child)
            c == [r EXCEPT !.parent = h, !.role = role,
                           !.inherited = table, !.table = table]
<1>1. r \in Records(child) /\ Fresh(r) /\ r.status = "INITIALIZED"
  BY NewParserFields
<1>2. Created(child, h, role, table) = c
  BY DEF Created
<1>. HIDE DEF r
<1>3. c \in Records(child)
  BY <1>1 DEF Records
<1>4. /\ Fresh(c) /\ c.status = "INITIALIZED" /\ c.parent = h /\ c.role = role
      /\ c.inherited = table
  BY <1>1 DEF Records, Fresh
<1>. HIDE DEF c
<1>. QED BY <1>2, <1>3, <1>4

-----------------------------------------------------------------------------
(* The parsers that wait.                                                  *)

Nest == Children /\ Stacked /\ Lowest

(* Depths are numbers.                                                     *)
LEMMA DepthNat == \A h \in Parsers : Depth[h] \in Nat
<1>1. Depth \in [Parsers -> 0..Cardinality(Parsers)]
  BY DepthFalls DEF Falls
<1>2. Cardinality(Parsers) \in Nat
  BY EntityAssumption, FS_CardinalityType
<1>. QED BY <1>1, <1>2

(* A parser that waits is there, and waits for a lower one.                *)
Waiting ==
    \A h \in Parsers : Waits(h) =>
        /\ Active(h) /\ Child(h) \in Parsers /\ Depth[Child(h)] < Depth[h]
        /\ Token(h).kind \in References

(* A waiting parser is at a reference of its text.                         *)
LEMMA WaitingHolds == IInv => Waiting
<1>. SUFFICES ASSUME IInv, NEW h \in Parsers, Waits(h)
              PROVE  /\ Active(h) /\ Child(h) \in Parsers
                     /\ Depth[Child(h)] < Depth[h]
                     /\ Token(h).kind \in References
  BY DEF Waiting
<1>. DEFINE r == parser[h]
<1>1. /\ Local(reportsDeclarations, h, r, asked[h]) /\ r.pc = "callback"
      /\ reportsDeclarations \in BOOLEAN
  BY DEF IInv, Waits
<1>2. r.at \in 1..Len(Text[h]) /\ Refers(h, r.at) /\ r.status # "none"
  BY <1>1, InTheCallback
<1>3. Text[h][r.at].to \in Parsers
  BY <1>2, Texts
<1>4. Depth[Text[h][r.at].to] < Depth[h]
  BY <1>2, DepthFalls DEF Falls, Refers
<1>. QED BY <1>2, <1>3, <1>4 DEF Active, Child, Token, Refers

(* Nothing is above the document, and nothing refers to it.                *)
LEMMA Below ==
    ASSUME Nest, Waiting
    PROVE  /\ \A h \in Parsers : Active(h) => Depth[h] <= Depth[Root]
           /\ \A h \in Parsers : Waits(h) => Child(h) # Root
<1>1. \A h \in Parsers : Active(h) => Depth[h] <= Depth[Root]
  <2>1. \A h \in Parsers \ {Root} : Active(h) => Depth[h] < Depth[Root]
    BY DEF Nest, Children
  <2>2. Root \in Parsers
    BY EntityAssumption
  <2>. QED BY <2>1, <2>2, DepthNat
<1>2. \A h \in Parsers : Waits(h) => Child(h) # Root
  <2>1. Root \in Parsers
    BY EntityAssumption
  <2>. QED BY <1>1, <2>1, DepthNat DEF Waiting
<1>. QED BY <1>1, <1>2

(* Two parsers never wait for the same child.                              *)
LEMMA ChildrenDiffer ==
    ASSUME Nest, Waiting, NEW p \in Parsers, NEW q \in Parsers,
           Waits(p), Waits(q), Child(p) = Child(q)
    PROVE  p = q
<1>. SUFFICES ASSUME p # q PROVE FALSE
  OBVIOUS
<1>1. /\ Depth[p] \in Nat /\ Depth[q] \in Nat /\ Depth[Child(p)] \in Nat
      /\ Active(p) /\ Depth[Child(p)] < Depth[p] /\ Depth[Child(q)] < Depth[q]
  BY DepthNat DEF Waiting
<1>2. IF Depth[p] > Depth[q] THEN Depth[Child(p)] >= Depth[q]
      ELSE Depth[p] <= Depth[Child(q)]
  BY <1>1 DEF Nest, Stacked
<1>. QED BY <1>1, <1>2

(* A parser that runs or rests is below those that wait,                   *)
LEMMA RunsBelow ==
    ASSUME Nest, Waiting, NEW h \in Parsers, Active(h), ~Waits(h),
           NEW p \in Parsers, Waits(p)
    PROVE  Depth[h] < Depth[p] /\ Depth[h] <= Depth[Child(p)]
<1>1. Depth[h] \in Nat /\ Depth[p] \in Nat /\ Depth[Child(p)] \in Nat
  BY DepthNat DEF Waiting
<1>2. Depth[Child(p)] < Depth[p] /\ h # p
  BY DEF Waiting
<1>3. IF Depth[h] > Depth[p] THEN Waits(h) ELSE Depth[h] <= Depth[Child(p)]
  BY <1>2 DEF Nest, Stacked
<1>. QED BY <1>1, <1>2, <1>3

(* it is the only one,                                                     *)
LEMMA OnlyRunner ==
    ASSUME Nest, Waiting, NEW h \in Parsers, Active(h), ~Waits(h),
           NEW x \in Parsers, Active(x), ~Waits(x)
    PROVE  x = h
<1>. SUFFICES ASSUME x # h PROVE FALSE
  OBVIOUS
<1>1. ASSUME NEW y \in Parsers, Active(y), ~Waits(y), y # Root,
             NEW z \in Parsers, Active(z), ~Waits(z)
      PROVE  LET p == parser[y].parent IN
             /\ p \in Parsers /\ Waits(p) /\ Child(p) = y
             /\ Depth[z] <= Depth[y] /\ Depth[y] < Depth[Root]
  <2>. DEFINE p == parser[y].parent
  <2>1. p \in Parsers /\ Waits(p) /\ Child(p) = y /\ Depth[y] < Depth[Root]
    BY <1>1 DEF Nest, Children
  <2>. HIDE DEF p
  <2>2. Depth[z] <= Depth[y]
    BY <1>1, <2>1, RunsBelow
  <2>. QED BY <2>1, <2>2 DEF p
<1>2. Root \in Parsers /\ \A y \in Parsers : Depth[y] \in Nat
  BY EntityAssumption, DepthNat
<1>3. h # Root /\ x # Root
  BY <1>1, <1>2
<1>. DEFINE p == parser[h].parent
            q == parser[x].parent
<1>4. /\ p \in Parsers /\ Waits(p) /\ Child(p) = h /\ Depth[x] <= Depth[h]
      /\ q \in Parsers /\ Waits(q) /\ Child(q) = x /\ Depth[h] <= Depth[x]
  BY <1>1, <1>3
<1>. HIDE DEF p, q
<1>5. IF Depth[p] > Depth[q] THEN Depth[Child(p)] >= Depth[q]
      ELSE Depth[p] <= Depth[Child(q)]
  BY <1>4 DEF Nest, Stacked, Waiting
<1>6. Depth[h] < Depth[p] /\ Depth[x] < Depth[q]
  BY <1>4, RunsBelow
<1>. QED BY <1>2, <1>4, <1>5, <1>6

(* and all that wait have children.                                        *)
LEMMA RunnerChild ==
    ASSUME Nest, Waiting, NEW h \in Parsers, Active(h), ~Waits(h),
           NEW p \in Parsers, Waits(p)
    PROVE  Active(Child(p))
<1>. SUFFICES ASSUME ~Active(Child(p)) PROVE FALSE
  OBVIOUS
<1>1. /\ Root \in Parsers /\ \A y \in Parsers : Depth[y] \in Nat
      /\ Child(p) \in Parsers /\ Active(p) /\ Depth[Child(p)] < Depth[p]
  BY EntityAssumption, DepthNat DEF Waiting
<1>2. Depth[h] <= Depth[Child(p)]
  BY RunsBelow
<1>3. Depth[p] <= Depth[Root]
  BY <1>1, Below
<1>4. h # Root
  BY <1>1, <1>2, <1>3
<1>. DEFINE q == parser[h].parent
<1>5. q \in Parsers /\ Waits(q) /\ Child(q) = h
  BY <1>4 DEF Nest, Children
<1>. HIDE DEF q
<1>6. q # p /\ Active(q)
  BY <1>5 DEF Waiting
<1>7. Depth[p] <= Depth[q]
  BY <1>5 DEF Nest, Lowest
<1>8. IF Depth[q] > Depth[p] THEN Depth[Child(q)] >= Depth[p]
      ELSE Depth[q] <= Depth[Child(p)]
  BY <1>5, <1>6 DEF Nest, Stacked
<1>. QED BY <1>1, <1>2, <1>5, <1>7, <1>8

(* What a parser refers to is not there before its child is made.          *)
LEMMA NoChildYet ==
    ASSUME Nest, Waiting, NEW h \in Parsers, Active(h), ~Waits(h),
           NEW c \in Parsers, Depth[c] < Depth[h]
    PROVE  ~Active(c)
<1>. SUFFICES ASSUME Active(c) PROVE FALSE
  OBVIOUS
<1>1. /\ Root \in Parsers /\ \A y \in Parsers : Depth[y] \in Nat
  BY EntityAssumption, DepthNat
<1>2. c # Root
  BY <1>1, Below
<1>. DEFINE q == parser[c].parent
<1>3. q \in Parsers /\ Waits(q) /\ Child(q) = c
  BY <1>2 DEF Nest, Children
<1>. HIDE DEF q
<1>4. Depth[h] <= Depth[Child(q)]
  BY <1>3, RunsBelow
<1>. QED BY <1>1, <1>3, <1>4

-----------------------------------------------------------------------------
(* Steps that change no parser's place among the others.                   *)

SamePlace(x) ==
    /\ Active(x)' <=> Active(x)
    /\ Waits(x)' <=> Waits(x)
    /\ Waits(x) => parser'[x].at = parser[x].at
    /\ parser'[x].parent = parser[x].parent /\ parser'[x].role = parser[x].role
    /\ parser'[x].inherited = parser[x].inherited

SameLink(x) ==
    /\ x # Root => (Done(parser'[x]) <=> Done(parser[x]))
    /\ Waits(x) => /\ parser'[x].childParses = parser[x].childParses
                   /\ parser'[x].before = parser[x].before
                   /\ parser'[x].lastChild = parser[x].lastChild

(* They leave the stack as it was,                                         *)
LEMMA SameNest ==
    ASSUME Nest, Waiting, \A x \in Parsers : SamePlace(x)
    PROVE  Nest'
<1>1. \A x \in Parsers :
        /\ Active(x)' <=> Active(x)
        /\ Waits(x)' <=> Waits(x)
        /\ Waits(x) => Child(x)' = Child(x)
  BY DEF SamePlace, Child, Token
<1>2. \A x \in Parsers : Waits(x) => Child(x) \in Parsers
  BY DEF Waiting
<1>3. Children'
  <2>1. Root \in Parsers
    BY EntityAssumption
  <2>2. parser'[Root].status # "none" /\ parser'[Root].role = "document"
    BY <2>1 DEF Nest, Children, SamePlace, Active
  <2>3. ASSUME NEW x \in Parsers \ {Root}, parser'[x].status # "none"
        PROVE  \E p \in Parsers :
                 /\ parser'[x].parent = p /\ parser'[p].pc = "callback"
                 /\ Text[p][parser'[p].at].to = x
                 /\ Depth[x] < Depth[Root]
                 /\ parser'[x].role = Text[p][parser'[p].at].kind
    <3>1. SamePlace(x) /\ Active(x)
      BY <2>3 DEF SamePlace, Active
    <3>2. PICK p \in Parsers : p = parser[x].parent /\ Waits(p) /\ Child(p) = x
                               /\ Depth[x] < Depth[Root]
                               /\ parser[x].role = Token(p).kind
      BY <3>1 DEF Nest, Children
    <3>3. parser'[x].parent = p /\ parser'[x].role = parser[x].role
      BY <3>1, <3>2 DEF SamePlace
    <3>4. parser'[p].pc = "callback" /\ parser'[p].at = parser[p].at
      BY <3>2 DEF SamePlace, Waits
    <3>. QED BY <3>2, <3>3, <3>4 DEF Child, Token
  <2>. QED BY <2>2, <2>3 DEF Children, Active, Waits, Child, Token
<1>4. Stacked'
  BY <1>1 DEF Nest, Stacked
<1>5. Lowest'
  BY <1>1, <1>2 DEF Nest, Lowest
<1>. QED BY <1>3, <1>4, <1>5 DEF Nest

(* and what parents and children know of each other.                       *)
LEMMA SameLinked ==
    ASSUME Nest, Waiting, Linked, \A x \in Parsers : SamePlace(x) /\ SameLink(x)
    PROVE  Linked'
<1>1. ASSUME NEW x \in Parsers, parser'[x].pc = "callback"
      PROVE  Link(x, parser'[x], parser'[Text[x][parser'[x].at].to])
  <2>1. Waits(x) /\ parser'[x].at = parser[x].at
    BY <1>1 DEF SamePlace, Waits
  <2>2. PICK c \in Parsers : c = Text[x][parser[x].at].to /\ c # Root
    BY <2>1, Below DEF Waiting, Child, Token
  <2>3. Link(x, parser[x], parser[c])
    BY <2>1, <2>2 DEF Linked, Child, Token
  <2>4. /\ parser'[c].status # "none" <=> parser[c].status # "none"
        /\ Done(parser'[c]) <=> Done(parser[c])
        /\ parser'[c].inherited = parser[c].inherited
    BY <2>2 DEF SamePlace, SameLink, Active
  <2>5. /\ parser'[x].inherited = parser[x].inherited
        /\ parser'[x].childParses = parser[x].childParses
        /\ parser'[x].before = parser[x].before
        /\ parser'[x].lastChild = parser[x].lastChild
    BY <2>1 DEF SamePlace, SameLink
  <2>. QED BY <2>1, <2>2, <2>3, <2>4, <2>5 DEF Link, Base
<1>. QED BY <1>1 DEF Linked, Waits, Child, Token

(* A call or a step of a pass: parser h becomes q.                         *)
LEMMA QuietStep ==
    ASSUME IInv, NEW h \in Parsers, NEW q,
           Becomes(h, q), UNCHANGED <<reportsDeclarations, asked>>,
           Active(h), ~Waits(h), Local(reportsDeclarations, h, q, asked[h]),
           q.status # "none", q.pc # "callback", q.parent = parser[h].parent,
           q.role = parser[h].role, q.inherited = parser[h].inherited,
           Faithful /\ h # Root =>
             ~Done(parser[h]) /\ ~Done(q)
    PROVE  IInv'
<1>1. /\ DOMAIN parser' = Parsers /\ parser'[h] = q
      /\ \A x \in Parsers \ {h} : parser'[x] = parser[x]
  BY DEF IInv, Becomes
<1>2. Nest /\ Waiting
  BY WaitingHolds DEF IInv, Nest
<1>3. \A x \in Parsers : SamePlace(x)
  BY <1>1 DEF SamePlace, Active, Waits
<1>4. Nest'
  BY <1>2, <1>3, SameNest
<1>5. Faithful => Linked'
  <2>. SUFFICES ASSUME Faithful PROVE Linked'
    OBVIOUS
  <2>1. \A x \in Parsers : SameLink(x)
    BY <1>1 DEF SameLink, Done, Waits
  <2>2. Linked
    BY DEF IInv
  <2>. QED BY <1>2, <1>3, <2>1, <2>2, SameLinked
<1>6. \A x \in Parsers : Local(reportsDeclarations', x, parser'[x], asked'[x])
  BY <1>1 DEF IInv
<1>. QED BY <1>1, <1>4, <1>5, <1>6 DEF IInv, Nest

(* XML_StopParser.                                                         *)
LEMMA StopStep ==
    ASSUME IInv, NEW h \in Parsers, NEW how \in {"suspend", "abort"},
           XML_StopParser(h, how)
    PROVE  IInv'
<1>. DEFINE q == Stopped(parser[h], how)
<1>1. /\ DOMAIN parser' = Parsers /\ parser'[h] = q
      /\ \A x \in Parsers \ {h} : parser'[x] = parser[x]
  BY DEF IInv, Becomes, XML_StopParser
<1>2. Nest /\ Waiting
  BY WaitingHolds DEF IInv, Nest
<1>3. /\ parser[h].pc = "callback" /\ MayStop(parser[h], how)
      /\ Local(reportsDeclarations, h, parser[h], asked[h])
      /\ reportsDeclarations \in BOOLEAN
  BY DEF XML_StopParser, InCallback, IInv
<1>4. /\ Local(reportsDeclarations, h, q, asked[h]) /\ Alike(parser[h], q)
      /\ q.status # "none"
  BY <1>3, StopLocal
<1>. HIDE DEF q
<1>5. parser[h].status # "none"
  BY <1>3, InTheCallback
<1>6. \A x \in Parsers : SamePlace(x)
  BY <1>1, <1>4, <1>5 DEF SamePlace, Active, Waits, Alike, SameMemory
<1>7. Nest'
  BY <1>2, <1>6, SameNest
<1>8. Faithful => Linked'
  <2>1. \A x \in Parsers : SameLink(x)
    BY <1>1, <1>3, <1>4 DEF SameLink, Done, Waits, Alike
  <2>2. Faithful => Linked
    BY DEF IInv
  <2>. QED BY <1>2, <1>6, <2>1, <2>2, SameLinked
<1>9. UNCHANGED <<reportsDeclarations, asked>>
  BY DEF XML_StopParser
<1>10. \A x \in Parsers : Local(reportsDeclarations', x, parser'[x], asked'[x])
  BY <1>1, <1>4, <1>9 DEF IInv
<1>. QED BY <1>1, <1>7, <1>8, <1>9, <1>10 DEF IInv, Nest

-----------------------------------------------------------------------------
(* Steps that open or close a callback.                                    *)

(* A parser in a pass.                                                     *)
LEMMA InThePass ==
    ASSUME NEW h \in Parsers, NEW rep \in BOOLEAN, NEW r, NEW a,
           Local(rep, h, r, a), r.pc = "pass"
    PROVE  r \in Records(h) /\ r.status # "none" /\ ~r.failed
<1>1. Steady(rep, h, r, a) /\ InCall(rep, h, r)
  BY DEF Local, Steady
<1>2. r \in Records(h) /\ r.stop \in {"no", "suspend", "abort"}
  BY <1>1 DEF Steady, Records
<1>. QED BY <1>1, <1>2, StatusInCall DEF InCall

(* A parser that is there has a parent.                                    *)
LEMMA ParentOf ==
    ASSUME Nest, NEW x \in Parsers, x # Root, Active(x)
    PROVE  \E p \in Parsers :
             /\ p = parser[x].parent /\ Waits(p) /\ Child(p) = x
             /\ Text[p][parser[p].at].to = x
             /\ Depth[x] < Depth[Root]
             /\ parser[x].role = Text[p][parser[p].at].kind
BY DEF Nest, Children, Child, Token

(* What must be shown of parents and children.                             *)
LEMMA ChildrenAre ==
    ASSUME parser'[Root].status # "none", parser'[Root].role = "document",
           \A x \in Parsers \ {Root} : parser'[x].status # "none" =>
             \E p \in Parsers :
               /\ parser'[x].parent = p /\ parser'[p].pc = "callback"
               /\ Text[p][parser'[p].at].to = x
               /\ Depth[x] < Depth[Root]
               /\ parser'[x].role = Text[p][parser'[p].at].kind
    PROVE  Children'
BY DEF Children, Active, Waits, Child, Token

(* The handler is called.                                                  *)
LEMMA AskStep ==
    ASSUME IInv, NEW h \in Parsers, Ask(h)
    PROVE  IInv'
<1>. DEFINE r == parser[h]
            k == r.sequence + 1
            q == Asks(r, k)
            b == Append(asked[h], [token |-> r.at, ordinal |-> k])
            c == Text[h][r.at].to
<1>1. /\ r.pc = "pass" /\ r.at <= r.extent /\ Refers(h, r.at) /\ ~Suppressed(r)
      /\ parser' = [parser EXCEPT ![h] = q]
      /\ asked' = [asked EXCEPT ![h] = b]
      /\ reportsDeclarations' = reportsDeclarations
  BY DEF Ask, At, Refers, Token, Asks, Becomes
<1>2. /\ Local(reportsDeclarations, h, r, asked[h])
      /\ reportsDeclarations \in BOOLEAN
  BY DEF IInv
<1>3. PICK e : Passing(reportsDeclarations, h, r, asked[h], e, 0)
  BY <1>1, <1>2, LocalPassing
<1>4. /\ Local(reportsDeclarations, h, q, b)
      /\ q.pc = "callback" /\ q.at = r.at /\ q.parent = r.parent
      /\ q.role = r.role /\ q.inherited = r.inherited
      /\ q.status # "none" /\ q.before = q.childParses
  BY <1>1, <1>2, <1>3, AskLocal
<1>5. r.status # "none" /\ Active(h) /\ ~Waits(h)
  BY <1>1, <1>2, InThePass DEF Active, Waits
<1>6. /\ DOMAIN parser' = Parsers /\ parser'[h] = q
      /\ \A x \in Parsers \ {h} : parser'[x] = parser[x]
      /\ DOMAIN asked' = Parsers /\ asked'[h] = b
      /\ \A x \in Parsers \ {h} : asked'[x] = asked[x]
  BY <1>1 DEF IInv
<1>. HIDE DEF q, b
<1>7. Nest /\ Waiting
  BY WaitingHolds DEF IInv, Nest
<1>8. c \in Parsers /\ Depth[c] < Depth[h] /\ c # h
  <2>1. r.at \in 1..Len(Text[h])
    BY <1>1, <1>2, <1>3, NextToken
  <2>2. c \in Parsers
    BY <2>1, Texts
  <2>3. Depth[c] < Depth[h]
    BY <1>1, <2>1, DepthFalls DEF Falls, Refers
  <2>. HIDE DEF c
  <2>. QED BY <2>2, <2>3, DepthNat
<1>. HIDE DEF c
<1>9. ~Active(c)
  BY <1>5, <1>7, <1>8, NoChildYet
<1>10. \A x \in Parsers :
         /\ Active(x)' <=> Active(x)
         /\ Waits(x)' <=> Waits(x) \/ x = h
         /\ Child(x)' = Child(x)
  BY <1>4, <1>5, <1>6 DEF Active, Waits, Child, Token
<1>11. Child(h) = c
  BY DEF Child, Token, c
<1>12. \A y \in Parsers : Depth[y] \in Nat
  BY DepthNat
<1>13. \A x \in Parsers : Waits(x) =>
         /\ x # h /\ Active(x) /\ Active(Child(x)) /\ Child(x) \in Parsers
         /\ Depth[h] < Depth[x] /\ Depth[h] <= Depth[Child(x)]
         /\ Depth[Child(x)] < Depth[x]
  BY <1>5, <1>7, RunsBelow, RunnerChild DEF Waiting
<1>14. Children'
  <2>1. Root \in Parsers
    BY EntityAssumption
  <2>2. parser'[Root].status # "none" /\ parser'[Root].role = "document"
    BY <1>4, <1>6, <1>7, <2>1 DEF Nest, Children, Active
  <2>3. ASSUME NEW x \in Parsers \ {Root}, parser'[x].status # "none"
        PROVE  \E p \in Parsers :
                 /\ parser'[x].parent = p /\ parser'[p].pc = "callback"
                 /\ Text[p][parser'[p].at].to = x
                 /\ Depth[x] < Depth[Root]
                 /\ parser'[x].role = Text[p][parser'[p].at].kind
    <3>1. Active(x)
      BY <1>10, <2>3 DEF Active
    <3>2. PICK p \in Parsers :
             /\ p = parser[x].parent /\ Waits(p) /\ Child(p) = x
             /\ Text[p][parser[p].at].to = x
             /\ Depth[x] < Depth[Root]
             /\ parser[x].role = Text[p][parser[p].at].kind
      BY <1>7, <3>1, ParentOf
    <3>3. parser'[p] = parser[p] /\ parser[p].pc = "callback"
      BY <1>6, <1>13, <3>2 DEF Waits
    <3>4. parser'[x].parent = parser[x].parent /\ parser'[x].role = parser[x].role
      BY <1>4, <1>6
    <3>. QED BY <3>2, <3>3, <3>4
  <2>. QED BY <2>2, <2>3, ChildrenAre
<1>15. Stacked'
  <2>1. ASSUME NEW x \in Parsers, NEW p \in Parsers, Active(x),
               Waits(p) \/ p = h, x # p
        PROVE  IF Depth[x] > Depth[p]
               THEN (Waits(x) \/ x = h) /\ Depth[Child(x)] >= Depth[p]
               ELSE Depth[x] <= Depth[Child(p)]
    <3>1. CASE p # h
      BY <1>7, <2>1, <3>1 DEF Nest, Stacked
    <3>2. CASE p = h
      <4>1. Waits(x)
        BY <1>5, <1>7, <2>1, <3>2, OnlyRunner
      <4>. QED BY <1>12, <1>13, <2>1, <3>2, <4>1
    <3>. QED BY <3>1, <3>2
  <2>. QED BY <1>10, <2>1 DEF Stacked
<1>16. Lowest'
  <2>1. ASSUME NEW p \in Parsers, NEW x \in Parsers, Waits(p) \/ p = h,
               ~Active(Child(p)), Waits(x) \/ x = h
        PROVE  Depth[p] <= Depth[x]
    <3>1. p = h
      BY <1>13, <2>1
    <3>. QED BY <1>12, <1>13, <2>1, <3>1
  <2>2. \A p \in Parsers : Waits(p) \/ p = h => Child(p) \in Parsers
    BY <1>8, <1>11, <1>13
  <2>. QED BY <1>10, <2>1, <2>2 DEF Lowest
<1>17. Faithful => Linked'
  <2>. SUFFICES ASSUME Faithful PROVE Linked'
    OBVIOUS
  <2>1. Linked
    BY DEF IInv
  <2>2. ASSUME NEW x \in Parsers, parser'[x].pc = "callback"
        PROVE  Link(x, parser'[x], parser'[Text[x][parser'[x].at].to])
    <3>1. CASE x = h
      <4>1. parser'[c].status = "none"
        BY <1>6, <1>8, <1>9 DEF Active
      <4>2. q.childParses = q.before + 0
        <5>1. q.childParses \in Nat
          BY <1>4 DEF Local, Steady, Records
        <5>. QED BY <1>4, <5>1
      <4>3. Text[h][q.at].to = c
        BY <1>4 DEF c
      <4>. QED BY <1>6, <3>1, <4>1, <4>2, <4>3 DEF Link, Done
    <3>2. CASE x # h
      <4>1. Waits(x) /\ parser'[x] = parser[x]
        BY <1>6, <2>2, <3>2 DEF Waits
      <4>2. PICK d \in Parsers : d = Text[x][parser[x].at].to
        BY <1>13, <4>1 DEF Child, Token
      <4>3. Link(x, parser[x], parser[d])
        BY <2>1, <4>1, <4>2 DEF Linked, Child, Token
      <4>4. /\ parser'[d].status # "none" <=> parser[d].status # "none"
            /\ Done(parser'[d]) <=> Done(parser[d])
            /\ parser'[d].inherited = parser[d].inherited
        BY <1>1, <1>4, <1>5, <1>6 DEF Done
      <4>. QED BY <4>1, <4>2, <4>3, <4>4 DEF Link
    <3>. QED BY <3>1, <3>2
  <2>. QED BY <2>2 DEF Linked, Waits, Child, Token
<1>18. \A x \in Parsers : Local(reportsDeclarations', x, parser'[x], asked'[x])
  BY <1>1, <1>4, <1>6 DEF IInv
<1>. QED BY <1>1, <1>2, <1>6, <1>14, <1>15, <1>16, <1>17, <1>18 DEF IInv

(* The handler makes a parser.                                             *)
LEMMA CreateStep ==
    ASSUME IInv, NEW h \in Parsers, XML_ExternalEntityParserCreate(h)
    PROVE  IInv'
<1>. DEFINE r == parser[h]
            c == Text[h][r.at].to
            q == Created(c, h, Text[h][r.at].kind, r.table)
<1>1. /\ r.pc = "callback" /\ Waits(h) /\ c = Child(h)
      /\ parser[c].status = "none"
      /\ parser' = [parser EXCEPT ![c] = q]
      /\ UNCHANGED <<reportsDeclarations, asked>>
  BY DEF XML_ExternalEntityParserCreate, InCallback, Waits, Child, Token,
         Becomes, Created
<1>2. /\ Local(reportsDeclarations, h, r, asked[h])
      /\ reportsDeclarations \in BOOLEAN
  BY DEF IInv
<1>3. Nest /\ Waiting
  BY WaitingHolds DEF IInv, Nest
<1>4. /\ c \in Parsers /\ Depth[c] < Depth[h] /\ Active(h) /\ c # Root
      /\ Text[h][r.at].kind \in References
  BY <1>1, <1>3, Below DEF Waiting, Token
<1>5. /\ r \in Records(h) /\ r.table \in Tables
  <2>1. r \in Records(h)
    BY <1>1, <1>2, InTheCallback
  <2>. QED BY <2>1 DEF Records
<1>6. /\ q \in Records(c) /\ Fresh(q) /\ q.status = "INITIALIZED"
      /\ q.parent = h /\ q.role = Text[h][r.at].kind
      /\ q.inherited = r.table
  BY <1>4, <1>5, CreatedFields
<1>7. /\ DOMAIN parser' = Parsers /\ parser'[c] = q
      /\ \A x \in Parsers \ {c} : parser'[x] = parser[x]
  BY <1>1, <1>4 DEF IInv
<1>. HIDE DEF q
<1>8. parser[c] = NoParser(c) /\ asked[c] = <<>> /\ parser[c].pc = "idle"
  <2>1. Local(reportsDeclarations, c, parser[c], asked[c])
    BY <1>4 DEF IInv
  <2>2. parser[c] = NoParser(c) /\ asked[c] = <<>>
    BY <1>1, <2>1 DEF Local, Steady
  <2>. QED BY <1>4, <2>2, NoParserFields DEF Fresh
<1>9. Local(reportsDeclarations, c, q, asked[c])
  BY <1>2, <1>4, <1>6, <1>8, FreshLocal
<1>10. \A x \in Parsers :
         /\ Active(x)' <=> Active(x) \/ x = c
         /\ Waits(x)' <=> Waits(x)
         /\ Waits(x) => Child(x)' = Child(x) /\ x # c /\ parser'[x] = parser[x]
  BY <1>6, <1>7, <1>8 DEF Active, Waits, Child, Token, Fresh
<1>11. \A y \in Parsers : Depth[y] \in Nat
  BY DepthNat
<1>12. ~Active(c)
  BY <1>1 DEF Active
<1>. HIDE DEF c
<1>13. h # c
  BY <1>4, <1>12
<1>14. \A p \in Parsers : Waits(p) /\ p # h =>
         /\ Active(p) /\ Child(p) \in Parsers /\ Child(p) # c
         /\ Depth[c] < Depth[p] /\ Depth[c] <= Depth[Child(p)]
  <2>. SUFFICES ASSUME NEW p \in Parsers, Waits(p), p # h
                PROVE  /\ Active(p) /\ Child(p) \in Parsers /\ Child(p) # c
                       /\ Depth[c] < Depth[p] /\ Depth[c] <= Depth[Child(p)]
    OBVIOUS
  <2>1. Active(p) /\ Child(p) \in Parsers /\ Depth[Child(p)] < Depth[p]
    BY <1>3 DEF Waiting
  <2>2. Child(p) # c
    BY <1>1, <1>3, ChildrenDiffer
  <2>3. Depth[h] <= Depth[p]
    BY <1>1, <1>3, <1>12 DEF Nest, Lowest
  <2>4. IF Depth[p] > Depth[h] THEN Depth[Child(p)] >= Depth[h]
        ELSE Depth[p] <= Depth[c]
    BY <1>1, <1>3, <2>1 DEF Nest, Stacked
  <2>. QED BY <1>4, <1>11, <2>1, <2>2, <2>3, <2>4
<1>15. Children'
  <2>1. Root \in Parsers
    BY EntityAssumption
  <2>2. parser'[Root].status # "none" /\ parser'[Root].role = "document"
    BY <1>3, <1>4, <1>7, <2>1 DEF Nest, Children, Active
  <2>3. ASSUME NEW x \in Parsers \ {Root}, parser'[x].status # "none"
        PROVE  \E p \in Parsers :
                 /\ parser'[x].parent = p /\ parser'[p].pc = "callback"
                 /\ Text[p][parser'[p].at].to = x
                 /\ Depth[x] < Depth[Root]
                 /\ parser'[x].role = Text[p][parser'[p].at].kind
    <3>1. CASE x = c
      <4>1. Depth[c] < Depth[Root]
        <5>1. Depth[h] <= Depth[Root]
          BY <1>3, <1>4, Below
        <5>. QED BY <1>4, <1>11, <2>1, <5>1
      <4>2. parser'[h] = r /\ Text[h][r.at].to = c
        BY <1>7, <1>13 DEF c
      <4>. QED BY <1>1, <1>6, <1>7, <3>1, <4>1, <4>2
    <3>2. CASE x # c
      <4>1. Active(x) /\ parser'[x] = parser[x]
        BY <1>7, <2>3, <3>2 DEF Active
      <4>2. PICK p \in Parsers :
               /\ p = parser[x].parent /\ Waits(p) /\ Child(p) = x
               /\ Text[p][parser[p].at].to = x
               /\ Depth[x] < Depth[Root]
               /\ parser[x].role = Text[p][parser[p].at].kind
        BY <1>3, <4>1, ParentOf
      <4>3. parser'[p] = parser[p] /\ parser[p].pc = "callback"
        BY <1>10, <4>2 DEF Waits
      <4>. QED BY <4>1, <4>2, <4>3
    <3>. QED BY <3>1, <3>2
  <2>. QED BY <2>2, <2>3, ChildrenAre
<1>16. Stacked'
  <2>1. ASSUME NEW x \in Parsers, NEW p \in Parsers, Active(x) \/ x = c,
               Waits(p), x # p
        PROVE  IF Depth[x] > Depth[p]
               THEN Waits(x) /\ Depth[Child(x)] >= Depth[p]
               ELSE Depth[x] <= Depth[Child(p)]
    <3>1. CASE x # c
      BY <1>3, <2>1, <3>1 DEF Nest, Stacked
    <3>2. CASE x = c
      BY <1>1, <1>4, <1>11, <1>14, <2>1, <3>2
    <3>. QED BY <3>1, <3>2
  <2>. QED BY <1>10, <2>1 DEF Stacked
<1>17. Lowest'
  <2>1. \A p \in Parsers : Waits(p) => Child(p) \in Parsers
    BY <1>3 DEF Waiting
  <2>. QED BY <1>3, <1>10, <2>1 DEF Nest, Lowest
<1>18. Faithful => Linked'
  <2>. SUFFICES ASSUME Faithful PROVE Linked'
    OBVIOUS
  <2>1. Linked
    BY DEF IInv
  <2>2. ASSUME NEW x \in Parsers, parser'[x].pc = "callback"
        PROVE  Link(x, parser'[x], parser'[Text[x][parser'[x].at].to])
    <3>1. Waits(x) /\ parser'[x] = parser[x] /\ x # c
      BY <1>10, <2>2 DEF Waits
    <3>2. CASE x = h
      <4>1. Link(h, r, parser[c])
        BY <1>1, <2>1 DEF Linked
      <4>2. ~Done(parser[c]) /\ ~Done(q)
        BY <1>1, <1>6 DEF Done
      <4>3. r.childParses = r.before + 0
        BY <4>1, <4>2 DEF Link
      <4>4. r.table = Base(h, r, r.at - 1)
        <5>1. ~HasGiven(r)
          <6>1. r.before \in Nat
            BY <1>5 DEF Records
          <6>. QED BY <4>3, <6>1 DEF HasGiven
        <5>2. Knows(reportsDeclarations, h, r, asked[h])
          BY <1>2 DEF Local
        <5>. QED BY <1>1, <5>1, <5>2 DEF Knows
      <4>5. Link(h, r, q)
        BY <1>6, <4>2, <4>3, <4>4 DEF Link
      <4>6. Text[h][r.at].to = c
        BY DEF c
      <4>. QED BY <1>7, <3>1, <3>2, <4>5, <4>6
    <3>3. CASE x # h
      <4>1. /\ Child(x) \in Parsers /\ Child(x) # c
            /\ Child(x) = Text[x][parser[x].at].to
        BY <1>14, <3>1, <3>3 DEF Child, Token
      <4>2. Link(x, parser[x], parser[Child(x)])
        BY <2>1, <3>1 DEF Linked
      <4>3. parser'[Child(x)] = parser[Child(x)]
        BY <1>7, <4>1
      <4>. QED BY <3>1, <4>1, <4>2, <4>3
    <3>. QED BY <3>2, <3>3
  <2>. QED BY <2>2 DEF Linked, Waits, Child, Token
<1>19. \A x \in Parsers : Local(reportsDeclarations', x, parser'[x], asked'[x])
  <2>1. UNCHANGED <<reportsDeclarations, asked>>
    BY <1>1
  <2>. QED BY <1>7, <1>9, <2>1 DEF IInv
<1>20. reportsDeclarations' \in BOOLEAN /\ DOMAIN asked' = Parsers
  BY <1>1 DEF IInv
<1>. QED BY <1>7, <1>15, <1>16, <1>17, <1>18, <1>19, <1>20 DEF IInv

(* The handler returns, and its child is freed.                            *)
LEMMA ReturnStep ==
    ASSUME IInv, NEW h \in Parsers, InCallback(h), NEW q,
           parser' = [parser EXCEPT ![h] = q, ![Child(h)] = NoParser(Child(h))],
           asked' = [asked EXCEPT ![Child(h)] = <<>>],
           UNCHANGED reportsDeclarations,
           Local(reportsDeclarations, h, q, asked[h]),
           q.status # "none", q.pc # "callback", q.parent = parser[h].parent,
           q.role = parser[h].role, q.inherited = parser[h].inherited, ~Done(q)
    PROVE  IInv'
<1>. DEFINE r == parser[h]
            c == Text[h][r.at].to
<1>1. r.pc = "callback" /\ Waits(h) /\ c = Child(h) /\ parser[c].pc = "idle"
  BY DEF InCallback, Waits, Child, Token
<1>2. reportsDeclarations \in BOOLEAN
  BY DEF IInv
<1>3. Nest /\ Waiting
  BY WaitingHolds DEF IInv, Nest
<1>4. c \in Parsers /\ Depth[c] < Depth[h] /\ Active(h) /\ c # Root
  BY <1>1, <1>3, Below DEF Waiting
<1>5. \A y \in Parsers : Depth[y] \in Nat
  BY DepthNat
<1>6. h # c /\ ~Waits(c)
  BY <1>1, <1>4, <1>5 DEF Waits
<1>7. /\ DOMAIN parser' = Parsers /\ parser'[h] = q /\ parser'[c] = NoParser(c)
      /\ \A x \in Parsers \ {h, c} : parser'[x] = parser[x]
      /\ DOMAIN asked' = Parsers /\ asked'[c] = <<>>
      /\ \A x \in Parsers \ {c} : asked'[x] = asked[x]
  BY <1>1, <1>4, <1>6 DEF IInv
<1>8. /\ NoParser(c) \in Records(c) /\ Fresh(NoParser(c))
      /\ NoParser(c).status = "none"
  BY <1>4, NoParserFields
<1>. HIDE DEF c
<1>9. \A x \in Parsers :
         /\ Active(x)' <=> Active(x) /\ x # c
         /\ Waits(x)' <=> Waits(x) /\ x # h
         /\ Waits(x) /\ x # h => Child(x)' = Child(x) /\ parser'[x] = parser[x]
  BY <1>4, <1>6, <1>7, <1>8 DEF Active, Waits, Child, Token, Fresh
<1>10. \A p \in Parsers : Waits(p) /\ p # h =>
         /\ Active(p) /\ Child(p) \in Parsers /\ Child(p) # c /\ p # c
         /\ Depth[h] <= Depth[p] /\ Depth[h] <= Depth[Child(p)]
  <2>. SUFFICES ASSUME NEW p \in Parsers, Waits(p), p # h
                PROVE  /\ Active(p) /\ Child(p) \in Parsers /\ Child(p) # c
                       /\ p # c
                       /\ Depth[h] <= Depth[p] /\ Depth[h] <= Depth[Child(p)]
    OBVIOUS
  <2>1. Active(p) /\ Child(p) \in Parsers /\ Depth[Child(p)] < Depth[p]
    BY <1>3 DEF Waiting
  <2>2. Child(p) # c
    BY <1>1, <1>3, ChildrenDiffer
  <2>3. IF Depth[h] > Depth[p] THEN Depth[c] >= Depth[p]
        ELSE Depth[h] <= Depth[Child(p)]
    BY <1>1, <1>3, <1>4 DEF Nest, Stacked
  <2>4. CASE Active(c)
    <3>1. Depth[c] <= Depth[Child(p)]
      BY <1>3, <1>4, <1>6, <2>4, RunsBelow
    <3>. QED BY <1>4, <1>5, <1>6, <2>1, <2>2, <2>3, <3>1
  <2>5. CASE ~Active(c)
    <3>1. Depth[h] <= Depth[p]
      BY <1>1, <1>3, <2>5 DEF Nest, Lowest
    <3>. QED BY <1>4, <1>5, <1>6, <2>1, <2>2, <2>3, <3>1
  <2>. QED BY <2>4, <2>5
<1>11. Children'
  <2>1. Root \in Parsers
    BY EntityAssumption
  <2>2. parser'[Root].status # "none" /\ parser'[Root].role = "document"
    BY <1>3, <1>4, <1>7, <2>1 DEF Nest, Children, Active
  <2>3. ASSUME NEW x \in Parsers \ {Root}, parser'[x].status # "none"
        PROVE  \E p \in Parsers :
                 /\ parser'[x].parent = p /\ parser'[p].pc = "callback"
                 /\ Text[p][parser'[p].at].to = x
                 /\ Depth[x] < Depth[Root]
                 /\ parser'[x].role = Text[p][parser'[p].at].kind
    <3>1. Active(x) /\ x # c
      BY <1>9, <2>3 DEF Active
    <3>2. PICK p \in Parsers :
             /\ p = parser[x].parent /\ Waits(p) /\ Child(p) = x
             /\ Text[p][parser[p].at].to = x
             /\ Depth[x] < Depth[Root]
             /\ parser[x].role = Text[p][parser[p].at].kind
      BY <1>3, <3>1, ParentOf
    <3>3. p # h
      BY <1>1, <3>1, <3>2
    <3>4. parser'[p] = parser[p] /\ parser[p].pc = "callback"
      BY <1>9, <3>2, <3>3 DEF Waits
    <3>5. parser'[x].parent = parser[x].parent /\ parser'[x].role = parser[x].role
      BY <1>7, <3>1
    <3>. QED BY <3>2, <3>4, <3>5
  <2>. QED BY <2>2, <2>3, ChildrenAre
<1>12. Stacked'
  <2>1. ASSUME NEW x \in Parsers, NEW p \in Parsers, Active(x), x # c,
               Waits(p), p # h, x # p
        PROVE  IF Depth[x] > Depth[p]
               THEN Waits(x) /\ x # h /\ Depth[Child(x)] >= Depth[p]
               ELSE Depth[x] <= Depth[Child(p)]
    <3>1. CASE x # h
      BY <1>3, <2>1, <3>1 DEF Nest, Stacked
    <3>2. CASE x = h
      BY <1>5, <1>10, <2>1, <3>2
    <3>. QED BY <3>1, <3>2
  <2>. QED BY <1>9, <2>1 DEF Stacked
<1>13. Lowest'
  <2>1. ASSUME NEW p \in Parsers, Waits(p), p # h, Active(Child(p))
        PROVE  Active(Child(p)) /\ Child(p) # c /\ Child(p) \in Parsers
    BY <1>10, <2>1
  <2>2. ASSUME NEW p \in Parsers, NEW x \in Parsers, Waits(p), p # h,
               ~(Active(Child(p)) /\ Child(p) # c), Waits(x)
        PROVE  Depth[p] <= Depth[x]
    BY <1>3, <2>1, <2>2 DEF Nest, Lowest
  <2>3. \A p \in Parsers : Waits(p) => Child(p) \in Parsers
    BY <1>3 DEF Waiting
  <2>. QED BY <1>9, <2>2, <2>3 DEF Lowest
<1>14. Faithful => Linked'
  <2>. SUFFICES ASSUME Faithful PROVE Linked'
    OBVIOUS
  <2>1. Linked
    BY DEF IInv
  <2>2. ASSUME NEW x \in Parsers, parser'[x].pc = "callback"
        PROVE  Link(x, parser'[x], parser'[Text[x][parser'[x].at].to])
    <3>1. Waits(x) /\ parser'[x] = parser[x] /\ x # h
      BY <1>9, <2>2 DEF Waits
    <3>2. PICK d \in Parsers : /\ d = Child(x) /\ d # c
                               /\ d = Text[x][parser[x].at].to
      BY <1>10, <3>1 DEF Child, Token
    <3>3. Link(x, parser[x], parser[d])
      BY <2>1, <3>1, <3>2 DEF Linked
    <3>4. /\ parser'[d].status # "none" <=> parser[d].status # "none"
          /\ Done(parser'[d]) <=> Done(parser[d])
          /\ parser'[d].inherited = parser[d].inherited
      <4>1. CASE d = h
        BY <1>1, <1>4, <1>7, <4>1 DEF Done, Active
      <4>2. CASE d # h
        BY <1>7, <3>2, <4>2
      <4>. QED BY <4>1, <4>2
    <3>. QED BY <3>1, <3>2, <3>3, <3>4 DEF Link
  <2>. QED BY <2>2 DEF Linked, Waits, Child, Token
<1>15. \A x \in Parsers : Local(reportsDeclarations', x, parser'[x], asked'[x])
  <2>1. Local(reportsDeclarations, c, NoParser(c), <<>>)
    BY <1>2, <1>4, <1>8, FreshLocal
  <2>. QED BY <1>6, <1>7, <2>1 DEF IInv
<1>. QED BY <1>2, <1>7, <1>11, <1>12, <1>13, <1>14, <1>15 DEF IInv

(* XML_ParserReset.                                                        *)
LEMMA ResetStep ==
    ASSUME IInv, XML_ParserReset
    PROVE  IInv'
<1>. DEFINE q == NewParser(Root)
<1>1. /\ Root \in Parsers /\ parser[Root].pc = "idle"
      /\ parser' = [parser EXCEPT ![Root] = q]
      /\ asked' = [asked EXCEPT ![Root] = <<>>]
      /\ reportsDeclarations' \in BOOLEAN
  BY EntityAssumption DEF XML_ParserReset, Becomes
<1>2. Nest /\ Waiting
  BY WaitingHolds DEF IInv, Nest
<1>3. /\ DOMAIN parser' = Parsers /\ parser'[Root] = q
      /\ \A x \in Parsers \ {Root} : parser'[x] = parser[x]
      /\ DOMAIN asked' = Parsers /\ asked'[Root] = <<>>
      /\ \A x \in Parsers \ {Root} : asked'[x] = asked[x]
  BY <1>1 DEF IInv
<1>4. /\ q \in Records(Root) /\ Fresh(q) /\ q.status = "INITIALIZED"
      /\ q.role = "document"
  BY <1>1, NewParserFields
<1>. HIDE DEF q
<1>5. \A x \in Parsers \ {Root} : ~Active(x)
  <2>. SUFFICES ASSUME NEW x \in Parsers \ {Root}, Active(x) PROVE FALSE
    OBVIOUS
  <2>1. Active(Root) /\ ~Waits(Root)
    BY <1>1, <1>2 DEF Nest, Children, Waits
  <2>2. PICK p \in Parsers : Waits(p) /\ Child(p) = x
    BY <1>2, ParentOf
  <2>3. Depth[Root] <= Depth[Child(p)] /\ Depth[x] < Depth[Root]
    BY <1>1, <1>2, <2>1, <2>2, RunsBelow, ParentOf
  <2>. QED BY <1>1, <2>2, <2>3, DepthNat
<1>6. \A x \in Parsers \ {Root} :
        /\ parser'[x] = NoParser(x) /\ asked'[x] = <<>>
        /\ NoParser(x) \in Records(x) /\ Fresh(NoParser(x))
        /\ NoParser(x).status = "none"
  <2>. SUFFICES ASSUME NEW x \in Parsers \ {Root}
                PROVE  /\ parser'[x] = NoParser(x) /\ asked'[x] = <<>>
                       /\ NoParser(x) \in Records(x) /\ Fresh(NoParser(x))
                       /\ NoParser(x).status = "none"
    OBVIOUS
  <2>1. Local(reportsDeclarations, x, parser[x], asked[x])
    BY DEF IInv
  <2>2. parser[x] = NoParser(x) /\ asked[x] = <<>>
    BY <1>5, <2>1 DEF Local, Steady, Active
  <2>. QED BY <1>3, <2>2, NoParserFields
<1>7. \A x \in Parsers : ~Waits(x)'
  BY <1>3, <1>4, <1>6 DEF Waits, Fresh
<1>8. Children'
  BY <1>3, <1>4, <1>6, ChildrenAre
<1>9. Stacked' /\ Lowest' /\ Linked'
  BY <1>7 DEF Stacked, Lowest, Linked
<1>10. \A x \in Parsers : Local(reportsDeclarations', x, parser'[x], asked'[x])
  <2>. SUFFICES ASSUME NEW x \in Parsers
                PROVE  Local(reportsDeclarations', x, parser'[x], asked'[x])
    OBVIOUS
  <2>1. CASE x = Root
    BY <1>1, <1>3, <1>4, <2>1, FreshLocal
  <2>2. CASE x # Root
    BY <1>1, <1>6, <2>2, FreshLocal
  <2>. QED BY <2>1, <2>2
<1>. QED BY <1>1, <1>3, <1>8, <1>9, <1>10 DEF IInv

(* Before any call.                                                        *)
LEMMA InitStep == Init => IInv
<1>. SUFFICES ASSUME Init PROVE IInv
  OBVIOUS
<1>1. /\ Root \in Parsers /\ reportsDeclarations \in BOOLEAN
      /\ DOMAIN parser = Parsers /\ DOMAIN asked = Parsers
      /\ parser[Root] = NewParser(Root)
      /\ \A x \in Parsers \ {Root} : parser[x] = NoParser(x)
      /\ \A x \in Parsers : asked[x] = <<>>
  BY EntityAssumption DEF Init
<1>2. \A x \in Parsers :
        /\ parser[x] \in Records(x) /\ Fresh(parser[x])
        /\ parser[x].status = "INITIALIZED" \/ parser[x] = NoParser(x)
  BY <1>1, NoParserFields, NewParserFields
<1>3. \A x \in Parsers : Local(reportsDeclarations, x, parser[x], asked[x])
  BY <1>1, <1>2, FreshLocal
<1>4. \A x \in Parsers : ~Waits(x)
  BY <1>2 DEF Waits, Fresh
<1>5. Children
  BY <1>1, NoParserFields, NewParserFields DEF Children, Active
<1>6. Stacked /\ Lowest /\ Linked
  BY <1>4 DEF Stacked, Lowest, Linked
<1>. QED BY <1>1, <1>3, <1>5, <1>6 DEF IInv

-----------------------------------------------------------------------------
(* One step for each action.                                               *)

(* The text of a parser is of the kind it was made for.                    *)
LEMMA Roles ==
    ASSUME IInv, NEW h \in Parsers, Active(h)
    PROVE  /\ h = Root => parser[h].role = "document"
           /\ h # Root => parser[h].role \in References
           /\ \A i \in 1..Len(Text[h]) :
                /\ Declares(h, i) => parser[h].role # "content"
                /\ parser[h].role = "literal" => Text[h][i].kind = "other"
<1>1. Nest /\ Waiting
  BY WaitingHolds DEF IInv, Nest
<1>2. CASE h = Root
  BY <1>1, <1>2 DEF Nest, Children
<1>3. CASE h # Root
  <2>1. PICK p \in Parsers :
          /\ Waits(p) /\ Text[p][parser[p].at].to = h
          /\ parser[h].role = Text[p][parser[p].at].kind
    BY <1>1, <1>3, ParentOf
  <2>2. /\ Local(reportsDeclarations, p, parser[p], asked[p])
        /\ reportsDeclarations \in BOOLEAN
    BY DEF IInv
  <2>3. parser[p].at \in 1..Len(Text[p]) /\ Refers(p, parser[p].at)
    BY <2>1, <2>2, InTheCallback DEF Waits
  <2>4. \A i \in 1..Len(Text[h]) : Text[h][i].kind \in Within(parser[h].role)
    BY <2>1, <2>3, Nested DEF Refers
  <2>5. parser[h].role \in References
    BY <2>1, <2>3 DEF Refers
  <2>. QED BY <1>3, <2>4, <2>5 DEF Within, Declares, References
<1>. QED BY <1>2, <1>3

(* What a call does not change.                                            *)
LEMMA StartKeeps ==
    ASSUME NEW h \in Parsers, NEW r \in Records(h), NEW n \in 0..Len(Text[h]),
           r.direct + n <= Len(Text[h]), NEW final \in BOOLEAN, r.pc = "idle"
    PROVE  LET q == Start(h, r, n, final) IN
           /\ q.status = "PARSING" /\ q.pc # "callback" /\ q.parent = r.parent
           /\ q.role = r.role /\ q.inherited = r.inherited
BY DEF Start, PrepareReplay, Records

(* XML_Parse keeps the invariant.                                          *)
LEMMA ParseStep ==
    ASSUME IInv, NEW h \in Parsers, NEW n \in 0..Len(Text[h]),
           NEW final \in BOOLEAN, XML_Parse(h, n, final)
    PROVE  IInv'
<1>. DEFINE r == parser[h]
            q == Start(h, r, n, final)
<1>1. /\ r.pc = "idle" /\ r.status \in {"INITIALIZED", "PARSING"} /\ ~r.failed
      /\ r.direct + n <= Len(Text[h])
      /\ final => /\ r.direct + n = Len(Text[h])
                  /\ n > 0 \/ "finishes_empty" \in App
      /\ Becomes(h, q) /\ UNCHANGED <<reportsDeclarations, asked>>
  BY DEF XML_Parse, Callable
<1>2. /\ Local(reportsDeclarations, h, r, asked[h]) /\ r \in Records(h)
      /\ reportsDeclarations \in BOOLEAN
  BY DEF IInv, Local, Steady
<1>3. Local(reportsDeclarations, h, q, asked[h])
  BY <1>1, <1>2, StartLocal DEF Faithful
<1>4. /\ q.status = "PARSING" /\ q.pc # "callback" /\ q.parent = r.parent
      /\ q.role = r.role /\ q.inherited = r.inherited
  BY <1>1, <1>2, StartKeeps
<1>. HIDE DEF q
<1>5. Active(h) /\ ~Waits(h) /\ ~Done(r) /\ ~Done(q)
  BY <1>1, <1>4 DEF Active, Waits, Done
<1>. QED BY <1>1, <1>3, <1>4, <1>5, QuietStep

(* XML_ResumeParser keeps it.                                              *)
LEMMA ResumeStep ==
    ASSUME IInv, NEW h \in Parsers, XML_ResumeParser(h)
    PROVE  IInv'
<1>. DEFINE r == parser[h]
            q == Start(h, r, 0, r.final)
<1>1. /\ r.pc = "idle" /\ r.status = "SUSPENDED" /\ ~r.failed
      /\ Becomes(h, q) /\ UNCHANGED <<reportsDeclarations, asked>>
  BY DEF XML_ResumeParser, Callable
<1>2. /\ Local(reportsDeclarations, h, r, asked[h]) /\ r \in Records(h)
      /\ Steady(reportsDeclarations, h, r, asked[h])
      /\ reportsDeclarations \in BOOLEAN
  BY DEF IInv, Local, Steady
<1>3. h = Root
  <2>1. Active(h)
    BY <1>1 DEF Active
  <2>2. r.role = "document"
    BY <1>1, <1>2 DEF Steady
  <2>. QED BY <2>1, <2>2, Roles DEF References
<1>4. /\ r.direct \in 0..Len(Text[h]) /\ Len(Text[h]) \in Nat
      /\ r.final \in BOOLEAN
      /\ r.final => r.direct = Len(Text[h])
  <2>1. /\ r.direct \in 0..Len(Text[h]) /\ Len(Text[h]) \in Nat
        /\ r.final \in BOOLEAN
    BY <1>2, Texts DEF Records
  <2>. QED BY <1>2, <2>1 DEF Steady
<1>5. /\ 0 \in 0..Len(Text[h]) /\ r.direct + 0 <= Len(Text[h])
      /\ r.final => r.direct + 0 = Len(Text[h])
  BY <1>4
<1>6. Local(reportsDeclarations, h, q, asked[h])
  BY <1>1, <1>2, <1>3, <1>4, <1>5, StartLocal
<1>7. /\ q.status = "PARSING" /\ q.pc # "callback" /\ q.parent = r.parent
      /\ q.role = r.role /\ q.inherited = r.inherited
  BY <1>1, <1>2, <1>4, <1>5, StartKeeps
<1>. HIDE DEF q
<1>8. Active(h) /\ ~Waits(h)
  BY <1>1 DEF Active, Waits
<1>. QED BY <1>1, <1>3, <1>6, <1>7, <1>8, QuietStep

(* A parser that goes on with its pass, or ends it by a stop or an error.  *)
LEMMA PassStep ==
    ASSUME IInv, NEW h \in Parsers, parser[h].pc = "pass", NEW q,
           Becomes(h, q), UNCHANGED <<reportsDeclarations, asked>>,
           Local(reportsDeclarations, h, q, asked[h]), Outcome(parser[h], q)
    PROVE  IInv'
<1>1. /\ Local(reportsDeclarations, h, parser[h], asked[h])
      /\ reportsDeclarations \in BOOLEAN
  BY DEF IInv
<1>2. parser[h].status # "none"
  BY <1>1, InThePass
<1>3. Active(h) /\ ~Waits(h) /\ ~Done(parser[h]) /\ ~Done(q)
  BY <1>2 DEF Active, Waits, Done, Outcome
<1>. QED BY <1>3, QuietStep DEF Outcome

(* The next token of a pass.                                               *)
LEMMA AtToken ==
    ASSUME IInv, NEW h \in Parsers, NEW kinds, At(h, kinds)
    PROVE  LET r == parser[h] IN
           /\ r.pc = "pass" /\ r.at <= r.extent
           /\ Text[h][r.at].kind \in kinds
           /\ r \in Records(h) /\ r.at \in 1..Len(Text[h]) /\ Active(h)
           /\ Local(reportsDeclarations, h, r, asked[h])
           /\ reportsDeclarations \in BOOLEAN
           /\ \E e : Passing(reportsDeclarations, h, r, asked[h], e, 0)
<1>. DEFINE r == parser[h]
<1>1. r.pc = "pass" /\ r.at <= r.extent /\ Text[h][r.at].kind \in kinds
  BY DEF At, Token
<1>2. /\ Local(reportsDeclarations, h, r, asked[h])
      /\ reportsDeclarations \in BOOLEAN
  BY DEF IInv
<1>3. PICK e : Passing(reportsDeclarations, h, r, asked[h], e, 0)
  BY <1>1, <1>2, LocalPassing
<1>4. r \in Records(h) /\ r.at \in 1..Len(Text[h])
  BY <1>1, <1>2, <1>3, NextToken
<1>5. Active(h)
  BY <1>1, <1>2, InThePass DEF Active
<1>. QED BY <1>1, <1>2, <1>3, <1>4, <1>5

(* A token that is not a reference needs no answer.                        *)
LEMMA PlainIsReady ==
    ASSUME NEW h \in Parsers, NEW rep \in BOOLEAN, NEW r, NEW a, NEW e,
           Passing(rep, h, r, a, e, 0), r.at <= r.extent, ~Refers(h, r.at),
           Text[h][r.at].kind # "use" \/ h = Root
    PROVE  Ready(rep, h, r, a, e)
<1>1. /\ r \in Records(h) /\ r.at \in 1..Len(Text[h]) /\ r.expanded <= r.at - 1
      /\ r.at \in Nat /\ r.expanded \in Nat
  BY NextToken DEF Passing
<1>2. Faithful /\ h # Root => r.expanded = Uses(h, r.at)
  BY <1>1, UsesStep DEF Passing
<1>3. [r EXCEPT !.expanded = r.expanded] = r
  BY <1>1 DEF Records
<1>4. Alike(r, r)
  BY DEF Alike, SameMemory
<1>5. r.expanded <= r.at
  BY <1>1
<1>. QED BY <1>1, <1>2, <1>3, <1>4, <1>5, PlainReady

(* A declaration keeps the invariant.                                      *)
LEMMA DeclarationStep ==
    ASSUME IInv, NEW h \in Parsers, Declaration(h)
    PROVE  IInv'
<1>. DEFINE r == parser[h]
            t == Text[h][r.at]
<1>1. /\ At(h, {"entity"}) /\ UNCHANGED <<reportsDeclarations, asked>>
      /\ \E q \in Declare(h, r, t.name, t.value) : Becomes(h, q)
  BY DEF Declaration, Token
<1>2. PICK q \in Declare(h, r, t.name, t.value) : Becomes(h, q)
  BY <1>1
<1>3. /\ r.pc = "pass" /\ r.at <= r.extent /\ t.kind = "entity"
      /\ r \in Records(h) /\ r.at \in 1..Len(Text[h]) /\ Active(h)
      /\ reportsDeclarations \in BOOLEAN
  BY <1>1, AtToken
<1>4. PICK e : Passing(reportsDeclarations, h, r, asked[h], e, 0)
  BY <1>1, AtToken
<1>5. Ready(reportsDeclarations, h, r, asked[h], e)
  BY <1>3, <1>4, PlainIsReady DEF Refers, References
<1>6. Declares(h, r.at) /\ t.value \in Values
  BY <1>3, Texts DEF Declares
<1>7. r.role # "content"
  BY <1>3, <1>6, Roles
<1>8. Local(reportsDeclarations, h, q, asked[h]) /\ Outcome(r, q)
  BY <1>2, <1>3, <1>5, <1>6, <1>7, DeclareLocal
<1>. QED BY <1>1, <1>2, <1>3, <1>8, PassStep

(* Any other token keeps it.                                               *)
LEMMA OtherStep ==
    ASSUME IInv, NEW h \in Parsers, Other(h)
    PROVE  IInv'
<1>. DEFINE r == parser[h]
            q == [r EXCEPT !.at = @ + 1]
<1>1. /\ At(h, {"other"}) /\ UNCHANGED <<reportsDeclarations, asked>>
      /\ Becomes(h, q)
  BY DEF Other
<1>2. /\ r.pc = "pass" /\ r.at <= r.extent /\ Text[h][r.at].kind = "other"
      /\ reportsDeclarations \in BOOLEAN
  BY <1>1, AtToken
<1>3. PICK e : Passing(reportsDeclarations, h, r, asked[h], e, 0)
  BY <1>1, AtToken
<1>4. Ready(reportsDeclarations, h, r, asked[h], e) /\ ~Declares(h, r.at)
  BY <1>2, <1>3, PlainIsReady DEF Refers, References, Declares
<1>5. Local(reportsDeclarations, h, q, asked[h]) /\ Outcome(r, q)
  BY <1>2, <1>4, StepsOn
<1>. HIDE DEF q
<1>. QED BY <1>1, <1>2, <1>5, PassStep

(* A use of a bound name adds a byte.                                      *)
LEMMA ExpandedFields ==
    ASSUME NEW h \in Parsers, NEW r \in Records(h),
           NEW n \in 0..Len(Text[h])
    PROVE  LET s == [r EXCEPT !.expanded = n] IN
           /\ s \in Records(h) /\ s.expanded = n
           /\ Alike([r EXCEPT !.expanded = s.expanded], s)
           /\ s.sequence = r.sequence /\ s.stop = r.stop /\ s.status = r.status
           /\ s.lastSuspend = r.lastSuspend /\ s.at = r.at
           /\ s.parent = r.parent /\ s.role = r.role
           /\ s.inherited = r.inherited
<1>. DEFINE s == [r EXCEPT !.expanded = n]
<1>1. s \in Records(h) /\ s.expanded = n
  BY DEF Records
<1>2. /\ s.sequence = r.sequence /\ s.stop = r.stop /\ s.status = r.status
      /\ s.lastSuspend = r.lastSuspend /\ s.at = r.at
      /\ s.parent = r.parent /\ s.role = r.role
      /\ s.inherited = r.inherited
  BY DEF Records
<1>3. [r EXCEPT !.expanded = s.expanded] = s
  BY <1>1
<1>. HIDE DEF s
<1>4. Alike(s, s)
  BY DEF Alike, SameMemory
<1>. QED BY <1>1, <1>2, <1>3, <1>4 DEF s

(* A use of a general entity keeps it.                                     *)
LEMMA UseStep ==
    ASSUME IInv, NEW h \in Parsers, Use(h)
    PROVE  IInv'
<1>. DEFINE r == parser[h]
            n == r.expanded + 1
            s == [r EXCEPT !.expanded = n]
            q == [s EXCEPT !.at = @ + 1]
            u == [r EXCEPT !.at = @ + 1]
<1>1. /\ At(h, {"use"}) /\ UNCHANGED <<reportsDeclarations, asked>>
      /\ \/ Becomes(h, [r EXCEPT !.expanded = @ + 1, !.at = @ + 1])
         \/ h = Root /\ Becomes(h, u)
         \/ Becomes(h, Fail(h, r))
  BY DEF Use
<1>2. /\ r.pc = "pass" /\ r.at <= r.extent /\ Text[h][r.at].kind = "use"
      /\ r \in Records(h) /\ r.at \in 1..Len(Text[h])
      /\ Local(reportsDeclarations, h, r, asked[h])
      /\ reportsDeclarations \in BOOLEAN
  BY <1>1, AtToken
<1>3. PICK e : Passing(reportsDeclarations, h, r, asked[h], e, 0)
  BY <1>1, AtToken
<1>4. ~Refers(h, r.at) /\ ~Declares(h, r.at)
  BY <1>2 DEF Refers, References, Declares
<1>5. CASE Becomes(h, [r EXCEPT !.expanded = @ + 1, !.at = @ + 1])
  <2>1. /\ r.at \in Nat /\ Len(Text[h]) \in Nat /\ r.expanded \in Nat
        /\ r.at <= Len(Text[h]) /\ r.expanded <= r.at - 1
    BY <1>2, <1>3, NextToken DEF Passing
  <2>2. n \in 0..Len(Text[h]) /\ n <= r.at
    BY <2>1
  <2>3. Faithful /\ h # Root => n = Uses(h, r.at)
    BY <1>2, <1>3, UsesStep DEF Passing
  <2>4. [r EXCEPT !.expanded = @ + 1, !.at = @ + 1] = q
    <3>1. s.at = r.at
      BY <1>2 DEF Records
    <3>. QED BY <3>1
  <2>. HIDE DEF n
  <2>5. /\ s \in Records(h) /\ s.expanded = n
        /\ Alike([r EXCEPT !.expanded = s.expanded], s)
        /\ s.sequence = r.sequence /\ s.stop = r.stop /\ s.status = r.status
        /\ s.lastSuspend = r.lastSuspend /\ s.at = r.at
        /\ s.parent = r.parent /\ s.role = r.role
        /\ s.inherited = r.inherited
    BY <1>2, <2>2, ExpandedFields
  <2>. HIDE DEF s
  <2>6. Ready(reportsDeclarations, h, s, asked[h], e)
    BY <1>2, <1>3, <1>4, <2>2, <2>3, <2>5, PlainReady
  <2>7. Local(reportsDeclarations, h, q, asked[h]) /\ Outcome(s, q)
    BY <1>2, <1>4, <2>5, <2>6, StepsOn
  <2>. HIDE DEF q
  <2>8. Outcome(r, q)
    BY <2>5, <2>7 DEF Outcome
  <2>. QED BY <1>1, <1>2, <1>5, <2>4, <2>7, <2>8, PassStep
<1>6. CASE h = Root /\ Becomes(h, u)
  <2>1. Ready(reportsDeclarations, h, r, asked[h], e)
    BY <1>2, <1>3, <1>4, <1>6, PlainIsReady
  <2>2. Local(reportsDeclarations, h, u, asked[h]) /\ Outcome(r, u)
    BY <1>2, <1>4, <2>1, StepsOn
  <2>. HIDE DEF u
  <2>. QED BY <1>1, <1>2, <1>6, <2>2, PassStep
<1>7. CASE Becomes(h, Fail(h, r))
  <2>1. /\ History(reportsDeclarations, h, asked[h]) /\ r.status # "none"
        /\ r.final => r.direct = Len(Text[h])
        /\ r.role \in {"subset", "literal"} => r.stop # "suspend"
    BY <1>2, InThePass DEF Local, Steady, History
  <2>2. Local(reportsDeclarations, h, Fail(h, r), asked[h])
    BY <1>2, <2>1, FailLocal
  <2>3. Outcome(r, Fail(h, r))
    BY <1>2, <2>1, TerminalFields DEF Ended, Outcome
  <2>. QED BY <1>1, <1>2, <1>7, <2>2, <2>3, PassStep
<1>. QED BY <1>1, <1>5, <1>6, <1>7

(* The reference at the next token has been answered.                      *)
LEMMA ResolvedLocal ==
    ASSUME NEW h \in Parsers, reportsDeclarations \in BOOLEAN, NEW r, NEW a,
           NEW e, Ready(reportsDeclarations, h, r, a, e), Refers(h, r.at),
           Declares(h, r.at) => r.role # "content", NEW v \in Values,
           Faithful /\ Text[h][r.at].kind = "literal" => v = Text[h][r.at].to,
           NEW q \in Resolved(h, r, v)
    PROVE  Local(reportsDeclarations, h, q, a) /\ Outcome(r, q)
<1>1. CASE Text[h][r.at].kind = "literal"
  <2>1. q \in Declare(h, r, Text[h][r.at].name, v)
    BY <1>1 DEF Resolved
  <2>2. Declares(h, r.at)
    BY <1>1 DEF Declares
  <2>. QED BY <1>1, <2>1, <2>2, DeclareLocal
<1>2. CASE Text[h][r.at].kind # "literal"
  <2>1. q = [r EXCEPT !.at = @ + 1]
    BY <1>2 DEF Resolved
  <2>2. ~Declares(h, r.at)
    BY <1>2 DEF Declares, Refers, References
  <2>. QED BY <2>1, <2>2, StepsOn
<1>. QED BY <1>1, <1>2

(* A replayed reference keeps the invariant.                               *)
LEMMA ReplayStep ==
    ASSUME IInv, NEW h \in Parsers, Replay(h)
    PROVE  IInv'
<1>. DEFINE r == parser[h]
            k == r.sequence + 1
            s == Replays(r, k)
<1>1. /\ At(h, References) /\ UNCHANGED <<reportsDeclarations, asked>>
      /\ Suppressed(r)
      /\ \E q \in Resolved(h, s, r.texts[k]) : Becomes(h, q)
  BY DEF Replay, Replays
<1>2. PICK q \in Resolved(h, s, r.texts[k]) : Becomes(h, q)
  BY <1>1
<1>3. /\ r.pc = "pass" /\ r.at <= r.extent /\ Refers(h, r.at)
      /\ r.at \in 1..Len(Text[h]) /\ Active(h) /\ reportsDeclarations \in BOOLEAN
  BY <1>1, AtToken DEF Refers
<1>4. PICK e : Passing(reportsDeclarations, h, r, asked[h], e, 0)
  BY <1>1, AtToken
<1>5. /\ Ready(reportsDeclarations, h, s, asked[h], e) /\ s.at = r.at
      /\ s.parent = r.parent /\ s.role = r.role /\ s.inherited = r.inherited
      /\ r.texts[k] \in Values
      /\ Faithful /\ Text[h][r.at].kind = "literal" =>
           r.texts[k] = Text[h][r.at].to
  BY <1>1, <1>3, <1>4, ReplayReady
<1>6. Declares(h, r.at) => r.role # "content"
  BY <1>3, Roles
<1>. HIDE DEF s
<1>7. Local(reportsDeclarations, h, q, asked[h]) /\ Outcome(s, q)
  BY <1>2, <1>3, <1>5, <1>6, ResolvedLocal
<1>8. Outcome(r, q)
  BY <1>5, <1>7 DEF Outcome
<1>. QED BY <1>1, <1>2, <1>3, <1>7, <1>8, PassStep

(* A handler that reports success keeps it.                                *)
LEMMA AnswerStep ==
    ASSUME IInv, NEW h \in Parsers, Answer(h)
    PROVE  IInv'
<1>. DEFINE r == parser[h]
            given == Gives(h, r)
            q == Answers(r, given)
            v == IF given THEN r.texts[r.active] ELSE Empty
<1>1. /\ InCallback(h)
      /\ parser[Child(h)].status = "FINISHED" /\ ~parser[Child(h)].failed
      /\ \E s \in Resolved(h, q, v) :
           parser' = [parser EXCEPT ![h] = s, ![Child(h)] = NoParser(Child(h))]
      /\ asked' = [asked EXCEPT ![Child(h)] = <<>>]
      /\ UNCHANGED reportsDeclarations
  BY DEF Answer, Answers, Gives, HasGiven, Token
<1>2. PICK s \in Resolved(h, q, v) :
        parser' = [parser EXCEPT ![h] = s, ![Child(h)] = NoParser(Child(h))]
  BY <1>1
<1>3. /\ Local(reportsDeclarations, h, r, asked[h]) /\ r.pc = "callback"
      /\ reportsDeclarations \in BOOLEAN
  BY <1>1 DEF IInv, InCallback
<1>4. /\ r \in Records(h) /\ Refers(h, r.at) /\ r.at \in 1..Len(Text[h])
      /\ r.status # "none"
  BY <1>3, InTheCallback
<1>5. Faithful => HasGiven(r) /\ r.lastChild = RefWeight(h, r.at)
  <2>. SUFFICES ASSUME Faithful
                PROVE  HasGiven(r) /\ r.lastChild = RefWeight(h, r.at)
    OBVIOUS
  <2>1. Done(parser[Child(h)])
    BY <1>1 DEF Done, InCallback
  <2>2. Link(h, r, parser[Child(h)])
    BY <1>3 DEF IInv, Linked, Waits
  <2>3. r.before \in Nat
    BY <1>4 DEF Records
  <2>4. r.childParses = r.before + 1
    BY <2>1, <2>2 DEF Link
  <2>. QED BY <2>1, <2>2, <2>3, <2>4 DEF Link, HasGiven
<1>6. /\ \E e : Ready(reportsDeclarations, h, q, asked[h], e)
      /\ q.at = r.at /\ q.parent = r.parent /\ q.role = r.role
      /\ q.inherited = r.inherited
      /\ v \in Values
      /\ Faithful /\ Text[h][r.at].kind = "literal" => v = Text[h][r.at].to
  BY <1>3, <1>5, AnswerReady
<1>7. PICK e : Ready(reportsDeclarations, h, q, asked[h], e)
  BY <1>6
<1>8. Declares(h, r.at) => r.role # "content"
  BY <1>4, Roles DEF Active
<1>. HIDE DEF q, v
<1>9. Local(reportsDeclarations, h, s, asked[h]) /\ Outcome(q, s)
  BY <1>2, <1>3, <1>4, <1>6, <1>7, <1>8, ResolvedLocal
<1>10. /\ s.status # "none" /\ s.pc # "callback" /\ s.parent = r.parent
       /\ s.role = r.role /\ s.inherited = r.inherited /\ ~Done(s)
  BY <1>6, <1>9 DEF Outcome, Done
<1>. QED BY <1>1, <1>2, <1>9, <1>10, ReturnStep

(* A handler that reports failure keeps it.                                *)
LEMMA RefuseStep ==
    ASSUME IInv, NEW h \in Parsers, Refuse(h)
    PROVE  IInv'
<1>. DEFINE r == parser[h]
            s == RecordStop(r)
            q == Fail(h, s)
<1>1. /\ InCallback(h)
      /\ parser' = [parser EXCEPT ![h] = q, ![Child(h)] = NoParser(Child(h))]
      /\ asked' = [asked EXCEPT ![Child(h)] = <<>>]
      /\ UNCHANGED reportsDeclarations
  BY DEF Refuse
<1>2. /\ Local(reportsDeclarations, h, r, asked[h]) /\ r.pc = "callback"
      /\ reportsDeclarations \in BOOLEAN
  BY <1>1 DEF IInv, InCallback
<1>3. /\ r \in Records(h) /\ History(reportsDeclarations, h, asked[h])
      /\ r.status # "none"
      /\ r.final => r.direct = Len(Text[h])
      /\ r.role \in {"subset", "literal"} => r.stop # "suspend"
  BY <1>2, InTheCallback
<1>4. /\ s \in Records(h) /\ Alike(r, s)
      /\ s.stop = r.stop /\ s.status = r.status
  BY <1>3, RecordStopFields
<1>. HIDE DEF s
<1>5. Local(reportsDeclarations, h, q, asked[h])
  BY <1>2, <1>3, <1>4, FailLocal DEF Alike
<1>6. /\ q.status # "none" /\ q.pc # "callback" /\ q.parent = r.parent
      /\ q.role = r.role /\ q.inherited = r.inherited /\ ~Done(q)
  BY <1>3, <1>4, TerminalFields DEF Ended, Alike, SameMemory, Done
<1>. HIDE DEF q
<1>. QED BY <1>1, <1>5, <1>6, ReturnStep

(* The end of a pass, and what the parent takes over.                      *)
LEMMA EndPassStep ==
    ASSUME IInv, NEW h \in Parsers, EndPass(h)
    PROVE  IInv'
<1>. DEFINE o == parser[h]
            r == Accounted(o)
            q == IF r.final THEN Closed(h, r) ELSE Paused(r)
            g == r.parent
            p == parser[g]
<1>1. /\ o.pc = "pass" /\ o.at > o.extent
      /\ IF Merges(h, r)
         THEN parser' = [parser EXCEPT ![h] = q, ![g] = Finished(@, r, h)]
         ELSE Becomes(h, q)
      /\ UNCHANGED <<reportsDeclarations, asked>>
  BY DEF EndPass, Closed, Paused
<1>2. /\ Local(reportsDeclarations, h, o, asked[h]) /\ o \in Records(h)
      /\ reportsDeclarations \in BOOLEAN
  BY DEF IInv, Local, Steady
<1>3. /\ Local(reportsDeclarations, h, q, asked[h]) /\ q.status # "none"
      /\ q.pc = "idle" /\ q.parent = o.parent /\ q.role = o.role
      /\ q.inherited = o.inherited /\ g = o.parent
      /\ r.final = o.final /\ r.len = o.len
      /\ IF o.final THEN q.status = "FINISHED" /\ ~q.failed
         ELSE q.status = "PARSING"
  BY <1>1, <1>2, EndPassLocal
<1>4. /\ r \in Records(h) /\ Alike(o, r)
  BY <1>2, AccountedFields
<1>5. Active(h) /\ ~Waits(h) /\ ~Done(o)
  BY <1>1, <1>2, InThePass DEF Active, Waits, Done
<1>. HIDE DEF q
<1>6. CASE ~Merges(h, r)
  <2>1. Faithful /\ h # Root => ~Done(q)
    <3>1. Faithful /\ h # Root /\ o.final => o.len > 0
      BY <1>1, <1>2 DEF Local, Knows
    <3>. QED BY <1>3, <1>6, <3>1 DEF Merges, Done
  <2>. QED BY <1>1, <1>3, <1>5, <1>6, <2>1, QuietStep
<1>7. CASE Merges(h, r)
  <2>. DEFINE t == Finished(p, r, h)
              i == p.at
  <2>1. h # Root /\ o.final
    BY <1>3, <1>7 DEF Merges
  <2>2. Nest /\ Waiting
    BY WaitingHolds DEF IInv, Nest
  <2>3. /\ g \in Parsers /\ Waits(g) /\ p.pc = "callback" /\ g # h
        /\ Text[g][i].to = h /\ Child(g) = h
        /\ o.role = Text[g][i].kind
    BY <1>3, <1>5, <2>1, <2>2, ParentOf DEF Waits
  <2>. HIDE DEF g
  <2>4. Local(reportsDeclarations, g, p, asked[g])
    BY <2>3 DEF IInv
  <2>5. Done(q)
    BY <1>3, <2>1 DEF Done
  <2>6. /\ r.role = Text[g][i].kind
        /\ r.inherited = o.inherited
    BY <1>4, <2>3 DEF Alike, SameMemory
  <2>7. ASSUME Faithful
        PROVE  /\ p.childParses = p.before
               /\ o.inherited = Base(g, p, i - 1)
               /\ r.direct + r.indirect = RefWeight(g, i)
               /\ r.role = "subset" => r.table = Base(h, r, Len(Text[h]))
    <3>1. Link(g, p, o)
      BY <2>3, <2>7 DEF IInv, Linked
    <3>2. p.childParses = p.before + 0 /\ o.inherited = Base(g, p, i - 1)
      BY <1>5, <3>1 DEF Link, Active
    <3>3. p.before \in Nat
      BY <2>4 DEF Local, Steady, Records
    <3>4. /\ r.direct + r.indirect = Weight[<<h, Len(Text[h])>>]
          /\ o.role # "literal" => r.table = Base(h, r, Len(Text[h]))
      <4>1. o.role = "literal" =>
              \A j \in 1..Len(Text[h]) : Text[h][j].kind = "other"
        BY <1>5, Roles
      <4>. QED BY <1>1, <1>2, <2>1, <2>7, <4>1, EndGives
    <3>5. RefWeight(g, i) = Weight[<<h, Len(Text[h])>>]
      BY <2>3 DEF RefWeight
    <3>6. r.role = o.role
      BY <1>4 DEF Alike
    <3>. QED BY <3>2, <3>3, <3>4, <3>5, <3>6
  <2>8. /\ Local(reportsDeclarations, g, t, asked[g]) /\ SameCall(p, t)
        /\ t.childParses = p.childParses + 1
        /\ Faithful => t.lastChild = RefWeight(g, i)
    BY <1>2, <1>4, <2>3, <2>4, <2>6, <2>7, FinishedLocal
  <2>9. /\ DOMAIN parser' = Parsers /\ parser'[h] = q /\ parser'[g] = t
        /\ \A x \in Parsers \ {h, g} : parser'[x] = parser[x]
    BY <1>1, <1>7, <2>3 DEF IInv
  <2>. HIDE DEF t, r
  <2>10. \A x \in Parsers : SamePlace(x)
    BY <1>3, <1>5, <2>3, <2>8, <2>9
       DEF SamePlace, Active, Waits, SameCall
  <2>11. Nest'
    BY <2>2, <2>10, SameNest
  <2>12. Faithful => Linked'
    <3>. SUFFICES ASSUME Faithful PROVE Linked'
      OBVIOUS
    <3>1. Linked
      BY DEF IInv
    <3>2. ASSUME NEW x \in Parsers, parser'[x].pc = "callback"
          PROVE  Link(x, parser'[x], parser'[Text[x][parser'[x].at].to])
      <4>1. Waits(x) /\ parser'[x].at = parser[x].at /\ x # h
        BY <1>3, <2>9, <2>10, <3>2 DEF SamePlace, Waits
      <4>2. CASE x = g
        <5>1. t.lastChild = RefWeight(g, t.at) /\ t.childParses = t.before + 1
          BY <2>7, <2>8 DEF SameCall
        <5>2. q.inherited = Base(g, t, t.at - 1)
          <6>1. Base(g, t, i - 1) = Base(g, p, i - 1) /\ t.at = i
            BY <2>8 DEF SameCall, Base
          <6>. QED BY <1>3, <2>7, <6>1
        <5>. QED BY <2>3, <2>5, <2>9, <4>1, <4>2, <5>1, <5>2 DEF Link
      <4>3. CASE x # g
        <5>1. PICK d \in Parsers : /\ d = Child(x)
                                   /\ d = Text[x][parser[x].at].to
          BY <2>2, <4>1 DEF Waiting, Child, Token
        <5>2. d # h
          BY <2>2, <2>3, <4>1, <4>3, <5>1, ChildrenDiffer
        <5>3. Link(x, parser[x], parser[d])
          BY <3>1, <4>1, <5>1 DEF Linked
        <5>4. /\ parser'[d].status # "none" <=> parser[d].status # "none"
              /\ Done(parser'[d]) <=> Done(parser[d])
              /\ parser'[d].inherited = parser[d].inherited
          BY <2>3, <2>8, <2>9, <5>2 DEF Done, SameCall
        <5>5. parser'[x] = parser[x]
          BY <2>9, <4>1, <4>3
        <5>. QED BY <5>1, <5>3, <5>4, <5>5 DEF Link
      <4>. QED BY <4>2, <4>3
    <3>. QED BY <3>2 DEF Linked, Waits, Child, Token
  <2>13. \A x \in Parsers : Local(reportsDeclarations', x, parser'[x], asked'[x])
    BY <1>1, <1>3, <2>8, <2>9 DEF IInv
  <2>. QED BY <1>1, <2>9, <2>11, <2>12, <2>13 DEF IInv, Nest
<1>. QED BY <1>6, <1>7

-----------------------------------------------------------------------------
(* Sums over sets.                                                         *)

(* The right-hand side of FoldSet's equation, for a sum of w.              *)
SumFrom(w, g, s) ==
    IF s = {} THEN 0
    ELSE LET x == CHOOSE y \in s : TRUE IN w[x] + g[s \ {x}]

Sums(S, w, g) ==
    /\ IsFiniteSet(S) /\ w \in [S -> Int]
    /\ g = [s \in SUBSET S |-> SumFrom(w, g, s)]

(* The subsets of a finite set, by their size.                             *)
LEMMA Sizes ==
    ASSUME NEW S, IsFiniteSet(S)
    PROVE  LET size == [s \in SUBSET S |-> Cardinality(s)] IN
           /\ size \in [SUBSET S -> Nat]
           /\ \E n \in Nat : \A s \in SUBSET S : size[s] < n
           /\ \A s \in SUBSET S : \A x \in s :
                s \ {x} \in SUBSET S /\ size[s \ {x}] < size[s]
<1>. DEFINE size == [s \in SUBSET S |-> Cardinality(s)]
<1>1. \A s \in SUBSET S : IsFiniteSet(s) /\ Cardinality(s) <= Cardinality(S)
  BY FS_Subset
<1>2. Cardinality(S) \in Nat /\ \A s \in SUBSET S : Cardinality(s) \in Nat
  BY <1>1, FS_CardinalityType
<1>3. \E n \in Nat : \A s \in SUBSET S : size[s] < n
  <2>1. \A s \in SUBSET S : size[s] < Cardinality(S) + 1
    BY <1>1, <1>2
  <2>2. Cardinality(S) + 1 \in Nat
    BY <1>2
  <2>. HIDE DEF size
  <2>. QED BY <2>1, <2>2
<1>4. ASSUME NEW s \in SUBSET S, NEW x \in s
      PROVE  s \ {x} \in SUBSET S /\ size[s \ {x}] < size[s]
  <2>1. Cardinality(s \ {x}) = Cardinality(s) - 1
    BY <1>1, FS_RemoveElement
  <2>2. s \ {x} \in SUBSET S
    OBVIOUS
  <2>. QED BY <1>2, <2>1, <2>2
<1>. QED BY <1>2, <1>3, <1>4

(* A sum of integers exists.                                               *)
LEMMA SumExists ==
    ASSUME NEW S, IsFiniteSet(S), NEW w, w \in [S -> Int]
    PROVE  \E g : Sums(S, w, g)
<1>. DEFINE size == [s \in SUBSET S |-> Cardinality(s)]
            E == [g \in [SUBSET S -> Int] |-> [s \in SUBSET S |-> SumFrom(w, g, s)]]
<1>1. /\ size \in [SUBSET S -> Nat]
      /\ \E n \in Nat : \A s \in SUBSET S : size[s] < n
      /\ \A s \in SUBSET S : \A x \in s :
                s \ {x} \in SUBSET S /\ size[s \ {x}] < size[s]
  BY Sizes
<1>. HIDE DEF size
<1>2. ASSUME NEW f \in [SUBSET S -> Int], NEW g \in [SUBSET S -> Int],
             NEW s \in SUBSET S,
             \A t \in SUBSET S : size[t] < size[s] => f[t] = g[t]
      PROVE  SumFrom(w, f, s) = SumFrom(w, g, s)
  <2>1. CASE s = {}
    BY <2>1 DEF SumFrom
  <2>2. CASE s # {}
    <3>. DEFINE x == CHOOSE y \in s : TRUE
    <3>1. x \in s
      BY <2>2
    <3>. HIDE DEF x
    <3>2. f[s \ {x}] = g[s \ {x}]
      BY <1>1, <1>2, <3>1
    <3>. QED BY <2>2, <3>2 DEF SumFrom, x
  <2>. QED BY <2>1, <2>2
<1>3. ASSUME NEW g \in [SUBSET S -> Int], NEW s \in SUBSET S
      PROVE  SumFrom(w, g, s) \in Int
  <2>1. CASE s = {}
    BY <2>1 DEF SumFrom
  <2>2. CASE s # {}
    <3>. DEFINE x == CHOOSE y \in s : TRUE
    <3>1. x \in s
      BY <2>2
    <3>2. SumFrom(w, g, s) = w[x] + g[s \ {x}]
      BY <2>2 DEF SumFrom
    <3>. HIDE DEF x
    <3>3. w[x] \in Int /\ g[s \ {x}] \in Int
      BY <1>1, <3>1
    <3>. QED BY <3>2, <3>3
  <2>. QED BY <2>1, <2>2
<1>4. E \in [[SUBSET S -> Int] -> [SUBSET S -> Int]]
  BY <1>3
<1>5. \A f, g \in [SUBSET S -> Int] : \A s \in SUBSET S :
         (\A t \in SUBSET S : size[t] < size[s] => f[t] = g[t])
         => E[f][s] = E[g][s]
  BY <1>2
<1>6. \A g \in [SUBSET S -> Int] : E[g] = [s \in SUBSET S |-> SumFrom(w, g, s)]
  OBVIOUS
<1>. HIDE DEF E
<1>7. Descends(SUBSET S, Int, size, E)
  <2>. DEFINE P == SUBSET S
  <2>. HIDE DEF P
  <2>1. Int # {}
    OBVIOUS
  <2>2. size \in [P -> Nat] /\ \E n \in Nat : \A s \in P : size[s] < n
    BY ONLY <1>1 DEF P
  <2>3. E \in [[P -> Int] -> [P -> Int]]
    BY ONLY <1>4 DEF P
  <2>4. \A f, g \in [P -> Int] : \A s \in P :
           (\A t \in P : size[t] < size[s] => f[t] = g[t])
           => E[f][s] = E[g][s]
    BY ONLY <1>5 DEF P
  <2>5. Descends(P, Int, size, E)
    BY ONLY <2>1, <2>2, <2>3, <2>4 DEF Descends
  <2>. QED BY <2>5 DEF P
<1>8. \E g \in [SUBSET S -> Int] : g = E[g]
  BY <1>7, Recursion
<1>. QED BY <1>6, <1>8 DEF Sums

(* It does not depend on the order.                                        *)
Splits(S, w, g) ==
    /\ g[{}] = 0
    /\ \A s \in SUBSET S :
         g[s] \in Int /\ \A x \in s : g[s] = w[x] + g[s \ {x}]

(* Every sum does.                                                         *)
LEMMA SumSplits ==
    ASSUME NEW S, NEW w, NEW g, Sums(S, w, g)
    PROVE  Splits(S, w, g)
<1>. DEFINE size == [s \in SUBSET S |-> Cardinality(s)]
            T == {s \in SUBSET S :
                    g[s] \in Int /\ \A x \in s : g[s] = w[x] + g[s \ {x}]}
<1>0. IsFiniteSet(S) /\ w \in [S -> Int]
  BY DEF Sums
<1>1. /\ size \in [SUBSET S -> Nat]
      /\ \A s \in SUBSET S : \A x \in s :
                s \ {x} \in SUBSET S /\ size[s \ {x}] < size[s]
  BY <1>0, Sizes
<1>. HIDE DEF size
<1>2. \A s \in SUBSET S : g[s] = SumFrom(w, g, s)
  BY DEF Sums
<1>3. g[{}] = 0
  BY <1>2 DEF SumFrom
<1>t. \A s \in SUBSET S :
        s \in T <=> g[s] \in Int /\ \A x \in s : g[s] = w[x] + g[s \ {x}]
  OBVIOUS
<1>. HIDE DEF T
<1>4. ASSUME NEW s \in SUBSET S,
             \A t \in SUBSET S : size[t] < size[s] => t \in T
      PROVE  s \in T
  <2>1. CASE s = {}
    BY <1>3, <1>t, <2>1
  <2>2. CASE s # {}
    <3>. DEFINE x == CHOOSE y \in s : TRUE
    <3>1. x \in s
      BY <2>2
    <3>2. g[s] = w[x] + g[s \ {x}]
      BY <1>2, <2>2 DEF SumFrom
    <3>. HIDE DEF x
    <3>3. s \ {x} \in T
      BY <1>1, <1>4, <3>1
    <3>4. g[s] \in Int /\ w[x] \in Int
      BY <1>0, <1>1, <1>t, <3>1, <3>2, <3>3
    <3>5. ASSUME NEW z \in s, z # x PROVE g[s] = w[z] + g[s \ {z}]
      <4>1. s \ {z} \in T
        BY <1>1, <1>4
      <4>2. g[s \ {x}] = w[z] + g[(s \ {x}) \ {z}]
        <5>1. z \in s \ {x} /\ s \ {x} \in SUBSET S
          BY <3>5
        <5>. QED BY <1>t, <3>3, <5>1
      <4>3. g[s \ {z}] = w[x] + g[(s \ {z}) \ {x}]
        <5>1. x \in s \ {z} /\ s \ {z} \in SUBSET S
          BY <3>1, <3>5
        <5>. QED BY <1>t, <4>1, <5>1
      <4>4. (s \ {z}) \ {x} = (s \ {x}) \ {z}
        OBVIOUS
      <4>5. /\ w[z] \in Int /\ w[x] \in Int
            /\ g[s \ {x}] \in Int /\ g[s \ {z}] \in Int
        BY <1>0, <1>1, <1>t, <3>1, <3>3, <4>1
      <4>6. (s \ {x}) \ {z} \in T
        <5>1. size[(s \ {x}) \ {z}] < size[s \ {x}] /\ size[s \ {x}] < size[s]
              /\ (s \ {x}) \ {z} \in SUBSET S
          <6>1. s \ {x} \in SUBSET S /\ z \in s \ {x}
            BY <3>5
          <6>. QED BY <1>1, <3>1, <6>1
        <5>2. /\ size[(s \ {x}) \ {z}] \in Nat /\ size[s \ {x}] \in Nat
              /\ size[s] \in Nat
          BY <1>1, <5>1
        <5>3. size[(s \ {x}) \ {z}] < size[s]
          BY ONLY <5>1, <5>2
        <5>. QED BY <1>4, <5>1, <5>3
      <4>7. g[(s \ {x}) \ {z}] \in Int
        BY <1>t, <4>6
      <4>8. g[s \ {z}] = w[x] + g[(s \ {x}) \ {z}]
        BY ONLY <4>3, <4>4
      <4>. DEFINE a == g[s \ {x}]
                  b == g[s \ {z}]
                  c == g[(s \ {x}) \ {z}]
      <4>9. /\ a = w[z] + c /\ b = w[x] + c /\ g[s] = w[x] + a
            /\ w[z] \in Int /\ w[x] \in Int /\ c \in Int
        BY ONLY <3>2, <4>2, <4>5, <4>7, <4>8
      <4>. HIDE DEF a, b, c
      <4>10. g[s] = w[z] + b
        BY ONLY <4>9
      <4>. QED BY ONLY <4>10 DEF b
    <3>. QED BY <1>t, <3>2, <3>4, <3>5
  <2>. QED BY <2>1, <2>2
<1>5. SUBSET S \subseteq T
  BY <1>1, <1>4, RankInduction
<1>. QED BY <1>3, <1>5, <1>t DEF Splits

(* A sum over the first numbers.                                           *)
AddsUp(n, v, w) ==
    /\ v \in [0..n -> Int] /\ v[0] = 0
    /\ \A i \in 1..n : v[i] = v[i - 1] + w[i]

(* A sum of what one number adds to the one before.                        *)
LEMMA SumUpTo ==
    ASSUME NEW n \in Nat, NEW w, NEW g, Sums(1..n, w, g),
           NEW v, AddsUp(n, v, w)
    PROVE  g[1..n] = v[n]
<1>0. /\ w \in [1..n -> Int] /\ v \in [0..n -> Int] /\ v[0] = 0
      /\ \A i \in 1..n : v[i] = v[i - 1] + w[i]
  BY DEF Sums, AddsUp
<1>1. IsFiniteSet(1..n)
  <2>1. 1 \in Int /\ n \in Int
    OBVIOUS
  <2>. QED BY <2>1, FS_Interval
<1>2. /\ g[{}] = 0
      /\ \A s \in SUBSET (1..n) :
           g[s] \in Int /\ \A x \in s : g[s] = w[x] + g[s \ {x}]
  <2>1. Splits(1..n, w, g)
    BY ONLY Sums(1..n, w, g), SumSplits
  <2>. QED BY ONLY <2>1 DEF Splits
<1>. DEFINE T == {m \in Nat : m <= n => g[1..m] = v[m]}
<1>3. 0 \in T
  <2>1. 1..0 = {}
    OBVIOUS
  <2>2. g[1..0] = v[0]
    BY ONLY <1>0, <1>2, <2>1
  <2>. QED BY ONLY <2>2
<1>4. ASSUME NEW m \in Nat, m \in T PROVE m + 1 \in T
  <2>. SUFFICES ASSUME m + 1 <= n PROVE g[1..(m + 1)] = v[m + 1]
    OBVIOUS
  <2>1. m + 1 \in 1..(m + 1) /\ m + 1 \in 1..n /\ m \in 0..n
    OBVIOUS
  <2>2. (1..(m + 1)) \ {m + 1} = 1..m
    <3>1. ASSUME NEW i PROVE i \in (1..(m + 1)) \ {m + 1} <=> i \in 1..m
      <4>1. ASSUME i \in Int
            PROVE  1 <= i /\ i <= m + 1 /\ i # m + 1 <=> 1 <= i /\ i <= m
        BY <4>1
      <4>. QED BY <4>1
    <3>. QED BY ONLY <3>1
  <2>3. 1..(m + 1) \in SUBSET (1..n)
    OBVIOUS
  <2>4. g[1..(m + 1)] = w[m + 1] + g[1..m]
    <3>. DEFINE U == 1..(m + 1)
    <3>1. U \in SUBSET (1..n) /\ m + 1 \in U /\ U \ {m + 1} = 1..m
      BY <2>1, <2>2, <2>3
    <3>. HIDE DEF U
    <3>2. g[U] = w[m + 1] + g[U \ {m + 1}]
      BY ONLY <1>2, <3>1
    <3>. QED BY ONLY <3>1, <3>2 DEF U
  <2>5. g[1..m] = v[m]
    BY <1>4, <2>1
  <2>6. v[m + 1] = v[m] + w[m + 1] /\ v[m] \in Int /\ w[m + 1] \in Int
    BY <1>0, <2>1
  <2>. QED BY ONLY <2>4, <2>5, <2>6
<1>. HIDE DEF T
<1>5. \A m \in Nat : m \in T
  BY <1>3, <1>4, Induction
<1>6. n \in T
  BY <1>5
<1>. QED BY <1>6 DEF T

-----------------------------------------------------------------------------
(* The specification.                                                      *)

(* Every step keeps the invariant.                                         *)
LEMMA NextStep ==
    ASSUME IInv, [Next]_vars
    PROVE  IInv'
<1>1. CASE XML_ParserReset
  BY <1>1, ResetStep
<1>2. ASSUME NEW h \in Parsers, NEW n \in 0..Len(Text[h]), NEW final \in BOOLEAN,
             XML_Parse(h, n, final)
      PROVE  IInv'
  BY <1>2, ParseStep
<1>3. ASSUME NEW h \in Parsers, XML_ResumeParser(h) PROVE IInv'
  BY <1>3, ResumeStep
<1>4. ASSUME NEW h \in Parsers, Declaration(h) PROVE IInv'
  BY <1>4, DeclarationStep
<1>5. ASSUME NEW h \in Parsers, Other(h) PROVE IInv'
  BY <1>5, OtherStep
<1>6. ASSUME NEW h \in Parsers, Use(h) PROVE IInv'
  BY <1>6, UseStep
<1>7. ASSUME NEW h \in Parsers, Ask(h) PROVE IInv'
  BY <1>7, AskStep
<1>8. ASSUME NEW h \in Parsers, Replay(h) PROVE IInv'
  BY <1>8, ReplayStep
<1>9. ASSUME NEW h \in Parsers, XML_ExternalEntityParserCreate(h) PROVE IInv'
  BY <1>9, CreateStep
<1>10. ASSUME NEW h \in Parsers, NEW how \in {"suspend", "abort"},
              XML_StopParser(h, how)
       PROVE  IInv'
  BY <1>10, StopStep
<1>11. ASSUME NEW h \in Parsers, Answer(h) PROVE IInv'
  BY <1>11, AnswerStep
<1>12. ASSUME NEW h \in Parsers, Refuse(h) PROVE IInv'
  BY <1>12, RefuseStep
<1>13. ASSUME NEW h \in Parsers, EndPass(h) PROVE IInv'
  BY <1>13, EndPassStep
<1>14. CASE UNCHANGED vars
  BY <1>14 DEF vars, IInv, Children, Stacked, Lowest, Linked, Active, Waits,
               Child, Token
<1>. QED
  BY <1>1, <1>2, <1>3, <1>4, <1>5, <1>6, <1>7, <1>8, <1>9, <1>10, <1>11,
     <1>12, <1>13, <1>14 DEF Next

(* Every reachable state.                                                  *)
THEOREM Invariance == Spec => []IInv
<1>1. IInv /\ [Next]_vars => IInv'
  BY NextStep
<1>. QED BY <1>1, InitStep, PTL DEF Spec

(* Records hold what their fields may hold.                                *)
LEMMA InvTyped == IInv => TypeInv
BY DEF IInv, Local, Steady, TypeInv

(* TypeInv: every handle holds what its fields may hold, for every set of  *)
(* texts, chunks and stops (XML_ParserStruct, XP_NATIVE_PARSER).           *)
THEOREM TypeCorrect == Spec => []TypeInv
BY Invariance, InvTyped, PTL

(* No reference is asked twice.                                            *)
LEMMA InvAsked == IInv => AskedOnce
<1>. SUFFICES ASSUME IInv, NEW h \in Parsers, NEW j \in DOMAIN asked[h],
                     NEW k \in DOMAIN asked[h],
                     asked[h][j].token = asked[h][k].token
              PROVE  j = k
  BY DEF AskedOnce
<1>1. /\ asked[h] \in Seq([token : 1..Len(Text[h]), ordinal : Ordinals(h)])
      /\ Increasing(asked[h])
  BY DEF IInv, Local, Steady
<1>2. /\ Len(asked[h]) \in Nat /\ DOMAIN asked[h] = 1..Len(asked[h])
      /\ \A i \in 1..Len(asked[h]) : asked[h][i].token \in 1..Len(Text[h])
  BY <1>1, HistoryAt
<1>3. Len(Text[h]) \in Nat
  BY Texts
<1>4. asked[h][j].token \in Int /\ j \in Int /\ k \in Int
  BY <1>2, <1>3
<1>5. ~(j < k) /\ ~(k < j)
  <2>1. \A i, l \in DOMAIN asked[h] :
           i < l => asked[h][i].token < asked[h][l].token
    BY ONLY <1>1 DEF Increasing
  <2>2. /\ j < k => asked[h][j].token < asked[h][k].token
        /\ k < j => asked[h][k].token < asked[h][j].token
    BY ONLY <2>1, j \in DOMAIN asked[h], k \in DOMAIN asked[h]
  <2>3. ~(asked[h][j].token < asked[h][k].token)
        /\ ~(asked[h][k].token < asked[h][j].token)
    BY ONLY <1>4, asked[h][j].token = asked[h][k].token
  <2>. QED BY <2>2, <2>3
<1>. QED BY <1>4, <1>5

(* AskedOnce: whatever chunks, suspensions and replays there are, the      *)
(* handler is asked for a reference once (suppress_next_callback).         *)
THEOREM ReferencesAskedOnce == Spec => []AskedOnce
BY Invariance, InvAsked, PTL

(* Declarations.                                                           *)
LEMMA InvDeclares == IInv /\ Faithful => DeclarationsAreTheTexts
BY DEF IInv, Local, Knows, Base, DeclarationsAreTheTexts

(* DeclarationsAreTheTexts: when no child is finished by a call without    *)
(* text, the entity table of every pass is the one of the whole document   *)
(* (resolve_external_entity, record_external_entity_context_from).         *)
THEOREM DeclarationsFollowTexts ==
    ASSUME Faithful
    PROVE  Spec => []DeclarationsAreTheTexts
<1>1. IInv => DeclarationsAreTheTexts
  BY InvDeclares
<1>. QED BY <1>1, Invariance, PTL

(* Answers.                                                                *)
LEMMA InvAnswers == IInv /\ Faithful => AnswersRepeat
<1>. SUFFICES ASSUME IInv, Faithful, NEW h \in Parsers,
                     NEW j \in DOMAIN asked[h], parser[h].pc = "pass",
                     parser[h].at <= parser[h].extent,
                     parser[h].at = asked[h][j].token
              PROVE  /\ asked[h][j].ordinal = parser[h].sequence + 1
                     /\ Suppressed(parser[h])
                     /\ Token(h).kind = "subset" =>
                          parser[h].counts[asked[h][j].ordinal] =
                            RefWeight(h, parser[h].at)
  BY DEF AnswersRepeat
<1>. DEFINE r == parser[h]
            a == asked[h]
<1>1. reportsDeclarations \in BOOLEAN /\ Local(reportsDeclarations, h, r, a)
  BY DEF IInv
<1>. PICK rep \in BOOLEAN : rep = reportsDeclarations
  BY <1>1
<1>2. PICK e \in 0..Reads(r) : Passing(rep, h, r, a, e, 0)
  BY <1>1, LocalPassing
<1>3. AskedAre(rep, h, a)
  BY <1>1 DEF Local, Steady
<1>4. j \in DOMAIN a /\ r.at = a[j].token /\ r.at <= r.extent
  OBVIOUS
<1>. HIDE DEF r, a
<1>5. Refers(h, r.at) /\ a[j].ordinal = Ordinal(rep, h, r.at)
  BY <1>3, <1>4 DEF AskedAre
<1>6. /\ r.sequence + 1 = Ordinal(rep, h, r.at)
      /\ ~Suppressed(r) => e < r.at
  BY <1>2, <1>4, <1>5, NextOrdinal
<1>7. r.at \in Nat /\ e \in Nat /\ r.at \in 1..Len(Text[h]) /\ Len(Text[h]) \in Nat
  BY <1>2, <1>4, NextToken
<1>8. r.at <= e
  <2>1. a[j].token <= IF r.at > e THEN r.at - 1 ELSE e
    BY <1>2, <1>4 DEF Passing, AskedUpTo
  <2>. QED BY <1>4, <1>7, <2>1
<1>9. Suppressed(r)
  BY <1>6, <1>7, <1>8
<1>10. Kept(rep, h, r, r.at)
  <2>1. KeptUpTo(rep, h, r, e)
    BY <1>2, <1>7, <1>8 DEF Passing
  <2>2. r.at \in 1..e
    BY <1>7, <1>8
  <2>. QED BY <1>5, <2>1, <2>2 DEF KeptUpTo
<1>11. Text[h][r.at].kind = "subset" =>
         r.counts[a[j].ordinal] = RefWeight(h, r.at)
  BY <1>5, <1>10 DEF Kept
<1>. QED BY <1>5, <1>6, <1>9, <1>11 DEF r, a, Token

(* AnswersRepeat: a pass reaches a reference asked before under the same   *)
(* ordinal and finds its byte count (external_entity_replay_counts).       *)
THEOREM RepeatedAnswers ==
    ASSUME Faithful
    PROVE  Spec => []AnswersRepeat
<1>1. IInv => AnswersRepeat
  BY InvAnswers
<1>. QED BY <1>1, Invariance, PTL

-----------------------------------------------------------------------------
(* Children.                                                               *)

(* The fold of the property, as the sum it is.                             *)
SumOf(h, a, S) ==
    FoldSet(LAMBDA j, sum : RefWeight(h, a[j].token) + sum, 0, S)
Weighs(h, a, S, w) ==
    /\ IsFiniteSet(S) /\ w \in [S -> Int]
    /\ \A j \in S : w[j] = RefWeight(h, a[j].token)

(* It is a sum.                                                            *)
LEMMA FoldIsSum ==
    ASSUME NEW h, NEW a, NEW S, NEW w, Weighs(h, a, S, w)
    PROVE  \E g : Sums(S, w, g) /\ SumOf(h, a, S) = g[S]
<1>. DEFINE From(f) == [s \in SUBSET S |->
                          IF s = {} THEN 0
                          ELSE LET x == CHOOSE y \in s : TRUE
                               IN RefWeight(h, a[x].token) + f[s \ {x}]]
            g == CHOOSE f : f = From(f)
<1>1. SumOf(h, a, S) = g[S]
  BY DEF SumOf, FoldSet, MapThenFoldSet
<1>. HIDE DEF g
<1>7. /\ IsFiniteSet(S) /\ w \in [S -> Int]
      /\ \A j \in S : w[j] = RefWeight(h, a[j].token)
  BY DEF Weighs
<1>2. ASSUME NEW f PROVE From(f) = [s \in SUBSET S |-> SumFrom(w, f, s)]
  <2>1. ASSUME NEW s \in SUBSET S, s # {}
        PROVE  LET x == CHOOSE y \in s : TRUE IN
               RefWeight(h, a[x].token) = w[x]
    <3>1. (CHOOSE y \in s : TRUE) \in S
      BY <2>1
    <3>. QED BY <1>7, <3>1
  <2>2. ASSUME NEW s \in SUBSET S
        PROVE  (IF s = {} THEN 0
                ELSE LET x == CHOOSE y \in s : TRUE
                     IN RefWeight(h, a[x].token) + f[s \ {x}])
               = SumFrom(w, f, s)
    BY <2>1 DEF SumFrom
  <2>. QED BY <2>2
<1>3. PICK f : Sums(S, w, f)
  BY ONLY <1>7, SumExists
<1>4. f = From(f)
  BY <1>2, <1>3 DEF Sums
<1>. HIDE DEF From
<1>5. g = From(g)
  BY <1>4 DEF g
<1>6. Sums(S, w, g)
  BY <1>2, <1>5, <1>7 DEF Sums
<1>. QED BY <1>1, <1>6

(* The bytes of the first references of a history, as a sum.               *)
LEMMA PartsSum ==
    ASSUME NEW h \in Parsers, NEW rep, NEW a, History(rep, h, a),
           NEW n, n \in 0..Len(a)
    PROVE  SumOf(h, a, 1..n) = IF n = 0 THEN 0 ELSE Parts(h, a[n].token)
<1>. DEFINE w == [j \in 1..n |-> RefWeight(h, a[j].token)]
            v == [m \in 0..n |-> IF m = 0 THEN 0 ELSE Parts(h, a[m].token)]
<1>0. /\ a \in Seq([token : 1..Len(Text[h]), ordinal : Ordinals(h)])
      /\ AskedAre(rep, h, a)
  BY DEF History
<1>1. /\ n \in Nat
      /\ \A j \in 1..n : j \in DOMAIN a /\ a[j].token \in 1..Len(Text[h])
  <2>1. /\ Len(a) \in Nat /\ DOMAIN a = 1..Len(a)
        /\ \A j \in 1..Len(a) : a[j].token \in 1..Len(Text[h])
    BY <1>0, HistoryAt
  <2>. QED BY <2>1
<1>2. ASSUME NEW j \in 1..n
      PROVE  /\ RefWeight(h, a[j].token) \in Int
             /\ Parts(h, a[j].token) \in Int
             /\ Parts(h, a[j].token) = RefWeight(h, a[j].token)
                  + (IF j = 1 THEN 0 ELSE Parts(h, a[j - 1].token))
  <2>. DEFINE i == a[j].token
  <2>1. i \in 1..Len(Text[h]) /\ Refers(h, i)
        /\ Parts(h, i - 1) = IF j = 1 THEN 0 ELSE Parts(h, a[j - 1].token)
    BY <1>0, <1>1 DEF AskedAre
  <2>2. Len(Text[h]) \in Nat
    BY Texts
  <2>. HIDE DEF i
  <2>3. i \in 0..Len(Text[h]) /\ i - 1 \in 0..Len(Text[h])
    BY <2>1, <2>2
  <2>4. RefWeight(h, i) \in Nat
    BY <2>1, WeightStep
  <2>5. Parts(h, i) = Parts(h, i - 1) + RefWeight(h, i)
        /\ Parts(h, i) \in Int /\ Parts(h, i - 1) \in Int
    BY <2>1, <2>3, PartsStep
  <2>6. /\ RefWeight(h, i) \in Int /\ Parts(h, i) \in Int
        /\ Parts(h, i) = RefWeight(h, i) + Parts(h, i - 1)
    BY ONLY <2>4, <2>5
  <2>. QED BY <2>1, <2>6 DEF i
<1>3. w \in [1..n -> Int]
  BY <1>2
<1>4. v \in [0..n -> Int] /\ v[0] = 0
  BY <1>1, <1>2
<1>5. ASSUME NEW j \in 1..n PROVE v[j] = v[j - 1] + w[j]
  <2>1. j \in 0..n /\ j - 1 \in 0..n /\ j # 0 /\ (j - 1 = 0 <=> j = 1)
    BY <1>1
  <2>2. /\ v[j] = Parts(h, a[j].token) /\ w[j] = RefWeight(h, a[j].token)
        /\ v[j - 1] = IF j = 1 THEN 0 ELSE Parts(h, a[j - 1].token)
    BY <2>1
  <2>3. v[j - 1] \in Int
    BY <1>4, <2>1
  <2>. HIDE DEF v, w
  <2>4. v[j] = w[j] + v[j - 1] /\ w[j] \in Int
    BY <1>2, <2>2
  <2>. QED BY ONLY <2>3, <2>4
<1>6. IsFiniteSet(1..n)
  <2>1. 1 \in Int /\ n \in Int
    BY <1>1
  <2>. QED BY <2>1, FS_Interval
<1>7. \A j \in 1..n : w[j] = RefWeight(h, a[j].token)
  OBVIOUS
<1>8. v[n] = IF n = 0 THEN 0 ELSE Parts(h, a[n].token)
  BY <1>1
<1>. HIDE DEF v, w
<1>9. PICK g : Sums(1..n, w, g) /\ SumOf(h, a, 1..n) = g[1..n]
  <2>1. Weighs(h, a, 1..n, w)
    BY <1>3, <1>6, <1>7 DEF Weighs
  <2>. QED BY ONLY <2>1, FoldIsSum
<1>10. g[1..n] = v[n]
  <2>1. AddsUp(n, v, w)
    BY <1>4, <1>5 DEF AddsUp
  <2>. QED BY ONLY <1>1, <1>9, <2>1, SumUpTo
<1>. QED BY <1>8, <1>9, <1>10

(* Every reference asked has been counted, or the last one is due.         *)
LEMMA InvCounted == IInv /\ Faithful => ChildrenCountedOnce
<1>. SUFFICES ASSUME IInv, Faithful, NEW h \in Parsers, ~parser[h].failed
              PROVE  parser[h].external = SumOf(h, asked[h], Merged(h))
  BY DEF ChildrenCountedOnce, SumOf
<1>. DEFINE r == parser[h]
            a == asked[h]
<1>1. reportsDeclarations \in BOOLEAN /\ Local(reportsDeclarations, h, r, a)
  BY DEF IInv
<1>2. /\ a \in Seq([token : 1..Len(Text[h]), ordinal : Ordinals(h)])
      /\ AskedAre(reportsDeclarations, h, a)
      /\ History(reportsDeclarations, h, a)
      /\ r.pc = "callback" => a # <<>> /\ a[Len(a)].token = r.at
      /\ r.external = IF r.pc = "callback" /\ ~HasGiven(r)
                      THEN Parts(h, r.at - 1) ELSE Total(h, a)
  BY <1>1 DEF Local, Steady, Knows, History
<1>3. Len(a) \in Nat /\ DOMAIN a = 1..Len(a)
  BY <1>2, HistoryAt
<1>4. Merged(h) = {j \in 1..Len(a) : ~(j = Len(a) /\ r.pc = "callback"
                                       /\ ~HasGiven(r))}
  BY DEF Merged, HasGiven
<1>5. a = <<>> <=> Len(a) = 0
  BY <1>2
<1>6. CASE r.pc = "callback" /\ ~HasGiven(r)
  <2>1. Len(a) \in DOMAIN a /\ Len(a) - 1 \in 0..Len(a) /\ Len(a) # 0
    BY <1>2, <1>3, <1>5, <1>6
  <2>2. Parts(h, r.at - 1) = IF Len(a) = 1 THEN 0
                             ELSE Parts(h, a[Len(a) - 1].token)
    <3>1. a[Len(a)].token = r.at
      BY <1>2, <1>6
    <3>. HIDE DEF a, r
    <3>. QED BY <1>2, <2>1, <3>1 DEF AskedAre
  <2>3. Merged(h) = 1..(Len(a) - 1)
    <3>. DEFINE n == Len(a)
    <3>1. n \in Nat
      BY <1>3
    <3>2. Merged(h) = {j \in 1..n : j # n}
      BY <1>4, <1>6
    <3>. HIDE DEF n
    <3>3. {j \in 1..n : j # n} = 1..(n - 1)
      BY <3>1
    <3>. QED BY <3>2, <3>3 DEF n
  <2>4. SumOf(h, a, 1..(Len(a) - 1))
          = IF Len(a) - 1 = 0 THEN 0 ELSE Parts(h, a[Len(a) - 1].token)
    <3>. DEFINE n == Len(a) - 1
    <3>. HIDE DEF a, n
    <3>1. SumOf(h, a, 1..n) = IF n = 0 THEN 0 ELSE Parts(h, a[n].token)
      <4>1. n \in 0..Len(a)
        BY <2>1 DEF n
      <4>. QED BY <1>2, <4>1, PartsSum
    <3>. QED BY ONLY <3>1 DEF n
  <2>5. Len(a) - 1 = 0 <=> Len(a) = 1
    BY <1>3
  <2>6. r.external = Parts(h, r.at - 1)
    BY <1>2, <1>6
  <2>. QED BY <2>2, <2>3, <2>4, <2>5, <2>6
<1>7. CASE ~(r.pc = "callback" /\ ~HasGiven(r))
  <2>1. Merged(h) = 1..Len(a)
    BY <1>4, <1>7
  <2>2. SumOf(h, a, 1..Len(a))
          = IF Len(a) = 0 THEN 0 ELSE Parts(h, a[Len(a)].token)
    <3>1. Len(a) \in 0..Len(a)
      BY <1>3
    <3>. HIDE DEF a
    <3>. QED BY <1>2, <3>1, PartsSum
  <2>3. r.external = IF Len(a) = 0 THEN 0 ELSE Parts(h, a[Len(a)].token)
    BY <1>2, <1>5, <1>7 DEF Total
  <2>. QED BY <2>1, <2>2, <2>3
<1>. QED BY <1>6, <1>7

(* ChildrenCountedOnce: a parser that has not failed has added each child's*)
(* bytes exactly once (merge_accounting_from).                             *)
THEOREM ChildrenAreCounted ==
    ASSUME Faithful
    PROVE  Spec => []ChildrenCountedOnce
<1>1. IInv => ChildrenCountedOnce
  BY InvCounted
<1>. QED BY <1>1, Invariance, PTL
====
