-------------------------- MODULE InputBufferProofs --------------------------
(***************************************************************************)
(* The input storage is right for every size of int, every first capacity, *)
(* every context length and every application.                             *)
(***************************************************************************)
EXTENDS InputBuffer, TLAPS

(* The bytes committed so far, those of a call in progress included.       *)
Sent == parsed + (IF pc = "bridge" THEN len ELSE 0)

(* The bytes the parser may still ask for.                                 *)
Unconsumed == pending + (IF pc = "bridge" THEN len ELSE 0)

(* The storage ends with what was sent and holds all that is unconsumed.   *)
HoldsSent ==
    /\ Unconsumed <= length /\ length <= Sent /\ Sent <= DocSize
    /\ \A i \in 1..length : memory[i] = document[Sent - length + i]

(* What is not sent yet is what the application would make.                *)
MadeAhead == \A k \in 1..DocSize : k > Sent => document[k] = k

(* The region that was handed out has the bytes that come next.            *)
RegionIsNext ==
    /\ pc = "bridge" => granted = 0
    /\ parsed + granted <= DocSize
    /\ \A i \in 1..granted : memory[length + i] = parsed + i

(* n bytes of input at `from': they are all there, in the storage.         *)
Readable(from, n) ==
    \/ from = Own
    \/ from \in Nat /\ from + n <= length + granted

(* A growth for XML_Parse can still read its input, and one for            *)
(* XML_GetBuffer has none.                                                 *)
SourceIsThere ==
    pc = "grow" => /\ parsed + len <= DocSize
                   /\ Readable(source, len)
                   /\ ~commit => source = Own

(* A growth in progress asks for a size that passed the check, and its     *)
(* doubling started from a positive capacity.                              *)
GrowthFits ==
    pc = "grow" => /\ length + len <= MaximumCapacity
                   /\ new > 0 /\ new >= capacity

IInv == TypeOK /\ NoOverflow /\ RoomIsThere /\ HoldsSent /\ MadeAhead
        /\ RegionIsNext /\ SourceIsThere /\ GrowthFits

(* Twice INT_MAX / 2 + 1 is one more than INT_MAX, which is odd.             *)
LEMMA ConstantsTyped ==
    /\ IntMax \in Nat /\ MaximumCapacity \in Nat /\ MaximumCapacity <= IntMax
    /\ 2 * MaximumCapacity = IntMax + 1
    /\ Initial \in Nat /\ Initial > 0 /\ Initial <= MaximumCapacity
    /\ Context \in Nat /\ DocSize \in Nat /\ Own \in Int
    /\ \A n \in Sizes : n \in Nat
<1>1. /\ IntMax \in Nat /\ MaximumCapacity \in Nat
      /\ 2 * MaximumCapacity = IntMax + 1
      /\ Initial \in Nat /\ Initial > 0 /\ Initial <= MaximumCapacity
      /\ Context \in Nat /\ DocSize \in Nat /\ Sizes \subseteq Nat
    BY SizesAssumption
<1>. QED BY <1>1 DEF Own

(* A fresh parser has no storage and nothing sent.                         *)
LEMMA IInvInit == Init => IInv
<1>. SUFFICES ASSUME Init PROVE IInv
    OBVIOUS
<1>1. TypeOK
    <2>1. memory \in [1..IntMax -> Nat]
        BY DEF Init, Blank
    <2>2. 0 \in 0..IntMax /\ source \in Int
        BY ConstantsTyped DEF Init
    <2>3. document \in [1..DocSize -> Nat]
        BY ConstantsTyped DEF Init, Made
    <2>. QED BY <2>1, <2>2, <2>3 DEF Init, TypeOK
<1>2. /\ NoOverflow /\ RoomIsThere /\ HoldsSent /\ MadeAhead
      /\ RegionIsNext /\ SourceIsThere /\ GrowthFits
    BY ConstantsTyped DEF Init, Made, NoOverflow, RoomIsThere, HoldsSent, Sent,
       Unconsumed, MadeAhead, RegionIsNext, SourceIsThere, GrowthFits
<1>. QED BY <1>1, <1>2 DEF IInv

(* Bytes put at the end of storage m that holds what was sent and has room:*)
(* the invariant holds whether they are committed or only handed out, and  *)
(* wherever the old storage has them.                                      *)
LEMMA PlaceKeepsInv ==
    ASSUME IInv, NEW n \in Nat, NEW m \in [1..IntMax -> Nat],
           NEW from, Readable(from, n),
           NEW commits \in BOOLEAN, ~commits => from = Own,
           pc # "bridge", Place(m, n, from, commits),
           \A i \in 1..length : m[i] = memory[i],
           length + n <= capacity', capacity' \in 0..IntMax,
           parsed + n <= DocSize,
           allocated' \in BOOLEAN,
           parsing' \in {"INITIALIZED", "PARSING", "SUSPENDED", "FINISHED"},
           UNCHANGED <<failed, parsed, pending>>
    PROVE  IInv'
<1>1. /\ IntMax \in Nat /\ length \in Nat /\ parsed \in Nat /\ pending \in Nat
      /\ capacity' \in Nat /\ length + n <= IntMax /\ DocSize \in Nat
      /\ granted \in Nat /\ length + granted <= IntMax /\ Own \in Int
    BY ConstantsTyped DEF IInv, TypeOK, RoomIsThere
<1>2. /\ memory' = Write(m, n, from) /\ len' = n /\ new' = 0
      /\ commit' = FALSE /\ source' = Own
    BY DEF Place
<1>3. \A i \in 1..n : Input(from, i) \in Nat
    <2>1. TAKE i \in 1..n
    <2>2. CASE from = Own
        BY <1>1, <2>2 DEF Input
    <2>3. CASE from # Own
        <3>1. from \in Nat /\ from + n <= IntMax
            BY <1>1, <2>3 DEF Readable
        <3>2. from + i \in 1..IntMax
            BY <1>1, <3>1
        <3>. QED BY <2>3, <3>2 DEF Input, IInv, TypeOK
    <2>. QED BY <2>2, <2>3
<1>4. memory' \in [1..IntMax -> Nat]
    <2>1. \A i \in 1..IntMax : length < i /\ i <= length + n => i - length \in 1..n
        BY <1>1
    <2>. QED BY <1>2, <1>3, <2>1 DEF Write
<1>5. /\ \A i \in 1..length : memory'[i] = memory[i]
      /\ \A i \in 1..n : memory'[length + i] = Input(from, i)
    <2>1. \A i \in 1..n : length + i \in 1..IntMax /\ (length + i) - length = i
        BY <1>1
    <2>2. \A i \in 1..length : i \in 1..IntMax
        BY <1>1
    <2>. QED BY <1>1, <1>2, <2>1, <2>2 DEF Write
<1>6. /\ pending <= length /\ length <= parsed /\ parsed <= DocSize
      /\ \A i \in 1..length : memory[i] = document[parsed - length + i]
      /\ \A k \in 1..DocSize : k > parsed => document[k] = k
      /\ document \in [1..DocSize -> Nat]
    BY <1>1 DEF IInv, TypeOK, HoldsSent, MadeAhead, Sent, Unconsumed
<1>7. CASE commits
    <2>1. /\ length' = length + n /\ granted' = 0 /\ pc' = "bridge"
          /\ document' = Passed(n, from)
        BY <1>7 DEF Place
    <2>2. /\ \A k \in 1..parsed : document'[k] = document[k]
          /\ \A i \in 1..n : document'[parsed + i] = Input(from, i)
          /\ \A k \in 1..DocSize : k > parsed + n => document'[k] = k
        <3>1. /\ \A k \in 1..parsed : k \in 1..DocSize
              /\ \A i \in 1..n : /\ parsed + i \in 1..DocSize
                                  /\ (parsed + i) - parsed = i
            BY <1>1, <1>6
        <3>. QED BY <1>1, <1>6, <2>1, <3>1 DEF Passed
    <2>3. document' \in [1..DocSize -> Nat]
        <3>1. \A k \in 1..DocSize : parsed < k /\ k <= parsed + n => k - parsed \in 1..n
            BY <1>1
        <3>. QED BY <1>3, <1>6, <2>1, <3>1 DEF Passed
    <2>4. \A i \in 1..length + n : memory'[i] = document'[parsed - length + i]
        <3>1. TAKE i \in 1..length + n
        <3>2. CASE i <= length
            <4>1. i \in 1..length /\ parsed - length + i \in 1..parsed
                BY <1>1, <1>6, <3>2
            <4>. QED BY <1>5, <1>6, <2>2, <4>1
        <3>3. CASE i > length
            <4>1. /\ i - length \in 1..n /\ length + (i - length) = i
                  /\ parsed + (i - length) = parsed - length + i
                BY <1>1, <3>3
            <4>2. memory'[length + (i - length)] = document'[parsed + (i - length)]
                BY <1>5, <2>2, <4>1
            <4>. QED BY <4>1, <4>2
        <3>. QED BY <1>1, <3>2, <3>3
    <2>5. length' \in 0..IntMax /\ granted' \in Nat /\ len' \in Nat
        BY <1>1, <1>2, <2>1
    <2>6. TypeOK'
        <3>1. /\ failed' \in BOOLEAN /\ commit' \in BOOLEAN /\ pc' = "bridge"
              /\ parsed' \in Nat /\ pending' \in Nat /\ new' \in Nat
              /\ source' \in Int
            BY <1>1, <1>2, <2>1 DEF IInv, TypeOK
        <3>. QED BY <1>4, <2>3, <2>5, <3>1 DEF TypeOK
    <2>7. HoldsSent' /\ MadeAhead'
        <3>1. /\ pc' = "bridge" /\ parsed' = parsed /\ len' = n
              /\ pending' = pending /\ length' = length + n
            BY <1>1, <1>2, <2>1
        <3>2. /\ pending' + len' <= length' /\ length' <= parsed' + len'
              /\ parsed' + len' <= DocSize
              /\ parsed' \in Nat /\ len' \in Nat /\ pending' \in Nat /\ length' \in Nat
            BY <1>1, <1>6, <3>1
        <3>3. \A i \in 1..length' : memory'[i] = document'[parsed' + len' - length' + i]
            <4>1. TAKE i \in 1..length'
            <4>2. /\ i \in 1..length + n
                  /\ parsed' + len' - length' + i = parsed - length + i
                BY <1>1, <3>1
            <4>. QED BY <2>4, <4>2
        <3>4. HoldsSent'
            BY <3>1, <3>2, <3>3 DEF HoldsSent, Sent, Unconsumed
        <3>5. MadeAhead'
            BY <2>2, <3>1 DEF MadeAhead, Sent
        <3>. QED BY <3>4, <3>5
    <2>8. /\ NoOverflow' /\ RoomIsThere' /\ RegionIsNext' /\ SourceIsThere'
          /\ GrowthFits'
        BY <1>1, <1>2, <1>6, <2>1
        DEF NoOverflow, RoomIsThere, RegionIsNext, SourceIsThere, GrowthFits
    <2>. QED BY <2>6, <2>7, <2>8 DEF IInv
<1>8. CASE ~commits
    <2>1. /\ length' = length /\ granted' = n /\ pc' = "idle"
          /\ document' = document /\ from = Own
        BY <1>8 DEF Place
    <2>2. length' \in 0..IntMax /\ granted' \in Nat /\ len' \in Nat
        BY <1>2, <2>1 DEF IInv, TypeOK
    <2>3. TypeOK'
        BY <1>1, <1>2, <1>4, <1>6, <2>1, <2>2 DEF IInv, TypeOK
    <2>4. HoldsSent' /\ MadeAhead'
        BY <1>1, <1>2, <1>5, <1>6, <2>1
        DEF HoldsSent, MadeAhead, Sent, Unconsumed
    <2>5. \A i \in 1..n : memory'[length + i] = parsed + i
        BY <1>5, <2>1 DEF Input
    <2>6. /\ NoOverflow' /\ RoomIsThere' /\ RegionIsNext' /\ SourceIsThere'
          /\ GrowthFits'
        BY <1>1, <1>2, <2>1, <2>5
        DEF NoOverflow, RoomIsThere, RegionIsNext, SourceIsThere, GrowthFits
    <2>. QED BY <2>3, <2>4, <2>6 DEF IInv
<1>. QED BY <1>7, <1>8

(* A request either finds room or starts to grow.                          *)
LEMMA RequestKeepsInv ==
    ASSUME IInv, NEW n \in Nat, NEW from, Readable(from, n),
           NEW commits \in BOOLEAN, ~commits => from = Own,
           pc = "idle", Request(n, from, commits),
           parsing' \in {"INITIALIZED", "PARSING", "SUSPENDED", "FINISHED"},
           UNCHANGED <<failed, parsed, pending>>
    PROVE  IInv'
<1>1. /\ IntMax \in Nat /\ MaximumCapacity \in Nat
      /\ 2 * MaximumCapacity = IntMax + 1
      /\ Initial \in Nat /\ Initial > 0 /\ Initial <= MaximumCapacity
      /\ length \in Nat /\ capacity \in 0..IntMax
    BY ConstantsTyped DEF IInv, TypeOK
<1>2. length + n <= MaximumCapacity /\ parsed + n <= DocSize
    BY <1>1 DEF Request, Fits
<1>3. CASE MustGrow(n)
    <2>1. /\ pc' = "grow" /\ len' = n /\ commit' = commits /\ source' = from
          /\ new' = FirstCapacity /\ UNCHANGED <<granted, document, storage>>
        BY <1>3 DEF Request
    <2>2. UNCHANGED <<allocated, capacity, length, memory, granted, document>>
        BY <2>1 DEF storage
    <2>3. new' \in Nat /\ new' > 0 /\ new' >= capacity /\ new' <= IntMax
        BY <1>1, <2>1 DEF FirstCapacity
    <2>4. TypeOK'
        <3>1. source' \in Int
            BY <2>1, ConstantsTyped DEF Readable
        <3>. QED BY <2>1, <2>2, <2>3, <3>1 DEF IInv, TypeOK
    <2>5. NoOverflow' /\ GrowthFits' /\ SourceIsThere'
        BY <1>1, <1>2, <2>1, <2>2, <2>3
        DEF NoOverflow, GrowthFits, SourceIsThere, Readable
    <2>6. RoomIsThere' /\ HoldsSent' /\ MadeAhead' /\ RegionIsNext'
        BY <2>1, <2>2
        DEF IInv, RoomIsThere, HoldsSent, MadeAhead, Sent, Unconsumed, RegionIsNext
    <2>. QED BY <2>4, <2>5, <2>6 DEF IInv
<1>4. CASE ~MustGrow(n)
    <2>1. Place(memory, n, from, commits) /\ UNCHANGED <<allocated, capacity>>
        BY <1>4 DEF Request
    <2>2. length + n <= capacity'
        BY <1>1, <1>4, <2>1 DEF MustGrow
    <2>3. memory \in [1..IntMax -> Nat] /\ allocated' \in BOOLEAN
        BY <2>1 DEF IInv, TypeOK
    <2>. QED BY <1>1, <1>2, <2>1, <2>2, <2>3, PlaceKeepsInv
<1>. QED BY <1>3, <1>4

(* The doubling starts below MaximumCapacity, so it stays an int.          *)
LEMMA DoubleKeepsInv ==
    ASSUME IInv, Double
    PROVE  IInv'
<1>1. /\ pc = "grow" /\ pc' = "grow" /\ new < length + len
      /\ new' = 2 * new
    BY DEF Double
<1>2. UNCHANGED <<len, commit, source, granted, parsed, pending, document,
                  allocated, capacity, length, memory, parsing, failed>>
    BY DEF Double, storage, status
<1>3. /\ IntMax \in Nat /\ MaximumCapacity \in Nat
      /\ 2 * MaximumCapacity = IntMax + 1
      /\ length \in Nat /\ len \in Nat /\ new \in Nat /\ capacity \in Nat
      /\ length + len <= MaximumCapacity /\ new > 0 /\ new >= capacity
    BY <1>1, ConstantsTyped DEF IInv, TypeOK, GrowthFits
<1>4. new' \in Nat /\ new' <= IntMax /\ new' > 0 /\ new' >= capacity'
    BY <1>1, <1>2, <1>3
<1>5. TypeOK'
    BY <1>1, <1>2, <1>4 DEF IInv, TypeOK
<1>6. NoOverflow' /\ GrowthFits'
    BY <1>1, <1>2, <1>3, <1>4 DEF NoOverflow, GrowthFits
<1>7. /\ RoomIsThere' /\ HoldsSent' /\ MadeAhead' /\ RegionIsNext'
      /\ SourceIsThere'
    BY <1>1, <1>2
    DEF IInv, RoomIsThere, HoldsSent, MadeAhead, Sent, Unconsumed, RegionIsNext,
        SourceIsThere, Readable
<1>. QED BY <1>5, <1>6, <1>7 DEF IInv

(* The new storage has the old bytes.                                      *)
LEMMA ReplaceKeepsInv ==
    ASSUME IInv, Replace
    PROVE  IInv'
<1>1. /\ pc = "grow" /\ new >= length + len
      /\ allocated' = TRUE /\ capacity' = new
      /\ Place(Copied, len, source, commit)
      /\ UNCHANGED <<failed, parsed, pending>>
    BY DEF Replace
<1>2. /\ IntMax \in Nat /\ length \in Nat /\ len \in Nat /\ new \in Nat
      /\ new <= IntMax /\ commit \in BOOLEAN /\ length <= IntMax
      /\ memory \in [1..IntMax -> Nat]
      /\ parsed + len <= DocSize /\ Readable(source, len)
      /\ ~commit => source = Own
    BY <1>1, ConstantsTyped DEF IInv, TypeOK, NoOverflow, SourceIsThere
<1>3. /\ Copied \in [1..IntMax -> Nat]
      /\ \A i \in 1..length : Copied[i] = memory[i]
    <2>1. \A i \in 1..IntMax : memory[i] \in Nat
        BY <1>2
    <2>2. Copied \in [1..IntMax -> Nat]
        BY <2>1 DEF Copied
    <2>3. \A i \in 1..length : i \in 1..IntMax /\ i <= length
        BY <1>2
    <2>. QED BY <2>2, <2>3 DEF Copied
<1>4. parsing' \in {"INITIALIZED", "PARSING", "SUSPENDED", "FINISHED"}
    BY DEF Replace, IInv, TypeOK
<1>5. length + len <= capacity' /\ capacity' \in 0..IntMax
    BY <1>1, <1>2
<1>. QED BY <1>1, <1>2, <1>3, <1>4, <1>5, PlaceKeepsInv

(* malloc fails before anything is assigned.                               *)
LEMMA NoMemoryKeepsInv ==
    ASSUME IInv, NoMemory
    PROVE  IInv'
<1>1. /\ pc = "grow" /\ pc' = "idle" /\ len' = 0 /\ new' = 0 /\ commit' = FALSE
      /\ source' = Own
      /\ UNCHANGED <<granted, parsed, pending, document, allocated, capacity,
                     length, memory, parsing, failed>>
    BY DEF NoMemory, storage, status
<1>2. TypeOK'
    BY <1>1, ConstantsTyped DEF IInv, TypeOK
<1>3. NoOverflow' /\ GrowthFits' /\ SourceIsThere'
    BY <1>1, ConstantsTyped DEF NoOverflow, GrowthFits, SourceIsThere
<1>4. RoomIsThere' /\ HoldsSent' /\ MadeAhead' /\ RegionIsNext'
    BY <1>1
    DEF IInv, RoomIsThere, HoldsSent, MadeAhead, Sent, Unconsumed, RegionIsNext
<1>. QED BY <1>2, <1>3, <1>4 DEF IInv

(* The bytes written in place are committed where they are.                *)
LEMMA ParseBufferKeepsInv ==
    ASSUME IInv, XML_ParseBuffer
    PROVE  IInv'
<1>1. PICK n \in 0..granted :
          /\ n <= capacity - length /\ Fits(n)
          /\ len' = n /\ length' = length + n
    BY DEF XML_ParseBuffer
<1>2. /\ pc = "idle" /\ pc' = "bridge" /\ granted' = 0 /\ parsing' = "PARSING"
      /\ UNCHANGED <<failed, allocated, capacity, memory, commit, source, new,
                     parsed, pending, document>>
    BY DEF XML_ParseBuffer
<1>3. /\ IntMax \in Nat /\ length \in Nat /\ capacity \in Nat /\ capacity <= IntMax
      /\ granted \in Nat /\ parsed \in Nat /\ pending \in Nat /\ n \in Nat
      /\ n <= granted /\ DocSize \in Nat
    BY ConstantsTyped DEF IInv, TypeOK
<1>4. /\ pending <= length /\ length <= parsed /\ parsed + granted <= DocSize
      /\ \A i \in 1..length : memory[i] = document[parsed - length + i]
      /\ \A i \in 1..granted : memory[length + i] = parsed + i
      /\ \A k \in 1..DocSize : k > parsed => document[k] = k
    BY <1>2, <1>3 DEF IInv, HoldsSent, MadeAhead, Sent, Unconsumed, RegionIsNext
<1>5. \A i \in 1..length + n : memory[i] = document[parsed - length + i]
    <2>1. TAKE i \in 1..length + n
    <2>2. CASE i <= length
        BY <1>3, <1>4, <2>2
    <2>3. CASE i > length
        <3>1. i - length \in 1..granted /\ length + (i - length) = i
            BY <1>3, <2>3
        <3>2. memory[length + (i - length)] = parsed + (i - length)
            BY <1>4, <3>1
        <3>3. /\ parsed - length + i \in 1..DocSize
              /\ parsed - length + i = parsed + (i - length)
              /\ parsed - length + i > parsed
            BY <1>3, <1>4, <3>1
        <3>. QED BY <1>4, <3>1, <3>2, <3>3
    <2>. QED BY <1>3, <2>2, <2>3
<1>6. length' \in 0..IntMax /\ length' <= capacity'
    BY <1>1, <1>2, <1>3
<1>7. TypeOK'
    BY <1>1, <1>2, <1>3, <1>6 DEF IInv, TypeOK
<1>8. HoldsSent' /\ MadeAhead'
    <2>1. Sent' = parsed + n /\ Unconsumed' = pending + n
        BY <1>1, <1>2, <1>3 DEF Sent, Unconsumed
    <2>2. (parsed + n) - (length + n) = parsed - length
        BY <1>3
    <2>3. HoldsSent'
        BY <1>1, <1>2, <1>3, <1>4, <1>5, <2>1, <2>2 DEF HoldsSent
    <2>4. MadeAhead'
        BY <1>2, <1>3, <1>4, <2>1 DEF MadeAhead
    <2>. QED BY <2>3, <2>4
<1>9. /\ NoOverflow' /\ RoomIsThere' /\ RegionIsNext' /\ SourceIsThere'
      /\ GrowthFits'
    BY <1>1, <1>2, <1>3, <1>4, <1>6
    DEF IInv, NoOverflow, RoomIsThere, RegionIsNext, SourceIsThere, GrowthFits
<1>. QED BY <1>7, <1>8, <1>9 DEF IInv

(* A resume hands over no bytes and withdraws the region.                  *)
LEMMA ResumeKeepsInv ==
    ASSUME IInv, XML_ResumeParser
    PROVE  IInv'
<1>1. /\ pc = "idle" /\ pc' = "bridge" /\ len' = 0 /\ granted' = 0
      /\ parsing' = "PARSING"
      /\ UNCHANGED <<failed, commit, source, new, parsed, pending, document,
                     allocated, capacity, length, memory>>
    BY DEF XML_ResumeParser, storage
<1>2. /\ length \in Nat /\ capacity \in Nat /\ granted \in Nat
      /\ parsed \in Nat /\ pending \in Nat /\ DocSize \in Nat
    BY ConstantsTyped DEF IInv, TypeOK
<1>3. TypeOK'
    BY <1>1 DEF IInv, TypeOK
<1>4. HoldsSent' /\ MadeAhead'
    BY <1>1, <1>2 DEF IInv, HoldsSent, MadeAhead, Sent, Unconsumed
<1>5. /\ NoOverflow' /\ RoomIsThere' /\ RegionIsNext' /\ SourceIsThere'
      /\ GrowthFits'
    BY <1>1, <1>2
    DEF IInv, NoOverflow, RoomIsThere, RegionIsNext, SourceIsThere, GrowthFits
<1>. QED BY <1>3, <1>4, <1>5 DEF IInv

(* What holds of the bytes while the Eiffel parser runs.                   *)
LEMMA InBridge ==
    ASSUME IInv, NEW s, Return(s)
    PROVE  /\ length \in 0..IntMax /\ length <= capacity /\ capacity \in 0..IntMax
           /\ len \in Nat /\ parsed \in Nat /\ pending \in Nat
           /\ new \in Nat /\ new <= IntMax
           /\ memory \in [1..IntMax -> Nat]
           /\ pending + len <= length /\ length <= parsed + len
           /\ parsed + len <= DocSize /\ DocSize \in Nat
           /\ \A i \in 1..length : memory[i] = document[parsed + len - length + i]
           /\ \A k \in 1..DocSize : k > parsed + len => document[k] = k
           /\ granted = 0
           /\ pc' = "idle" /\ len' = 0 /\ parsed' = parsed + len /\ parsing' = s
           /\ UNCHANGED <<allocated, capacity, commit, source, new, granted,
                          document>>
<1>1. /\ pc = "bridge" /\ pc' = "idle" /\ len' = 0 /\ parsed' = parsed + len
      /\ parsing' = s
      /\ UNCHANGED <<allocated, capacity, commit, source, new, granted, document>>
    BY DEF Return
<1>2. /\ length \in 0..IntMax /\ capacity \in 0..IntMax
      /\ len \in Nat /\ parsed \in Nat /\ pending \in Nat /\ new \in Nat
      /\ memory \in [1..IntMax -> Nat] /\ IntMax \in Nat /\ DocSize \in Nat
    BY ConstantsTyped DEF IInv, TypeOK
<1>3. granted = 0 /\ length <= capacity /\ new <= IntMax
    BY <1>1, <1>2 DEF IInv, RegionIsNext, RoomIsThere, NoOverflow
<1>4. /\ pending + len <= length /\ length <= parsed + len
      /\ parsed + len <= DocSize
      /\ \A i \in 1..length : memory[i] = document[parsed + len - length + i]
      /\ \A k \in 1..DocSize : k > parsed + len => document[k] = k
    BY <1>1, <1>2 DEF IInv, HoldsSent, MadeAhead, Sent, Unconsumed
<1>. QED BY <1>1, <1>2, <1>3, <1>4

(* The position of byte i of a kept tail before and after the memmove.     *)
LEMMA IndexAfterMove ==
    ASSUME NEW l \in Nat, NEW k \in Nat, k <= l, NEW i \in 1..k
    PROVE  l - k + i \in 1..l
OBVIOUS

(* A prefix is given back: what is kept moves to the front of the storage. *)
LEMMA ConsumeKeepsInv ==
    ASSUME IInv, NEW s \in {"PARSING", "SUSPENDED", "FINISHED"}, Return(s),
           NEW p \in 0..pending + len, pending' = p, Consume(p),
           failed' \in BOOLEAN
    PROVE  IInv'
<1> DEFINE keep == Least(length - p, Context) + p
<1>1. /\ length \in Nat /\ len \in Nat /\ parsed \in Nat /\ pending \in Nat
      /\ capacity \in Nat /\ IntMax \in Nat /\ length <= IntMax
      /\ Context \in Nat /\ p \in Nat /\ p <= length
      /\ length <= capacity /\ length <= parsed + len
    BY InBridge, ConstantsTyped
<1>2. keep \in Nat /\ p <= keep /\ keep <= length
    BY <1>1 DEF Least
<1>3. /\ length' \in Nat /\ p <= length' /\ length' <= length
      /\ memory' \in [1..IntMax -> Nat]
      /\ \A i \in 1..length' : memory'[i] = memory[length - length' + i]
    <2>1. CASE keep < length
        <3>1. memory' = KeepTail(keep) /\ length' = keep
            BY <1>1, <2>1 DEF Consume
        <3>2. \A i \in 1..IntMax :
                  /\ memory[i] \in Nat
                  /\ i <= keep => memory[length - keep + i] \in Nat
            <4>1. memory \in [1..IntMax -> Nat]
                BY InBridge
            <4>2. TAKE i \in 1..IntMax
            <4>3. i <= keep => length - keep + i \in 1..IntMax
                BY <1>1, <1>2
            <4>. QED BY <4>1, <4>3
        <3>3. memory' \in [1..IntMax -> Nat]
            BY <3>1, <3>2 DEF KeepTail
        <3>4. \A i \in 1..keep : i \in 1..IntMax /\ i <= keep
            BY <1>1, <1>2
        <3>. QED BY <1>2, <3>1, <3>3, <3>4 DEF KeepTail
    <2>2. CASE ~(keep < length)
        <3>1. UNCHANGED <<memory, length>>
            BY <1>1, <2>2 DEF Consume
        <3>2. \A i \in 1..length : length - length + i = i
            BY <1>1
        <3>3. memory \in [1..IntMax -> Nat]
            BY InBridge
        <3>. QED BY <1>1, <3>1, <3>2, <3>3
    <2>. QED BY <2>1, <2>2
<1>4. /\ pc' = "idle" /\ len' = 0 /\ parsed' = parsed + len /\ parsing' = s
      /\ UNCHANGED <<allocated, capacity, commit, source, new, granted, document>>
      /\ granted = 0 /\ parsed + len <= DocSize
      /\ \A k \in 1..DocSize : k > parsed + len => document[k] = k
    BY InBridge
<1>5. \A i \in 1..length' : memory'[i] = document'[parsed' - length' + i]
    <2>1. TAKE i \in 1..length'
    <2>2. length - length' + i \in 1..length
        <3>1. length' \in Nat /\ length' <= length /\ length \in Nat
            BY <1>1, <1>3
        <3>. QED BY <3>1, IndexAfterMove
    <2>3. memory[length - length' + i]
             = document[parsed + len - length + (length - length' + i)]
        BY InBridge, <2>2
    <2>4. parsed + len - length + (length - length' + i) = parsed' - length' + i
        BY <1>1, <1>3, <1>4
    <2>. QED BY <1>3, <1>4, <2>3, <2>4
<1>6. TypeOK'
    <2>1. length' \in 0..IntMax /\ parsed' \in Nat
        BY <1>1, <1>3, <1>4
    <2>. QED BY <1>1, <1>3, <1>4, <2>1 DEF IInv, TypeOK
<1>7. HoldsSent' /\ MadeAhead'
    <2>1. /\ pc' # "bridge" /\ pending' = p /\ parsed' = parsed + len
          /\ document' = document
        BY <1>4
    <2>2. /\ p \in Nat /\ p <= length' /\ length' <= parsed'
          /\ parsed' <= DocSize /\ parsed' \in Nat /\ length' \in Nat
        BY <1>1, <1>3, <1>4
    <2>3. HoldsSent'
        BY <1>5, <2>1, <2>2 DEF HoldsSent, Sent, Unconsumed
    <2>4. MadeAhead'
        BY <1>4, <2>1, <2>2 DEF MadeAhead, Sent
    <2>. QED BY <2>3, <2>4
<1>8. /\ NoOverflow' /\ RoomIsThere' /\ RegionIsNext' /\ SourceIsThere'
      /\ GrowthFits'
    <2>1. length' <= capacity' /\ length' \in Nat
        <3>1. length' <= length /\ length' \in Nat /\ capacity' = capacity
            BY <1>3, <1>4
        <3>. QED BY <1>1, <3>1
    <2>2. /\ new' <= IntMax /\ granted' = 0 /\ pc' = "idle"
          /\ parsed' + granted' <= DocSize
        BY InBridge
    <2>. QED BY <2>1, <2>2
             DEF NoOverflow, RoomIsThere, RegionIsNext, SourceIsThere, GrowthFits
<1>. QED BY <1>6, <1>7, <1>8 DEF IInv

(* A parse that gives nothing back leaves all of it pending.               *)
LEMMA KeepAllKeepsInv ==
    ASSUME IInv, NEW s \in {"PARSING", "SUSPENDED", "FINISHED"}, Return(s),
           pending' = pending + len, UNCHANGED <<memory, length>>,
           failed' \in BOOLEAN
    PROVE  IInv'
<1>1. /\ length \in 0..IntMax /\ len \in Nat /\ parsed \in Nat /\ pending \in Nat
      /\ capacity \in Nat /\ length <= capacity
      /\ pending + len <= length /\ length <= parsed + len
      /\ \A i \in 1..length : memory[i] = document[parsed + len - length + i]
      /\ pc' = "idle" /\ len' = 0 /\ parsed' = parsed + len /\ parsing' = s
      /\ UNCHANGED <<allocated, capacity, commit, source, new, granted, document>>
      /\ granted = 0 /\ parsed + len <= DocSize
      /\ \A k \in 1..DocSize : k > parsed + len => document[k] = k
    BY InBridge
<1>2. TypeOK'
    BY <1>1 DEF IInv, TypeOK
<1>3. HoldsSent' /\ MadeAhead'
    <2>1. Sent' = parsed + len /\ Unconsumed' = pending + len
        BY <1>1 DEF Sent, Unconsumed
    <2>2. HoldsSent'
        BY <1>1, <2>1 DEF HoldsSent
    <2>3. MadeAhead'
        BY <1>1, <2>1 DEF MadeAhead
    <2>. QED BY <2>2, <2>3
<1>4. /\ NoOverflow' /\ RoomIsThere' /\ RegionIsNext' /\ SourceIsThere'
      /\ GrowthFits'
    BY <1>1
    DEF IInv, NoOverflow, RoomIsThere, RegionIsNext, SourceIsThere, GrowthFits
<1>. QED BY <1>2, <1>3, <1>4 DEF IInv

(* A reset empties the storage and keeps its capacity.                     *)
LEMMA ResetKeepsInv ==
    ASSUME IInv, XML_ParserReset
    PROVE  IInv'
<1>1. /\ pc = "idle" /\ parsing' = "INITIALIZED" /\ failed' = FALSE
      /\ length' = 0 /\ granted' = 0 /\ parsed' = 0 /\ pending' = 0
      /\ document' = Made
      /\ UNCHANGED <<allocated, capacity, memory, pc, len, commit, source, new>>
    BY DEF XML_ParserReset
<1>2. 0 \in 0..IntMax /\ capacity \in Nat /\ DocSize \in Nat
    BY ConstantsTyped DEF IInv, TypeOK
<1>3. TypeOK'
    <2>1. document' \in [1..DocSize -> Nat]
        BY <1>1, <1>2 DEF Made
    <2>. QED BY <1>1, <1>2, <2>1 DEF IInv, TypeOK
<1>4. HoldsSent' /\ MadeAhead'
    BY <1>1, <1>2 DEF HoldsSent, MadeAhead, Sent, Unconsumed, Made
<1>5. /\ NoOverflow' /\ RoomIsThere' /\ RegionIsNext' /\ SourceIsThere'
      /\ GrowthFits'
    BY <1>1, <1>2
    DEF IInv, NoOverflow, RoomIsThere, RegionIsNext, SourceIsThere, GrowthFits
<1>. QED BY <1>3, <1>4, <1>5 DEF IInv

(* Every step keeps the inductive invariant.                               *)
LEMMA IInvNext == IInv /\ [Next]_vars => IInv'
<1>. SUFFICES ASSUME IInv, [Next]_vars PROVE IInv'
    OBVIOUS
<1>1. CASE XML_Parse
    <2>1. PICK n \in Sizes : \E from \in Sources(n) :
              /\ Request(n, from, TRUE)
              /\ parsing' = IF MustGrow(n) THEN parsing ELSE "PARSING"
        BY <1>1 DEF XML_Parse
    <2>2. PICK from \in Sources(n) :
              /\ Request(n, from, TRUE)
              /\ parsing' = IF MustGrow(n) THEN parsing ELSE "PARSING"
        BY <2>1
    <2>3. /\ Readable(from, n)
          /\ parsing' \in {"INITIALIZED", "PARSING", "SUSPENDED", "FINISHED"}
          /\ n \in Nat
        BY <2>2, ConstantsTyped DEF IInv, TypeOK, Sources, Readable
    <2>. QED BY <1>1, <2>2, <2>3, RequestKeepsInv DEF XML_Parse
<1>2. CASE XML_GetBuffer
    <2>1. PICK n \in Sizes : Request(n, Own, FALSE)
        BY <1>2 DEF XML_GetBuffer
    <2>2. /\ parsing' \in {"INITIALIZED", "PARSING", "SUSPENDED", "FINISHED"}
          /\ n \in Nat /\ UNCHANGED <<failed, parsed, pending>>
          /\ Readable(Own, n)
        BY <1>2, ConstantsTyped DEF IInv, TypeOK, XML_GetBuffer, status, Readable
    <2>. QED BY <1>2, <2>1, <2>2, RequestKeepsInv DEF XML_GetBuffer
<1>3. CASE XML_ParseBuffer
    BY <1>3, ParseBufferKeepsInv
<1>4. CASE XML_ResumeParser
    BY <1>4, ResumeKeepsInv
<1>5. CASE Double \/ Replace \/ NoMemory
    BY <1>5, DoubleKeepsInv, ReplaceKeepsInv, NoMemoryKeepsInv
<1>6. CASE ParseConsumes
    <2>1. failed' \in BOOLEAN
        BY <1>6 DEF ParseConsumes, IInv, TypeOK
    <2>. QED BY <1>6, <2>1, ConsumeKeepsInv DEF ParseConsumes
<1>7. CASE ParseKeeps
    <2>1. failed' \in BOOLEAN
        BY <1>7 DEF ParseKeeps, IInv, TypeOK
    <2>. QED BY <1>7, <2>1, KeepAllKeepsInv DEF ParseKeeps
<1>8. CASE ParseFails
    BY <1>8, KeepAllKeepsInv DEF ParseFails
<1>9. CASE XML_ParserReset
    BY <1>9, ResetKeepsInv
<1>10. CASE UNCHANGED vars
    BY <1>10 DEF vars, IInv, TypeOK, NoOverflow, RoomIsThere, HoldsSent, Sent,
       Unconsumed, MadeAhead, RegionIsNext, SourceIsThere, Readable, GrowthFits
<1>. QED BY <1>1, <1>2, <1>3, <1>4, <1>5, <1>6, <1>7, <1>8, <1>9, <1>10 DEF Next

(* The inductive invariant: types, sizes, and what each byte of the storage*)
(* is, at every step of every call.                                        *)
THEOREM StorageInvariant == Spec => []IInv
BY IInvInit, IInvNext, PTL DEF Spec

(* Every size of the storage is an int, and the other variables keep their *)
(* types.                                                                  *)
THEOREM StorageTypes == Spec => []TypeOK
<1>1. IInv => TypeOK
    BY DEF IInv
<1>. QED BY <1>1, StorageInvariant, PTL

(* xp_input_buffer: whatever the application asks for, neither the size it *)
(* needs nor the capacity it doubles leaves the range of int.              *)
THEOREM NeverOverflows == Spec => []NoOverflow
<1>1. IInv => NoOverflow
    BY DEF IInv
<1>. QED BY <1>1, StorageInvariant, PTL

(* The region XML_GetBuffer hands out lies within the allocation.          *)
THEOREM AlwaysRoom == Spec => []RoomIsThere
<1>1. IInv => RoomIsThere
    BY DEF IInv
<1>. QED BY <1>1, StorageInvariant, PTL

(* The slice XML_Parse passes to the Eiffel parser is the bytes that the   *)
(* application passed, also those it passed from the storage itself: growth*)
(* and prefix release lose none.                                           *)
THEOREM SliceIsAlwaysInput == Spec => []SliceIsInput
<1>1. IInv => SliceIsInput
    <2>. SUFFICES ASSUME IInv, pc = "bridge"
                  PROVE  /\ len <= length
                         /\ \A i \in 1..len :
                                memory[length - len + i] = document[parsed + i]
        BY DEF SliceIsInput
    <2>1. /\ length \in Nat /\ len \in Nat /\ parsed \in Nat /\ pending \in Nat
          /\ pending + len <= length
          /\ \A i \in 1..length : memory[i] = document[parsed + len - length + i]
        BY ConstantsTyped DEF IInv, TypeOK, HoldsSent, Sent, Unconsumed
    <2>2. ASSUME NEW i \in 1..len
          PROVE  memory[length - len + i] = document[parsed + i]
        <3>1. /\ length - len + i \in 1..length
              /\ parsed + len - length + (length - len + i) = parsed + i
            BY <2>1
        <3>. QED BY <2>1, <3>1
    <2>. QED BY <2>1, <2>2
<1>. QED BY <1>1, StorageInvariant, PTL

(* Between the calls the storage is the end of what was parsed and holds   *)
(* all the parser has not consumed.                                        *)
THEOREM TailIsAlwaysRetained == Spec => []TailIsRetained
<1>1. IInv => TailIsRetained
    <2>. SUFFICES ASSUME IInv, pc # "bridge"
                  PROVE  /\ pending <= length /\ length <= parsed
                         /\ \A i \in 1..length :
                                memory[i] = document[parsed - length + i]
        BY DEF TailIsRetained
    <2>1. length \in Nat /\ parsed \in Nat /\ pending \in Nat
        BY ConstantsTyped DEF IInv, TypeOK
    <2>. QED BY <2>1 DEF IInv, HoldsSent, Sent, Unconsumed
<1>. QED BY <1>1, StorageInvariant, PTL
=============================================================================
