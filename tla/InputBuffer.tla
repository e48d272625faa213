----------------------------- MODULE InputBuffer -----------------------------
(***************************************************************************)
(* The input storage of XML_ParserStruct: buffer, bufferCapacity and       *)
(* bufferLength, shared by XML_Parse (bytes of the application's own) and  *)
(* by XML_GetBuffer / XML_ParseBuffer (bytes written in place).  A call    *)
(* commits its bytes at the end, hands that slice to the Eiffel parser,    *)
(* and the parser gives back a prefix (xp_consume_input_prefix) while it   *)
(* works.  All sizes are C ints.                                           *)
(*                                                                         *)
(* XML_Parse takes a pointer, and the application may pass one into the    *)
(* storage itself (tests/native/xpact_bridge_smoke.c:582-586): to what it  *)
(* has written there, or to bytes it has sent and sends again.             *)
(*                                                                         *)
(* The bytes the application makes are numbered by their place in what it  *)
(* sends: byte k is the k-th.  Zero is memory nobody has written.          *)
(***************************************************************************)
EXTENDS Integers

CONSTANTS
    IntMax,           \* INT_MAX
    MaximumCapacity,  \* INT_MAX / 2 + 1
    Initial,          \* the first capacity, 1024
    Context,          \* consumed bytes that are kept, 1024
    Sizes,            \* the lengths the application uses
    DocSize           \* bytes the application sends at most

ASSUME SizesAssumption ==
    /\ IntMax \in Nat /\ MaximumCapacity \in Nat
    /\ 2 * MaximumCapacity = IntMax + 1
    /\ Initial \in Nat /\ Initial > 0 /\ Initial <= MaximumCapacity
    /\ Context \in Nat /\ DocSize \in Nat
    /\ Sizes \subseteq Nat

VARIABLES
    parsing,    \* XML_GetParsingStatus
    failed,     \* parseErrorCode # XML_ERROR_NONE
    allocated,  \* buffer # NULL
    capacity,   \* bufferCapacity
    length,     \* bufferLength
    memory,     \* what the bytes of buffer hold
    pc,         \* "idle", "grow" or "bridge"
    len,        \* the length the call asks for
    commit,     \* XML_Parse commits, XML_GetBuffer reserves
    source,     \* input of the call: where in the storage, or Own
    new,        \* the capacity the doubling loop has reached
    granted,    \* bytes of the region last handed out by XML_GetBuffer
    parsed,     \* bytes handed to the Eiffel parser since the last reset
    pending,    \* those it has not consumed
    \* history: what the application has passed, then what it would make
    document

vars == <<parsing, failed, allocated, capacity, length, memory, pc, len,
          commit, source, new, granted, parsed, pending, document>>

storage == <<allocated, capacity, length, memory>>
status == <<parsing, failed>>

(* Memory of the application's own.                                        *)
Own == -1

Blank == [i \in 1..IntMax |-> 0]
Made == [k \in 1..DocSize |-> k]

Init ==
    /\ parsing = "INITIALIZED" /\ failed = FALSE
    /\ allocated = FALSE /\ capacity = 0 /\ length = 0 /\ memory = Blank
    /\ pc = "idle" /\ len = 0 /\ commit = FALSE /\ source = Own /\ new = 0
    /\ granted = 0 /\ parsed = 0 /\ pending = 0 /\ document = Made

-----------------------------------------------------------------------------
(* xp_input_buffer: room for n bytes after the first `length'.             *)

(* Mutant: the limit is INT_MAX itself.                                    *)
FitsAnInt(n) == n <= IntMax - length

Fits(n) == n <= MaximumCapacity - length

(* Mutant: the bytes already there are forgotten.                          *)
GrowsForItself(n) == ~allocated \/ n > capacity

MustGrow(n) == ~allocated \/ length + n > capacity

(* The i-th byte of the input.                                             *)
Input(from, i) == IF from = Own THEN parsed + i ELSE memory[from + i]

(* Mutant: the input is read after the growth, at its old place in the new *)
(* storage, which has the committed bytes only.                            *)
ReadAfterGrowth(m, n, from) ==
    [i \in 1..IntMax |->
        IF length < i /\ i <= length + n
        THEN IF from = Own THEN parsed + (i - length)
             ELSE m[from + (i - length)]
        ELSE m[i]]

(* The n bytes of the input, read from the old storage if it has them, at  *)
(* the end of the storage m.                                               *)
Write(m, n, from) ==
    [i \in 1..IntMax |->
        IF length < i /\ i <= length + n THEN Input(from, i - length)
        ELSE m[i]]

(* The old bytes, in new storage.                                          *)
Copied == [i \in 1..IntMax |-> IF i <= length THEN memory[i] ELSE 0]

(* What the application has passed when it passes n bytes more.            *)
Passed(n, from) ==
    [k \in 1..DocSize |->
        IF parsed < k /\ k <= parsed + n THEN Input(from, k - parsed)
        ELSE document[k]]

(* XML_Parse commits the bytes; XML_GetBuffer hands out the region, which  *)
(* the application fills before its next call.                             *)
Place(m, n, from, commits) ==
    /\ memory' = Write(m, n, from)
    /\ len' = n /\ new' = 0 /\ commit' = FALSE /\ source' = Own
    /\ IF commits
       THEN /\ length' = length + n /\ granted' = 0 /\ pc' = "bridge"
            /\ document' = Passed(n, from)
       ELSE granted' = n /\ pc' = "idle" /\ UNCHANGED <<length, document>>

(* Mutant: the first capacity is that of no storage.                       *)
NoFirstCapacity == capacity

FirstCapacity == IF capacity > 0 THEN capacity ELSE Initial

Request(n, from, commits) ==
    /\ Fits(n)
    /\ parsed + n <= DocSize
    /\ \/ /\ MustGrow(n)
          /\ pc' = "grow" /\ len' = n /\ commit' = commits /\ source' = from
          /\ new' = FirstCapacity
          /\ UNCHANGED <<granted, document>> /\ UNCHANGED storage
       \/ /\ ~MustGrow(n)
          /\ Place(memory, n, from, commits)
          /\ UNCHANGED <<allocated, capacity>>

(* while (capacity < required) capacity *= 2                               *)
Double ==
    /\ pc = "grow" /\ new < length + len
    /\ new' = 2 * new
    /\ UNCHANGED <<pc, len, commit, source, granted, parsed, pending, document>>
    /\ UNCHANGED storage /\ UNCHANGED status

(* malloc, the copies, free of the old storage.                            *)
Replace ==
    /\ pc = "grow" /\ new >= length + len
    /\ allocated' = TRUE /\ capacity' = new
    /\ Place(Copied, len, source, commit)
    /\ parsing' = IF commit THEN "PARSING" ELSE parsing
    /\ UNCHANGED <<failed, parsed, pending>>

(* malloc fails: XML_ERROR_NO_MEMORY, and everything is as it was.         *)
NoMemory ==
    /\ pc = "grow" /\ new >= length + len
    /\ pc' = "idle" /\ len' = 0 /\ new' = 0 /\ commit' = FALSE
    /\ source' = Own
    /\ UNCHANGED <<granted, parsed, pending, document>>
    /\ UNCHANGED storage /\ UNCHANGED status

-----------------------------------------------------------------------------
(* The calls.                                                              *)

Open == parsing \in {"INITIALIZED", "PARSING"}

(* Where n bytes of the input may be: in memory of the application's own   *)
(* or in the storage, among the bytes it has sent and those of its region. *)
Sources(n) ==
    {Own} \cup {from \in 0..IntMax : from + n <= length + granted}

XML_Parse ==
    /\ pc = "idle" /\ Open /\ ~failed
    /\ \E n \in Sizes : \E from \in Sources(n) :
          /\ Request(n, from, TRUE)
          /\ parsing' = IF MustGrow(n) THEN parsing ELSE "PARSING"
    /\ UNCHANGED <<failed, parsed, pending>>

XML_GetBuffer ==
    /\ pc = "idle" /\ Open
    /\ \E n \in Sizes : Request(n, Own, FALSE)
    /\ UNCHANGED <<parsed, pending>> /\ UNCHANGED status

(* The bytes are in place: the memmove of XML_Parse moves nothing.  The    *)
(* application passes what it has written, or finishes with no bytes.      *)
XML_ParseBuffer ==
    /\ pc = "idle" /\ Open /\ ~failed /\ allocated
    /\ \E n \in 0..granted :
          /\ n <= capacity - length /\ Fits(n)
          /\ len' = n /\ length' = length + n
    /\ pc' = "bridge" /\ granted' = 0
    /\ parsing' = "PARSING"
    /\ UNCHANGED <<failed, allocated, capacity, memory, commit, source, new,
                   parsed, pending, document>>

XML_ResumeParser ==
    /\ pc = "idle" /\ parsing = "SUSPENDED"
    /\ parsing' = "PARSING"
    /\ pc' = "bridge" /\ len' = 0 /\ granted' = 0
    /\ UNCHANGED <<failed, commit, source, new, parsed, pending, document>>
    /\ UNCHANGED storage

(* Mutant: the bytes that are kept are not moved down.                     *)
KeepInPlace(keep) == memory

(* memmove of the last `keep' bytes to the front; the rest stays.          *)
KeepTail(keep) ==
    [i \in 1..IntMax |->
        IF i <= keep THEN memory[length - keep + i] ELSE memory[i]]

Least(a, b) == IF a < b THEN a ELSE b

(* xp_consume_input_prefix with p pending bytes.                           *)
Consume(p) ==
    LET keep == Least(length - p, Context) + p IN
    IF p <= length /\ keep < length
    THEN memory' = KeepTail(keep) /\ length' = keep
    ELSE UNCHANGED <<memory, length>>

Return(newStatus) ==
    /\ pc = "bridge"
    /\ pc' = "idle" /\ len' = 0
    /\ parsed' = parsed + len
    /\ parsing' = newStatus
    /\ UNCHANGED <<allocated, capacity, commit, source, new, granted, document>>

(* The Eiffel parser has consumed all but p bytes of an unfinished token.  *)
ParseConsumes ==
    /\ Return("PARSING")
    /\ \E p \in 0..(pending + len) : pending' = p /\ Consume(p)
    /\ UNCHANGED failed

(* It waits, defers, is suspended or has finished: nothing is given back.  *)
ParseKeeps ==
    /\ \E s \in {"PARSING", "SUSPENDED", "FINISHED"} : Return(s)
    /\ pending' = pending + len
    /\ UNCHANGED <<failed, memory, length>>

ParseFails ==
    /\ Return("PARSING")
    /\ failed' = TRUE
    /\ pending' = pending + len
    /\ UNCHANGED <<memory, length>>

(* The structure is cleared, the storage and its capacity are retained.    *)
XML_ParserReset ==
    /\ pc = "idle"
    /\ parsing' = "INITIALIZED" /\ failed' = FALSE
    /\ length' = 0
    /\ granted' = 0 /\ parsed' = 0 /\ pending' = 0 /\ document' = Made
    /\ UNCHANGED <<allocated, capacity, memory, pc, len, commit, source, new>>

-----------------------------------------------------------------------------
Next ==
    \/ XML_Parse \/ XML_GetBuffer \/ XML_ParseBuffer \/ XML_ResumeParser
    \/ Double \/ Replace \/ NoMemory
    \/ ParseConsumes \/ ParseKeeps \/ ParseFails
    \/ XML_ParserReset

(* A call that has started comes to its end.                               *)
Spec == Init /\ [][Next]_vars /\ WF_vars(Double \/ Replace)

-----------------------------------------------------------------------------
(* The types of the variables; every size is an int.                       *)
TypeOK ==
    /\ parsing \in {"INITIALIZED", "PARSING", "SUSPENDED", "FINISHED"}
    /\ failed \in BOOLEAN /\ allocated \in BOOLEAN /\ commit \in BOOLEAN
    /\ pc \in {"idle", "grow", "bridge"}
    /\ capacity \in 0..IntMax /\ length \in 0..IntMax
    /\ len \in Nat /\ granted \in Nat /\ parsed \in Nat /\ pending \in Nat
    /\ new \in Nat /\ source \in Int
    /\ document \in [1..DocSize -> Nat]
    /\ memory \in [1..IntMax -> Nat]

(* Neither the required size nor the doubled capacity leaves the ints, so  *)
(* the loop of xp_input_buffer neither overflows nor spins.                *)
NoOverflow == new <= IntMax /\ (pc = "grow" => length + len <= IntMax)

(* The storage holds what is committed and the region handed out.          *)
RoomIsThere == length + granted <= capacity

(* The slice XML_Parse hands to the Eiffel parser is exactly the bytes the *)
(* application passed, whether of its own, written in place or taken from  *)
(* storage that a growth replaced in this call.                            *)
SliceIsInput ==
    pc = "bridge" =>
        /\ len <= length
        /\ \A i \in 1..len : memory[length - len + i] = document[parsed + i]

(* What the storage holds is the end of what was parsed, and all that the  *)
(* parser has not consumed is still there.                                 *)
TailIsRetained ==
    pc # "bridge" =>
        /\ pending <= length /\ length <= parsed
        /\ \A i \in 1..length : memory[i] = document[parsed - length + i]

(* The doubling loop ends.                                                 *)
GrowthEnds == pc = "grow" ~> pc # "grow"
=============================================================================
