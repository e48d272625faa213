----------------------- MODULE NativeReplayProperties -----------------------
(***************************************************************************)
(* What a parser handle owes the application, stated of NativeReplay.      *)
(***************************************************************************)
EXTENDS NativeReplay

CallStates == {"idle", "direct", "pass", "return"}

(* The variables keep their types; no pass numbers more callbacks than the *)
(* document has, but for the start tag a stop makes it see twice.          *)
TypeOK ==
    /\ doc \in Documents
    /\ parsing \in Statuses
    /\ failed \in BOOLEAN
    /\ stopRequested \in BOOLEAN /\ stopResumable \in BOOLEAN
    /\ deferral \in BOOLEAN
    /\ returned \in Results
    /\ buffer \in Nat /\ finalBuffer \in BOOLEAN
    /\ delivered \in Nat
    /\ deferStart \in Nat /\ deferEnd \in Nat
    /\ spaceTag \in BOOLEAN /\ plainText \in BOOLEAN
    /\ slots \subseteq Kinds
    /\ sequence \in 0..N + 1 /\ suppress \in Nat /\ lastSuspend \in 0..N + 1
    /\ lengths \in [1..N + 1 -> Nat]
    /\ pc \in CallStates
    /\ at \in 1..N + 1 /\ extent \in Nat
    /\ result \in Results
    /\ supplied \in Nat
    /\ given \in [turn : 0..1, cb : 0..N, from : Nat, to : Nat]

-----------------------------------------------------------------------------
(* The promise of a push parser: XML_GetParsingStatus and the errors give  *)
(* the status of the stream.                                               *)
StreamStatus ==
    IF failed THEN "failed"
    ELSE IF stopRequested /\ ~stopResumable THEN "aborted"
    ELSE IF parsing = "SUSPENDED" THEN "suspended"
    ELSE IF parsing = "FINISHED" THEN "finished"
    ELSE "open"

Stream == INSTANCE CallbackStream
          WITH status <- StreamStatus, final <- finalBuffer

(* Replaying the whole prefix for every chunk and resume, with the first   *)
(* callbacks suppressed, implements the callback stream.                   *)
ImplementsStream == Stream!Spec

Registered == {c \in Callback : Kind[c] \in slots}

(* After a chunk is accepted, delivered_callback_count is the number of    *)
(* callbacks the application has had: the next pass suppresses exactly     *)
(* those.                                                                  *)
Live == pc = "idle" /\ ~failed /\ parsing \in {"PARSING", "SUSPENDED"}

DeliveredCountIsExact ==
    Live => delivered = Cardinality({c \in Registered : c <= given.cb})

(* A chunk is not accepted and silently held back: after an accepted chunk *)
(* the application has every callback the bytes so far contain, except     *)
(* from a token on that deferral keeps.  The calls that return without a   *)
(* parse (waits) hide nothing.                                             *)
NothingHeldBack ==
    Live /\ returned = "OK" /\ parsing = "PARSING" =>
        Stream!HasAll(IF deferStart > 0 THEN deferStart - 1 ELSE buffer)

(* Deferral keeps a finished token at most until as many bytes as it is    *)
(* long have followed it.                                                  *)
DeferralIsBounded ==
    Live /\ deferStart > 0 =>
        \A c \in TokenAt(deferStart) :
            Last[c] <= buffer => buffer - Last[c] < Last[c] - First[c]

(* An application that resumes after every suspension gets to the end of   *)
(* the call: each resumption goes beyond the callback that suspended.      *)
SuspensionsEnd == parsing = "SUSPENDED" ~> pc = "idle" /\ parsing # "SUSPENDED"

-----------------------------------------------------------------------------
(* The applications and inputs that all of this is promised to: handlers   *)
(* are registered before the first byte, nothing stops the parser inside   *)
(* the callback of a start tag that goes out without a parse, such a tag   *)
(* is none that is not well formed, and a limit allows the empty input.    *)
Steady ==
    /\ App \cap {"changes_handlers", "stops_in_direct_tag"} = {}
    /\ \A d \in Documents :
          /\ d.amplifiedAt > 0
          /\ \A c \in d.plain : d.last[c] <= d.badFrom

-----------------------------------------------------------------------------
(* Statements of the repository that this code does not keep.              *)

(* A callback delivered before is never made again.                        *)
NoRepeat == [][given' # given /\ given'.cb # 0
               => \/ given'.cb > given.cb
                  \/ given'.cb = given.cb /\ given'.from >= given.to]_vars

(* A parse that failed stays failed until the parser is reset.             *)
FailureIsFinal == pc = "idle" /\ failed => returned # "OK"

(* No callback of a token that is not well formed, whatever the chunks.    *)
NothingBeyondError == given.cb # 0 => Last[given.cb] <= BadFrom
=============================================================================
