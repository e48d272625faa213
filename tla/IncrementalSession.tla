-------------------------- MODULE IncrementalSession --------------------------
(***************************************************************************)
(* XP_INCREMENTAL_PARSE_SESSION: feed appends a chunk to the window and    *)
(* advances token by token until it needs more, is done, fails or is asked *)
(* to stop; resume goes on after a stop.                                   *)
(***************************************************************************)
EXTENDS TokenSession

(* The first error of a document, for this session, is the first token     *)
(* that it refuses.                                                        *)
ASSUME FaultAssumption ==
    \A d \in Documents :
        /\ \/ d.size < d.badAt /\ \A c \in 1..d.n : ~RefusedMarkup(d, c)
           \/ \E c \in 1..d.n :
                 /\ RefusedMarkup(d, c) /\ \A b \in 1..c - 1 : ~RefusedMarkup(d, b)
                 /\ d.badFrom = d.first[c] /\ d.badAt = d.last[c]
        /\ RootEnds(d, {c \in 1..d.n : RefusedMarkup(d, c)})

VARIABLES
    suspended,  \* is_suspended
    finished,   \* is_finished
    failed      \* has_error

statusVars == <<suspended, finished, failed>>
vars == <<doc, supplied, finalBuffer, consumed, line, column, stack, elements,
          stopRequested, pc, returned, given, suspended, finished, failed>>

Init ==
    /\ SessionInit
    /\ suspended = FALSE /\ finished = FALSE /\ failed = FALSE

-----------------------------------------------------------------------------
(* The calls of the application.                                           *)

MayFeed == ~finished /\ ~suspended

feed(n, final) ==
    /\ pc = "idle" /\ MayFeed
    /\ supplied + n <= DocSize
    /\ supplied' = supplied + n /\ finalBuffer' = final
    /\ UNCHANGED doc
    /\ pc' = "run"
    /\ UNCHANGED <<returned, stopRequested, given>>
    /\ UNCHANGED positionVars /\ UNCHANGED elementVars /\ UNCHANGED statusVars

(* The application withdraws its request before it resumes.                *)
resume ==
    /\ pc = "idle" /\ suspended
    /\ suspended' = FALSE /\ stopRequested' = FALSE
    /\ pc' = "run"
    /\ UNCHANGED <<returned, given, finished, failed>>
    /\ UNCHANGED windowVars /\ UNCHANGED positionVars /\ UNCHANGED elementVars

-----------------------------------------------------------------------------
(* advance_one: a token, or the end of the call.                           *)

Return(status) ==
    /\ pc' = "idle" /\ returned' = status
    /\ UNCHANGED documentVars

set_error ==
    /\ failed' = TRUE
    /\ Return("ERROR")
    /\ UNCHANGED <<suspended, finished>>

(* Mutant: the stop is not looked at after a callback.                     *)
NeverSuspends == pc' = "run" /\ UNCHANGED <<suspended, returned>>

event_or_suspended ==
    IF stopRequested'
    THEN pc' = "idle" /\ suspended' = TRUE /\ returned' = "SUSPENDED"
    ELSE pc' = "run" /\ UNCHANGED <<suspended, returned>>

(* Mutant: text, too, waits for the markup that ends it.                   *)
TextWaits == ~Empty /\ ~Complete

(* complete_markup_end finds no end in the window.                         *)
Incomplete == ~Empty /\ FrontText = {} /\ ~Complete

Advances == pc = "run" /\ ~failed

(* A session that failed before answers so, whatever it is fed.            *)
AfterError ==
    /\ pc = "run" /\ failed
    /\ Return("ERROR")
    /\ UNCHANGED statusVars

Finish ==
    /\ Advances /\ Empty /\ finalBuffer
    /\ DocumentComplete
    /\ finished' = TRUE
    /\ Return("FINISHED")
    /\ UNCHANGED <<suspended, failed>>

NeedMore ==
    /\ Advances /\ ~finalBuffer
    /\ IF Empty THEN TRUE ELSE Incomplete
    /\ Return("NEED_MORE")
    /\ UNCHANGED statusVars

(* The input ends with elements open, or in a token, or has no element.    *)
EndsEarly ==
    /\ Advances /\ finalBuffer
    /\ IF Empty THEN ~DocumentComplete ELSE Incomplete
    /\ set_error

(* A tag that is refused, or a comment, a declaration, an instruction.     *)
RefusesMarkup ==
    /\ Advances /\ ~Empty
    /\ FrontText = {} /\ Complete
    /\ \E c \in Front : RefusesTag(c) \/ Kind[c] \in {"comment", "doctype"}
    /\ set_error

Text ==
    /\ Advances /\ ~Empty
    /\ \E c \in FrontText : EmitText(c)
    /\ event_or_suspended
    /\ UNCHANGED <<finished, failed>> /\ UNCHANGED windowVars

StartTag ==
    /\ Advances /\ ~Empty
    /\ \E c \in FrontTag("start") :
          /\ EmitStart(c)
          /\ IF FrontTag("end") = {} THEN event_or_suspended
             ELSE pc' = "empty" /\ UNCHANGED <<suspended, returned>>
    /\ UNCHANGED <<finished, failed>> /\ UNCHANGED windowVars

EmptyEnd ==
    /\ \E c \in FrontTag("end") : EmitEmptyEnd(c)
    /\ event_or_suspended
    /\ UNCHANGED <<finished, failed>> /\ UNCHANGED windowVars

EndTag ==
    /\ Advances /\ ~Empty
    /\ \E c \in FrontTag("end") : EmitEnd(c)
    /\ event_or_suspended
    /\ UNCHANGED <<finished, failed>> /\ UNCHANGED windowVars

advance_available ==
    \/ AfterError \/ Finish \/ NeedMore \/ EndsEarly \/ RefusesMarkup
    \/ Text \/ StartTag \/ EmptyEnd \/ EndTag

-----------------------------------------------------------------------------
Next ==
    \/ \E n \in Chunks, final \in BOOLEAN : feed(n, final)
    \/ resume
    \/ advance_available

(* A call runs to its end; an application that suspended resumes.          *)
Fairness == WF_vars(advance_available) /\ WF_vars(resume)

Spec == Init /\ [][Next]_vars /\ Fairness
-----------------------------------------------------------------------------
(* The variables keep their types.                                         *)
TypeOK ==
    /\ SessionTypeOK
    /\ suspended \in BOOLEAN /\ finished \in BOOLEAN /\ failed \in BOOLEAN

StreamStatus ==
    IF failed THEN "failed" ELSE IF finished THEN "finished"
    ELSE IF suspended THEN "suspended" ELSE "open"

Stream == INSTANCE CallbackStream
          WITH status <- StreamStatus, final <- finalBuffer,
               slots <- {"start", "end", "text"}

(* The session is a push parser: it promises the stream the parser handle  *)
(* promises, whatever the chunks and the stops.                            *)
ImplementsStream == Stream!Spec

(* When feed asks for more, the window holds nothing but a markup token    *)
(* that is not complete; every other callback has been made.               *)
KeepsOnlyIncompleteToken ==
    pc = "idle" /\ returned = "NEED_MORE" =>
        /\ Stream!HasAll(supplied)
        /\ Empty \/ \E c \in Unfinished(supplied) : First[c] = consumed

(* Once the application has asked for a stop it gets at most the end of    *)
(* the empty element it is in, until it resumes.                           *)
StopIsObeyed == [][given' # given /\ stopRequested => pc = "empty"]_vars

(* An application that goes on resuming gets an answer to its final chunk. *)
FinalChunkIsAnswered == finalBuffer /\ pc = "run" ~> finished \/ failed
=============================================================================
