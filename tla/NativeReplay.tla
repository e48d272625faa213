---------------------------- MODULE NativeReplay ----------------------------
(***************************************************************************)
(* One libexpat-compatible parser handle: the C structure that XML_Parse,  *)
(* XML_StopParser and XML_ResumeParser work on, the XP_NATIVE_PARSER that  *)
(* accumulates the chunks, and the XP_NATIVE_CALLBACK_HANDLER that calls   *)
(* the application.                                                        *)
(*                                                                         *)
(* XP_NATIVE_PARSER has no incremental parser.  Every chunk is appended to *)
(* input_buffer and the whole prefix is parsed again; the handler numbers  *)
(* the callbacks of the pass and suppresses the first callbacks_to_suppress*)
(* of them, which the application has had from earlier passes.  A resume   *)
(* is one more such pass.  Parsing is synchronous, so the only interleaving*)
(* is with the application: between two calls, and inside a callback.      *)
(***************************************************************************)
EXTENDS PrefixParse

CONSTANTS
    MaxInput,      \* max_input_bytes
    HandlerSets,   \* the sets of slots the application may register
    App            \* what this application does, a subset of AppHabits

AppHabits == {"suspends", "aborts", "stops_in_direct_tag",
              "stops_between_calls", "changes_handlers", "changes_deferral",
              "resets"}

ASSUME ApplicationAssumption ==
    /\ MaxInput \in Nat
    /\ \A d \in Documents : d.amplifiedAt \in Nat
    /\ HandlerSets \subseteq SUBSET Kinds
    /\ App \subseteq AppHabits

(* Text stands in an element; a DOCTYPE holds declarations and comments;   *)
(* and a callback comes from before the token that is not well formed, or  *)
(* is not made before that token has been met.                             *)
ASSUME LayoutAssumption ==
    \A d \in Documents :
        /\ \A c \in 1..d.n :
              /\ d.ready[c] > 1
              /\ \/ d.badAt <= d.ready[c]
                 \/ /\ d.ready[c] <= d.badFrom
                    /\ d.kind[c] = "text" => d.last[c] <= d.badFrom
        /\ \A b, c \in 1..d.n :
              d.kind[b] = "doctype" /\ d.first[b] = d.first[c] =>
                  d.kind[c] \in {"doctype", "comment"}

VARIABLES
    \* XML_ParserStruct
    parsing,        \* XML_GetParsingStatus: INITIALIZED, PARSING, ...
    failed,         \* parseErrorCode # XML_ERROR_NONE
    stopRequested, stopResumable,
    deferral,       \* reparseDeferralEnabled
    returned,       \* status the last completed call returned
    \* XP_NATIVE_PARSER
    buffer,         \* input_buffer.count
    finalBuffer,    \* final_buffer
    delivered,      \* delivered_callback_count
    deferStart, deferEnd,   \* deferred_reparse_start_index, .._end_index
    spaceTag,       \* plain_ascii_start_tag_prefix
    plainText,      \* plain_ascii_text_prefix
    \* XP_NATIVE_CALLBACK_HANDLER
    slots,          \* the callback slots that are not null
    sequence,       \* callback_sequence_count
    suppress,       \* callbacks_to_suppress
    lastSuspend,    \* last_suspending_callback_index
    lengths,        \* delivered_character_data_lengths
    \* the call in progress
    pc,             \* "idle", "direct", "pass" or "return"
    at,             \* the next callback of the pass, or the direct start tag
    extent,         \* bytes of input_buffer the pass parses
    result,         \* what the pass returns
    \* history: what the application supplied and what it was last given
    supplied,
    given           \* the last callback: bytes from+1..to of cb, with a turn
                    \* bit that tells a repeated call from no call

cVars == <<parsing, failed, stopRequested, stopResumable, deferral, returned>>
nativeVars == <<buffer, finalBuffer, delivered, deferStart, deferEnd,
                spaceTag, plainText>>
handlerVars == <<slots, sequence, suppress, lastSuspend, lengths>>
callVars == <<pc, at, extent, result>>
vars == <<doc, parsing, failed, stopRequested, stopResumable, deferral,
          returned, buffer, finalBuffer, delivered, deferStart, deferEnd, spaceTag,
          plainText, slots, sequence, suppress, lastSuspend, lengths,
          pc, at, extent, result, supplied, given>>

Statuses == {"INITIALIZED", "PARSING", "SUSPENDED", "FINISHED"}
Results == {"NONE", "OK", "ERROR", "SUSPENDED"}

Nothing == [turn |-> 0, cb |-> 0, from |-> 0, to |-> 0]
NoLengths == [i \in 1..N + 1 |-> 0]

Init ==
    /\ doc \in Documents
    /\ parsing = "INITIALIZED"
    /\ failed = FALSE
    /\ stopRequested = FALSE /\ stopResumable = FALSE
    /\ deferral = TRUE
    /\ returned = "NONE"
    /\ buffer = 0 /\ finalBuffer = FALSE /\ delivered = 0
    /\ deferStart = 0 /\ deferEnd = 0
    /\ spaceTag = FALSE /\ plainText = FALSE
    /\ slots = {} /\ sequence = 0 /\ suppress = 0 /\ lastSuspend = 0
    /\ lengths = NoLengths
    /\ pc = "idle" /\ at = 1 /\ extent = 0 /\ result = "NONE"
    /\ supplied = 0
    /\ given = Nothing

-----------------------------------------------------------------------------
(* The calls that need no parse: the branches of                           *)
(* parse_with_current_gc_policy that return at once.                       *)

(* The ceiling on accumulated input, and the amplification check, which    *)
(* depends on the document from a number of bytes on.                      *)
Refuses(n) == n > MaxInput - buffer \/ buffer + n >= doc.amplifiedAt

(* One byte of '<' may still become an encoding signature.                 *)
InSignature(b) == b = 1

(* Only spaces follow an unfinished root start tag already checked.        *)
OnlySpaces(b) == spaceTag /\ \E c \in Plain : First[c] = 0 /\ b < Last[c]

(* Only text follows a root start tag already parsed, and nobody observes. *)
OnlyText(n) ==
    /\ plainText /\ slots = {}
    /\ \/ n = 0
       \/ \E c \in Callback : /\ Kind[c] = "text"
                              /\ First[c] <= buffer /\ buffer + n <= Last[c]

DoctypeObservers == {"doctype", "comment"}

(* Mutant: the wait does not ask who observes the declarations.            *)
InAnyDoctype(b) ==
    /\ b >= 9
    /\ \E c \in Callback : Kind[c] = "doctype" /\ First[c] = 0 /\ b < Last[c]

(* should_wait_for_doctype_prefix: an initial DOCTYPE is unfinished and    *)
(* nobody registered for what it declares.                                 *)
InDoctype(b) ==
    /\ slots \cap DoctypeObservers = {}
    /\ b >= 9
    /\ \E c \in Callback : Kind[c] = "doctype" /\ First[c] = 0 /\ b < Last[c]

Waits(n, final) ==
    /\ ~final
    /\ \/ InSignature(buffer + n)
       \/ OnlySpaces(buffer + n)
       \/ OnlyText(n)
       \/ InDoctype(buffer + n)

(* Mutant: the count of delivered callbacks outlives its input.            *)
KeepsCount ==
    /\ buffer' = 0 /\ UNCHANGED delivered
    /\ deferStart' = 0 /\ deferEnd' = 0
    /\ spaceTag' = FALSE /\ plainText' = FALSE
    /\ suppress' = 0 /\ lastSuspend' = 0 /\ lengths' = NoLengths

(* clear_terminal_replay_state, and its twin at the end of a parse.        *)
ClearReplay ==
    /\ buffer' = 0 /\ delivered' = 0
    /\ deferStart' = 0 /\ deferEnd' = 0
    /\ spaceTag' = FALSE /\ plainText' = FALSE
    /\ suppress' = 0 /\ lastSuspend' = 0 /\ lengths' = NoLengths

Refuse(n) ==
    /\ Refuses(n)
    /\ ClearReplay
    /\ sequence' = 0
    /\ failed' = TRUE /\ returned' = "ERROR" /\ parsing' = "PARSING"
    /\ UNCHANGED callVars

Wait(n, final) ==
    /\ ~Refuses(n)
    /\ Waits(n, final)
    /\ buffer' = buffer + n
    /\ returned' = "OK" /\ parsing' = "PARSING"
    /\ UNCHANGED <<failed, delivered, deferStart, deferEnd, spaceTag, plainText,
                   sequence, suppress, lastSuspend, lengths>>
    /\ UNCHANGED callVars

-----------------------------------------------------------------------------
(* The call that parses: what it does before the first callback.           *)

(* should_defer_reparse_callbacks on b bytes: the token it is about.       *)
DeferredStart(b) == IF deferStart > 0 THEN deferStart ELSE IncompleteStart(b)
DeferredEnd(b) ==
    IF deferEnd > 0 THEN deferEnd ELSE MarkupEnd(DeferredStart(b), b)

(* The plain start tag that begins at s, if all of it has come.            *)
PlainTag(s, b) == {c \in Plain : First[c] + 1 = s /\ Last[c] <= b}

(* Mutant: the deferral ends one byte late.                                *)
DefersOneMore(b, final, tight) ==
    /\ deferral /\ ~final
    /\ DeferredStart(b) > 0
    /\ \/ DeferredEnd(b) = 0
       \/ /\ PlainTag(DeferredStart(b), b) = {}
          /\ b - DeferredEnd(b) <= DeferredEnd(b) - DeferredStart(b) + 1
          /\ ~tight

(* The callbacks of the new bytes stay hidden: the token is unfinished, or *)
(* less than its own length follows it and the C buffer is not tight.      *)
Defers(b, final, tight) ==
    /\ deferral /\ ~final
    /\ DeferredStart(b) > 0
    /\ \/ DeferredEnd(b) = 0
       \/ /\ PlainTag(DeferredStart(b), b) = {}
          /\ b - DeferredEnd(b) < DeferredEnd(b) - DeferredStart(b) + 1
          /\ ~tight

(* The plain start tag the call may emit without a parse: the token that   *)
(* was deferred until now, or the first token of the document.             *)
ReadyTag(b) ==
    IF deferral /\ DeferredStart(b) > 0 /\ PlainTag(DeferredStart(b), b) # {}
    THEN PlainTag(DeferredStart(b), b)
    ELSE IF delivered = 0 THEN PlainTag(1, b) ELSE {}

(* can_emit_ready_plain_start_tag_directly, for a tag that ends the input. *)
EmitsDirectly(c, b) ==
    /\ Last[c] = b
    /\ deferral
    /\ "start" \in slots /\ "text" \notin slots
    /\ \A d \in Callback : Kind[d] = "doctype" => First[c] < Last[d]

(* Mutant: the numbering of the callbacks goes on from the last pass.      *)
SuppressOnly(k) == UNCHANGED sequence /\ suppress' = k

(* prepare_callback_replay                                                 *)
PrepareReplay(k) == sequence' = 0 /\ suppress' = k

(* The bytes the pass parses: all, or what precedes the deferred token.    *)
StartPass(n, final) ==
    LET b == buffer + n IN
    /\ ~Refuses(n)
    /\ ~Waits(n, final)
    /\ \E tight \in IF n > 0 THEN BOOLEAN ELSE {FALSE} :
          LET defers == Defers(b, final, tight)
              direct == IF defers \/ final THEN {}
                        ELSE {c \in ReadyTag(b) : EmitsDirectly(c, b)} IN
          /\ deferStart' = IF defers THEN DeferredStart(b) ELSE 0
          /\ deferEnd' = IF defers THEN DeferredEnd(b) ELSE 0
          /\ extent' = IF defers THEN DeferredStart(b) - 1 ELSE b
          /\ IF direct = {} THEN pc' = "pass" /\ at' = 1
             ELSE pc' = "direct" /\ at' \in direct
    /\ buffer' = b
    /\ spaceTag' = FALSE /\ plainText' = FALSE
    /\ parsing' = "PARSING"
    /\ PrepareReplay(delivered)
    /\ UNCHANGED <<failed, returned, delivered, lastSuspend, lengths, result>>

-----------------------------------------------------------------------------
(* Inside a callback: what the application may call before it returns.     *)

(* The calls of XML_StopParser that are not refused.                       *)
XML_StopParser(resumable) ==
    /\ \/ parsing = "SUSPENDED" /\ ~resumable
       \/ /\ parsing = "PARSING"
          /\ stopRequested => stopResumable /\ ~resumable
    /\ stopRequested' = TRUE /\ stopResumable' = resumable
    /\ parsing' = IF resumable THEN "SUSPENDED" ELSE "FINISHED"

Stops(suspends, aborts) ==
    \/ UNCHANGED <<stopRequested, stopResumable, parsing>>
    \/ \E resumable \in BOOLEAN :
          /\ IF resumable THEN suspends ELSE aborts
          /\ XML_StopParser(resumable)

ChangesHandlers ==
    \/ UNCHANGED slots
    \/ "changes_handlers" \in App /\ slots' \in HandlerSets

(* One call of the application, for the bytes from+1..to of callback c.    *)
Give(c, from, to) ==
    given' = [turn |-> 1 - given.turn, cb |-> c, from |-> from, to |-> to]

(* record_callback_stop_if_requested after the callback numbered i.        *)
RecordStop(i) ==
    lastSuspend' = IF stopRequested' /\ stopResumable' THEN i ELSE lastSuspend

-----------------------------------------------------------------------------
(* emit_ready_plain_start_tag_directly: the start tag goes out without a   *)
(* parse; if the application stops the parser, the pass runs after all.    *)
Direct ==
    /\ pc = "direct"
    /\ Give(at, 0, 1)
    /\ Stops("stops_in_direct_tag" \in App, "stops_in_direct_tag" \in App)
    /\ ChangesHandlers
    /\ sequence' = 1 /\ suppress' = 0
    /\ RecordStop(1)
    /\ IF stopRequested'
       THEN /\ pc' = "pass" /\ at' = 1
            /\ UNCHANGED <<delivered, result>>
       ELSE /\ delivered' = delivered + 1
            /\ pc' = "return" /\ result' = "OK"
            /\ UNCHANGED at
    /\ UNCHANGED <<failed, deferral, returned, buffer, finalBuffer, deferStart,
                   deferEnd, spaceTag, plainText, lengths, extent, supplied, doc>>

-----------------------------------------------------------------------------
(* The pass: XP_PARSER calls the handler once for each callback, and looks *)
(* after each (check_handler_stop) whether the application stopped it.     *)

AtCallback == pc = "pass" /\ at <= N /\ Seen(at, extent)
Observed == Kind[at] \in slots
Number == sequence + 1
Replayed == Number <= suppress

(* delivered_character_data_length of the callback.                        *)
Already == IF Kind[at] = "text" /\ Replayed THEN lengths[Number] ELSE 0

Grows == Kind[at] = "text" /\ Reported(at, extent) > Already

(* check_handler_stop once the handler has returned.                       *)
GoOnUnlessStopped ==
    IF stopRequested'
    THEN /\ pc' = "return"
         /\ result' = IF stopResumable' THEN "SUSPENDED" ELSE "ERROR"
         /\ UNCHANGED at
    ELSE at' = at + 1 /\ UNCHANGED <<pc, result>>

passVars == <<failed, deferral, returned, buffer, finalBuffer, delivered,
              deferStart, deferEnd, spaceTag, plainText, suppress, extent,
              supplied, doc>>

(* A callback nobody registered: the parser skips the handler for elements *)
(* and text, and calls it in vain for the rest.                            *)
PassUnobserved ==
    /\ AtCallback /\ ~Observed
    /\ UNCHANGED <<stopRequested, stopResumable, parsing, slots, sequence,
                   lastSuspend, lengths, given>>
    /\ IF Kind[at] \in {"start", "end", "text"}
       THEN at' = at + 1 /\ UNCHANGED <<pc, result>>
       ELSE GoOnUnlessStopped
    /\ UNCHANGED passVars

(* suppress_next_callback: the application has it from an earlier pass.    *)
PassReplayed ==
    /\ AtCallback /\ Observed
    /\ Replayed /\ ~Grows
    /\ sequence' = Number
    /\ UNCHANGED <<stopRequested, stopResumable, parsing, slots, lastSuspend,
                   lengths, given>>
    /\ GoOnUnlessStopped
    /\ UNCHANGED passVars

(* A new callback, or the new end of a text the application has had.       *)
PassDelivered ==
    /\ AtCallback /\ Observed
    /\ ~Replayed \/ Grows
    /\ Give(at, Already, Reported(at, extent))
    /\ Stops("suspends" \in App, "aborts" \in App)
    /\ ChangesHandlers
    /\ sequence' = Number
    /\ lengths' = IF Kind[at] = "text"
                  THEN [lengths EXCEPT ![Number] = Reported(at, extent)]
                  ELSE lengths
    /\ RecordStop(Number)
    /\ GoOnUnlessStopped
    /\ UNCHANGED passVars

PassEnds ==
    /\ pc = "pass" /\ ~AtCallback
    /\ pc' = "return"
    /\ result' = IF Accepts(extent, finalBuffer) THEN "OK" ELSE "ERROR"
    /\ UNCHANGED <<stopRequested, stopResumable, parsing, slots, sequence,
                   lastSuspend, lengths, given, at>>
    /\ UNCHANGED passVars

-----------------------------------------------------------------------------
(* What the call leaves behind, by the status it returns.                  *)

Idle == pc' = "idle" /\ at' = 1 /\ extent' = 0 /\ result' = "NONE"

returnVars == <<stopRequested, stopResumable, deferral, finalBuffer, slots,
                sequence, supplied, given, doc>>

(* Mutant: the position of the suspension is not kept.                     *)
ForgetsSuspension == delivered

DeliveredAtSuspension == lastSuspend

ReturnSuspended ==
    /\ pc = "return" /\ result = "SUSPENDED"
    /\ delivered' = DeliveredAtSuspension
    /\ parsing' = "SUSPENDED" /\ returned' = "SUSPENDED"
    /\ Idle
    /\ UNCHANGED <<failed, buffer, deferStart, deferEnd, spaceTag, plainText,
                   suppress, lastSuspend, lengths>>
    /\ UNCHANGED returnVars

(* Mutant: the last pass counts alone.                                     *)
CountsLastPass == sequence

(* A call may parse less than an earlier one did.                          *)
DeliveredAfterChunk == IF sequence > delivered THEN sequence ELSE delivered

(* plain_unclosed_start_tag_name_length of an unfinished root start tag.   *)
UnclosedRoot(b) ==
    /\ IncompleteStart(b) = 1 /\ b >= 3
    /\ \E c \in Plain : First[c] = 0

ReturnOk ==
    /\ pc = "return" /\ result = "OK" /\ ~finalBuffer
    /\ delivered' = DeliveredAfterChunk
    /\ spaceTag' = (deferStart = 0 /\ UnclosedRoot(buffer))
    /\ plainText' = (slots = {} /\ \E c \in PlainTag(1, buffer) : Last[c] = buffer)
    /\ parsing' = "PARSING" /\ returned' = "OK"
    /\ Idle
    /\ UNCHANGED <<failed, buffer, deferStart, deferEnd, suppress, lastSuspend,
                   lengths>>
    /\ UNCHANGED returnVars

ReturnFinished ==
    /\ pc = "return" /\ result = "OK" /\ finalBuffer
    /\ ClearReplay
    /\ parsing' = "FINISHED" /\ returned' = "OK"
    /\ Idle
    /\ UNCHANGED failed
    /\ UNCHANGED returnVars

(* XML_Parse keeps parseErrorCode; it leaves the parsing status alone.     *)
ReturnError ==
    /\ pc = "return" /\ result = "ERROR"
    /\ ClearReplay
    /\ failed' = TRUE /\ returned' = "ERROR"
    /\ Idle
    /\ UNCHANGED parsing
    /\ UNCHANGED returnVars

-----------------------------------------------------------------------------
(* The calls of the application between two callbacks' calls.              *)

Call(n, final) ==
    /\ stopRequested' = FALSE /\ stopResumable' = FALSE
    /\ finalBuffer' = final
    /\ Refuse(n) \/ Wait(n, final) \/ StartPass(n, final)
    /\ UNCHANGED <<deferral, slots, given, doc>>

(* Refused calls (suspended, finished, failed before) change nothing here. *)
AcceptsInput == parsing \in {"INITIALIZED", "PARSING"} /\ ~failed

XML_Parse(n, final) ==
    /\ pc = "idle"
    /\ AcceptsInput
    /\ supplied + n <= DocSize
    /\ supplied' = supplied + n
    /\ Call(n, final)

(* It does not look at parseErrorCode.                                     *)
XML_ResumeParser ==
    /\ pc = "idle"
    /\ parsing = "SUSPENDED"
    /\ Call(0, finalBuffer)
    /\ UNCHANGED supplied

StopBetweenCalls ==
    /\ pc = "idle"
    /\ "stops_between_calls" \in App
    /\ \E resumable \in BOOLEAN : XML_StopParser(resumable)
    /\ UNCHANGED <<failed, deferral, returned, supplied, given, doc>>
    /\ UNCHANGED nativeVars /\ UNCHANGED handlerVars /\ UNCHANGED callVars

(* XML_SetElementHandler and its kind: any subset of the slots at a time.  *)
SetHandlers ==
    /\ pc = "idle"
    /\ parsing = "INITIALIZED" \/ "changes_handlers" \in App
    /\ slots' \in HandlerSets
    /\ UNCHANGED <<sequence, suppress, lastSuspend, lengths, supplied, given,
                   doc>>
    /\ UNCHANGED cVars /\ UNCHANGED nativeVars /\ UNCHANGED callVars

XML_SetReparseDeferralEnabled ==
    /\ pc = "idle"
    /\ "changes_deferral" \in App
    /\ deferral' \in BOOLEAN
    /\ UNCHANGED <<parsing, failed, stopRequested, stopResumable, returned,
                   supplied, given, doc>>
    /\ UNCHANGED nativeVars /\ UNCHANGED handlerVars /\ UNCHANGED callVars

XML_ParserReset ==
    /\ pc = "idle"
    /\ "resets" \in App
    /\ parsing' = "INITIALIZED" /\ failed' = FALSE
    /\ stopRequested' = FALSE /\ stopResumable' = FALSE
    /\ deferral' = TRUE /\ returned' = "NONE"
    /\ finalBuffer' = FALSE
    /\ ClearReplay
    /\ slots' = {}
    /\ supplied' = 0 /\ given' = Nothing
    /\ UNCHANGED <<sequence, doc>> /\ UNCHANGED callVars

-----------------------------------------------------------------------------
InCall ==
    \/ Direct
    \/ PassUnobserved \/ PassReplayed \/ PassDelivered \/ PassEnds
    \/ ReturnSuspended \/ ReturnOk \/ ReturnFinished \/ ReturnError

Next ==
    \/ InCall
    \/ \E n \in Chunks, final \in BOOLEAN : XML_Parse(n, final)
    \/ XML_ResumeParser
    \/ StopBetweenCalls
    \/ SetHandlers
    \/ XML_SetReparseDeferralEnabled
    \/ XML_ParserReset

(* A call runs to its end; an application that suspended resumes.          *)
Fairness == WF_vars(InCall) /\ WF_vars(XML_ResumeParser)

Spec == Init /\ [][Next]_vars
FairSpec == Spec /\ Fairness
=============================================================================
