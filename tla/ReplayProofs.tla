---------------------------- MODULE ReplayProofs ----------------------------
(***************************************************************************)
(* Theorems about NativeReplay.  For every document, every chunking and    *)
(* every application: the variables keep their types, and a token is       *)
(* deferred no longer than its own length of new bytes.  And replaying the *)
(* prefix implements the callback stream: a steady application gets each   *)
(* callback it registered for once and in order.                           *)
(***************************************************************************)
EXTENDS NativeReplayProperties, FiniteSetTheorems, TLAPS

-----------------------------------------------------------------------------
(* What the operators of PrefixParse return.                               *)

(* The document is one of those that DocumentAssumption speaks of.         *)
LEMMA DocumentFacts ==
    ASSUME doc \in Documents
    PROVE  /\ N \in Nat
           /\ Chunks \subseteq Nat
           /\ Plain \subseteq Callback
           /\ \A c \in Callback : /\ First[c] \in Nat /\ Ready[c] \in Nat
                                  /\ Last[c] \in Nat
                                  /\ First[c] < Ready[c]
                                  /\ Ready[c] <= Last[c]
<1>1. IsDocument(doc)
    BY DocumentAssumption
<1>. QED BY <1>1
         DEF IsDocument, N, Kind, First, Ready, Last, Plain, Chunks, Callback

(* A step that keeps the document keeps the numbers of its callbacks.      *)
LEMMA SameDocument ==
    ASSUME UNCHANGED doc
    PROVE  N' = N /\ Callback' = Callback
BY DEF N, Callback

(* An unfinished token is a callback's, so its start index is a number.    *)
LEMMA IncompleteStartIsNat ==
    ASSUME doc \in Documents, NEW b \in Nat
    PROVE  IncompleteStart(b) \in Nat
<1>1. CASE Unfinished(b) = {}
    BY <1>1 DEF IncompleteStart
<1>2. CASE Unfinished(b) # {}
    <2> DEFINE c == CHOOSE c \in Unfinished(b) : TRUE
    <2>1. c \in Callback
        BY <1>2 DEF Unfinished
    <2>2. First[c] \in Nat
        BY <2>1, DocumentFacts
    <2>. QED BY <1>2, <2>2 DEF IncompleteStart
<1>. QED BY <1>1, <1>2

(* The end of a markup token is a number, zero while it is unknown.        *)
LEMMA MarkupEndIsNat ==
    ASSUME doc \in Documents, NEW s, NEW b \in Nat
    PROVE  MarkupEnd(s, b) \in Nat
<1>1. CASE \E c \in TokenAt(s) : Last[c] <= b
    <2> DEFINE c == CHOOSE c \in TokenAt(s) : TRUE
    <2>1. c \in Callback
        BY <1>1 DEF TokenAt
    <2>2. Last[c] \in Nat
        BY <2>1, DocumentFacts
    <2>. QED BY <1>1, <2>2 DEF MarkupEnd
<1>2. CASE ~\E c \in TokenAt(s) : Last[c] <= b
    BY <1>2 DEF MarkupEnd
<1>. QED BY <1>1, <1>2

(* A callback that is made has some text, if it is text.                   *)
LEMMA ReportedIsPositive ==
    ASSUME doc \in Documents, NEW c \in Callback, NEW b \in Nat, Seen(c, b)
    PROVE  Reported(c, b) \in Nat \ {0}
<1>1. First[c] \in Nat /\ Last[c] \in Nat /\ Ready[c] \in Nat
    BY DocumentFacts
<1>2. First[c] < Ready[c] /\ Ready[c] <= Last[c]
    BY DocumentFacts
<1>3. Ready[c] <= b
    BY DEF Seen
<1>. QED BY <1>1, <1>2, <1>3 DEF Reported

-----------------------------------------------------------------------------
(* Type correctness.  The number of a callback in a pass is bounded by its *)
(* place in the document; lengths is indexed by that number.               *)
TypeInv ==
    /\ TypeOK
    /\ pc = "direct" => at \in Callback
    /\ pc = "pass" => sequence <= at

(* The values that a fresh parser, a reset and a terminal status restore.  *)
LEMMA FreshValues ==
    ASSUME doc \in Documents
    PROVE  /\ NoLengths \in [1..N + 1 -> Nat]
           /\ Nothing \in [turn : 0..1, cb : 0..N, from : Nat, to : Nat]
           /\ 1 \in 1..N + 1 /\ 0 \in 0..N + 1
<1>1. N \in Nat
    BY DocumentFacts
<1>2. NoLengths \in [1..N + 1 -> Nat]
    BY DEF NoLengths
<1>3. Nothing \in [turn : 0..1, cb : 0..N, from : Nat, to : Nat]
    BY <1>1 DEF Nothing
<1>. QED BY <1>1, <1>2, <1>3

(* XML_ParserCreate_MM leaves every field with a value of its type.        *)
LEMMA TypeInvInit == Init => TypeInv
<1>. SUFFICES ASSUME Init PROVE TypeInv
    OBVIOUS
<1>1. doc \in Documents
    BY DEF Init
<1>. QED BY <1>1, FreshValues
         DEF Init, TypeInv, TypeOK, Statuses, Results, CallStates

(* The application's habits leave the C structure typed.                   *)
LEMMA StopsKeepsTypes ==
    ASSUME TypeOK, NEW s, NEW a, Stops(s, a)
    PROVE  /\ parsing' \in Statuses
           /\ stopRequested' \in BOOLEAN /\ stopResumable' \in BOOLEAN
BY DEF Stops, XML_StopParser, TypeOK, Statuses

(* A callback may register handlers, never anything but slots.             *)
LEMMA ChangesHandlersKeepsTypes ==
    ASSUME TypeOK, ChangesHandlers
    PROVE  slots' \subseteq Kinds
BY ApplicationAssumption DEF ChangesHandlers, TypeOK

(* clear_terminal_replay_state restores counters and lengths to types.     *)
LEMMA ClearReplayTypes ==
    ASSUME doc \in Documents, ClearReplay
    PROVE  /\ buffer' \in Nat /\ delivered' \in Nat
           /\ deferStart' \in Nat /\ deferEnd' \in Nat
           /\ spaceTag' \in BOOLEAN /\ plainText' \in BOOLEAN
           /\ suppress' \in Nat /\ lastSuspend' \in 0..N + 1
           /\ lengths' \in [1..N + 1 -> Nat]
BY FreshValues DEF ClearReplay

(* The direct start tag: one callback, numbered one.                       *)
LEMMA DirectKeepsTypes == TypeInv /\ Direct /\ UNCHANGED doc => TypeInv'
<1>. SUFFICES ASSUME TypeInv, Direct, UNCHANGED doc PROVE TypeInv'
    OBVIOUS
<1>1. N \in Nat /\ at \in Callback
    BY DocumentFacts DEF TypeInv, TypeOK, Direct
<1>2. given' \in [turn : 0..1, cb : 0..N, from : Nat, to : Nat]
    BY <1>1 DEF TypeInv, TypeOK, Direct, Give, Callback
<1>3. /\ parsing' \in Statuses
      /\ stopRequested' \in BOOLEAN /\ stopResumable' \in BOOLEAN
    BY StopsKeepsTypes DEF TypeInv, Direct
<1>4. slots' \subseteq Kinds
    BY ChangesHandlersKeepsTypes DEF TypeInv, Direct
<1>5. lastSuspend' \in 0..N + 1
    BY <1>1 DEF TypeInv, TypeOK, Direct, RecordStop, Callback
<1>6. /\ delivered' \in Nat /\ pc' \in CallStates /\ result' \in Results
      /\ at' \in 1..N + 1
      /\ pc' = "pass" => sequence' <= at'
      /\ pc' # "direct"
    BY <1>1 DEF TypeInv, TypeOK, Direct, Callback, CallStates, Results
<1>7. /\ UNCHANGED <<failed, deferral, returned, buffer, finalBuffer,
                     deferStart, deferEnd, spaceTag, plainText, lengths, extent,
                     supplied>>
      /\ sequence' \in 0..N + 1 /\ suppress' = 0
    BY <1>1 DEF Direct
<1>. QED BY <1>1, <1>2, <1>3, <1>4, <1>5, <1>6, <1>7, SameDocument
         DEF TypeInv, TypeOK

(* check_handler_stop moves on by one callback at most.                    *)
LEMMA GoOnKeepsTypes ==
    ASSUME TypeOK, pc = "pass", at \in Callback, GoOnUnlessStopped
    PROVE  /\ pc' \in CallStates /\ result' \in Results /\ at' \in 1..N + 1
           /\ pc' # "direct"
           /\ pc' = "pass" => at' = at + 1
<1>1. N \in Nat /\ at \in 1..N + 1 /\ at + 1 \in 1..N + 1
    BY DocumentFacts DEF Callback, TypeOK
<1>2. result \in Results
    BY DEF TypeOK
<1>3. CASE stopRequested'
    BY <1>1, <1>3 DEF GoOnUnlessStopped, CallStates, Results
<1>4. CASE ~stopRequested'
    BY <1>1, <1>2, <1>4 DEF GoOnUnlessStopped, CallStates
<1>. QED BY <1>3, <1>4

(* A callback nobody registered moves the pass on, not the numbering.      *)
LEMMA PassUnobservedKeepsTypes == TypeInv /\ PassUnobserved /\ UNCHANGED doc => TypeInv'
<1>. SUFFICES ASSUME TypeInv, PassUnobserved, UNCHANGED doc PROVE TypeInv'
    OBVIOUS
<1>1. N \in Nat /\ at \in Callback /\ pc = "pass" /\ sequence \in 0..N + 1
    BY DocumentFacts
    DEF TypeInv, TypeOK, PassUnobserved, AtCallback, Callback
<1>2. /\ pc' \in CallStates /\ result' \in Results /\ at' \in 1..N + 1
      /\ pc' # "direct"
      /\ pc' = "pass" => at' = at + 1
    BY <1>1, GoOnKeepsTypes
    DEF TypeInv, TypeOK, PassUnobserved, Callback, CallStates
<1>3. pc' = "pass" => sequence' <= at'
    BY <1>1, <1>2 DEF TypeInv, PassUnobserved, Callback
<1>. QED BY <1>2, <1>3, SameDocument DEF TypeInv, TypeOK, PassUnobserved, passVars

(* A suppressed callback takes the next number of the pass.                *)
LEMMA PassReplayedKeepsTypes == TypeInv /\ PassReplayed /\ UNCHANGED doc => TypeInv'
<1>. SUFFICES ASSUME TypeInv, PassReplayed, UNCHANGED doc PROVE TypeInv'
    OBVIOUS
<1>1. N \in Nat /\ at \in Callback /\ pc = "pass" /\ sequence \in 0..N + 1
    BY DocumentFacts
    DEF TypeInv, TypeOK, PassReplayed, AtCallback, Callback
<1>2. /\ pc' \in CallStates /\ result' \in Results /\ at' \in 1..N + 1
      /\ pc' # "direct"
      /\ pc' = "pass" => at' = at + 1
    BY <1>1, GoOnKeepsTypes DEF TypeInv, PassReplayed
<1>3. sequence' \in 0..N + 1 /\ (pc' = "pass" => sequence' <= at')
    BY <1>1, <1>2 DEF TypeInv, PassReplayed, Number, Callback
<1>. QED BY <1>2, <1>3, SameDocument DEF TypeInv, TypeOK, PassReplayed, passVars

(* A delivered callback takes the next number, and text its length.        *)
LEMMA PassDeliveredKeepsTypes == TypeInv /\ PassDelivered /\ UNCHANGED doc => TypeInv'
<1>. SUFFICES ASSUME TypeInv, PassDelivered, UNCHANGED doc PROVE TypeInv'
    OBVIOUS
<1>1. N \in Nat /\ at \in Callback /\ pc = "pass" /\ sequence \in 0..N + 1
    BY DocumentFacts
    DEF TypeInv, TypeOK, PassDelivered, AtCallback, Callback
<1>2. Number \in 1..N + 1
    BY <1>1 DEF TypeInv, Number, Callback
<1>3. Already \in Nat
    BY <1>2 DEF Already, TypeInv, TypeOK
<1>4. Reported(at, extent) \in Nat
    BY <1>1, ReportedIsPositive DEF TypeInv, TypeOK, PassDelivered, AtCallback
<1>5. given' \in [turn : 0..1, cb : 0..N, from : Nat, to : Nat]
    BY <1>1, <1>3, <1>4 DEF TypeInv, TypeOK, PassDelivered, Give, Callback
<1>6. /\ parsing' \in Statuses
      /\ stopRequested' \in BOOLEAN /\ stopResumable' \in BOOLEAN
    BY StopsKeepsTypes DEF TypeInv, PassDelivered
<1>7. slots' \subseteq Kinds
    BY ChangesHandlersKeepsTypes DEF TypeInv, PassDelivered
<1>8. lengths' \in [1..N + 1 -> Nat]
    BY <1>4 DEF TypeInv, TypeOK, PassDelivered
<1>9. /\ pc' \in CallStates /\ result' \in Results /\ at' \in 1..N + 1
      /\ pc' # "direct"
      /\ pc' = "pass" => at' = at + 1
    BY <1>1, GoOnKeepsTypes DEF TypeInv, PassDelivered
<1>10. sequence' \in 0..N + 1 /\ (pc' = "pass" => sequence' <= at')
    BY <1>1, <1>2, <1>9 DEF TypeInv, PassDelivered, Number, Callback
<1>11. lastSuspend' \in 0..N + 1
    BY <1>1, <1>2 DEF TypeInv, TypeOK, PassDelivered, RecordStop
<1>. QED BY <1>5, <1>6, <1>7, <1>8, <1>9, <1>10, <1>11, SameDocument
         DEF TypeInv, TypeOK, PassDelivered, passVars

(* The verdict of the parse is a status.                                   *)
LEMMA PassEndsKeepsTypes == TypeInv /\ PassEnds /\ UNCHANGED doc => TypeInv'
BY SameDocument DEF TypeInv, TypeOK, PassEnds, passVars, CallStates, Results

(* What the four returns of the call leave behind is typed.                *)
LEMMA ReturnKeepsTypes ==
    ASSUME TypeInv, UNCHANGED doc,
           ReturnSuspended \/ ReturnOk \/ ReturnFinished \/ ReturnError
    PROVE  TypeInv'
<1>1. CASE ReturnSuspended
    BY <1>1, FreshValues, SameDocument
    DEF TypeInv, TypeOK, ReturnSuspended, DeliveredAtSuspension, Idle, returnVars,
        CallStates, Results, Statuses
<1>2. CASE ReturnOk
    BY <1>2, FreshValues, SameDocument
    DEF TypeInv, TypeOK, ReturnOk, DeliveredAfterChunk, Idle, returnVars,
        CallStates, Results, Statuses
<1>3. CASE ReturnFinished
    BY <1>3, FreshValues, ClearReplayTypes, SameDocument
    DEF TypeInv, TypeOK, ReturnFinished, Idle, returnVars, CallStates, Results,
        Statuses
<1>4. CASE ReturnError
    BY <1>4, FreshValues, ClearReplayTypes, SameDocument
    DEF TypeInv, TypeOK, ReturnError, Idle, returnVars, CallStates, Results,
        Statuses
<1>. QED BY <1>1, <1>2, <1>3, <1>4

(* A call starts with types in order: the deferred token has a number.     *)
LEMMA DeferralTypes ==
    ASSUME TypeOK, NEW b \in Nat
    PROVE  DeferredStart(b) \in Nat /\ DeferredEnd(b) \in Nat
BY IncompleteStartIsNat, MarkupEndIsNat DEF TypeOK, DeferredStart, DeferredEnd

(* A call is refused, waits, or starts a pass: typed in each case.         *)
LEMMA CallKeepsTypes ==
    ASSUME TypeInv, pc = "idle", NEW n \in Nat, NEW final \in BOOLEAN,
           Call(n, final), supplied' \in Nat, UNCHANGED doc
    PROVE  TypeInv'
<1>1. N \in Nat /\ buffer + n \in Nat
    BY DocumentFacts DEF TypeInv, TypeOK
<1>2. CASE Refuse(n)
    <2>1. ClearReplay
        BY <1>2 DEF Refuse
    <2>2. sequence' = 0 /\ 0 \in 0..N + 1
        BY <1>1, <1>2 DEF Refuse
    <2>3. parsing' \in Statuses /\ returned' \in Results
        BY <1>2 DEF Refuse, Statuses, Results
    <2>4. /\ failed' \in BOOLEAN /\ stopRequested' \in BOOLEAN
          /\ stopResumable' \in BOOLEAN /\ finalBuffer' \in BOOLEAN
        BY <1>2 DEF Call, Refuse
    <2>5. UNCHANGED <<deferral, slots, given, pc, at, extent, result>>
        BY <1>2 DEF Call, Refuse, callVars
    <2>. QED BY <2>1, <2>2, <2>3, <2>4, <2>5, ClearReplayTypes, SameDocument
             DEF TypeInv, TypeOK
<1>3. CASE Wait(n, final)
    BY <1>1, <1>3, SameDocument
    DEF TypeInv, TypeOK, Call, Wait, callVars, Statuses, Results
<1>4. CASE StartPass(n, final)
    <2>1. DeferredStart(buffer + n) \in Nat /\ DeferredEnd(buffer + n) \in Nat
        BY <1>1, DeferralTypes DEF TypeInv
    <2>2. PICK tight \in BOOLEAN :
              LET b == buffer + n
                  defers == Defers(b, final, tight)
                  direct == IF defers \/ final THEN {}
                            ELSE {c \in ReadyTag(b) : EmitsDirectly(c, b)} IN
              /\ deferStart' = IF defers THEN DeferredStart(b) ELSE 0
              /\ deferEnd' = IF defers THEN DeferredEnd(b) ELSE 0
              /\ extent' = IF defers THEN DeferredStart(b) - 1 ELSE b
              /\ IF direct = {} THEN pc' = "pass" /\ at' = 1
                 ELSE pc' = "direct" /\ at' \in direct
        BY <1>4 DEF StartPass
    <2>3. deferStart' \in Nat /\ deferEnd' \in Nat /\ extent' \in Nat
        BY <1>1, <2>1, <2>2 DEF Defers
    <2>4. \A c \in ReadyTag(buffer + n) : c \in Callback
        BY DocumentFacts DEF ReadyTag, PlainTag, TypeInv, TypeOK
    <2>5. \/ pc' = "pass" /\ at' = 1
          \/ pc' = "direct" /\ at' \in Callback
        BY <2>2, <2>4
    <2>6. /\ pc' \in CallStates /\ at' \in 1..N + 1
          /\ pc' = "direct" => at' \in Callback
        BY <1>1, <2>5 DEF Callback, CallStates
    <2>7. sequence' = 0 /\ suppress' = delivered
        BY <1>4 DEF StartPass, PrepareReplay
    <2>8. pc' = "pass" => sequence' <= at'
        BY <2>5, <2>7
    <2>9. /\ parsing' \in Statuses /\ finalBuffer' \in BOOLEAN
          /\ stopRequested' \in BOOLEAN /\ stopResumable' \in BOOLEAN
          /\ buffer' \in Nat /\ spaceTag' \in BOOLEAN /\ plainText' \in BOOLEAN
        BY <1>1, <1>4 DEF Call, StartPass, Statuses
    <2>10. /\ sequence' \in 0..N + 1 /\ suppress' \in Nat
        BY <1>1, <2>7 DEF TypeInv, TypeOK
    <2>11. UNCHANGED <<failed, returned, delivered, lastSuspend, lengths,
                       result, deferral, slots, given>>
        BY <1>4 DEF Call, StartPass
    <2>. QED BY <2>3, <2>6, <2>8, <2>9, <2>10, <2>11, SameDocument
         DEF TypeInv, TypeOK
<1>. QED BY <1>2, <1>3, <1>4 DEF Call

(* The calls that do not parse: stops, handlers, deferral, reset.          *)
LEMMA BetweenCallsKeepsTypes ==
    ASSUME TypeInv, UNCHANGED doc,
           \/ StopBetweenCalls \/ SetHandlers
           \/ XML_SetReparseDeferralEnabled \/ XML_ParserReset
    PROVE  TypeInv'
<1>1. CASE StopBetweenCalls
    BY <1>1, SameDocument
    DEF TypeInv, TypeOK, StopBetweenCalls, XML_StopParser, nativeVars,
        handlerVars, callVars, Statuses
<1>2. CASE SetHandlers
    BY <1>2, ApplicationAssumption, SameDocument
    DEF TypeInv, TypeOK, SetHandlers, cVars, nativeVars, callVars
<1>3. CASE XML_SetReparseDeferralEnabled
    BY <1>3, SameDocument
    DEF TypeInv, TypeOK, XML_SetReparseDeferralEnabled, nativeVars,
        handlerVars, callVars
<1>4. CASE XML_ParserReset
    BY <1>4, ClearReplayTypes, FreshValues, SameDocument
    DEF TypeInv, TypeOK, XML_ParserReset, callVars, Statuses, Results, Kinds
<1>. QED BY <1>1, <1>2, <1>3, <1>4

(* A step that changes nothing changes no type.                            *)
LEMMA StutteringKeepsTypes == TypeInv /\ UNCHANGED vars => TypeInv'
BY SameDocument DEF TypeInv, TypeOK, vars

(* No call changes the document.                                           *)
LEMMA DocumentStays == [Next]_vars => UNCHANGED doc
<1>1. InCall => UNCHANGED doc
    BY DEF InCall, Direct, PassUnobserved, PassReplayed, PassDelivered, PassEnds,
       passVars, ReturnSuspended, ReturnOk, ReturnFinished, ReturnError, returnVars
<1>2. ASSUME NEW n, NEW final, XML_Parse(n, final)
      PROVE  UNCHANGED doc
    BY <1>2 DEF XML_Parse, Call
<1>3. XML_ResumeParser => UNCHANGED doc
    BY DEF XML_ResumeParser, Call
<1>4. \/ StopBetweenCalls \/ SetHandlers
      \/ XML_SetReparseDeferralEnabled \/ XML_ParserReset
      => UNCHANGED doc
    BY DEF StopBetweenCalls, SetHandlers, XML_SetReparseDeferralEnabled,
       XML_ParserReset
<1>. QED BY <1>1, <1>2, <1>3, <1>4 DEF Next, vars

(* Every step of the parser handle keeps the inductive invariant.          *)
LEMMA TypeInvNext == TypeInv /\ [Next]_vars => TypeInv'
<1>. SUFFICES ASSUME TypeInv, [Next]_vars PROVE TypeInv'
    OBVIOUS
<1>0. UNCHANGED doc
    BY DocumentStays
<1>1. CASE InCall
    BY <1>0, <1>1, DirectKeepsTypes, PassUnobservedKeepsTypes,
       PassReplayedKeepsTypes, PassDeliveredKeepsTypes, PassEndsKeepsTypes,
       ReturnKeepsTypes DEF InCall
<1>2. ASSUME NEW n \in Chunks, NEW final \in BOOLEAN, XML_Parse(n, final)
      PROVE  TypeInv'
    <2>1. n \in Nat /\ supplied' \in Nat
        BY <1>2, DocumentFacts DEF XML_Parse, TypeInv, TypeOK
    <2>. QED BY <1>0, <1>2, <2>1, CallKeepsTypes DEF XML_Parse
<1>3. CASE XML_ResumeParser
    <2>1. supplied' \in Nat /\ finalBuffer \in BOOLEAN
        BY <1>3 DEF XML_ResumeParser, TypeInv, TypeOK
    <2>. QED BY <1>0, <1>3, <2>1, CallKeepsTypes DEF XML_ResumeParser
<1>4. CASE \/ StopBetweenCalls \/ SetHandlers
           \/ XML_SetReparseDeferralEnabled \/ XML_ParserReset
    BY <1>0, <1>4, BetweenCallsKeepsTypes
<1>5. CASE UNCHANGED vars
    BY <1>5, StutteringKeepsTypes
<1>. QED BY <1>1, <1>2, <1>3, <1>4, <1>5 DEF Next

(* Whatever the document, the chunks and the application, the variables of *)
(* a parser handle keep their types.                                       *)
THEOREM TypeCorrect == Spec => []TypeOK
<1>1. TypeInv => TypeOK
    BY DEF TypeInv
<1>. QED BY <1>1, TypeInvInit, TypeInvNext, PTL DEF Spec

-----------------------------------------------------------------------------
(* The layout of a document.                                               *)

(* What IsDocument says of two callbacks and of the plain start tags.      *)
LEMMA LayoutFacts ==
    ASSUME doc \in Documents
    PROVE  /\ \A b, c \in Callback :
                 b < c => /\ Ready[b] <= Ready[c]
                          /\ \/ Last[b] <= First[c]
                             \/ /\ First[b] = First[c] /\ Last[b] = Last[c]
                                /\ Kind[b] # "text" /\ Kind[c] # "text"
           /\ \A c \in Callback : Kind[c] = "text" => Ready[c] = First[c] + 1
           /\ \A c \in Plain : /\ Kind[c] = "start"
                               /\ Ready[c] = Last[c] /\ First[c] + 3 <= Last[c]
           /\ \A b \in Plain, c \in Callback : First[b] = First[c] => b = c
           /\ BadFrom \in Nat /\ BadAt \in Nat /\ BadFrom < BadAt
           /\ RootEnd \in Nat /\ DocSize \in Nat
<1>1. IsDocument(doc)
    BY DocumentAssumption
<1>2. \A b, c \in Callback :
         b < c => /\ Ready[b] <= Ready[c]
                  /\ \/ Last[b] <= First[c]
                     \/ /\ First[b] = First[c] /\ Last[b] = Last[c]
                        /\ Kind[b] # "text" /\ Kind[c] # "text"
    BY <1>1 DEF IsDocument, N, Kind, First, Ready, Last, Callback
<1>3. /\ \A c \in Callback : Kind[c] = "text" => Ready[c] = First[c] + 1
      /\ \A c \in Plain : /\ Kind[c] = "start"
                          /\ Ready[c] = Last[c] /\ First[c] + 3 <= Last[c]
    BY <1>1 DEF IsDocument, N, Kind, First, Ready, Last, Plain, Callback
<1>4. \A b \in Plain, c \in Callback : First[b] = First[c] => b = c
    BY <1>1 DEF IsDocument, N, First, Plain, Callback
<1>5. /\ BadFrom \in Nat /\ BadAt \in Nat /\ BadFrom < BadAt
      /\ RootEnd \in Nat /\ DocSize \in Nat
    BY <1>1 DEF IsDocument, BadFrom, BadAt, RootEnd, DocSize
<1>. QED BY <1>2, <1>3, <1>4, <1>5

(* A step that keeps the document keeps its layout.                        *)
LEMMA SameLayout ==
    ASSUME UNCHANGED doc
    PROVE  /\ Callback' = Callback /\ Kind' = Kind /\ First' = First
           /\ Ready' = Ready /\ Last' = Last /\ Plain' = Plain
           /\ BadFrom' = BadFrom /\ BadAt' = BadAt /\ RootEnd' = RootEnd
BY DEF Callback, N, Kind, First, Ready, Last, Plain, BadFrom, BadAt, RootEnd

(* Two callbacks whose bytes overlap come from the same token.             *)
LEMMA OverlapIsOneToken ==
    ASSUME doc \in Documents, NEW b \in Callback, NEW c \in Callback,
           First[b] < Last[c], First[c] < Last[b]
    PROVE  First[b] = First[c] /\ Last[b] = Last[c]
<1>1. b \in Int /\ c \in Int
    BY DocumentFacts DEF Callback
<1>2. /\ First[b] \in Nat /\ First[c] \in Nat
      /\ Last[b] \in Nat /\ Last[c] \in Nat
    BY DocumentFacts
<1>3. CASE b < c
    BY <1>2, <1>3, LayoutFacts
<1>4. CASE c < b
    BY <1>2, <1>4, LayoutFacts
<1>5. CASE b = c
    BY <1>5
<1>. QED BY <1>1, <1>3, <1>4, <1>5

(* Callbacks that begin together end together.                             *)
LEMMA SameFirstSameLast ==
    ASSUME doc \in Documents, NEW b \in Callback, NEW c \in Callback,
           First[b] = First[c]
    PROVE  Last[b] = Last[c]
<1>1. First[b] < Last[b] /\ First[c] < Last[c]
    BY DocumentFacts
<1>. QED BY <1>1, OverlapIsOneToken

(* incomplete_markup_prefix_start is the start of an unfinished token.     *)
LEMMA IncompleteStartFacts ==
    ASSUME doc \in Documents, NEW b \in Nat, IncompleteStart(b) > 0
    PROVE  /\ IncompleteStart(b) - 1 < b
           /\ TokenAt(IncompleteStart(b)) # {}
           /\ \A c \in TokenAt(IncompleteStart(b)) : b < Last[c]
<1>1. Unfinished(b) # {}
    BY DEF IncompleteStart
<1>2. PICK u \in Unfinished(b) : IncompleteStart(b) = First[u] + 1
    BY <1>1 DEF IncompleteStart
<1>3. /\ u \in Callback /\ Kind[u] # "text" /\ First[u] < b /\ b < Last[u]
      /\ First[u] \in Nat
    BY <1>2, DocumentFacts DEF Unfinished
<1>4. u \in TokenAt(IncompleteStart(b))
    BY <1>2, <1>3 DEF TokenAt
<1>5. ASSUME NEW c \in TokenAt(IncompleteStart(b))
      PROVE  b < Last[c]
    <2>1. c \in Callback /\ First[c] = First[u]
        BY <1>2, <1>3, DocumentFacts DEF TokenAt
    <2>. QED BY <1>3, <2>1, SameFirstSameLast
<1>. QED BY <1>2, <1>3, <1>4, <1>5

(* markup_prefix_end is the end of the token, once it is there.            *)
LEMMA MarkupEndFacts ==
    ASSUME doc \in Documents, NEW s \in Nat, NEW b \in Nat
    PROVE  \A c \in TokenAt(s) :
              /\ MarkupEnd(s, b) > 0 => MarkupEnd(s, b) = Last[c]
              /\ MarkupEnd(s, b) = 0 => b < Last[c]
<1>. SUFFICES ASSUME NEW c \in TokenAt(s)
              PROVE  /\ MarkupEnd(s, b) > 0 => MarkupEnd(s, b) = Last[c]
                     /\ MarkupEnd(s, b) = 0 => b < Last[c]
    OBVIOUS
<1>1. \A d \in TokenAt(s) : d \in Callback /\ First[d] = First[c]
    BY DocumentFacts DEF TokenAt
<1>2. \A d \in TokenAt(s) : Last[d] = Last[c] /\ Last[d] \in Nat /\ Last[d] > 0
    BY <1>1, SameFirstSameLast, DocumentFacts
<1>3. CASE \E d \in TokenAt(s) : Last[d] <= b
    BY <1>2, <1>3 DEF MarkupEnd
<1>4. CASE ~\E d \in TokenAt(s) : Last[d] <= b
    <2>1. MarkupEnd(s, b) = 0 /\ ~(Last[c] <= b)
        BY <1>4 DEF MarkupEnd
    <2>. QED BY <1>2, <2>1
<1>. QED BY <1>3, <1>4

-----------------------------------------------------------------------------
(* The deferral of reparses.                                               *)

(* The bytes a pass parses: all, or those before the deferred token.       *)
Bound == IF deferStart > 0 THEN deferStart - 1 ELSE buffer

(* What a deferral that lasted until now remembers of its token.           *)
TokenIsDeferred ==
    /\ deferStart > 0 =>
          /\ deferStart - 1 < buffer
          /\ TokenAt(deferStart) # {}
          /\ \A c \in TokenAt(deferStart) :
                Last[c] <= buffer => buffer - Last[c] < Last[c] - First[c]
    /\ deferEnd > 0 =>
          /\ deferStart > 0
          /\ \A c \in TokenAt(deferStart) : Last[c] = deferEnd

(* What a call in progress has decided.                                    *)
CallIsDecided ==
    pc # "idle" => /\ extent = Bound
                   /\ finalBuffer => deferStart = 0
                   /\ PlainTag(deferStart, buffer) = {}

DeferInv ==
    /\ TokenIsDeferred
    /\ CallIsDecided
    /\ pc = "direct" => deferStart = 0
    /\ plainText => deferStart = 0

(* Without a deferred token there is nothing to say.                       *)
LEMMA NothingDeferred ==
    ASSUME doc' \in Documents, UNCHANGED doc, deferStart' = 0, deferEnd' = 0
    PROVE  TokenIsDeferred' /\ (PlainTag(deferStart, buffer) = {})' /\ Bound' = buffer'
<1>1. \A c \in Plain : First[c] + 1 # 0
    BY DocumentFacts
<1>. QED BY <1>1 DEF TokenIsDeferred, PlainTag, Bound, Plain, First, Last

(* should_defer_reparse_callbacks decides on a token, and leaves a plain   *)
(* start tag that has come to the caller.                                  *)
LEMMA DefersFacts ==
    ASSUME TypeOK, TokenIsDeferred, NEW n \in Nat, NEW final, NEW tight \in BOOLEAN,
           Defers(buffer + n, final, tight)
    PROVE  LET b == buffer + n
               s == DeferredStart(b) IN
           /\ s \in Nat /\ s > 0 /\ s - 1 < b /\ TokenAt(s) # {} /\ ~final
           /\ \A c \in TokenAt(s) :
                 /\ Last[c] <= b => b - Last[c] < Last[c] - First[c]
                 /\ DeferredEnd(b) > 0 => Last[c] = DeferredEnd(b)
           /\ PlainTag(s, b) = {}
<1> DEFINE b == buffer + n
<1> DEFINE s == DeferredStart(b)
<1> DEFINE e == DeferredEnd(b)
<1>1. b \in Nat /\ s \in Nat /\ e \in Nat
    BY DeferralTypes DEF TypeOK
<1>2. s > 0 /\ ~final
    BY DEF Defers
<1>3. s - 1 < b /\ TokenAt(s) # {}
    <2>1. CASE deferStart > 0
        BY <2>1 DEF TokenIsDeferred, DeferredStart, TypeOK
    <2>2. CASE ~(deferStart > 0)
        BY <1>1, <1>2, <2>2, IncompleteStartFacts DEF DeferredStart, TypeOK
    <2>. QED BY <2>1, <2>2
<1>4. \A c \in TokenAt(s) : /\ e > 0 => Last[c] = e
                            /\ e = 0 => b < Last[c]
    <2>1. CASE deferEnd > 0
        BY <1>1, <2>1 DEF TokenIsDeferred, DeferredStart, DeferredEnd
    <2>2. CASE ~(deferEnd > 0)
        <3>1. e = MarkupEnd(s, b)
            BY <2>2 DEF DeferredEnd
        <3>. QED BY <1>1, <3>1, MarkupEndFacts DEF TypeOK
    <2>. QED BY <2>1, <2>2
<1>5. \A c \in TokenAt(s) : Last[c] \in Nat /\ First[c] \in Nat /\ s = First[c] + 1
    BY DocumentFacts DEF TokenAt, TypeOK
<1>6. ASSUME NEW c \in TokenAt(s), Last[c] <= b
      PROVE  b - Last[c] < Last[c] - First[c]
    <2>1. e # 0 /\ Last[c] = e
        BY <1>1, <1>4, <1>5, <1>6
    <2>2. b - e < e - s + 1
        BY <2>1 DEF Defers
    <2>. QED BY <1>1, <1>5, <2>1, <2>2
<1>7. PlainTag(s, b) = {}
    <2>1. CASE e = 0
        <3>1. \A c \in Plain : First[c] + 1 = s => c \in TokenAt(s)
            BY DocumentFacts, LayoutFacts DEF TokenAt, TypeOK
        <3>2. \A c \in Plain : First[c] + 1 = s => ~(Last[c] <= b)
            BY <1>1, <1>4, <1>5, <2>1, <3>1
        <3>. QED BY <3>2 DEF PlainTag
    <2>2. CASE e # 0
        BY <2>2 DEF Defers
    <2>. QED BY <2>1, <2>2
<1>. QED BY <1>1, <1>2, <1>3, <1>4, <1>6, <1>7

(* A call that parses decides anew.                                        *)
LEMMA StartPassDecides ==
    ASSUME TypeOK, TokenIsDeferred, NEW n \in Nat, NEW final \in BOOLEAN,
           StartPass(n, final), finalBuffer' = final, UNCHANGED doc
    PROVE  /\ DeferInv'
           /\ pc' = "direct" => deferStart' = 0 /\ ~final /\ at' \in ReadyTag(buffer')
                                /\ EmitsDirectly(at', buffer')
           /\ pc' = "pass" => at' = 1
           /\ pc' \in {"direct", "pass"}
           /\ deferStart' > 0 => deferStart' = DeferredStart(buffer')
           /\ extent' = Bound'
<1>1. PICK tight \in BOOLEAN :
          LET b == buffer + n
              defers == Defers(b, final, tight)
              direct == IF defers \/ final THEN {}
                        ELSE {c \in ReadyTag(b) : EmitsDirectly(c, b)} IN
          /\ deferStart' = IF defers THEN DeferredStart(b) ELSE 0
          /\ deferEnd' = IF defers THEN DeferredEnd(b) ELSE 0
          /\ extent' = IF defers THEN DeferredStart(b) - 1 ELSE b
          /\ IF direct = {} THEN pc' = "pass" /\ at' = 1
             ELSE pc' = "direct" /\ at' \in direct
    BY DEF StartPass
<1>2. buffer' = buffer + n /\ plainText' = FALSE
    BY DEF StartPass
<1>3. CASE Defers(buffer + n, final, tight)
    <2>1. /\ deferStart' = DeferredStart(buffer + n)
          /\ deferEnd' = DeferredEnd(buffer + n)
          /\ extent' = DeferredStart(buffer + n) - 1
          /\ pc' = "pass" /\ at' = 1
        BY <1>1, <1>3
    <2>2. TokenIsDeferred'
        BY <1>2, <1>3, <2>1, DefersFacts DEF TokenIsDeferred, TokenAt, Callback, Kind,
           First, Last, N
    <2>3. (PlainTag(deferStart, buffer) = {})'
        BY <1>2, <1>3, <2>1, DefersFacts DEF PlainTag, Plain, First, Last
    <2>4. ~final /\ deferStart' \in Nat /\ deferStart' > 0
        BY <1>3, <2>1, DefersFacts
    <2>5. extent' = Bound'
        BY <2>1, <2>4 DEF Bound
    <2>. QED BY <1>2, <2>1, <2>2, <2>3, <2>4, <2>5 DEF DeferInv, CallIsDecided
<1>4. CASE ~Defers(buffer + n, final, tight)
    <2>1. /\ deferStart' = 0 /\ deferEnd' = 0 /\ extent' = buffer + n
          /\ \/ pc' = "pass" /\ at' = 1
             \/ /\ pc' = "direct" /\ ~final
                /\ at' \in ReadyTag(buffer + n) /\ EmitsDirectly(at', buffer + n)
        BY <1>1, <1>4
    <2>2. doc' \in Documents
        BY DEF TypeOK
    <2>3. TokenIsDeferred' /\ (PlainTag(deferStart, buffer) = {})' /\ Bound' = buffer'
        BY <2>1, <2>2, NothingDeferred
    <2>. QED BY <1>2, <2>1, <2>3 DEF DeferInv, CallIsDecided
<1>. QED BY <1>3, <1>4

(* A wait adds bytes that the deferred token does not end in.              *)
LEMMA WaitKeepsDeferral ==
    ASSUME TypeOK, DeferInv, NEW n \in Nat, NEW final \in BOOLEAN, pc = "idle",
           Wait(n, final), UNCHANGED doc
    PROVE  DeferInv'
<1>1. /\ buffer' = buffer + n /\ buffer \in Nat /\ deferStart \in Nat
      /\ UNCHANGED <<deferStart, deferEnd, plainText, pc>>
    BY DEF Wait, TypeOK, callVars
<1>2. ASSUME deferStart > 0, NEW c \in TokenAt(deferStart), Last[c] <= buffer'
      PROVE  buffer' - Last[c] < Last[c] - First[c]
    <2>1. /\ c \in Callback /\ First[c] \in Nat /\ Last[c] \in Nat
          /\ First[c] + 1 = deferStart
        BY DocumentFacts DEF TokenAt, TypeOK
    <2>2. First[c] < buffer
        BY <1>1, <1>2, <2>1 DEF DeferInv, TokenIsDeferred
    <2>3. CASE n = 0
        <3>1. Last[c] <= buffer => buffer - Last[c] < Last[c] - First[c]
            BY <1>2 DEF DeferInv, TokenIsDeferred
        <3>. QED BY <1>1, <1>2, <2>1, <2>3, <3>1
    <2>4. CASE n # 0
        <3>1. ~InSignature(buffer + n) /\ ~OnlyText(n)
            BY <1>1, <1>2, <2>1, <2>2, <2>4 DEF InSignature, OnlyText, DeferInv
        <3>2. OnlySpaces(buffer + n) \/ InDoctype(buffer + n)
            BY <3>1 DEF Wait, Waits
        <3>3. PICK d \in Callback : First[d] = 0 /\ buffer + n < Last[d]
            BY <3>2, DocumentFacts DEF OnlySpaces, InDoctype, TypeOK
        <3>4. Last[d] = Last[c]
            <4>0. doc \in Documents
                BY DEF TypeOK
            <4>1. Last[d] \in Nat /\ First[c] < Last[c]
                BY <2>1, <3>3, <4>0, DocumentFacts
            <4>2. First[d] < Last[c] /\ First[c] < Last[d]
                BY <1>1, <2>1, <2>2, <3>3, <4>1
            <4>. QED BY <2>1, <4>0, <4>2, OverlapIsOneToken
        <3>. QED BY <1>1, <1>2, <2>1, <3>3, <3>4
    <2>. QED BY <2>3, <2>4
<1>3. deferStart > 0 => deferStart - 1 < buffer + n
    BY <1>1 DEF DeferInv, TokenIsDeferred
<1>4. TokenIsDeferred'
    <2>1. TokenAt(deferStart)' = TokenAt(deferStart) /\ Last' = Last /\ First' = First
        BY <1>1, SameLayout DEF TokenAt
    <2>2. /\ deferStart > 0 => TokenAt(deferStart) # {}
          /\ deferEnd > 0 => /\ deferStart > 0
                             /\ \A c \in TokenAt(deferStart) : Last[c] = deferEnd
        BY DEF DeferInv, TokenIsDeferred
    <2>3. (deferStart > 0 =>
              /\ deferStart - 1 < buffer
              /\ TokenAt(deferStart) # {})'
        BY <1>1, <1>3, <2>1, <2>2
    <2>4. (deferStart > 0 => \A c \in TokenAt(deferStart) :
             Last[c] <= buffer => buffer - Last[c] < Last[c] - First[c])'
        BY <1>1, <1>2, <2>1
    <2>5. (deferEnd > 0 => /\ deferStart > 0
                             /\ \A c \in TokenAt(deferStart) : Last[c] = deferEnd)'
        BY <1>1, <2>1, <2>2
    <2>. QED BY <2>3, <2>4, <2>5 DEF TokenIsDeferred
<1>. QED BY <1>1, <1>4 DEF DeferInv, CallIsDecided

(* The prefix that a plain root start tag ends has no deferred token.      *)
LEMMA RootTagEndsDeferral ==
    ASSUME TypeOK, DeferInv, pc # "idle",
           NEW c \in PlainTag(1, buffer), Last[c] = buffer
    PROVE  deferStart = 0
<1>. SUFFICES ASSUME deferStart # 0 PROVE FALSE
    OBVIOUS
<1>1. /\ c \in Plain /\ c \in Callback /\ First[c] = 0
      /\ deferStart \in Nat /\ deferStart > 0 /\ buffer \in Nat
    BY DocumentFacts DEF PlainTag, TypeOK
<1>2. PICK d \in TokenAt(deferStart) : d \in Callback
    BY <1>1 DEF DeferInv, TokenIsDeferred, TokenAt
<1>3. First[d] + 1 = deferStart /\ First[d] < Last[c] /\ First[c] < Last[d]
    <2>1. First[d] + 1 = deferStart /\ First[d] \in Nat /\ Last[d] \in Nat /\ First[d] < Last[d]
        BY <1>2, DocumentFacts DEF TokenAt, TypeOK
    <2>2. deferStart - 1 < buffer
        BY <1>1 DEF DeferInv, TokenIsDeferred
    <2>. QED BY <1>1, <2>1, <2>2
<1>4. First[c] = First[d]
    BY <1>1, <1>2, <1>3, OverlapIsOneToken DEF TypeOK
<1>5. c \in PlainTag(deferStart, buffer)
    BY <1>1, <1>3, <1>4 DEF PlainTag
<1>. QED BY <1>5 DEF DeferInv, CallIsDecided

LEMMA DeferInvInit == Init => DeferInv
BY DEF Init, DeferInv, TokenIsDeferred, CallIsDecided

(* A pass and its callbacks leave the deferral alone.                      *)
LEMMA PassKeepsDeferral ==
    ASSUME DeferInv, UNCHANGED doc, Direct \/ PassUnobserved \/ PassReplayed \/ PassDelivered \/ PassEnds
    PROVE  DeferInv'
<1>1. /\ UNCHANGED <<buffer, finalBuffer, deferStart, deferEnd, plainText, extent>>
      /\ pc # "idle" /\ pc' # "direct"
    BY DEF Direct, PassUnobserved, PassReplayed, PassDelivered, PassEnds, passVars,
       AtCallback, GoOnUnlessStopped
<1>. QED BY <1>1 DEF DeferInv, TokenIsDeferred, CallIsDecided, TokenAt, PlainTag, Bound,
            Callback, Kind, First, Last, Plain, N

(* Where the replay state is cleared there is no deferred token.           *)
LEMMA ClearReplayClearsDeferral ==
    ASSUME doc \in Documents, UNCHANGED doc, ClearReplay, pc' = "idle"
    PROVE  DeferInv'
BY NothingDeferred DEF ClearReplay, DeferInv, CallIsDecided

(* A return keeps the deferred token or clears it.                         *)
LEMMA ReturnKeepsDeferral ==
    ASSUME TypeOK, DeferInv, UNCHANGED doc,
           ReturnSuspended \/ ReturnOk \/ ReturnFinished \/ ReturnError
    PROVE  DeferInv'
<1>1. CASE ReturnSuspended
    BY <1>1 DEF DeferInv, ReturnSuspended, TokenIsDeferred, CallIsDecided, TokenAt,
       Callback, Kind, First, Last, N, Idle
<1>2. CASE ReturnOk
    <2>1. plainText' => deferStart' = 0
        BY <1>2, RootTagEndsDeferral DEF ReturnOk
    <2>. QED BY <1>2, <2>1
             DEF DeferInv, ReturnOk, TokenIsDeferred, CallIsDecided, TokenAt,
                 Callback, Kind, First, Last, N, Idle
<1>3. CASE ReturnFinished \/ ReturnError
    BY <1>3, ClearReplayClearsDeferral DEF ReturnFinished, ReturnError, Idle, TypeOK
<1>. QED BY <1>1, <1>2, <1>3

(* A call is refused, waits or decides anew.                               *)
LEMMA CallKeepsDeferral ==
    ASSUME TypeOK, DeferInv, pc = "idle", NEW n \in Nat, NEW final \in BOOLEAN,
           Call(n, final), UNCHANGED doc
    PROVE  DeferInv'
<1>1. CASE Refuse(n)
    BY <1>1, ClearReplayClearsDeferral DEF Refuse, callVars, TypeOK
<1>2. CASE Wait(n, final)
    BY <1>2, WaitKeepsDeferral
<1>3. CASE StartPass(n, final)
    BY <1>3, StartPassDecides DEF Call, DeferInv
<1>. QED BY <1>1, <1>2, <1>3 DEF Call

(* Every step keeps what is known of the deferred token.                   *)
LEMMA DeferInvNext == TypeOK /\ DeferInv /\ [Next]_vars => DeferInv'
<1>. SUFFICES ASSUME TypeOK, DeferInv, [Next]_vars PROVE DeferInv'
    OBVIOUS
<1>0. UNCHANGED doc
    BY DocumentStays
<1>1. CASE InCall
    BY <1>0, <1>1, PassKeepsDeferral, ReturnKeepsDeferral DEF InCall
<1>2. ASSUME NEW n \in Chunks, NEW final \in BOOLEAN, XML_Parse(n, final)
      PROVE  DeferInv'
    <2>1. n \in Nat
        BY DocumentFacts DEF TypeOK
    <2>. QED BY <1>0, <1>2, <2>1, CallKeepsDeferral DEF XML_Parse
<1>3. CASE XML_ResumeParser
    BY <1>0, <1>3, CallKeepsDeferral DEF XML_ResumeParser, TypeOK
<1>4. CASE StopBetweenCalls \/ SetHandlers \/ XML_SetReparseDeferralEnabled
    BY <1>0, <1>4
    DEF StopBetweenCalls, SetHandlers, XML_SetReparseDeferralEnabled, nativeVars,
        callVars, DeferInv, TokenIsDeferred, CallIsDecided, TokenAt, PlainTag, Bound,
        Callback, Kind, First, Last, Plain, N
<1>5. CASE XML_ParserReset
    BY <1>0, <1>5, ClearReplayClearsDeferral DEF XML_ParserReset, callVars, TypeOK
<1>6. CASE UNCHANGED vars
    BY <1>6 DEF vars, DeferInv, TokenIsDeferred, CallIsDecided, TokenAt, PlainTag,
       Bound, Callback, Kind, First, Last, Plain, N
<1>. QED BY <1>1, <1>2, <1>3, <1>4, <1>5, <1>6 DEF Next

(* deferred_reparse_start_index: whatever the application does, a finished *)
(* token is deferred only until its own length of bytes has followed it.   *)
THEOREM DeferralBounded == Spec => []DeferralIsBounded
<1>1. TypeInv => TypeOK
    BY DEF TypeInv
<1>2. DeferInv => DeferralIsBounded
    BY DEF DeferInv, TokenIsDeferred, DeferralIsBounded
<1>. QED BY <1>1, <1>2, TypeInvInit, TypeInvNext, DeferInvInit, DeferInvNext, PTL
         DEF Spec


-----------------------------------------------------------------------------
(* The inductive invariant.                                                *)

(* The number of callbacks the application has had, if k was the last.     *)
Had(k) == Cardinality({c \in Registered : c <= k})

(* The larger of what the pass numbered and what was delivered before.     *)
Reached == IF sequence > delivered THEN sequence ELSE delivered

(* Can the handle still take input without a reset?                        *)
Open == ~failed /\ (pc # "idle" \/ parsing # "FINISHED")

(* Does the application have all it registered for in the first b bytes?   *)
HasAll(b) ==
    \A c \in Registered :
        Seen(c, b) => c < given.cb \/ (c = given.cb /\ given.to = Reported(c, b))

(* The parsing status and the stop flags go with the place in the call.    *)
StatusInv ==
    /\ pc \in {"direct", "pass"} => parsing = "PARSING" /\ ~stopRequested
    /\ pc = "return" =>
          \/ result = "OK" /\ parsing = "PARSING" /\ ~stopRequested
          \/ /\ result = "SUSPENDED" /\ parsing = "SUSPENDED"
             /\ stopRequested /\ stopResumable /\ ~failed
          \/ result = "ERROR" /\ parsing = "PARSING" /\ ~stopRequested
          \/ /\ result = "ERROR" /\ parsing = "FINISHED"
             /\ stopRequested /\ ~stopResumable /\ ~failed
    /\ stopRequested /\ ~stopResumable => parsing = "FINISHED"
    /\ parsing = "INITIALIZED" =>
          /\ pc = "idle" /\ ~failed /\ ~stopRequested
          /\ buffer = 0 /\ delivered = 0 /\ deferStart = 0
          /\ supplied = 0 /\ given = Nothing

(* input_buffer holds all that was supplied, until it is cleared.          *)
BufferInv ==
    /\ buffer <= MaxInput /\ buffer < doc.amplifiedAt
    /\ buffer <= supplied /\ supplied <= DocSize
    /\ Open => buffer = supplied
    /\ failed => buffer = 0

(* A tag that goes out without a parse ends the input.                     *)
DirectInv ==
    pc = "direct" => /\ at \in Plain /\ Last[at] = buffer
                     /\ "start" \in slots /\ "text" \notin slots
                     /\ ~finalBuffer

(* The last callback is one of those that the input so far contains.       *)
GivenInv ==
    given.cb > 0 => /\ given.cb \in Registered
                    /\ Seen(given.cb, supplied)
                    /\ given.to > 0 /\ given.to <= Reported(given.cb, supplied)

(* The callbacks are counted: between calls in delivered, in a pass in the *)
(* larger of the two counts, at a suspension in lastSuspend.               *)
CountInv ==
    ~failed =>
        /\ Live \/ pc = "direct" => delivered = Had(given.cb)
        /\ pc = "direct" => /\ given.cb < at
                            /\ \A c \in Registered : c <= given.cb \/ c >= at
        /\ pc = "pass" => /\ suppress = delivered /\ sequence = Had(at - 1)
                          /\ Had(given.cb) = Reached
        /\ pc = "return" /\ result = "OK" => Had(given.cb) = Reached
        /\ pc = "return" /\ result = "SUSPENDED" => Had(given.cb) = lastSuspend

(* lengths has the text the application has had, and a pass has gone over  *)
(* no text that the application does not have.                             *)
LengthsInv ==
    Open => \A c \in Registered : Kind[c] = "text" =>
        /\ c < given.cb => lengths[Had(c)] = Whole(c)
        /\ c = given.cb => lengths[Had(c)] = given.to
        /\ pc = "pass" /\ c < at => lengths[Had(c)] >= Reported(c, extent)

(* Nothing is held back but what follows the start of a deferred token;    *)
(* and a deferred plain start tag is one the application has not had.      *)
HeldInv ==
    ~failed =>
        /\ pc = "return" /\ ~stopRequested =>
              /\ HasAll(extent)
              /\ result = "OK" <=> Accepts(extent, finalBuffer)
        /\ Live /\ parsing = "PARSING" => HasAll(Bound)
        /\ Live /\ deferStart > 0 =>
              HasAll(deferStart - 1) \/ PlainTag(deferStart, buffer) = {}
        /\ deferStart > 0 =>
              \A c \in Plain : First[c] + 1 = deferStart => given.cb < c

-----------------------------------------------------------------------------
(* What a parse of a longer prefix makes.                                  *)

(* What LayoutAssumption says of the document.                             *)
LEMMA TokenFacts ==
    ASSUME doc \in Documents
    PROVE  /\ \A c \in Callback :
                 /\ Ready[c] > 1
                 /\ \/ BadAt <= Ready[c]
                    \/ /\ Ready[c] <= BadFrom
                       /\ Kind[c] = "text" => Last[c] <= BadFrom
           /\ \A b, c \in Callback :
                 Kind[b] = "doctype" /\ First[b] = First[c] =>
                     Kind[c] \in {"doctype", "comment"}
BY LayoutAssumption DEF Callback, N, Ready, BadAt, BadFrom, Kind, First, Last

(* A callback is made from a prefix that holds its first bytes, when the   *)
(* token that is not well formed comes after them.                         *)
LEMMA SeenFacts ==
    ASSUME doc \in Documents, NEW c \in Callback, NEW b \in Nat
    PROVE  /\ Seen(c, b) <=> Ready[c] <= b /\ Ready[c] <= BadFrom
           /\ Seen(c, b) /\ Kind[c] = "text" => Last[c] <= BadFrom
<1>1. Ready[c] \in Nat /\ BadFrom \in Nat /\ BadAt \in Nat
    BY DocumentFacts, LayoutFacts
<1>2. BadAt <= Ready[c] \/ (Ready[c] <= BadFrom /\ (Kind[c] = "text" => Last[c] <= BadFrom))
    BY TokenFacts
<1>. QED BY <1>1, <1>2, LayoutFacts DEF Seen

(* The callbacks are made in their order.                                  *)
LEMMA SeenInOrder ==
    ASSUME doc \in Documents, NEW c \in Callback, NEW d \in Callback, NEW b \in Nat,
           c < d, Seen(d, b)
    PROVE  Seen(c, b)
<1>1. /\ Ready[c] \in Nat /\ Ready[d] \in Nat /\ BadFrom \in Nat
      /\ Ready[c] <= Ready[d]
    BY DocumentFacts, LayoutFacts
<1>. QED BY <1>1, SeenFacts

(* What a prefix makes a longer prefix makes too, with more of the text.   *)
LEMMA SeenGrows ==
    ASSUME doc \in Documents, NEW c \in Callback, NEW b \in Nat, NEW b2 \in Nat,
           b <= b2, Seen(c, b)
    PROVE  /\ Seen(c, b2)
           /\ Reported(c, b) \in Nat /\ Reported(c, b2) \in Nat
           /\ Reported(c, b) <= Reported(c, b2)
           /\ Reported(c, b2) <= Whole(c) /\ Whole(c) \in Nat
           /\ Reported(c, b2) <= b2
           /\ Kind[c] # "text" => Reported(c, b) = 1 /\ Whole(c) = 1
<1>1. /\ Ready[c] \in Nat /\ BadFrom \in Nat /\ First[c] \in Nat /\ Last[c] \in Nat
      /\ First[c] < Ready[c] /\ Ready[c] <= Last[c] /\ Ready[c] <= b
    BY DocumentFacts, LayoutFacts, SeenFacts
<1>2. Seen(c, b2)
    BY <1>1, SeenFacts
<1>3. CASE Kind[c] = "text"
    BY <1>1, <1>2, <1>3 DEF Reported, Whole
<1>4. CASE Kind[c] # "text"
    BY <1>1, <1>2, <1>4 DEF Reported, Whole
<1>. QED BY <1>3, <1>4

(* Text is complete where the callback of a later token is made.           *)
LEMMA TextBefore ==
    ASSUME doc \in Documents, NEW c \in Callback, NEW d \in Callback, NEW b \in Nat,
           c < d, First[d] <= b
    PROVE  Reported(c, b) = Whole(c)
<1>1. /\ First[c] \in Nat /\ Last[c] \in Nat /\ First[d] \in Nat
    BY DocumentFacts
<1>2. Kind[c] = "text" => Last[c] <= First[d]
    BY LayoutFacts
<1>. QED BY <1>1, <1>2 DEF Reported, Whole

(* Text that is made from the bytes before a token is complete there.      *)
LEMMA TextBeforeToken ==
    ASSUME doc \in Documents, NEW c \in Callback, NEW d \in Callback,
           Seen(c, First[d])
    PROVE  c < d /\ Reported(c, First[d]) = Whole(c)
<1>1. /\ First[d] \in Nat /\ First[c] \in Nat /\ Ready[c] \in Nat /\ Last[d] \in Nat
      /\ First[c] < Ready[c] /\ First[d] < Last[d]
    BY DocumentFacts
<1>2. Ready[c] <= First[d]
    BY <1>1, SeenFacts
<1>3. c # d /\ ~(d < c)
    BY <1>1, <1>2, LayoutFacts
<1>4. c < d
    BY <1>3, DocumentFacts DEF Callback
<1>. QED BY <1>1, <1>4, TextBefore

-----------------------------------------------------------------------------
(* The callbacks the application has had.                                  *)

(* They are numbered without gaps.                                         *)
LEMMA HadFacts ==
    ASSUME doc \in Documents
    PROVE  /\ \A k \in Nat : Had(k) \in Nat /\ Had(k) <= k
           /\ Had(0) = 0
           /\ \A k \in Callback :
                 Had(k) = IF k \in Registered THEN Had(k - 1) + 1 ELSE Had(k - 1)
<1> DEFINE Upto(k) == {c \in Registered : c <= k}
<1>1. N \in Nat /\ \A c \in Registered : c \in Nat /\ 1 <= c /\ c <= N
    BY DocumentFacts DEF Registered, Callback
<1>2. ASSUME NEW k \in Nat
      PROVE  IsFiniteSet(Upto(k)) /\ Had(k) \in Nat /\ Had(k) <= k
    <2>1. IsFiniteSet(1..k) /\ Cardinality(1..k) = k
        BY FS_Interval
    <2>2. Upto(k) \in SUBSET (1..k)
        <3>1. \A c \in Upto(k) : c \in 1..k
            BY <1>1
        <3>. QED BY <3>1
    <2>3. IsFiniteSet(Upto(k)) /\ Cardinality(Upto(k)) <= k
        BY <2>1, <2>2, FS_Subset
    <2>. QED BY <2>3, FS_CardinalityType DEF Had
<1>3. Had(0) = 0
    <2>1. 0 \in Nat /\ Had(0) \in Nat /\ Had(0) <= 0
        BY <1>2
    <2>. QED BY <2>1
<1>4. ASSUME NEW k \in Callback
      PROVE  Had(k) = IF k \in Registered THEN Had(k - 1) + 1 ELSE Had(k - 1)
    <2>1. k \in Nat /\ k - 1 \in Nat
        BY <1>1 DEF Callback
    <2>2. CASE k \in Registered
        <3>1. Upto(k) = Upto(k - 1) \cup {k} /\ k \notin Upto(k - 1)
            <4>1. \A c \in Registered : c <= k <=> c <= k - 1 \/ c = k
                BY <1>1, <2>1
            <4>2. ~(k <= k - 1)
                BY <2>1
            <4>. QED BY <2>1, <2>2, <4>1, <4>2
        <3>2. Cardinality(Upto(k)) = Cardinality(Upto(k - 1)) + 1
            BY <1>2, <2>1, <3>1, FS_AddElement
        <3>. QED BY <2>2, <3>2 DEF Had
    <2>3. CASE k \notin Registered
        <3>1. Upto(k) = Upto(k - 1)
            <4>1. \A c \in Registered : c <= k <=> c <= k - 1
                BY <1>1, <2>1, <2>3
            <4>. QED BY <4>1
        <3>. QED BY <2>3, <3>1 DEF Had
    <2>. QED BY <2>2, <2>3
<1>. QED BY <1>2, <1>3, <1>4

(* More of the document has more of them, and each counts.                 *)
LEMMA HadGrows ==
    ASSUME doc \in Documents, NEW j \in Nat, NEW k \in Nat, j <= k
    PROVE  /\ Had(j) <= Had(k)
           /\ k \in Registered /\ j < k => Had(j) < Had(k)
           /\ Had(j) = Had(k) => \A c \in Registered : c <= j \/ k < c
<1>1. /\ N \in Nat /\ Callback = 1..N
      /\ \A c \in Registered : c \in Nat /\ 1 <= c /\ c <= N
    BY DocumentFacts DEF Registered, Callback
<1>2. ASSUME NEW i \in Nat, NEW l \in Nat, i <= l
      PROVE  Had(i) <= Had(l)
    <2>1. IsFiniteSet({c \in Registered : c <= l})
        <3>1. IsFiniteSet(1..N)
            BY <1>1, FS_Interval
        <3>2. \A c \in Registered : c \in 1..N
            BY <1>1
        <3>3. {c \in Registered : c <= l} \in SUBSET (1..N)
            BY <3>2
        <3>. QED BY <3>1, <3>3, FS_Subset
    <2>2. {c \in Registered : c <= i} \in SUBSET {c \in Registered : c <= l}
        <3>1. \A c \in Registered : c <= i => c <= l
            BY <1>1, <1>2
        <3>. QED BY <3>1
    <2>. QED BY <2>1, <2>2, FS_Subset DEF Had
<1>3. ASSUME NEW c \in Registered, j < c, c <= k
      PROVE  Had(j) < Had(k)
    <2>1. c \in Nat /\ c - 1 \in Nat /\ c \in Callback
        BY <1>1
    <2>2. Had(j) <= Had(c - 1) /\ Had(c) <= Had(k)
        BY <1>2, <1>3, <2>1
    <2>3. Had(c) = Had(c - 1) + 1
        BY <2>1, HadFacts
    <2>4. Had(j) \in Nat /\ Had(k) \in Nat /\ Had(c - 1) \in Nat
        BY <2>1, HadFacts
    <2>. QED BY <2>2, <2>3, <2>4
<1>4. Had(j) \in Nat /\ Had(k) \in Nat
    BY HadFacts
<1>5. ASSUME Had(j) = Had(k), NEW c \in Registered
      PROVE  c <= j \/ k < c
    BY <1>1, <1>3, <1>4, <1>5
<1>. QED BY <1>1, <1>2, <1>3, <1>5

-----------------------------------------------------------------------------
(* The control of a call.                                                  *)

(* A call is refused only when it brings bytes.                            *)
LEMMA EmptyCallAccepted ==
    ASSUME TypeOK, BufferInv
    PROVE  ~Refuses(0)
<1>1. buffer \in Nat /\ MaxInput \in Nat /\ doc.amplifiedAt \in Nat
    BY ApplicationAssumption DEF TypeOK
<1>. QED BY <1>1 DEF Refuses, BufferInv

(* A pass reads bytes of input_buffer, and a failed parser has none.       *)
LEMMA ExtentFacts ==
    ASSUME TypeOK, DeferInv, BufferInv, pc # "idle"
    PROVE  /\ extent = Bound /\ extent \in Nat /\ buffer \in Nat /\ supplied \in Nat
           /\ extent <= buffer /\ buffer <= supplied
           /\ ~failed => buffer = supplied
           /\ failed => extent = 0
           /\ finalBuffer => extent = buffer
<1>1. /\ extent \in Nat /\ buffer \in Nat /\ supplied \in Nat /\ deferStart \in Nat
    BY DEF TypeOK
<1>2. extent = Bound /\ (deferStart > 0 => deferStart - 1 < buffer)
      /\ (finalBuffer => deferStart = 0)
    BY DEF DeferInv, CallIsDecided, TokenIsDeferred
<1>3. /\ buffer <= supplied /\ (failed => buffer = 0)
      /\ ~failed => buffer = supplied
    BY DEF BufferInv, Open
<1>. QED BY <1>1, <1>2, <1>3 DEF Bound

LEMMA AtCallbackFacts ==
    ASSUME TypeOK, DeferInv, BufferInv, AtCallback
    PROVE  /\ at \in Callback /\ pc = "pass" /\ ~failed
           /\ Seen(at, extent) /\ Seen(at, supplied) /\ buffer = supplied
<1>1. /\ at \in Callback /\ N \in Nat /\ doc \in Documents
      /\ Seen(at, extent) /\ pc = "pass"
    BY DocumentFacts DEF AtCallback, TypeOK, Callback
<1>2. /\ Ready[at] \in Nat /\ Ready[at] > 1
    BY <1>1, DocumentFacts, TokenFacts
<1>3. /\ extent \in Nat /\ supplied \in Nat /\ extent <= supplied
      /\ failed => extent = 0
      /\ ~failed => buffer = supplied
    BY <1>1, ExtentFacts
<1>4. Ready[at] <= extent
    BY <1>1, <1>3, SeenFacts
<1>5. ~failed
    BY <1>2, <1>3, <1>4
<1>6. Seen(at, supplied)
    BY <1>1, <1>3, SeenGrows
<1>. QED BY <1>1, <1>3, <1>5, <1>6

LEMMA StatusInvInit == Init => StatusInv
BY DEF Init, StatusInv

(* A stop changes the parsing status, and a call ends with it.             *)
LEMMA StatusInvInCall ==
    ASSUME Steady, TypeOK, DeferInv, BufferInv, StatusInv, InCall
    PROVE  StatusInv'
<1>1. CASE Direct
    <2>1. UNCHANGED <<stopRequested, stopResumable, parsing>>
        BY <1>1 DEF Direct, Stops, Steady
    <2>. QED BY <1>1, <2>1 DEF Direct, StatusInv
<1>2. CASE PassUnobserved
    BY <1>2 DEF PassUnobserved, AtCallback, GoOnUnlessStopped, StatusInv, passVars
<1>3. CASE PassReplayed
    BY <1>3 DEF PassReplayed, AtCallback, GoOnUnlessStopped, StatusInv, passVars
<1>4. CASE PassEnds
    BY <1>4 DEF PassEnds, StatusInv, passVars
<1>5. CASE ReturnSuspended
    BY <1>5 DEF ReturnSuspended, StatusInv, Idle, returnVars
<1>6. CASE ReturnOk
    BY <1>6 DEF ReturnOk, StatusInv, Idle, returnVars
<1>7. CASE ReturnFinished
    BY <1>7 DEF ReturnFinished, StatusInv, Idle, returnVars
<1>8. CASE ReturnError
    BY <1>8 DEF ReturnError, StatusInv, Idle, returnVars
<1>9. CASE PassDelivered
    <2>1. ~failed
        BY <1>9, AtCallbackFacts DEF PassDelivered
    <2>. QED BY <1>9, <2>1
             DEF PassDelivered, AtCallback, Stops, XML_StopParser, GoOnUnlessStopped,
                 StatusInv, passVars, TypeOK
<1>. QED BY <1>1, <1>2, <1>3, <1>4, <1>5, <1>6, <1>7, <1>8, <1>9 DEF InCall

LEMMA StatusInvNext ==
    Steady /\ TypeOK /\ DeferInv /\ BufferInv /\ StatusInv /\ [Next]_vars => StatusInv'
<1>. SUFFICES ASSUME Steady, TypeOK, DeferInv, BufferInv, StatusInv, [Next]_vars
              PROVE  StatusInv'
    OBVIOUS
<1>1. CASE InCall
    BY <1>1, StatusInvInCall
<1>2. ASSUME NEW n, NEW final, Call(n, final), pc = "idle"
      PROVE  StatusInv'
    BY <1>2 DEF Call, Refuse, Wait, StartPass, StatusInv, callVars
<1>3. CASE XML_ResumeParser \/ \E n \in Chunks, final \in BOOLEAN : XML_Parse(n, final)
    BY <1>2, <1>3 DEF XML_ResumeParser, XML_Parse
<1>4. CASE StopBetweenCalls
    BY <1>4 DEF StopBetweenCalls, XML_StopParser, StatusInv, callVars, nativeVars, TypeOK
<1>5. CASE SetHandlers \/ XML_SetReparseDeferralEnabled
    BY <1>5 DEF SetHandlers, XML_SetReparseDeferralEnabled, StatusInv, cVars, nativeVars,
       callVars
<1>6. CASE XML_ParserReset
    BY <1>6 DEF XML_ParserReset, StatusInv, ClearReplay, callVars, Nothing
<1>7. CASE UNCHANGED vars
    BY <1>7 DEF vars, StatusInv
<1>. QED BY <1>1, <1>3, <1>4, <1>5, <1>6, <1>7 DEF Next

-----------------------------------------------------------------------------
(* The input.                                                              *)

LEMMA BufferInvInit == Steady /\ Init => BufferInv
BY ApplicationAssumption, LayoutFacts DEF Steady, Init, BufferInv

(* Bytes are accepted only where the buffer has room for them.             *)
LEMMA CallKeepsBuffer ==
    ASSUME Steady, TypeOK, StatusInv, BufferInv, pc = "idle", NEW n \in Nat, NEW final,
           Call(n, final), parsing # "FINISHED", failed => n = 0,
           supplied' = supplied + n, supplied + n <= DocSize
    PROVE  BufferInv'
<1>1. /\ buffer \in Nat /\ supplied \in Nat /\ MaxInput \in Nat /\ DocSize \in Nat
      /\ doc.amplifiedAt \in Nat /\ doc.amplifiedAt > 0
    BY ApplicationAssumption, LayoutFacts DEF TypeOK, Steady
<1>2. UNCHANGED doc
    BY DEF Call
<1>3. CASE Refuse(n)
    BY <1>1, <1>2, <1>3 DEF Refuse, ClearReplay, BufferInv, Open, DocSize
<1>4. CASE Wait(n, final) \/ StartPass(n, final)
    <2>1. /\ ~Refuses(n) /\ buffer' = buffer + n /\ failed' = failed
        BY <1>4 DEF Wait, StartPass
    <2>2. buffer' <= MaxInput /\ buffer' < doc.amplifiedAt
        BY <1>1, <2>1 DEF Refuses
    <2>3. ~failed => buffer = supplied
        BY DEF BufferInv, Open
    <2>. QED BY <1>1, <1>2, <2>1, <2>2, <2>3 DEF BufferInv, Open, DocSize
<1>. QED BY <1>3, <1>4 DEF Call

LEMMA BufferInvNext ==
    Steady /\ TypeOK /\ StatusInv /\ BufferInv /\ [Next]_vars => BufferInv'
<1>. SUFFICES ASSUME Steady, TypeOK, StatusInv, BufferInv, [Next]_vars
              PROVE  BufferInv'
    OBVIOUS
<1>0. UNCHANGED doc
    BY DocumentStays
<1>a. /\ buffer \in Nat /\ supplied \in Nat /\ MaxInput \in Nat /\ DocSize \in Nat
      /\ doc.amplifiedAt \in Nat /\ doc.amplifiedAt > 0
    BY ApplicationAssumption, LayoutFacts DEF TypeOK, Steady
<1>1. CASE Direct \/ PassUnobserved \/ PassReplayed \/ PassDelivered \/ PassEnds
    <2>1. UNCHANGED <<buffer, supplied, failed>> /\ pc # "idle"
        BY <1>1 DEF Direct, PassUnobserved, PassReplayed, PassDelivered, PassEnds,
           passVars, AtCallback
    <2>. QED BY <1>0, <2>1 DEF BufferInv, Open, DocSize
<1>2. CASE ReturnSuspended \/ ReturnOk
    <2>1. UNCHANGED <<buffer, supplied, failed>> /\ pc # "idle"
        BY <1>2 DEF ReturnSuspended, ReturnOk, returnVars
    <2>. QED BY <1>0, <2>1 DEF BufferInv, Open, DocSize
<1>3. CASE ReturnFinished \/ ReturnError
    <2>1. /\ buffer' = 0 /\ UNCHANGED supplied /\ pc' = "idle"
          /\ failed' \/ parsing' = "FINISHED"
        BY <1>3 DEF ReturnFinished, ReturnError, returnVars, ClearReplay, Idle
    <2>. QED BY <1>0, <1>a, <2>1 DEF BufferInv, Open, DocSize
<1>4. ASSUME NEW n \in Chunks, NEW final \in BOOLEAN, XML_Parse(n, final)
      PROVE  BufferInv'
    <2>1. n \in Nat
        BY DocumentFacts DEF TypeOK
    <2>. QED BY <1>4, <2>1, CallKeepsBuffer DEF XML_Parse, AcceptsInput
<1>5. CASE XML_ResumeParser
    <2>1. supplied' = supplied + 0 /\ supplied + 0 <= DocSize
        BY <1>5, <1>a DEF XML_ResumeParser, BufferInv
    <2>. QED BY <1>5, <2>1, CallKeepsBuffer DEF XML_ResumeParser
<1>6. CASE StopBetweenCalls
    <2>1. UNCHANGED <<buffer, supplied, failed, pc>> /\ parsing # "FINISHED"
        BY <1>6 DEF StopBetweenCalls, XML_StopParser, nativeVars, callVars
    <2>. QED BY <1>0, <2>1 DEF BufferInv, Open, DocSize
<1>7. CASE SetHandlers \/ XML_SetReparseDeferralEnabled
    <2>1. UNCHANGED <<buffer, supplied, failed, pc, parsing>>
        BY <1>7 DEF SetHandlers, XML_SetReparseDeferralEnabled, cVars, nativeVars,
           callVars
    <2>. QED BY <1>0, <2>1 DEF BufferInv, Open, DocSize
<1>8. CASE XML_ParserReset
    BY <1>0, <1>8, <1>a DEF XML_ParserReset, ClearReplay, BufferInv, Open, DocSize
<1>9. CASE UNCHANGED vars
    BY <1>9 DEF vars, BufferInv, Open, DocSize
<1>. QED BY <1>1, <1>2, <1>3, <1>4, <1>5, <1>6, <1>7, <1>8, <1>9 DEF Next, InCall

-----------------------------------------------------------------------------
(* The start tag that goes out without a parse.                            *)

(* What a call finds that may parse.                                       *)
CallStarts(n, final) ==
    /\ pc = "idle" /\ n \in Nat /\ final \in BOOLEAN
    /\ parsing # "FINISHED" /\ (failed => n = 0)
    /\ parsing = "SUSPENDED" => n = 0
    /\ supplied' = supplied + n
    /\ Call(n, final)

(* XML_Parse and XML_ResumeParser are such calls.                          *)
LEMMA CallsStart ==
    ASSUME TypeOK
    PROVE  /\ \A n \in Chunks, final \in BOOLEAN : XML_Parse(n, final) => CallStarts(n, final)
           /\ XML_ResumeParser => CallStarts(0, finalBuffer)
<1>1. ASSUME NEW n \in Chunks, NEW final \in BOOLEAN, XML_Parse(n, final)
      PROVE  CallStarts(n, final)
    <2>1. n \in Nat
        BY DocumentFacts DEF TypeOK
    <2>. QED BY <1>1, <2>1 DEF XML_Parse, AcceptsInput, CallStarts
<1>2. XML_ResumeParser => CallStarts(0, finalBuffer)
    BY DEF XML_ResumeParser, CallStarts, TypeOK
<1>. QED BY <1>1, <1>2

(* A step is one of these.                                                 *)
LEMMA StepCases ==
    ASSUME TypeOK, [Next]_vars
    PROVE  \/ Direct
           \/ PassUnobserved \/ PassReplayed \/ PassDelivered \/ PassEnds
           \/ ReturnSuspended \/ ReturnOk \/ ReturnFinished \/ ReturnError
           \/ \E n \in Nat, final \in BOOLEAN : CallStarts(n, final)
           \/ StopBetweenCalls \/ SetHandlers \/ XML_SetReparseDeferralEnabled
           \/ XML_ParserReset
           \/ UNCHANGED vars
<1>1. ASSUME NEW n \in Chunks, NEW final \in BOOLEAN, XML_Parse(n, final)
      PROVE  \E m \in Nat, f \in BOOLEAN : CallStarts(m, f)
    <2>1. n \in Nat /\ CallStarts(n, final)
        BY <1>1, CallsStart, DocumentFacts DEF TypeOK
    <2>. QED BY <2>1
<1>2. ASSUME XML_ResumeParser
      PROVE  \E m \in Nat, f \in BOOLEAN : CallStarts(m, f)
    <2>1. 0 \in Nat /\ finalBuffer \in BOOLEAN /\ CallStarts(0, finalBuffer)
        BY <1>2, CallsStart DEF TypeOK
    <2>. QED BY <2>1
<1>. QED BY <1>1, <1>2 DEF Next, InCall

(* The handlers stay as they are once the first byte has come.             *)
LEMMA SlotsStay ==
    ASSUME Steady, TypeOK, [Next]_vars, ~SetHandlers, ~XML_ParserReset
    PROVE  UNCHANGED slots
<1>1. "changes_handlers" \notin App
    BY DEF Steady
<1>. QED BY <1>1, StepCases
         DEF Direct, PassUnobserved, PassReplayed, PassDelivered, PassEnds,
             ChangesHandlers, ReturnSuspended, ReturnOk, ReturnFinished, ReturnError,
             returnVars, CallStarts, Call, StopBetweenCalls, handlerVars,
             XML_SetReparseDeferralEnabled, vars

(* Such a tag is complete, well formed and alone in its token.             *)
LEMMA PlainFacts ==
    ASSUME Steady, doc \in Documents, NEW c \in Plain
    PROVE  /\ c \in Callback /\ Kind[c] = "start" /\ Last[c] <= BadFrom
           /\ Ready[c] = Last[c] /\ First[c] + 3 <= Last[c]
           /\ \A d \in Callback : /\ d < c => Last[d] <= First[c]
                                  /\ c < d => Last[c] <= First[d]
<1>1. /\ c \in Callback /\ Kind[c] = "start" /\ Ready[c] = Last[c]
      /\ First[c] + 3 <= Last[c]
      /\ \A d \in Callback : First[d] = First[c] => d = c
    BY DocumentFacts, LayoutFacts
<1>2. Last[c] <= BadFrom
    BY DEF Steady, Plain, Last, BadFrom
<1>3. c \in Nat
    BY <1>1, DocumentFacts DEF Callback
<1>4. ASSUME NEW d \in Callback
      PROVE  /\ d < c => Last[d] <= First[c]
             /\ c < d => Last[c] <= First[d]
    <2>1. d \in Nat /\ (First[d] = First[c] => ~(d < c) /\ ~(c < d))
        BY <1>1, <1>3, DocumentFacts DEF Callback
    <2>. QED BY <1>1, <2>1, LayoutFacts
<1>. QED BY <1>1, <1>2, <1>4

(* The tag of a call that starts: the deferred one, or the first of all.   *)
LEMMA ReadyTagFacts ==
    ASSUME TypeOK, NEW b \in Nat, NEW c \in ReadyTag(b)
    PROVE  /\ c \in Plain
           /\ \/ deferStart > 0 /\ c \in PlainTag(deferStart, b)
              \/ delivered = 0 /\ First[c] = 0
<1>1. \/ c \in PlainTag(DeferredStart(b), b) /\ DeferredStart(b) > 0
      \/ delivered = 0 /\ c \in PlainTag(1, b)
    BY DEF ReadyTag
<1>2. c \in Plain /\ c \in Callback /\ First[c] \in Nat
    BY <1>1, DocumentFacts DEF PlainTag, TypeOK
<1>3. deferStart \in Nat
    BY DEF TypeOK
<1>4. CASE deferStart > 0 /\ c \in PlainTag(DeferredStart(b), b)
    BY <1>2, <1>4 DEF PlainTag, DeferredStart
<1>5. CASE ~(deferStart > 0) /\ c \in PlainTag(DeferredStart(b), b) /\ DeferredStart(b) > 0
    <2>1. /\ IncompleteStart(b) > 0 /\ First[c] + 1 = IncompleteStart(b) /\ Last[c] <= b
        BY <1>5 DEF PlainTag, DeferredStart
    <2>2. c \in TokenAt(IncompleteStart(b))
        BY <1>2, <2>1, LayoutFacts DEF TokenAt, TypeOK
    <2>3. b < Last[c] /\ Last[c] \in Nat
        BY <1>2, <2>1, <2>2, IncompleteStartFacts, DocumentFacts DEF TypeOK
    <2>. QED BY <2>1, <2>3
<1>6. CASE delivered = 0 /\ c \in PlainTag(1, b)
    BY <1>2, <1>3, <1>6 DEF PlainTag
<1>. QED BY <1>1, <1>4, <1>5, <1>6

(* The call in which a tag goes out without a parse is not the last one.   *)
LEMMA DirectInvNext ==
    Steady /\ TypeOK /\ DeferInv /\ DirectInv /\ [Next]_vars => DirectInv'
<1>. SUFFICES ASSUME Steady, TypeOK, DeferInv, DirectInv, [Next]_vars, pc' = "direct"
              PROVE  (/\ at \in Plain /\ Last[at] = buffer
                      /\ "start" \in slots /\ "text" \notin slots
                      /\ ~finalBuffer)'
    BY DEF DirectInv
<1>0. UNCHANGED doc
    BY DocumentStays
<1>1. CASE \E n \in Nat, final \in BOOLEAN : CallStarts(n, final)
    <2>1. PICK n \in Nat, final \in BOOLEAN : CallStarts(n, final)
        BY <1>1
    <2>2. StartPass(n, final) /\ finalBuffer' = final /\ UNCHANGED slots
        BY <2>1 DEF CallStarts, Call, Refuse, Wait, callVars
    <2>3. /\ at' \in ReadyTag(buffer') /\ EmitsDirectly(at', buffer') /\ ~final
        BY <1>0, <2>2, StartPassDecides DEF DeferInv
    <2>4. buffer' \in Nat
        BY <2>2 DEF StartPass, TypeOK
    <2>5. at' \in Plain
        BY <2>3, <2>4, ReadyTagFacts
    <2>. QED BY <1>0, <2>2, <2>3, <2>5, SameLayout DEF EmitsDirectly
<1>2. CASE ~\E n \in Nat, final \in BOOLEAN : CallStarts(n, final)
    <2>1. /\ UNCHANGED <<pc, at, buffer, finalBuffer>> /\ ~SetHandlers /\ ~XML_ParserReset
        BY <1>2, StepCases
        DEF Direct, PassUnobserved, PassReplayed, PassDelivered, PassEnds,
            GoOnUnlessStopped, AtCallback, ReturnSuspended, ReturnOk, ReturnFinished,
            ReturnError, Idle, StopBetweenCalls, SetHandlers,
            XML_SetReparseDeferralEnabled, XML_ParserReset, callVars, nativeVars, vars
    <2>2. UNCHANGED slots
        BY <2>1, SlotsStay
    <2>. QED BY <1>0, <2>1, <2>2, SameLayout DEF DirectInv
<1>. QED BY <1>1, <1>2

-----------------------------------------------------------------------------
(* The last callback.                                                      *)

(* More input keeps what is known of the last callback.                    *)
LEMMA GivenGrows ==
    ASSUME TypeOK, GivenInv, UNCHANGED <<doc, slots, given>>, supplied' \in Nat,
           supplied <= supplied'
    PROVE  GivenInv'
<1>1. ASSUME given.cb > 0
      PROVE  /\ given.cb \in Registered /\ Seen(given.cb, supplied')
             /\ given.to > 0 /\ given.to <= Reported(given.cb, supplied')
    <2>1. /\ given.cb \in Registered /\ Seen(given.cb, supplied)
          /\ given.to > 0 /\ given.to <= Reported(given.cb, supplied)
        BY <1>1 DEF GivenInv
    <2>2. given.cb \in Callback
        BY <2>1 DEF Registered
    <2>3. supplied \in Nat /\ given.to \in Nat
        BY DEF TypeOK
    <2>4. /\ Seen(given.cb, supplied')
          /\ Reported(given.cb, supplied) \in Nat /\ Reported(given.cb, supplied') \in Nat
          /\ Reported(given.cb, supplied) <= Reported(given.cb, supplied')
        BY <2>1, <2>2, <2>3, SeenGrows DEF TypeOK
    <2>. QED BY <2>1, <2>3, <2>4
<1>2. Registered' = Registered
    BY SameLayout DEF Registered
<1>. QED BY <1>1, <1>2
         DEF GivenInv, Seen, Reported, Ready, BadAt, BadFrom, Kind, First, Last

-----------------------------------------------------------------------------
(* The numbers of the callbacks in a pass.                                 *)

(* A callback the application registered for takes the next number.        *)
LEMMA NumberFacts ==
    ASSUME TypeInv, DeferInv, BufferInv, CountInv, AtCallback, Observed
    PROVE  /\ at \in Registered /\ at \in Nat /\ at - 1 \in Nat /\ given.cb \in Nat
           /\ Number = Had(at) /\ Had(at) = Had(at - 1) + 1 /\ Had(at - 1) \in Nat
           /\ Had(at) \in Nat /\ Had(given.cb) \in Nat /\ delivered \in Nat
           /\ Had(at) \in 1..N + 1
           /\ suppress = delivered /\ sequence = Had(at - 1)
           /\ Had(given.cb) = Reached
<1>1. TypeOK /\ doc \in Documents /\ N \in Nat
    BY DocumentFacts DEF TypeInv, TypeOK
<1>2. at \in Callback /\ pc = "pass" /\ ~failed
    BY <1>1, AtCallbackFacts
<1>3. at \in Registered
    BY <1>2 DEF Observed, Registered
<1>4. at \in Nat /\ at - 1 \in Nat /\ given.cb \in Nat /\ at <= N
    BY <1>1, <1>2 DEF Callback, TypeOK
<1>5. /\ suppress = delivered /\ sequence = Had(at - 1) /\ Had(given.cb) = Reached
    BY <1>2 DEF CountInv
<1>6. /\ Had(at) = Had(at - 1) + 1 /\ Had(at - 1) \in Nat /\ Had(given.cb) \in Nat
      /\ Had(at) \in Nat /\ Had(at) <= at
    BY <1>1, <1>2, <1>3, <1>4, HadFacts
<1>. QED BY <1>1, <1>3, <1>4, <1>5, <1>6 DEF Number, TypeOK

(* Suppressing the callbacks delivered before suppresses those up to the   *)
(* last one given.                                                         *)
LEMMA ReplayedFacts ==
    ASSUME TypeInv, DeferInv, BufferInv, CountInv, AtCallback, Observed
    PROVE  /\ Replayed => at <= given.cb
           /\ ~Replayed => /\ given.cb < at
                           /\ \A c \in Registered : c <= given.cb \/ c >= at
<1>1. /\ at \in Registered /\ at \in Nat /\ at - 1 \in Nat /\ given.cb \in Nat
      /\ Number = Had(at) /\ Had(at) = Had(at - 1) + 1 /\ Had(at - 1) \in Nat
      /\ Had(at) \in Nat /\ Had(given.cb) \in Nat /\ delivered \in Nat
      /\ suppress = delivered /\ sequence = Had(at - 1)
      /\ Had(given.cb) = Reached
    BY NumberFacts
<1>2. doc \in Documents
    BY DEF TypeInv, TypeOK
<1>3. ASSUME Replayed
      PROVE  at <= given.cb
    <2>1. Had(at) <= Had(given.cb)
        BY <1>1, <1>3 DEF Replayed, Reached
    <2>2. given.cb < at => Had(given.cb) < Had(at)
        BY <1>1, <1>2, HadGrows
    <2>. QED BY <1>1, <2>1, <2>2
<1>4. ASSUME ~Replayed
      PROVE  /\ given.cb < at
             /\ \A c \in Registered : c <= given.cb \/ c >= at
    <2>1. Had(given.cb) = Had(at - 1)
        BY <1>1, <1>4 DEF Replayed, Reached
    <2>2. at <= given.cb => Had(at) <= Had(given.cb)
        BY <1>1, <1>2, HadGrows
    <2>3. given.cb < at
        BY <1>1, <2>1, <2>2
    <2>4. given.cb <= at - 1
        BY <1>1, <2>3
    <2>5. \A c \in Registered : c <= given.cb \/ at - 1 < c
        BY <1>1, <1>2, <2>1, <2>4, HadGrows
    <2>6. \A c \in Registered : c \in Nat
        BY DocumentFacts, <1>2 DEF Registered, Callback
    <2>. QED BY <1>1, <2>3, <2>5, <2>6
<1>. QED BY <1>3, <1>4

(* What the application has of a callback that is followed by another.     *)
LEMMA GivenIsWhole ==
    ASSUME TypeInv, DeferInv, BufferInv, GivenInv, LengthsInv, AtCallback,
           given.cb > 0, given.cb < at
    PROVE  given.to = Whole(given.cb)
<1>1. /\ at \in Callback /\ pc = "pass" /\ ~failed /\ Seen(at, extent)
      /\ doc \in Documents
    BY AtCallbackFacts DEF TypeInv, TypeOK
<1>2. /\ given.cb \in Registered /\ given.cb \in Callback /\ Seen(given.cb, supplied)
      /\ given.to \in Nat /\ given.to > 0 /\ given.to <= Reported(given.cb, supplied)
      /\ supplied \in Nat /\ extent \in Nat
    BY DEF GivenInv, Registered, TypeInv, TypeOK
<1>3. /\ Reported(given.cb, supplied) <= Whole(given.cb)
      /\ Reported(given.cb, supplied) \in Nat /\ Whole(given.cb) \in Nat
      /\ Kind[given.cb] # "text" => Reported(given.cb, supplied) = 1 /\ Whole(given.cb) = 1
    BY <1>1, <1>2, SeenGrows
<1>4. CASE Kind[given.cb] # "text"
    BY <1>2, <1>3, <1>4
<1>5. CASE Kind[given.cb] = "text"
    <2>1. lengths[Had(given.cb)] = given.to /\ lengths[Had(given.cb)] >= Reported(given.cb, extent)
        BY <1>1, <1>2, <1>5 DEF LengthsInv, Open
    <2>2. First[at] <= extent
        <3>1. Ready[at] <= extent /\ Ready[at] \in Nat /\ First[at] \in Nat /\ First[at] < Ready[at]
            BY <1>1, <1>2, SeenFacts, DocumentFacts
        <3>. QED BY <1>2, <3>1
    <2>3. Reported(given.cb, extent) = Whole(given.cb)
        BY <1>1, <1>2, <2>2, TextBefore
    <2>. QED BY <1>2, <1>3, <2>1, <2>3
<1>. QED BY <1>4, <1>5

(* A delivered callback: the next the application registered for, or more  *)
(* of the text it was given last.                                          *)
LEMMA DeliveryFacts ==
    ASSUME TypeInv, DeferInv, BufferInv, GivenInv, CountInv, LengthsInv,
           AtCallback, Observed, ~Replayed \/ Grows
    PROVE  /\ Already \in Nat /\ Already < Reported(at, extent)
           /\ \/ /\ given.cb < at /\ Already = 0 /\ ~Replayed
                 /\ given.cb > 0 => given.to = Whole(given.cb)
                 /\ \A c \in Registered : c <= given.cb \/ c >= at
              \/ given.cb = at /\ Already = given.to /\ Kind[at] = "text" /\ Replayed
<1>1. /\ at \in Registered /\ at \in Nat /\ given.cb \in Nat
      /\ Number = Had(at) /\ Had(at) \in 1..N + 1
    BY NumberFacts
<1>2. /\ at \in Callback /\ pc = "pass" /\ ~failed /\ Seen(at, extent)
      /\ doc \in Documents /\ extent \in Nat /\ lengths \in [1..N + 1 -> Nat]
    BY AtCallbackFacts DEF TypeInv, TypeOK
<1>3. /\ Reported(at, extent) \in Nat /\ Reported(at, extent) > 0
      /\ Reported(at, extent) <= Whole(at) /\ Whole(at) \in Nat
    BY <1>2, SeenGrows, ReportedIsPositive
<1>4. CASE ~Replayed
    <2>1. Already = 0
        BY <1>4 DEF Already
    <2>2. given.cb < at /\ \A c \in Registered : c <= given.cb \/ c >= at
        BY <1>4, ReplayedFacts
    <2>. QED BY <1>3, <1>4, <2>1, <2>2, GivenIsWhole
<1>5. CASE Replayed /\ Grows
    <2>1. /\ Kind[at] = "text" /\ Already = lengths[Had(at)] /\ Reported(at, extent) > Already
        BY <1>1, <1>5 DEF Grows, Already
    <2>2. at <= given.cb
        BY <1>5, ReplayedFacts
    <2>3. Already \in Nat
        BY <1>1, <1>2, <2>1
    <2>4. at < given.cb => lengths[Had(at)] = Whole(at)
        BY <1>1, <1>2, <2>1 DEF LengthsInv, Open
    <2>5. at = given.cb
        BY <1>1, <1>3, <2>1, <2>2, <2>3, <2>4
    <2>6. lengths[Had(at)] = given.to
        BY <1>1, <1>2, <2>1, <2>5 DEF LengthsInv, Open
    <2>. QED BY <1>3, <1>5, <2>1, <2>3, <2>5, <2>6
<1>. QED BY <1>4, <1>5

(* No callback between two is no difference in number.                     *)
LEMMA HadStays ==
    ASSUME doc \in Documents, NEW j \in Nat, NEW k \in Nat, j <= k,
           \A c \in Registered : c <= j \/ k < c
    PROVE  Had(j) = Had(k)
<1>1. \A c \in Registered : c \in Nat
    BY DocumentFacts DEF Registered, Callback
<1>2. \A c \in Registered : c <= j <=> c <= k
    BY <1>1
<1>3. {c \in Registered : c <= j} = {c \in Registered : c <= k}
    BY <1>2
<1>. QED BY <1>3 DEF Had

(* The start tag that goes out without a parse is the next callback.       *)
LEMMA DirectFacts ==
    ASSUME Steady, TypeInv, DeferInv, StatusInv, BufferInv, DirectInv, GivenInv,
           CountInv, Direct
    PROVE  /\ at \in Plain /\ at \in Callback /\ at \in Registered /\ ~failed /\ at \in Nat
           /\ Seen(at, supplied) /\ Reported(at, supplied) = 1 /\ Kind[at] # "text"
           /\ Last[at] = buffer /\ buffer = supplied /\ extent = buffer /\ ~finalBuffer
           /\ UNCHANGED <<stopRequested, stopResumable, parsing, slots>>
           /\ ~stopRequested' /\ pc = "direct"
           /\ given.cb \in Nat /\ given.cb < at
           /\ given.cb > 0 => given.to = Whole(given.cb)
           /\ \A c \in Registered : c <= given.cb \/ c >= at
           /\ delivered' = Had(at) /\ Had(at) \in Nat /\ Had(at) >= 1
           /\ \A c \in Registered : Kind[c] # "text"
<1>1. /\ pc = "direct" /\ at \in Plain /\ Last[at] = buffer /\ doc \in Documents
      /\ "start" \in slots /\ "text" \notin slots /\ ~finalBuffer /\ TypeOK
      /\ buffer \in Nat
    <2>1. TypeOK /\ doc \in Documents /\ buffer \in Nat
        BY DEF TypeInv, TypeOK
    <2>2. pc = "direct"
        BY DEF Direct
    <2>. QED BY <2>1, <2>2 DEF DirectInv
<1>2. /\ at \in Callback /\ Kind[at] = "start" /\ Last[at] <= BadFrom
      /\ Ready[at] = Last[at] /\ First[at] + 3 <= Last[at] /\ First[at] \in Nat
    BY <1>1, PlainFacts, DocumentFacts
<1>3. ~failed /\ buffer = supplied /\ extent = buffer
    <2>1. extent = buffer
        BY <1>1 DEF DeferInv, CallIsDecided, Bound
    <2>. QED BY <1>1, <1>2, <2>1, ExtentFacts
<1>4. /\ at \in Registered /\ Seen(at, supplied) /\ Reported(at, supplied) = 1
    BY <1>1, <1>2, <1>3, SeenFacts DEF Registered, Reported
<1>5. /\ UNCHANGED <<stopRequested, stopResumable, parsing, slots>>
    BY DEF Direct, Stops, ChangesHandlers, Steady
<1>6. /\ delivered = Had(given.cb) /\ given.cb < at
      /\ \A c \in Registered : c <= given.cb \/ c >= at
    BY <1>1, <1>3 DEF CountInv
<1>7. at \in Nat /\ at - 1 \in Nat /\ given.cb \in Nat /\ \A c \in Registered : c \in Nat
    BY <1>1, <1>2, DocumentFacts DEF Callback, Registered, TypeOK
<1>8. /\ Had(given.cb) = Had(at - 1) /\ Had(at - 1) \in Nat /\ Had(at) = Had(at - 1) + 1
    <2>1. given.cb <= at - 1 /\ \A c \in Registered : c <= given.cb \/ at - 1 < c
        BY <1>6, <1>7
    <2>. QED BY <1>1, <1>2, <1>4, <1>7, <2>1, HadStays, HadFacts
<1>9. \A c \in Registered : Kind[c] # "text"
    BY <1>1 DEF Registered
<1>10. given.cb > 0 => given.to = Whole(given.cb)
    <2>1. ASSUME given.cb > 0
          PROVE  given.to = Whole(given.cb)
        <3>1. /\ given.cb \in Registered /\ given.cb \in Callback /\ Seen(given.cb, supplied)
              /\ given.to \in Nat /\ given.to > 0 /\ given.to <= Reported(given.cb, supplied)
              /\ supplied \in Nat
            BY <1>1, <2>1 DEF GivenInv, Registered, TypeOK
        <3>2. Reported(given.cb, supplied) = 1 /\ Whole(given.cb) = 1
            BY <1>9, <3>1 DEF Reported, Whole
        <3>. QED BY <3>1, <3>2
    <2>. QED BY <2>1
<1>11. ~stopRequested'
    BY <1>1, <1>5 DEF StatusInv
<1>12. delivered' = delivered + 1
    BY <1>11 DEF Direct
<1>. QED BY <1>1, <1>2, <1>3, <1>4, <1>5, <1>6, <1>7, <1>8, <1>9, <1>10, <1>11, <1>12

(* The callbacks the application registered for stay the same.             *)
LEMMA SameRegistered ==
    ASSUME UNCHANGED <<doc, slots>>
    PROVE  /\ Registered' = Registered
           /\ \A k : Had(k)' = Had(k)
           /\ \A c, b : Seen(c, b)' = Seen(c, b) /\ Reported(c, b)' = Reported(c, b)
           /\ \A c : Whole(c)' = Whole(c)
<1>1. Registered' = Registered
    BY SameLayout DEF Registered
<1>. QED BY <1>1, SameLayout DEF Had, Seen, Reported, Whole

-----------------------------------------------------------------------------
(* The invariant of the last callback.                                     *)

(* What all the actions but the deliveries do to it: nothing.              *)
LEMMA GivenStays ==
    ASSUME TypeOK, [Next]_vars, ~Direct, ~PassDelivered, ~XML_ParserReset
    PROVE  /\ UNCHANGED given /\ supplied \in Nat /\ supplied' \in Nat
           /\ supplied <= supplied'
<1>1. supplied \in Nat
    BY DEF TypeOK
<1>2. CASE \E n \in Nat, final \in BOOLEAN : CallStarts(n, final)
    BY <1>1, <1>2 DEF CallStarts, Call
<1>3. CASE ~\E n \in Nat, final \in BOOLEAN : CallStarts(n, final)
    <2>1. UNCHANGED <<given, supplied>>
        BY <1>3, StepCases
        DEF PassUnobserved, PassReplayed, PassEnds, passVars, ReturnSuspended,
            ReturnOk, ReturnFinished, ReturnError, returnVars, StopBetweenCalls,
            SetHandlers, XML_SetReparseDeferralEnabled, vars
    <2>. QED BY <1>1, <2>1
<1>. QED BY <1>2, <1>3

LEMMA GivenInvNext ==
    ASSUME Steady, TypeInv, DeferInv, StatusInv, BufferInv, DirectInv, GivenInv,
           CountInv, LengthsInv, [Next]_vars
    PROVE  GivenInv'
<1>0. UNCHANGED doc /\ TypeOK /\ doc \in Documents /\ supplied \in Nat
    BY DocumentStays DEF TypeInv, TypeOK
<1>1. CASE Direct
    <2>1. /\ at \in Registered /\ Seen(at, supplied) /\ Reported(at, supplied) = 1
          /\ UNCHANGED slots
        BY <1>1, DirectFacts
    <2>2. given'.cb = at /\ given'.to = 1 /\ UNCHANGED supplied
        BY <1>1 DEF Direct, Give
    <2>. QED BY <1>0, <2>1, <2>2, SameLayout
             DEF GivenInv, Registered, Seen, Reported, BadAt, BadFrom
<1>2. CASE PassDelivered
    <2>1. AtCallback /\ Observed /\ (~Replayed \/ Grows)
        BY <1>2 DEF PassDelivered
    <2>2. /\ at \in Registered /\ at \in Callback /\ pc = "pass"
          /\ Seen(at, extent) /\ Seen(at, supplied)
        BY <1>0, <2>1, AtCallbackFacts, NumberFacts
    <2>3. extent \in Nat /\ extent <= supplied
        BY <1>0, <2>2, ExtentFacts
    <2>4. /\ Reported(at, extent) > 0
          /\ Reported(at, extent) <= Reported(at, supplied)
        BY <1>0, <2>2, <2>3, SeenGrows, ReportedIsPositive
    <2>5. given'.cb = at /\ given'.to = Reported(at, extent) /\ UNCHANGED supplied
        BY <1>2 DEF PassDelivered, Give, passVars
    <2>6. UNCHANGED slots
        BY <1>2 DEF PassDelivered, ChangesHandlers, Steady
    <2>. QED BY <1>0, <2>2, <2>4, <2>5, <2>6, SameLayout
             DEF GivenInv, Registered, Seen, Reported, BadAt, BadFrom
<1>3. CASE SetHandlers
    <2>1. "changes_handlers" \notin App
        BY DEF Steady
    <2>2. parsing = "INITIALIZED"
        BY <1>3, <2>1 DEF SetHandlers
    <2>3. given'.cb = 0
        BY <1>3, <2>2 DEF SetHandlers, StatusInv, Nothing
    <2>. QED BY <2>3 DEF GivenInv
<1>4. CASE XML_ParserReset
    BY <1>4 DEF XML_ParserReset, GivenInv, Nothing
<1>5. CASE ~Direct /\ ~PassDelivered /\ ~SetHandlers /\ ~XML_ParserReset
    BY <1>0, <1>5, GivenStays, SlotsStay, GivenGrows
<1>. QED BY <1>1, <1>2, <1>3, <1>4, <1>5

-----------------------------------------------------------------------------
(* The count of the callbacks.                                             *)

(* What a call starts from.                                                *)
LEMMA CountedAtCall ==
    ASSUME TypeOK, StatusInv, CountInv, pc = "idle", ~failed, parsing # "FINISHED"
    PROVE  delivered = Had(given.cb)
<1>1. CASE parsing = "INITIALIZED"
    BY <1>1, HadFacts DEF StatusInv, Nothing, TypeOK
<1>2. CASE parsing # "INITIALIZED"
    BY <1>2 DEF CountInv, Live, TypeOK, Statuses
<1>. QED BY <1>1, <1>2

(* Where no callback is counted none was given.                            *)
LEMMA NoneGiven ==
    ASSUME TypeOK, GivenInv, Had(given.cb) = 0
    PROVE  given.cb = 0
<1>1. given.cb \in Nat /\ doc \in Documents
    BY DocumentFacts DEF TypeOK
<1>2. ASSUME given.cb > 0
      PROVE  FALSE
    <2>1. given.cb \in Registered
        BY <1>2 DEF GivenInv
    <2>2. 0 \in Nat /\ 0 <= given.cb /\ 0 < given.cb
        BY <1>1, <1>2
    <2>3. Had(0) < Had(given.cb)
        BY <1>1, <2>1, <2>2, HadGrows
    <2>4. Had(0) = 0
        BY <1>1, HadFacts
    <2>. QED BY <2>3, <2>4
<1>. QED BY <1>1, <1>2

(* The start tag that a call is about to emit without a parse is the next  *)
(* callback the application has not had.                                   *)
LEMMA DirectIsNext ==
    ASSUME Steady, TypeInv, DeferInv, StatusInv, BufferInv, GivenInv, CountInv, HeldInv,
           NEW n \in Nat, NEW final, CallStarts(n, final), StartPass(n, final),
           ~failed, pc' = "direct"
    PROVE  /\ at' \in Plain /\ given.cb < at'
           /\ \A c \in Registered : c <= given.cb \/ c >= at'
<1>1. /\ pc = "idle" /\ parsing # "FINISHED" /\ (parsing = "SUSPENDED" => n = 0)
      /\ finalBuffer' = final /\ final \in BOOLEAN
    BY DEF CallStarts, Call
<1>2. TypeOK /\ doc \in Documents /\ UNCHANGED doc
    BY DEF TypeInv, TypeOK, CallStarts, Call
<1>3. /\ buffer' = buffer + n /\ buffer' \in Nat /\ buffer \in Nat /\ deferStart \in Nat
      /\ given.cb \in Nat /\ \A c \in Registered : c \in Callback /\ c \in Nat
    BY <1>2, DocumentFacts DEF StartPass, TypeOK, Registered, Callback
<1>4. at' \in ReadyTag(buffer')
    BY <1>1, <1>2, StartPassDecides DEF DeferInv
<1>5. /\ at' \in Plain
      /\ \/ deferStart > 0 /\ at' \in PlainTag(deferStart, buffer')
         \/ delivered = 0 /\ First[at'] = 0
    BY <1>2, <1>3, <1>4, ReadyTagFacts
<1>6. /\ at' \in Callback /\ at' \in Nat /\ Last[at'] <= BadFrom
      /\ First[at'] + 3 <= Last[at'] /\ First[at'] \in Nat /\ Last[at'] \in Nat
      /\ BadFrom \in Nat
      /\ \A d \in Callback : d < at' => Last[d] <= First[at']
    BY <1>2, <1>5, PlainFacts, DocumentFacts, LayoutFacts DEF Callback
<1>7. CASE delivered = 0 /\ First[at'] = 0
    <2>1. given.cb = 0
        BY <1>1, <1>2, <1>7, CountedAtCall, NoneGiven
    <2>2. \A c \in Callback : ~(c < at') /\ c \in Nat
        BY <1>2, <1>6, <1>7, DocumentFacts DEF Callback
    <2>3. 0 < at'
        BY <1>2, <1>6, DocumentFacts DEF Callback
    <2>. QED BY <1>3, <1>5, <1>6, <2>1, <2>2, <2>3
<1>8. CASE deferStart > 0 /\ at' \in PlainTag(deferStart, buffer')
    <2>1. First[at'] + 1 = deferStart /\ Last[at'] <= buffer'
        BY <1>8 DEF PlainTag
    <2>2. given.cb < at'
        BY <1>5, <1>8, <2>1 DEF HeldInv
    <2>3. Live
        BY <1>1, <1>2, <1>8 DEF Live, StatusInv, TypeOK, Statuses
    <2>4. HasAll(deferStart - 1)
        <3>1. CASE parsing = "PARSING"
            BY <1>8, <2>3, <3>1 DEF HeldInv, Bound
        <3>2. CASE parsing = "SUSPENDED"
            <4>1. at' \in PlainTag(deferStart, buffer)
                BY <1>1, <1>3, <1>8, <3>2
            <4>. QED BY <1>8, <2>3, <4>1 DEF HeldInv
        <3>. QED BY <2>3, <3>1, <3>2 DEF Live
    <2>5. ASSUME NEW c \in Registered, ~(c <= given.cb), ~(c >= at')
          PROVE  FALSE
        <3>1. c \in Callback /\ c \in Nat /\ c < at' /\ given.cb < c
            BY <1>3, <1>6, <2>5
        <3>2. /\ Ready[c] \in Nat /\ Last[c] \in Nat /\ Ready[c] <= Last[c]
              /\ Last[c] <= First[at']
            BY <1>2, <1>6, <3>1, DocumentFacts
        <3>3. deferStart - 1 \in Nat /\ Ready[c] <= deferStart - 1 /\ Ready[c] <= BadFrom
            BY <1>3, <1>6, <2>1, <3>2
        <3>4. Seen(c, deferStart - 1)
            BY <1>2, <3>1, <3>3, SeenFacts
        <3>. QED BY <1>3, <2>4, <3>1, <3>4 DEF HasAll
    <2>. QED BY <1>5, <2>2, <2>5
<1>. QED BY <1>5, <1>7, <1>8

(* The direct start tag and the callbacks of a pass count on.              *)
LEMMA CountInvInCall ==
    ASSUME Steady, TypeInv, DeferInv, StatusInv, BufferInv, DirectInv, GivenInv,
           CountInv, LengthsInv, UNCHANGED doc,
           Direct \/ PassUnobserved \/ PassReplayed \/ PassDelivered
    PROVE  CountInv'
<1>0. TypeOK /\ doc \in Documents
    BY DEF TypeInv, TypeOK
<1>1. CASE Direct
    <2>1. /\ at \in Registered /\ UNCHANGED slots /\ ~stopRequested'
          /\ delivered' = Had(at) /\ Had(at) \in Nat /\ Had(at) >= 1
        BY <1>1, DirectFacts
    <2>2. /\ pc' = "return" /\ result' = "OK" /\ given'.cb = at /\ sequence' = 1
        BY <1>1, <2>1 DEF Direct, Give
    <2>3. (Had(given.cb))' = Had(at)
        BY <2>1, <2>2, SameRegistered DEF Had
    <2>. QED BY <2>1, <2>2, <2>3 DEF CountInv, Live, Reached
<1>2. CASE PassUnobserved
    <2>1. /\ at \in Callback /\ pc = "pass" /\ ~failed /\ at \notin Registered
        BY <1>0, <1>2, AtCallbackFacts DEF PassUnobserved, Observed, Registered
    <2>2. /\ pc' = "pass" /\ at' = at + 1 /\ at \in Nat
          /\ UNCHANGED <<slots, failed, delivered, suppress, sequence, given>>
        BY <1>0, <1>2, <2>1, DocumentFacts
        DEF PassUnobserved, GoOnUnlessStopped, StatusInv, passVars, Callback
    <2>3. (Had(given.cb))' = Had(given.cb) /\ (Had(at - 1))' = Had(at)
        <3>1. at' - 1 = at
            BY <2>2
        <3>. QED BY <2>2, <3>1, SameRegistered DEF Had
    <2>4. Had(at) = Had(at - 1)
        BY <1>0, <2>1, HadFacts
    <2>. QED BY <2>1, <2>2, <2>3, <2>4 DEF CountInv, Live, Reached
<1>3. CASE PassReplayed
    <2>0. AtCallback /\ Observed /\ Replayed
        BY <1>3 DEF PassReplayed
    <2>1. /\ at \in Nat /\ Number = Had(at) /\ Had(at) = Had(at - 1) + 1
          /\ Had(at) \in Nat /\ Had(at - 1) \in Nat /\ delivered \in Nat
          /\ suppress = delivered /\ sequence = Had(at - 1) /\ Had(given.cb) = Reached
        BY <2>0, NumberFacts
    <2>2. /\ pc' = "pass" /\ at' = at + 1 /\ sequence' = Had(at)
          /\ UNCHANGED <<slots, failed, delivered, suppress, given>>
        BY <1>3, <2>1 DEF PassReplayed, AtCallback, GoOnUnlessStopped, StatusInv, passVars
    <2>3. (Had(given.cb))' = Had(given.cb) /\ (Had(at - 1))' = Had(at)
        <3>1. at' - 1 = at
            BY <2>1, <2>2
        <3>. QED BY <2>2, <3>1, SameRegistered DEF Had
    <2>4. Reached' = Reached
        BY <2>0, <2>1, <2>2 DEF Reached, Replayed
    <2>. QED BY <2>1, <2>2, <2>3, <2>4 DEF CountInv, Live
<1>4. CASE PassDelivered
    <2>0. AtCallback /\ Observed /\ (~Replayed \/ Grows)
        BY <1>4 DEF PassDelivered
    <2>1. /\ at \in Nat /\ Number = Had(at) /\ Had(at) = Had(at - 1) + 1
          /\ Had(at) \in Nat /\ Had(at - 1) \in Nat /\ delivered \in Nat
          /\ suppress = delivered /\ sequence = Had(at - 1) /\ Had(given.cb) = Reached
        BY <2>0, NumberFacts
    <2>2. /\ sequence' = Had(at) /\ given'.cb = at
          /\ UNCHANGED <<slots, failed, delivered, suppress>>
        BY <1>4, <2>1 DEF PassDelivered, Give, ChangesHandlers, Steady, passVars
    <2>3. (Had(given.cb))' = Had(at)
        BY <2>2, SameRegistered DEF Had
    <2>4. Reached' = Had(at)
        <3>1. Replayed => given.cb = at
            BY <2>0, DeliveryFacts
        <3>. QED BY <2>1, <2>2, <3>1 DEF Reached, Replayed
    <2>5. CASE stopRequested'
        <3>1. /\ pc' = "return" /\ result' # "OK"
              /\ result' = "SUSPENDED" => lastSuspend' = Had(at)
            BY <1>4, <2>1, <2>5 DEF PassDelivered, GoOnUnlessStopped, RecordStop
        <3>. QED BY <2>3, <3>1 DEF CountInv, Live
    <2>6. CASE ~stopRequested'
        <3>1. pc' = "pass" /\ at' = at + 1
            BY <1>4, <2>6 DEF PassDelivered, AtCallback, GoOnUnlessStopped
        <3>2. (Had(at - 1))' = Had(at)
            <4>1. at' - 1 = at
                BY <2>1, <3>1
            <4>. QED BY <2>2, <4>1, SameRegistered DEF Had
        <3>. QED BY <2>1, <2>2, <2>3, <2>4, <3>1, <3>2 DEF CountInv, Live
    <2>. QED BY <2>5, <2>6
<1>. QED BY <1>1, <1>2, <1>3, <1>4

(* What a call returns is what the next one starts from.                   *)
LEMMA CountInvNext ==
    ASSUME Steady, TypeInv, DeferInv, StatusInv, BufferInv, DirectInv, GivenInv,
           CountInv, LengthsInv, HeldInv, [Next]_vars
    PROVE  CountInv'
<1>0. UNCHANGED doc /\ TypeOK /\ doc \in Documents
    BY DocumentStays DEF TypeInv, TypeOK
<1>1. CASE Direct \/ PassUnobserved \/ PassReplayed \/ PassDelivered
    BY <1>0, <1>1, CountInvInCall
<1>2. ASSUME UNCHANGED <<slots, given>>
      PROVE  (Had(given.cb))' = Had(given.cb) /\ Registered' = Registered
    BY <1>0, <1>2, SameRegistered DEF Had
<1>3. CASE PassEnds \/ ReturnSuspended \/ ReturnOk
    <2>1. UNCHANGED <<slots, given, failed>>
        BY <1>3 DEF PassEnds, ReturnSuspended, ReturnOk, returnVars, passVars
    <2>2. CASE PassEnds
        BY <1>2, <2>1, <2>2 DEF PassEnds, CountInv, Live, Reached, passVars
    <2>3. CASE ReturnSuspended
        BY <1>2, <2>1, <2>3
        DEF ReturnSuspended, DeliveredAtSuspension, CountInv, Live, Idle
    <2>4. CASE ReturnOk
        BY <1>2, <2>1, <2>4
        DEF ReturnOk, DeliveredAfterChunk, CountInv, Live, Idle, Reached
    <2>. QED BY <1>3, <2>2, <2>3, <2>4
<1>4. CASE ReturnFinished \/ ReturnError
    BY <1>4 DEF ReturnFinished, ReturnError, CountInv, Live, Idle
<1>5. ASSUME NEW n \in Nat, NEW final \in BOOLEAN, CallStarts(n, final), ~failed'
      PROVE  CountInv'
    <2>0. pc = "idle" /\ parsing # "FINISHED" /\ UNCHANGED <<slots, given>>
        BY <1>5 DEF CallStarts, Call
    <2>1. Wait(n, final) \/ StartPass(n, final)
        BY <1>5 DEF CallStarts, Call, Refuse
    <2>2. ~failed /\ UNCHANGED <<failed, delivered>>
        <3>1. UNCHANGED <<failed, delivered>>
            BY <2>1 DEF Wait, StartPass
        <3>. QED BY <1>5, <3>1
    <2>3. delivered = Had(given.cb) /\ (Had(given.cb))' = Had(given.cb)
        BY <1>0, <1>2, <2>0, <2>2, CountedAtCall
    <2>4. CASE Wait(n, final)
        BY <2>0, <2>2, <2>3, <2>4 DEF Wait, CountInv, callVars
    <2>5. CASE StartPass(n, final) /\ pc' = "pass"
        <3>1. at' = 1 /\ sequence' = 0 /\ suppress' = delivered
            BY <1>0, <1>5, <2>5, StartPassDecides
            DEF StartPass, PrepareReplay, CallStarts, Call, DeferInv
        <3>2. (Had(at - 1))' = 0
            <4>1. at' - 1 = 0
                BY <3>1
            <4>2. (Had(at - 1))' = Had(0)
                BY <1>0, <2>0, <4>1, SameRegistered DEF Had
            <4>. QED BY <1>0, <4>2, HadFacts
        <3>3. Reached' = delivered'
            BY <1>0, <2>2, <3>1 DEF Reached, TypeOK
        <3>. QED BY <2>2, <2>3, <2>5, <3>1, <3>2, <3>3 DEF CountInv, Live
    <2>6. CASE StartPass(n, final) /\ pc' = "direct"
        <3>1. /\ given.cb < at' /\ \A c \in Registered : c <= given.cb \/ c >= at'
            BY <1>5, <2>2, <2>6, DirectIsNext
        <3>. QED BY <1>2, <2>0, <2>2, <2>3, <2>6, <3>1 DEF CountInv, Live
    <2>7. StartPass(n, final) => pc' \in {"direct", "pass"}
        BY <1>0, <1>5, StartPassDecides DEF CallStarts, Call, DeferInv
    <2>. QED BY <2>1, <2>4, <2>5, <2>6, <2>7
<1>6. CASE \E n \in Nat, final \in BOOLEAN : CallStarts(n, final)
    <2>1. CASE failed'
        BY <2>1 DEF CountInv
    <2>. QED BY <1>5, <1>6, <2>1
<1>7. CASE StopBetweenCalls
    <2>1. /\ UNCHANGED <<slots, given, failed, delivered, pc>> /\ pc = "idle"
          /\ parsing # "FINISHED"
        BY <1>7 DEF StopBetweenCalls, XML_StopParser, handlerVars, nativeVars, callVars
    <2>2. ~failed => delivered = Had(given.cb)
        BY <1>0, <2>1, CountedAtCall
    <2>. QED BY <1>2, <2>1, <2>2 DEF CountInv
<1>8. CASE SetHandlers
    <2>1. "changes_handlers" \notin App
        BY DEF Steady
    <2>2. pc' = "idle" /\ parsing' = "INITIALIZED"
        BY <1>8, <2>1 DEF SetHandlers, cVars, callVars
    <2>. QED BY <2>2 DEF CountInv, Live
<1>9. CASE XML_ParserReset
    BY <1>9 DEF XML_ParserReset, CountInv, Live, callVars
<1>10. CASE XML_SetReparseDeferralEnabled \/ UNCHANGED vars
    <2>1. UNCHANGED <<slots, given, failed, delivered, pc, parsing, at, suppress, sequence,
                      result, lastSuspend>>
        BY <1>10 DEF XML_SetReparseDeferralEnabled, vars, handlerVars, nativeVars, callVars
    <2>2. Live' = Live /\ Reached' = Reached
        BY <2>1 DEF Live, Reached
    <2>3. (Had(at - 1))' = Had(at - 1)
        BY <1>0, <2>1, SameRegistered DEF Had
    <2>. QED BY <1>2, <2>1, <2>2, <2>3 DEF CountInv
<1>. QED BY <1>0, <1>1, <1>3, <1>4, <1>6, <1>7, <1>8, <1>9, <1>10, StepCases

-----------------------------------------------------------------------------
(* The lengths of the texts.                                               *)

(* A step that goes over no callback keeps the lengths.                    *)
LEMMA LengthsStay ==
    ASSUME LengthsInv, UNCHANGED <<doc, slots, given, lengths>>, Open' => Open,
           doc \in Documents, pc' = "pass" => at' = 1
    PROVE  LengthsInv'
<1>1. \A c \in Registered : c \in Callback /\ c \in Nat /\ ~(c < 1)
    BY DocumentFacts DEF Registered, Callback
<1>2. Registered' = Registered /\ Kind' = Kind
    BY SameRegistered, SameLayout
<1>3. \A c : Had(c)' = Had(c) /\ Whole(c)' = Whole(c)
    BY SameRegistered
<1>4. ASSUME Open', NEW c \in Registered, Kind[c] = "text"
      PROVE  /\ c < given'.cb => lengths'[Had(c)'] = Whole(c)'
             /\ c = given'.cb => lengths'[Had(c)'] = given'.to
             /\ ~(pc' = "pass" /\ c < at')
    BY <1>1, <1>3, <1>4 DEF LengthsInv
<1>. QED BY <1>2, <1>4 DEF LengthsInv

(* A callback of a pass sets the length of its own text.                   *)
LEMMA LengthsInvInCall ==
    ASSUME Steady, TypeInv, DeferInv, StatusInv, BufferInv, DirectInv, GivenInv,
           CountInv, LengthsInv, UNCHANGED doc,
           Direct \/ PassUnobserved \/ PassReplayed \/ PassDelivered
    PROVE  LengthsInv'
<1>0. TypeOK /\ doc \in Documents /\ N \in Nat /\ Kind' = Kind
    BY DocumentFacts, SameLayout DEF TypeInv, TypeOK
<1>a. \A c \in Registered : c \in Callback /\ c \in Nat
    BY <1>0, DocumentFacts DEF Registered, Callback
<1>1. CASE Direct
    <2>1. UNCHANGED slots /\ \A c \in Registered : Kind[c] # "text"
        BY <1>1, DirectFacts
    <2>. QED BY <1>0, <2>1, SameRegistered DEF LengthsInv
<1>2. CASE PassUnobserved \/ PassReplayed
    <2>0. AtCallback /\ pc = "pass"
        BY <1>2 DEF PassUnobserved, PassReplayed, AtCallback
    <2>1. at \in Callback /\ ~failed /\ at \in Nat
        BY <1>0, <2>0, AtCallbackFacts, DocumentFacts DEF Callback
    <2>2. /\ pc' = "pass" /\ at' = at + 1
          /\ UNCHANGED <<slots, given, lengths, extent>>
        BY <1>2, <2>0
        DEF PassUnobserved, PassReplayed, GoOnUnlessStopped, StatusInv, passVars
    <2>3. ASSUME at \in Registered, Kind[at] = "text"
          PROVE  lengths[Had(at)] >= Reported(at, extent)
        <3>1. PassReplayed
            BY <1>2, <2>3 DEF PassUnobserved, Observed, Registered
        <3>2. Observed /\ Replayed /\ ~Grows
            BY <3>1 DEF PassReplayed
        <3>3. Number = Had(at) /\ Had(at) \in 1..N + 1
            BY <2>0, <3>2, NumberFacts
        <3>4. ~(Reported(at, extent) > lengths[Had(at)])
            BY <2>3, <3>2, <3>3 DEF Grows, Already
        <3>5. lengths[Had(at)] \in Nat /\ extent \in Nat
            BY <3>3, <1>0 DEF TypeOK
        <3>6. Reported(at, extent) \in Nat
            BY <1>0, <2>0, <2>1, <3>5, ReportedIsPositive DEF AtCallback
        <3>. QED BY <3>4, <3>5, <3>6
    <2>4. /\ Registered' = Registered /\ \A c : Had(c)' = Had(c) /\ Whole(c)' = Whole(c)
          /\ \A c, b : Reported(c, b)' = Reported(c, b)
        BY <2>2, SameRegistered
    <2>5. ASSUME NEW c \in Registered, Kind[c] = "text"
          PROVE  /\ c < given'.cb => lengths'[Had(c)'] = Whole(c)'
                 /\ c = given'.cb => lengths'[Had(c)'] = given'.to
                 /\ c < at' => lengths'[Had(c)'] >= Reported(c, extent)
        <3>1. c \in Nat /\ (c < at' => c < at \/ c = at)
            BY <1>a, <2>1, <2>2
        <3>. QED BY <2>0, <2>1, <2>2, <2>3, <2>4, <2>5, <3>1 DEF LengthsInv, Open
    <2>6. \A c : (Reported(c, extent))' = Reported(c, extent)
        BY <2>2, SameLayout DEF Reported
    <2>. QED BY <1>0, <2>2, <2>4, <2>5, <2>6 DEF LengthsInv
<1>3. CASE PassDelivered
    <2>0. AtCallback /\ Observed /\ (~Replayed \/ Grows) /\ pc = "pass"
        BY <1>3 DEF PassDelivered, AtCallback
    <2>1. /\ at \in Callback /\ ~failed /\ at \in Nat /\ at \in Registered
          /\ Number = Had(at) /\ Had(at) \in 1..N + 1 /\ given.cb \in Nat
        BY <1>0, <2>0, AtCallbackFacts, NumberFacts
    <2>2. /\ given'.cb = at /\ given'.to = Reported(at, extent)
          /\ pc' = "pass" => at' = at + 1
          /\ UNCHANGED <<slots, extent>>
        BY <1>3 DEF PassDelivered, Give, ChangesHandlers, Steady, passVars,
           GoOnUnlessStopped, AtCallback
    <2>3. lengths \in [1..N + 1 -> Nat]
        BY <1>0 DEF TypeOK
    <2>4. lengths' = IF Kind[at] = "text"
                     THEN [lengths EXCEPT ![Had(at)] = Reported(at, extent)]
                     ELSE lengths
        BY <1>3, <2>1 DEF PassDelivered
    <2>5. Kind[at] = "text" => lengths'[Had(at)] = Reported(at, extent)
        BY <2>1, <2>3, <2>4
    <2>6. ASSUME NEW c \in Registered, c < at
          PROVE  lengths'[Had(c)] = lengths[Had(c)]
        <3>1. Had(c) # Had(at)
            <4>1. Had(c) < Had(at) /\ Had(c) \in Nat /\ Had(at) \in Nat
                BY <1>0, <1>a, <2>1, <2>6, HadGrows, HadFacts
            <4>. QED BY <4>1
        <3>. QED BY <2>3, <2>4, <3>1
    <2>7. \/ /\ given.cb < at
             /\ given.cb > 0 => given.to = Whole(given.cb)
             /\ \A c \in Registered : c <= given.cb \/ c >= at
          \/ given.cb = at
        BY <2>0, DeliveryFacts
    <2>8. ASSUME NEW c \in Registered, Kind[c] = "text"
          PROVE  /\ c < at => /\ lengths'[Had(c)] = Whole(c)
                              /\ lengths'[Had(c)] >= Reported(c, extent)
                 /\ c = at => lengths'[Had(c)] = Reported(c, extent)
        <3>1. ASSUME c < at
              PROVE  /\ lengths'[Had(c)] = Whole(c)
                     /\ lengths'[Had(c)] >= Reported(c, extent)
            <4>1. lengths'[Had(c)] = lengths[Had(c)]
                BY <2>6, <3>1
            <4>2. lengths[Had(c)] >= Reported(c, extent)
                BY <2>0, <2>1, <2>8, <3>1 DEF LengthsInv, Open
            <4>3. CASE c < given.cb
                BY <2>0, <2>1, <2>8, <4>1, <4>2, <4>3 DEF LengthsInv, Open
            <4>4. CASE ~(c < given.cb)
                <5>1. c = given.cb /\ given.cb > 0 /\ given.to = Whole(c)
                    BY <1>a, <2>1, <2>7, <3>1, <4>4, DocumentFacts, <1>0 DEF Callback
                <5>2. lengths[Had(c)] = given.to
                    BY <2>0, <2>1, <2>8, <5>1 DEF LengthsInv, Open
                <5>. QED BY <4>1, <4>2, <5>1, <5>2
            <4>. QED BY <4>3, <4>4
        <3>. QED BY <2>5, <2>8, <3>1
    <2>9. /\ Registered' = Registered /\ \A c : Had(c)' = Had(c) /\ Whole(c)' = Whole(c)
          /\ \A c : (Reported(c, extent))' = Reported(c, extent)
        BY <2>2, SameRegistered, SameLayout DEF Reported
    <2>10. ASSUME NEW c \in Registered, pc' = "pass", c < at'
           PROVE  c < at \/ c = at
        BY <1>a, <2>1, <2>2, <2>10
    <2>11. /\ Reported(at, extent) \in Nat /\ extent \in Nat
        BY <1>0, <2>0, <2>1, ReportedIsPositive DEF AtCallback, TypeOK
    <2>. QED BY <1>0, <2>2, <2>8, <2>9, <2>10, <2>11 DEF LengthsInv
<1>. QED BY <1>1, <1>2, <1>3

LEMMA LengthsInvNext ==
    ASSUME Steady, TypeInv, DeferInv, StatusInv, BufferInv, DirectInv, GivenInv,
           CountInv, LengthsInv, [Next]_vars
    PROVE  LengthsInv'
<1>0. UNCHANGED doc /\ TypeOK /\ doc \in Documents
    BY DocumentStays DEF TypeInv, TypeOK
<1>1. CASE Direct \/ PassUnobserved \/ PassReplayed \/ PassDelivered
    BY <1>0, <1>1, LengthsInvInCall
<1>2. CASE PassEnds \/ ReturnSuspended \/ ReturnOk
    BY <1>0, <1>2, LengthsStay
    DEF PassEnds, ReturnSuspended, ReturnOk, Idle, returnVars, passVars, Open
<1>3. CASE ReturnFinished \/ ReturnError
    BY <1>3 DEF ReturnFinished, ReturnError, Idle, LengthsInv, Open
<1>4. ASSUME NEW n \in Nat, NEW final \in BOOLEAN, CallStarts(n, final)
      PROVE  LengthsInv'
    <2>1. /\ pc = "idle" /\ parsing # "FINISHED" /\ UNCHANGED <<slots, given>>
          /\ finalBuffer' = final
        BY <1>4 DEF CallStarts, Call
    <2>2. CASE Refuse(n)
        BY <2>2 DEF Refuse, LengthsInv, Open
    <2>3. CASE Wait(n, final)
        BY <1>0, <2>1, <2>3, LengthsStay DEF Wait, callVars, Open
    <2>4. CASE StartPass(n, final)
        <3>1. pc' = "pass" => at' = 1
            BY <1>0, <2>1, <2>4, StartPassDecides DEF DeferInv
        <3>2. UNCHANGED <<lengths, failed>>
            BY <2>4 DEF StartPass
        <3>. QED BY <1>0, <2>1, <3>1, <3>2, LengthsStay DEF Open
    <2>. QED BY <1>4, <2>2, <2>3, <2>4 DEF CallStarts, Call
<1>5. CASE StopBetweenCalls
    BY <1>0, <1>5, LengthsStay
    DEF StopBetweenCalls, XML_StopParser, handlerVars, nativeVars, callVars, Open
<1>6. CASE SetHandlers \/ XML_ParserReset
    <2>1. pc' = "idle" /\ given'.cb = 0
        <3>1. "changes_handlers" \notin App
            BY DEF Steady
        <3>. QED BY <1>6, <3>1
                 DEF SetHandlers, XML_ParserReset, StatusInv, Nothing, cVars, callVars
    <2>2. \A c \in Callback : ~(c < 0) /\ c # 0
        BY <1>0, DocumentFacts DEF Callback
    <2>3. \A c \in Registered' : ~(c < 0) /\ c # 0
        BY <1>0, <2>2, SameLayout DEF Registered
    <2>. QED BY <2>1, <2>3 DEF LengthsInv
<1>7. CASE XML_SetReparseDeferralEnabled \/ UNCHANGED vars
    <2>1. UNCHANGED <<slots, given, lengths, failed, pc, parsing, at, extent>>
        BY <1>7 DEF XML_SetReparseDeferralEnabled, vars, handlerVars, nativeVars, callVars
    <2>2. /\ Registered' = Registered /\ \A c : Had(c)' = Had(c) /\ Whole(c)' = Whole(c)
          /\ \A c : (Reported(c, extent))' = Reported(c, extent) /\ Kind' = Kind
        BY <1>0, <2>1, SameRegistered, SameLayout DEF Reported
    <2>3. Open' = Open
        BY <2>1 DEF Open
    <2>. QED BY <2>1, <2>2, <2>3 DEF LengthsInv
<1>. QED BY <1>0, <1>1, <1>2, <1>3, <1>4, <1>5, <1>6, <1>7, StepCases

-----------------------------------------------------------------------------
(* What the application has.                                               *)

(* The calls that return without a parse hide no callback: none that the   *)
(* application registered for is made from the bytes so far.               *)
LEMMA WaitsHideNothing ==
    ASSUME Steady, TypeOK, NEW n \in Nat, NEW final, Waits(n, final),
           NEW c \in Registered, NEW b \in Nat, b <= buffer + n
    PROVE  ~Seen(c, b)
<1>1. /\ buffer + n \in Nat /\ doc \in Documents /\ c \in Callback /\ c \in Nat
    BY DocumentFacts DEF TypeOK, Registered, Callback
<1>2. /\ Ready[c] \in Nat /\ First[c] \in Nat /\ Last[c] \in Nat /\ Ready[c] > 1
      /\ First[c] < Ready[c] /\ Ready[c] <= Last[c]
    BY <1>1, DocumentFacts, TokenFacts
<1>3. Ready[c] <= b => FALSE
    <2>1. CASE InSignature(buffer + n)
        BY <1>1, <1>2, <2>1 DEF InSignature
    <2>2. CASE OnlySpaces(buffer + n)
        <3>1. PICK p \in Plain : First[p] = 0 /\ buffer + n < Last[p]
            BY <2>2 DEF OnlySpaces
        <3>2. /\ p \in Callback /\ p \in Nat /\ Last[p] \in Nat /\ Ready[p] = Last[p]
              /\ c < p => Last[c] <= First[p]
              /\ p < c => Last[p] <= First[c]
            BY <1>1, <3>1, PlainFacts, DocumentFacts DEF Callback
        <3>3. ~(c < p)
            BY <1>2, <3>1, <3>2
        <3>4. CASE c = p
            BY <1>1, <1>2, <3>1, <3>2, <3>4
        <3>5. CASE p < c
            BY <1>1, <1>2, <3>1, <3>2, <3>5
        <3>. QED BY <1>1, <3>2, <3>3, <3>4, <3>5
    <2>3. CASE OnlyText(n)
        BY <2>3 DEF OnlyText, Registered
    <2>4. CASE InDoctype(buffer + n)
        <3>1. PICK d \in Callback : Kind[d] = "doctype" /\ First[d] = 0 /\ buffer + n < Last[d]
            BY <2>4 DEF InDoctype
        <3>2. Kind[c] \notin {"doctype", "comment"}
            BY <2>4 DEF InDoctype, DoctypeObservers, Registered
        <3>3. First[c] # First[d]
            BY <1>1, <3>1, <3>2, TokenFacts
        <3>4. /\ d \in Nat /\ Last[d] \in Nat
              /\ c < d => Last[c] <= First[d]
              /\ d < c => Last[d] <= First[c]
            BY <1>1, <3>3, LayoutFacts, DocumentFacts DEF Callback
        <3>5. CASE c < d
            BY <1>2, <3>1, <3>4, <3>5
        <3>6. CASE d < c
            BY <1>1, <1>2, <3>1, <3>4, <3>6
        <3>. QED BY <1>1, <3>3, <3>4, <3>5, <3>6
    <2>. QED BY <2>1, <2>2, <2>3, <2>4 DEF Waits
<1>. QED BY <1>1, <1>3, SeenFacts

(* A pass that has come to its end has gone over all that its bytes hold.  *)
LEMMA PassHasAll ==
    ASSUME TypeInv, DeferInv, BufferInv, GivenInv, CountInv, LengthsInv,
           pc = "pass", ~failed, ~AtCallback
    PROVE  HasAll(extent)
<1>1. /\ TypeOK /\ doc \in Documents /\ N \in Nat /\ at \in 1..N + 1 /\ extent \in Nat
      /\ given.cb \in Nat /\ given.to \in Nat /\ supplied \in Nat
      /\ buffer \in Nat /\ deferStart \in Nat /\ delivered \in Nat
    BY DocumentFacts DEF TypeInv, TypeOK
<1>2. /\ sequence = Had(at - 1) /\ Had(given.cb) = Reached
    BY DEF CountInv
<1>3. extent = Bound /\ buffer = supplied /\ extent <= supplied
    BY <1>1, ExtentFacts
<1>. SUFFICES ASSUME NEW c \in Registered, Seen(c, extent)
              PROVE  c < given.cb \/ (c = given.cb /\ given.to = Reported(c, extent))
    BY DEF HasAll
<1>4. c \in Callback /\ c \in Nat
    BY <1>1, DocumentFacts DEF Registered, Callback
<1>5. c <= at - 1 /\ at - 1 \in Nat
    <2>1. ASSUME ~(c <= at - 1)
          PROVE  FALSE
        <3>1. at \in Callback /\ (at = c \/ at < c)
            BY <1>1, <1>4, <2>1 DEF Callback
        <3>2. ~Seen(at, extent)
            BY <1>1, <3>1 DEF AtCallback, Callback
        <3>. QED BY <1>1, <1>4, <3>1, <3>2, SeenInOrder
    <2>. QED BY <1>1, <2>1
<1>6. c <= given.cb
    <2>1. Had(c) <= Had(at - 1) /\ (given.cb < c => Had(given.cb) < Had(c))
        BY <1>1, <1>4, <1>5, HadGrows
    <2>2. Had(c) \in Nat /\ Had(at - 1) \in Nat /\ Had(given.cb) \in Nat
        BY <1>1, <1>4, <1>5, HadFacts
    <2>3. Had(at - 1) <= Had(given.cb)
        BY <1>1, <1>2, <2>2 DEF Reached
    <2>. QED BY <1>1, <1>4, <2>1, <2>2, <2>3
<1>7. ASSUME c = given.cb
      PROVE  given.to = Reported(c, extent)
    <2>1. given.to > 0 /\ given.to <= Reported(c, supplied)
        BY <1>1, <1>4, <1>7, DocumentFacts DEF GivenInv, Callback
    <2>2. /\ Reported(c, extent) \in Nat /\ Reported(c, supplied) \in Nat
          /\ Reported(c, supplied) <= Whole(c) /\ Whole(c) \in Nat
          /\ Kind[c] # "text" => Reported(c, extent) = 1 /\ Whole(c) = 1
        BY <1>1, <1>3, <1>4, SeenGrows
    <2>3. CASE Kind[c] # "text"
        BY <1>1, <2>1, <2>2, <2>3
    <2>4. CASE Kind[c] = "text"
        <3>1. lengths[Had(c)] = given.to
            BY <1>7, <2>4 DEF LengthsInv, Open
        <3>2. c < at
            BY <1>1, <1>4, <1>5
        <3>3. lengths[Had(c)] >= Reported(c, extent)
            BY <2>4, <3>2 DEF LengthsInv, Open
        <3>4. CASE deferStart > 0
            <4>1. PICK d \in TokenAt(deferStart) : d \in Callback /\ First[d] = extent
                <5>1. PICK d \in TokenAt(deferStart) : TRUE
                    BY <3>4 DEF DeferInv, TokenIsDeferred
                <5>2. d \in Callback /\ First[d] + 1 = deferStart
                    BY <5>1 DEF TokenAt
                <5>3. First[d] = extent
                    BY <1>1, <1>3, <3>4, <5>2, DocumentFacts DEF Bound
                <5>. QED BY <5>2, <5>3
            <4>2. Reported(c, extent) = Whole(c)
                BY <1>1, <1>4, <4>1, TextBeforeToken
            <4>. QED BY <1>1, <2>1, <2>2, <3>1, <3>3, <4>2
        <3>5. CASE ~(deferStart > 0)
            <4>1. extent = supplied
                BY <1>3, <3>5 DEF Bound
            <4>. QED BY <1>1, <2>1, <2>2, <3>1, <3>3, <4>1
        <3>. QED BY <3>4, <3>5
    <2>. QED BY <2>3, <2>4
<1>. QED BY <1>1, <1>4, <1>6, <1>7

(* After the start tag that went out without a parse there is nothing.     *)
LEMMA DirectHasAll ==
    ASSUME Steady, TypeInv, DeferInv, StatusInv, BufferInv, DirectInv, GivenInv,
           CountInv, Direct
    PROVE  /\ \A c \in Registered : Seen(c, extent) =>
                 c < at \/ (c = at /\ Reported(c, extent) = 1)
           /\ Accepts(extent, finalBuffer)
<1>1. /\ at \in Plain /\ at \in Callback /\ at \in Nat /\ Last[at] = extent
      /\ extent = supplied /\ Reported(at, supplied) = 1 /\ ~finalBuffer
    BY DirectFacts
<1>2. doc \in Documents /\ extent \in Nat
    BY DEF TypeInv, TypeOK
<1>3. /\ Last[at] <= BadFrom /\ BadFrom < BadAt /\ BadFrom \in Nat /\ BadAt \in Nat
      /\ \A d \in Callback : at < d => Last[at] <= First[d]
    BY <1>1, <1>2, PlainFacts, LayoutFacts
<1>4. Accepts(extent, finalBuffer)
    BY <1>1, <1>2, <1>3 DEF Accepts
<1>5. ASSUME NEW c \in Registered, Seen(c, extent)
      PROVE  c < at \/ (c = at /\ Reported(c, extent) = 1)
    <2>1. c \in Callback /\ c \in Nat
        BY <1>2, DocumentFacts DEF Registered, Callback
    <2>2. /\ Ready[c] \in Nat /\ First[c] \in Nat /\ First[c] < Ready[c] /\ Ready[c] <= extent
        BY <1>2, <1>5, <2>1, DocumentFacts, SeenFacts
    <2>3. ~(at < c)
        BY <1>1, <1>2, <1>3, <2>1, <2>2
    <2>. QED BY <1>1, <2>1, <2>3
<1>. QED BY <1>4, <1>5

(* A step that gives nothing leaves the application with what it has.      *)
LEMMA HasAllStays ==
    ASSUME UNCHANGED <<doc, slots, given>>
    PROVE  \A b : HasAll(b)' <=> HasAll(b)
BY SameRegistered DEF HasAll

(* A deferred plain start tag comes after the last callback.               *)
LEMMA DeferredTagStays ==
    ASSUME UNCHANGED <<doc, given, deferStart>>, ~failed, HeldInv, deferStart > 0
    PROVE  \A c \in Plain : First[c] + 1 = deferStart => given.cb < c
BY DEF HeldInv

(* A call that parses defers no tag that the application has had.          *)
LEMMA StartPassDefersNew ==
    ASSUME Steady, TypeInv, DeferInv, StatusInv, BufferInv, GivenInv, HeldInv,
           NEW n \in Nat, NEW final, CallStarts(n, final), StartPass(n, final),
           ~failed, deferStart' > 0, NEW c \in Plain, First[c] + 1 = deferStart'
    PROVE  given.cb < c
<1>1. /\ pc = "idle" /\ parsing # "FINISHED" /\ final \in BOOLEAN /\ finalBuffer' = final
      /\ UNCHANGED doc
    BY DEF CallStarts, Call
<1>2. /\ TypeOK /\ doc \in Documents /\ deferStart \in Nat /\ given.cb \in Nat
      /\ buffer' = buffer + n /\ buffer \in Nat /\ supplied \in Nat
    BY DocumentFacts DEF TypeInv, TypeOK, StartPass
<1>3. deferStart' = DeferredStart(buffer')
    BY <1>1, <1>2, StartPassDecides DEF DeferInv
<1>4. CASE deferStart > 0
    BY <1>3, <1>4 DEF HeldInv, DeferredStart
<1>5. CASE ~(deferStart > 0)
    <2>1. deferStart' = IncompleteStart(buffer') /\ buffer' \in Nat
        BY <1>2, <1>3, <1>5 DEF DeferredStart
    <2>2. /\ c \in Callback /\ c \in Nat /\ Ready[c] = Last[c] /\ Kind[c] # "text"
          /\ Ready[c] \in Nat
        BY <1>2, PlainFacts, DocumentFacts DEF Callback
    <2>3. c \in TokenAt(deferStart')
        BY <2>2 DEF TokenAt
    <2>4. buffer' < Ready[c]
        BY <1>2, <2>1, <2>2, <2>3, IncompleteStartFacts
    <2>5. buffer = supplied
        BY <1>1 DEF BufferInv, Open
    <2>6. ASSUME given.cb > 0, ~(given.cb < c)
          PROVE  FALSE
        <3>1. given.cb \in Callback /\ Seen(given.cb, supplied)
            BY <2>6 DEF GivenInv, Registered
        <3>2. Ready[given.cb] \in Nat /\ Ready[given.cb] <= supplied
            BY <1>2, <3>1, SeenFacts, DocumentFacts
        <3>3. Ready[c] <= Ready[given.cb]
            BY <1>2, <2>2, <2>6, <3>1, <3>2, LayoutFacts
        <3>. QED BY <1>2, <2>2, <2>4, <2>5, <3>2, <3>3
    <2>7. 0 < c
        BY <1>2, <2>2, DocumentFacts DEF Callback
    <2>. QED BY <1>2, <2>2, <2>6, <2>7
<1>. QED BY <1>4, <1>5

LEMMA HeldInvNext ==
    ASSUME Steady, TypeInv, DeferInv, StatusInv, BufferInv, DirectInv, GivenInv,
           CountInv, LengthsInv, HeldInv, [Next]_vars
    PROVE  HeldInv'
<1>0. UNCHANGED doc /\ TypeOK /\ doc \in Documents /\ Plain' = Plain /\ First' = First
    BY DocumentStays, SameLayout DEF TypeInv, TypeOK
<1>1. CASE Direct
    <2>1. /\ ~finalBuffer /\ UNCHANGED slots /\ ~stopRequested'
        BY <1>1, DirectFacts
    <2>2. /\ pc' = "return" /\ result' = "OK" /\ given'.cb = at /\ given'.to = 1
          /\ UNCHANGED <<extent, finalBuffer, deferStart>>
        BY <1>1, <2>1 DEF Direct, Give
    <2>3. HasAll(extent)' /\ Accepts(extent, finalBuffer)'
        <3>1. /\ \A c \in Registered : Seen(c, extent) =>
                     c < at \/ (c = at /\ Reported(c, extent) = 1)
              /\ Accepts(extent, finalBuffer)
            BY <1>1, DirectHasAll
        <3>2. Registered' = Registered
            BY <1>0, <2>1, SameRegistered
        <3>3. \A c : (Seen(c, extent))' = Seen(c, extent) /\ (Reported(c, extent))' = Reported(c, extent)
            BY <1>0, <2>2, SameLayout DEF Seen, Reported
        <3>4. HasAll(extent)'
            BY <2>2, <3>1, <3>2, <3>3 DEF HasAll
        <3>5. Accepts(extent, finalBuffer)'
            BY <1>0, <2>1, <2>2, <3>1, SameLayout DEF Accepts
        <3>. QED BY <3>4, <3>5
    <2>4. deferStart' = 0
        BY <1>1, <2>2 DEF Direct, DeferInv
    <2>. QED BY <2>2, <2>3, <2>4 DEF HeldInv, Live
<1>2. CASE PassUnobserved \/ PassReplayed
    <2>1. pc' = "pass" /\ UNCHANGED <<given, deferStart, failed>>
        BY <1>2 DEF PassUnobserved, PassReplayed, GoOnUnlessStopped, StatusInv, AtCallback,
           passVars
    <2>. QED BY <1>0, <2>1, DeferredTagStays DEF HeldInv, Live
<1>3. CASE PassDelivered
    <2>1. /\ pc' = "pass" \/ (pc' = "return" /\ stopRequested')
          /\ given'.cb = at /\ UNCHANGED deferStart
        BY <1>3 DEF PassDelivered, Give, GoOnUnlessStopped, AtCallback, passVars
    <2>2. /\ at \in Callback /\ Seen(at, extent) /\ pc = "pass"
        BY <1>0, <1>3, AtCallbackFacts DEF PassDelivered
    <2>3. ASSUME deferStart > 0, NEW c \in Plain, First[c] + 1 = deferStart
          PROVE  at < c
        <3>1. extent = First[c] /\ c \in Callback
            <4>1. extent = deferStart - 1
                BY <1>0, <2>2, <2>3, ExtentFacts DEF Bound
            <4>2. c \in Callback /\ First[c] \in Nat
                BY <1>0, DocumentFacts
            <4>. QED BY <2>3, <4>1, <4>2
        <3>. QED BY <1>0, <2>2, <3>1, TextBeforeToken
    <2>. QED BY <1>0, <2>1, <2>3 DEF HeldInv, Live
<1>4. CASE PassEnds
    <2>1. /\ pc = "pass" /\ ~AtCallback /\ pc' = "return"
          /\ result' = IF Accepts(extent, finalBuffer) THEN "OK" ELSE "ERROR"
          /\ UNCHANGED <<given, slots, deferStart, extent, finalBuffer, failed>>
        BY <1>4 DEF PassEnds, passVars
    <2>2. ~failed => HasAll(extent)
        BY <2>1, PassHasAll
    <2>3. /\ HasAll(extent)' <=> HasAll(extent)
          /\ Accepts(extent, finalBuffer)' <=> Accepts(extent, finalBuffer)
        BY <1>0, <2>1, SameRegistered, SameLayout
        DEF HasAll, Seen, Reported, Accepts, Unfinished
    <2>. QED BY <1>0, <2>1, <2>2, <2>3, DeferredTagStays DEF HeldInv, Live
<1>5. CASE ReturnSuspended
    <2>1. /\ pc = "return" /\ parsing' = "SUSPENDED" /\ pc' = "idle"
          /\ UNCHANGED <<given, slots, deferStart, buffer, failed>>
        BY <1>5 DEF ReturnSuspended, returnVars, Idle
    <2>2. (PlainTag(deferStart, buffer))' = {}
        BY <2>1, <1>0, SameLayout DEF DeferInv, CallIsDecided, PlainTag
    <2>. QED BY <1>0, <2>1, <2>2, DeferredTagStays DEF HeldInv
<1>6. CASE ReturnOk
    <2>1. /\ pc = "return" /\ result = "OK" /\ parsing' = "PARSING" /\ pc' = "idle"
          /\ UNCHANGED <<given, slots, deferStart, buffer, failed>>
        BY <1>6 DEF ReturnOk, returnVars, Idle
    <2>2. (PlainTag(deferStart, buffer))' = {}
        BY <2>1, <1>0, SameLayout DEF DeferInv, CallIsDecided, PlainTag
    <2>3. ~failed => HasAll(extent)
        BY <2>1 DEF HeldInv, StatusInv
    <2>4. extent = Bound
        BY <2>1 DEF DeferInv, CallIsDecided
    <2>5. HasAll(Bound)' <=> HasAll(Bound)
        BY <1>0, <2>1, SameRegistered, SameLayout DEF HasAll, Bound, Seen, Reported
    <2>. QED BY <1>0, <2>1, <2>2, <2>3, <2>4, <2>5, DeferredTagStays DEF HeldInv
<1>7. CASE ReturnFinished \/ ReturnError
    <2>1. pc' = "idle" /\ deferStart' = 0 /\ (failed' \/ parsing' = "FINISHED")
        BY <1>7 DEF ReturnFinished, ReturnError, Idle, ClearReplay
    <2>. QED BY <2>1 DEF HeldInv, Live
<1>8. ASSUME NEW n \in Nat, NEW final \in BOOLEAN, CallStarts(n, final), ~failed'
      PROVE  HeldInv'
    <2>0. pc = "idle" /\ parsing # "FINISHED" /\ UNCHANGED <<slots, given>>
        BY <1>8 DEF CallStarts, Call
    <2>1. Wait(n, final) \/ StartPass(n, final)
        BY <1>8 DEF CallStarts, Call, Refuse
    <2>2. ~failed /\ UNCHANGED failed
        <3>1. UNCHANGED failed
            BY <2>1 DEF Wait, StartPass
        <3>. QED BY <1>8, <3>1
    <2>3. CASE Wait(n, final)
        <3>1. /\ Waits(n, final) /\ UNCHANGED deferStart /\ buffer' = buffer + n
              /\ pc' = "idle" /\ buffer \in Nat /\ deferStart \in Nat
            BY <1>0, <2>0, <2>3 DEF Wait, callVars, TypeOK
        <3>2. deferStart > 0 => deferStart - 1 < buffer
            BY DEF DeferInv, TokenIsDeferred
        <3>3. ASSUME NEW b \in Nat, b <= buffer + n
              PROVE  HasAll(b)'
            <4>1. HasAll(b)
                BY <1>0, <3>1, <3>3, WaitsHideNothing DEF HasAll
            <4>. QED BY <1>0, <2>0, <4>1, HasAllStays
        <3>4. /\ Bound' \in Nat /\ Bound' <= buffer + n
              /\ deferStart > 0 => deferStart - 1 \in Nat /\ deferStart - 1 <= buffer + n
            BY <3>1, <3>2 DEF Bound
        <3>5. HasAll(Bound)' /\ (deferStart > 0 => HasAll(deferStart - 1)')
            <4>1. PICK b \in Nat : b = Bound' /\ HasAll(b)'
                BY <3>3, <3>4
            <4>2. HasAll(Bound)'
                BY <4>1 DEF HasAll, Seen, Reported
            <4>3. deferStart > 0 => HasAll(deferStart - 1)'
                <5>1. ASSUME deferStart > 0
                      PROVE  HasAll(deferStart - 1)'
                    <6>1. PICK e \in Nat : e = deferStart' - 1 /\ HasAll(e)'
                        BY <3>1, <3>3, <3>4, <5>1
                    <6>. QED BY <6>1 DEF HasAll, Seen, Reported
                <5>. QED BY <5>1
            <4>. QED BY <4>2, <4>3
        <3>. QED BY <1>0, <2>0, <2>2, <3>1, <3>5, DeferredTagStays DEF HeldInv
    <2>4. CASE StartPass(n, final)
        <3>1. pc' \in {"direct", "pass"}
            BY <1>0, <1>8, <2>4, StartPassDecides DEF CallStarts, Call, DeferInv
        <3>2. deferStart' > 0 => \A c \in Plain : First[c] + 1 = deferStart' => given.cb < c
            BY <1>8, <2>2, <2>4, StartPassDefersNew
        <3>. QED BY <1>0, <2>0, <3>1, <3>2 DEF HeldInv, Live
    <2>. QED BY <2>1, <2>3, <2>4
<1>9. CASE \E n \in Nat, final \in BOOLEAN : CallStarts(n, final)
    <2>1. CASE failed'
        BY <2>1 DEF HeldInv
    <2>. QED BY <1>8, <1>9, <2>1
<1>10. CASE StopBetweenCalls
    <2>1. /\ UNCHANGED <<slots, given, failed, pc, deferStart, buffer>> /\ pc = "idle"
          /\ parsing' # "PARSING"
          /\ parsing' = "SUSPENDED" => parsing = "PARSING"
        BY <1>10 DEF StopBetweenCalls, XML_StopParser, handlerVars, nativeVars, callVars
    <2>2. ~failed /\ parsing' = "SUSPENDED" /\ deferStart > 0 => HasAll(deferStart - 1)
        BY <2>1 DEF HeldInv, Live, Bound
    <2>3. (HasAll(deferStart - 1))' <=> HasAll(deferStart - 1)
        BY <1>0, <2>1, SameRegistered, SameLayout DEF HasAll, Seen, Reported
    <2>. QED BY <1>0, <2>1, <2>2, <2>3, DeferredTagStays DEF HeldInv, Live
<1>11. CASE SetHandlers \/ XML_ParserReset
    <2>1. parsing' = "INITIALIZED" /\ pc' = "idle" /\ deferStart' = 0
        <3>1. "changes_handlers" \notin App
            BY DEF Steady
        <3>. QED BY <1>11, <3>1
                 DEF SetHandlers, XML_ParserReset, StatusInv, ClearReplay, cVars,
                     nativeVars, callVars
    <2>. QED BY <2>1 DEF HeldInv, Live
<1>12. CASE XML_SetReparseDeferralEnabled \/ UNCHANGED vars
    <2>1. UNCHANGED <<slots, given, failed, pc, parsing, deferStart, buffer, extent,
                      finalBuffer, stopRequested, result>>
        BY <1>12 DEF XML_SetReparseDeferralEnabled, vars, handlerVars, nativeVars, callVars
    <2>2. /\ HasAll(extent)' <=> HasAll(extent)
          /\ HasAll(Bound)' <=> HasAll(Bound)
          /\ (HasAll(deferStart - 1))' <=> HasAll(deferStart - 1)
        BY <1>0, <2>1, SameRegistered, SameLayout DEF HasAll, Seen, Reported, Bound
    <2>3. /\ Live' <=> Live
          /\ Accepts(extent, finalBuffer)' <=> Accepts(extent, finalBuffer)
          /\ PlainTag(deferStart, buffer)' = PlainTag(deferStart, buffer)
        BY <1>0, <2>1, SameLayout DEF Live, Accepts, Unfinished, PlainTag
    <2>. QED BY <1>0, <2>1, <2>2, <2>3, DeferredTagStays DEF HeldInv
<1>. QED BY <1>0, <1>1, <1>2, <1>3, <1>4, <1>5, <1>6, <1>7, <1>9, <1>10, <1>11, <1>12,
            StepCases

-----------------------------------------------------------------------------
(* The invariant of a steady application.                                  *)

ReplayInv ==
    /\ TypeInv /\ DeferInv /\ StatusInv /\ BufferInv /\ DirectInv
    /\ GivenInv /\ CountInv /\ LengthsInv /\ HeldInv

LEMMA ReplayInvInit == Steady /\ Init => ReplayInv
<1>. SUFFICES ASSUME Steady, Init PROVE ReplayInv
    OBVIOUS
<1>1. pc = "idle" /\ parsing = "INITIALIZED" /\ given.cb = 0 /\ deferStart = 0 /\ doc \in Documents
    BY DEF Init, Nothing
<1>2. DirectInv /\ GivenInv /\ CountInv /\ HeldInv
    BY <1>1 DEF DirectInv, GivenInv, CountInv, HeldInv, Live
<1>3. \A c \in Registered : ~(c < 0) /\ c # 0
    BY <1>1, DocumentFacts DEF Registered, Callback
<1>4. LengthsInv
    BY <1>1, <1>3 DEF LengthsInv
<1>. QED BY <1>2, <1>4, TypeInvInit, DeferInvInit, StatusInvInit, BufferInvInit
         DEF ReplayInv

LEMMA ReplayInvNext == Steady /\ ReplayInv /\ [Next]_vars => ReplayInv'
<1>. SUFFICES ASSUME Steady, ReplayInv, [Next]_vars PROVE ReplayInv'
    OBVIOUS
<1>1. /\ TypeInv /\ DeferInv /\ StatusInv /\ BufferInv /\ DirectInv
      /\ GivenInv /\ CountInv /\ LengthsInv /\ HeldInv /\ TypeOK
    BY DEF ReplayInv, TypeInv
<1>2. TypeInv' /\ DeferInv' /\ StatusInv' /\ BufferInv' /\ DirectInv'
    BY <1>1, TypeInvNext, DeferInvNext, StatusInvNext, BufferInvNext, DirectInvNext
<1>3. GivenInv' /\ CountInv' /\ LengthsInv' /\ HeldInv'
    BY <1>1, GivenInvNext, CountInvNext, LengthsInvNext, HeldInvNext
<1>. QED BY <1>2, <1>3 DEF ReplayInv

(* The abstract specification speaks of the same callbacks.                *)
LEMMA StreamHasAll == \A b : Stream!HasAll(b) <=> HasAll(b)
BY DEF Stream!HasAll, Stream!Callback, Stream!N, Stream!Kind, Stream!Seen, Stream!Ready,
       Stream!BadAt, Stream!BadFrom, Stream!Reported, Stream!First, Stream!Last,
       HasAll, Registered, Callback, N, Kind, Seen, Ready, BadAt, BadFrom, Reported,
       First, Last

(* callbacks_to_suppress of the next pass: between two calls the counter   *)
(* delivered_callback_count is the number of callbacks made.               *)
THEOREM DeliveredCountExact ==
    ASSUME Steady
    PROVE  Spec => []DeliveredCountIsExact
<1>1. Init => ReplayInv
    BY ReplayInvInit
<1>2. ReplayInv /\ [Next]_vars => ReplayInv'
    BY ReplayInvNext
<1>3. ReplayInv => DeliveredCountIsExact
    BY DEF ReplayInv, CountInv, DeliveredCountIsExact, Live, Had
<1>. QED BY <1>1, <1>2, <1>3, PTL DEF Spec

(* A chunk that XML_Parse accepted is never silently held back: what it    *)
(* contains has been given, but for what deferral keeps.                   *)
THEOREM NothingIsHeldBack ==
    ASSUME Steady
    PROVE  Spec => []NothingHeldBack
<1>1. Init => ReplayInv
    BY ReplayInvInit
<1>2. ReplayInv /\ [Next]_vars => ReplayInv'
    BY ReplayInvNext
<1>3. ReplayInv => NothingHeldBack
    BY StreamHasAll DEF ReplayInv, HeldInv, NothingHeldBack, Live, Bound
<1>. QED BY <1>1, <1>2, <1>3, PTL DEF Spec

-----------------------------------------------------------------------------
(* Replaying implements the callback stream: step by step.                 *)

(* The operators of the abstract specification about one callback.         *)
LEMMA StreamOperators ==
    /\ Stream!Callback = Callback /\ Stream!Kind = Kind /\ Stream!DocSize = DocSize
    /\ \A c, b : Stream!Seen(c, b) <=> Seen(c, b)
    /\ \A c, b : Stream!Reported(c, b) = Reported(c, b)
    /\ \A c : Stream!Whole(c) = Whole(c)
    /\ \A b, f : Stream!Accepts(b, f) <=> Accepts(b, f)
BY DEF Stream!Callback, Stream!N, Stream!Kind, Stream!Seen, Stream!Ready, Stream!DocSize,
       Stream!BadAt, Stream!BadFrom, Stream!Reported, Stream!First, Stream!Last,
       Stream!Whole, Stream!Accepts, Stream!RootEnd, Stream!Unfinished,
       Callback, N, Kind, Seen, Ready, BadAt, BadFrom, Reported, First, Last, DocSize,
       Whole, Accepts, RootEnd, Unfinished

(* A callback of the handler is one of the stream.                         *)
LEMMA DeliverStep ==
    ASSUME TypeOK, NEW c \in Callback, NEW f \in Nat, NEW t \in Nat,
           UNCHANGED <<doc, slots, supplied, finalBuffer>>,
           StreamStatus = "open", StreamStatus' \in {"open", "suspended", "aborted"},
           Give(c, f, t), Seen(c, supplied), f < t, t <= Reported(c, supplied),
           t <= supplied, c \in Registered,
           \/ given.cb = c /\ f = given.to
           \/ /\ given.cb < c /\ f = 0
              /\ given.cb > 0 => given.to = Whole(given.cb)
              /\ \A d \in Registered : d <= given.cb \/ d >= c
    PROVE  Stream!Next
<1>1. /\ given' = [turn |-> 1 - given.turn, cb |-> c, from |-> f, to |-> t]
      /\ given'.cb = c /\ given'.from = f /\ given'.to = t
    BY DEF Give
<1>2. supplied \in Nat /\ f \in 0..supplied /\ t \in 0..supplied
    BY DEF TypeOK
<1>3. Kind[c] \in slots
    BY DEF Registered
<1>4. \A d \in Callback : d \in Int
    BY DocumentFacts DEF TypeOK, Callback
<1>5. Stream!Follows(given, given')
    <2>1. CASE given.cb = c /\ f = given.to
        BY <1>1, <2>1 DEF Stream!Follows
    <2>2. CASE /\ given.cb < c /\ f = 0
               /\ given.cb > 0 => given.to = Whole(given.cb)
               /\ \A d \in Registered : d <= given.cb \/ d >= c
        <3>1. ASSUME NEW d \in Callback, given.cb < d, d < c
              PROVE  Kind[d] \notin slots
            <4>1. d \notin Registered
                <5>1. given.cb \in Int /\ c \in Int /\ d \in Int
                    BY <1>4, DocumentFacts DEF TypeOK
                <5>. QED BY <2>2, <3>1, <5>1
            <4>. QED BY <4>1 DEF Registered
        <3>2. given'.cb > given.cb
            BY <1>1, <1>4, <2>2, DocumentFacts DEF TypeOK
        <3>. QED BY <1>1, <1>3, <2>2, <3>1, <3>2, StreamOperators DEF Stream!Follows
    <2>. QED BY <2>1, <2>2
<1>6. Stream!Deliver
    BY <1>1, <1>2, <1>5, StreamOperators DEF Stream!Deliver
<1>. QED BY <1>6 DEF Stream!Next

(* What the application sees of the parser decides the status.             *)
LEMMA SameStatus ==
    ASSUME UNCHANGED <<failed, stopRequested, stopResumable, parsing>>
    PROVE  StreamStatus' = StreamStatus
BY DEF StreamStatus

(* A new callback of a pass, or the direct start tag.                      *)
LEMMA InCallDelivers ==
    ASSUME Steady, ReplayInv, UNCHANGED doc, Direct \/ PassDelivered
    PROVE  Stream!Next
<1>0. /\ TypeInv /\ DeferInv /\ StatusInv /\ BufferInv /\ DirectInv
      /\ GivenInv /\ CountInv /\ LengthsInv /\ HeldInv /\ TypeOK
    BY DEF ReplayInv, TypeInv
<1>a. /\ doc \in Documents /\ supplied \in Nat /\ extent \in Nat
    BY <1>0 DEF TypeOK
<1>1. CASE Direct
    <2>1. /\ at \in Registered /\ at \in Callback /\ Seen(at, supplied)
          /\ Reported(at, supplied) = 1 /\ UNCHANGED slots
          /\ UNCHANGED <<stopRequested, stopResumable, parsing>> /\ ~failed /\ pc = "direct"
          /\ given.cb < at
          /\ given.cb > 0 => given.to = Whole(given.cb)
          /\ \A c \in Registered : c <= given.cb \/ c >= at
        BY <1>0, <1>1, DirectFacts
    <2>2. /\ Give(at, 0, 1) /\ UNCHANGED <<failed, supplied, finalBuffer>>
        BY <1>1 DEF Direct
    <2>3. StreamStatus = "open" /\ StreamStatus' = "open"
        BY <1>0, <2>1, <2>2, SameStatus DEF StreamStatus, StatusInv
    <2>4. 1 <= supplied
        BY <1>a, <2>1, SeenGrows
    <2>. QED BY <1>0, <2>1, <2>2, <2>3, <2>4, DeliverStep
<1>2. CASE PassDelivered
    <2>0. AtCallback /\ Observed /\ (~Replayed \/ Grows)
        BY <1>2 DEF PassDelivered
    <2>1. /\ at \in Callback /\ at \in Registered /\ pc = "pass" /\ ~failed
          /\ Seen(at, extent) /\ Seen(at, supplied)
        BY <1>0, <2>0, AtCallbackFacts, NumberFacts
    <2>2. extent <= supplied
        BY <1>0, <2>1, ExtentFacts
    <2>3. /\ Reported(at, extent) \in Nat
          /\ Reported(at, extent) <= Reported(at, supplied)
          /\ Reported(at, extent) <= extent
        BY <1>a, <2>1, <2>2, SeenGrows
    <2>4. /\ Give(at, Already, Reported(at, extent))
          /\ UNCHANGED <<failed, supplied, finalBuffer, slots>>
        BY <1>2 DEF PassDelivered, passVars, ChangesHandlers, Steady
    <2>5. StreamStatus = "open"
        BY <1>0, <2>1 DEF StreamStatus, StatusInv
    <2>6. StreamStatus' \in {"open", "suspended", "aborted"}
        BY <1>0, <1>2, <2>1, <2>4
        DEF StreamStatus, StatusInv, PassDelivered, Stops, XML_StopParser, TypeOK
    <2>7. /\ Already \in Nat /\ Already < Reported(at, extent)
          /\ \/ /\ given.cb < at /\ Already = 0
                /\ given.cb > 0 => given.to = Whole(given.cb)
                /\ \A c \in Registered : c <= given.cb \/ c >= at
             \/ given.cb = at /\ Already = given.to
        BY <1>0, <2>0, DeliveryFacts
    <2>8. Reported(at, extent) <= supplied
        BY <1>a, <2>2, <2>3
    <2>. QED BY <1>0, <2>1, <2>3, <2>4, <2>5, <2>6, <2>7, <2>8, DeliverStep
<1>. QED BY <1>1, <1>2

(* The application supplies bytes, which a limit may refuse.               *)
LEMMA ParseSupplies ==
    ASSUME ReplayInv, UNCHANGED doc, NEW n \in Chunks, NEW f \in BOOLEAN, XML_Parse(n, f)
    PROVE  Stream!Next
<1>1. /\ TypeOK /\ StatusInv /\ BufferInv /\ n \in Nat /\ supplied \in Nat
      /\ DocSize \in Nat
    <2>1. TypeOK /\ StatusInv /\ BufferInv
        BY DEF ReplayInv, TypeInv
    <2>2. doc \in Documents /\ supplied \in Nat
        BY <2>1 DEF TypeOK
    <2>3. n \in Nat
        BY <2>2, DocumentFacts
    <2>4. DocSize \in Nat
        BY <2>2, DocumentAssumption DEF IsDocument, DocSize
    <2>. QED BY <2>1, <2>2, <2>3, <2>4
<1>2. /\ parsing \in {"INITIALIZED", "PARSING"} /\ ~failed
      /\ supplied' = supplied + n /\ supplied' <= DocSize /\ Call(n, f)
    BY DEF XML_Parse, AcceptsInput
<1>3. StreamStatus = "open"
    BY <1>1, <1>2 DEF StreamStatus, StatusInv
<1>4. /\ UNCHANGED <<slots, given>> /\ finalBuffer' \in BOOLEAN
      /\ ~stopRequested' /\ parsing' = "PARSING"
    BY <1>2 DEF Call, Refuse, Wait, StartPass
<1>a. Refuse(n) \/ Wait(n, f) \/ StartPass(n, f)
    BY <1>2 DEF Call
<1>b. failed' => Refuses(n)
    BY <1>2, <1>a DEF Refuse, Wait, StartPass
<1>5. failed' => supplied' > supplied
    BY <1>1, <1>2, <1>b, EmptyCallAccepted
<1>6. StreamStatus' = IF failed' THEN "failed" ELSE "open"
    BY <1>4 DEF StreamStatus
<1>7. supplied' \in supplied..DocSize
    BY <1>1, <1>2
<1>8. Stream!Supply
    BY <1>3, <1>4, <1>5, <1>6, <1>7, StreamOperators DEF Stream!Supply
<1>. QED BY <1>8 DEF Stream!Next

(* XML_ResumeParser goes on after a suspension; a failed parser stays so.  *)
LEMMA ResumeStep ==
    ASSUME ReplayInv, UNCHANGED doc, XML_ResumeParser
    PROVE  Stream!Next \/ UNCHANGED Stream!vars
<1>1. TypeOK /\ StatusInv /\ BufferInv
    BY DEF ReplayInv, TypeInv
<1>2. parsing = "SUSPENDED" /\ Call(0, finalBuffer) /\ UNCHANGED supplied /\ pc = "idle"
    BY DEF XML_ResumeParser
<1>3. ~Refuses(0)
    BY <1>1, EmptyCallAccepted
<1>4. /\ UNCHANGED <<slots, given, failed, finalBuffer>>
      /\ ~stopRequested' /\ parsing' = "PARSING"
    BY <1>2, <1>3 DEF Call, Refuse, Wait, StartPass
<1>5. CASE failed
    <2>1. StreamStatus = "failed" /\ StreamStatus' = "failed"
        BY <1>4, <1>5 DEF StreamStatus
    <2>. QED BY <1>2, <1>4, <2>1 DEF Stream!vars
<1>6. CASE ~failed
    <2>1. StreamStatus = "suspended"
        BY <1>1, <1>2, <1>6 DEF StreamStatus, StatusInv
    <2>2. StreamStatus' = "open"
        BY <1>4, <1>6 DEF StreamStatus
    <2>3. Stream!Resume
        BY <1>2, <1>4, <2>1, <2>2 DEF Stream!Resume
    <2>. QED BY <2>3 DEF Stream!Next
<1>. QED BY <1>5, <1>6

(* The last chunk is accepted: the application has everything.             *)
LEMMA FinishStep ==
    ASSUME ReplayInv, UNCHANGED doc, ReturnFinished
    PROVE  Stream!Next \/ UNCHANGED Stream!vars
<1>1. TypeOK /\ DeferInv /\ StatusInv /\ BufferInv /\ HeldInv
    BY DEF ReplayInv, TypeInv
<1>2. /\ pc = "return" /\ result = "OK" /\ finalBuffer /\ parsing' = "FINISHED"
      /\ UNCHANGED <<failed, stopRequested, stopResumable, finalBuffer, slots,
                     supplied, given>>
    BY DEF ReturnFinished, returnVars
<1>3. parsing = "PARSING" /\ ~stopRequested
    BY <1>1, <1>2 DEF StatusInv
<1>4. CASE failed
    <2>1. StreamStatus = "failed" /\ StreamStatus' = "failed"
        BY <1>2, <1>4 DEF StreamStatus
    <2>. QED BY <1>2, <2>1 DEF Stream!vars
<1>5. CASE ~failed
    <2>1. StreamStatus = "open" /\ StreamStatus' = "finished"
        BY <1>2, <1>3, <1>5 DEF StreamStatus
    <2>2. extent = supplied
        BY <1>1, <1>2, <1>5, ExtentFacts
    <2>3. HasAll(supplied) /\ Accepts(supplied, finalBuffer)
        BY <1>1, <1>2, <1>3, <1>5, <2>2 DEF HeldInv
    <2>4. Stream!Finish
        BY <1>2, <2>1, <2>3, StreamHasAll, StreamOperators DEF Stream!Finish
    <2>. QED BY <2>4 DEF Stream!Next
<1>. QED BY <1>4, <1>5

(* What is not well formed in a prefix is not well formed in all of the    *)
(* input, and no callback comes after it.                                  *)
LEMMA ErrorIsFinal ==
    ASSUME TypeOK, NEW b \in Nat, b <= supplied, HasAll(b), ~Accepts(b, finalBuffer),
           finalBuffer => b = supplied
    PROVE  HasAll(supplied) /\ ~Accepts(supplied, finalBuffer)
<1>1. doc \in Documents /\ supplied \in Nat /\ BadAt \in Nat /\ BadFrom \in Nat
      /\ BadFrom < BadAt
    <2>1. doc \in Documents /\ supplied \in Nat
        BY DEF TypeOK
    <2>. QED BY <2>1, DocumentAssumption DEF IsDocument, BadAt, BadFrom
<1>2. CASE b = supplied
    BY <1>2
<1>3. CASE b # supplied
    <2>1. ~finalBuffer /\ BadAt <= b
        BY <1>1, <1>3 DEF Accepts
    <2>2. ~Accepts(supplied, finalBuffer)
        BY <1>1, <2>1 DEF Accepts
    <2>3. ASSUME NEW c \in Registered, Seen(c, supplied)
          PROVE  c < given.cb \/ (c = given.cb /\ given.to = Reported(c, supplied))
        <3>1. c \in Callback /\ Ready[c] \in Nat /\ Last[c] \in Nat
            BY <1>1, DocumentFacts DEF Registered
        <3>2. Ready[c] <= BadFrom /\ (Kind[c] = "text" => Last[c] <= BadFrom)
            BY <1>1, <2>3, <3>1, SeenFacts
        <3>3. Seen(c, b)
            BY <1>1, <2>1, <3>1, <3>2, SeenFacts
        <3>4. Reported(c, b) = Reported(c, supplied)
            BY <1>1, <2>1, <3>1, <3>2 DEF Reported
        <3>. QED BY <3>3, <3>4 DEF HasAll
    <2>. QED BY <2>2, <2>3 DEF HasAll
<1>. QED BY <1>2, <1>3

(* A parse error is reported, or an abort becomes one.                     *)
LEMMA FailStep ==
    ASSUME ReplayInv, UNCHANGED doc, ReturnError
    PROVE  Stream!Next \/ UNCHANGED Stream!vars
<1>1. TypeOK /\ DeferInv /\ StatusInv /\ BufferInv /\ HeldInv
    BY DEF ReplayInv, TypeInv
<1>2. /\ pc = "return" /\ result = "ERROR" /\ failed'
      /\ UNCHANGED <<parsing, stopRequested, stopResumable, finalBuffer, slots,
                     supplied, given>>
    BY DEF ReturnError, returnVars
<1>3. StreamStatus' = "failed"
    BY <1>2 DEF StreamStatus
<1>4. CASE failed
    <2>1. StreamStatus = "failed"
        BY <1>4 DEF StreamStatus
    <2>. QED BY <1>2, <1>3, <2>1 DEF Stream!vars
<1>5. CASE ~failed /\ parsing = "PARSING" /\ ~stopRequested
    <2>1. StreamStatus = "open"
        BY <1>5 DEF StreamStatus
    <2>2. /\ extent \in Nat /\ extent <= supplied
          /\ finalBuffer => extent = supplied
        <3>1. /\ extent \in Nat /\ extent <= buffer /\ buffer = supplied
              /\ finalBuffer => extent = buffer
            BY <1>1, <1>2, <1>5, ExtentFacts
        <3>. QED BY <3>1
    <2>3. HasAll(extent) /\ ~Accepts(extent, finalBuffer)
        BY <1>1, <1>2, <1>5 DEF HeldInv
    <2>4. HasAll(supplied) /\ ~Accepts(supplied, finalBuffer)
        BY <1>1, <2>2, <2>3, ErrorIsFinal
    <2>5. Stream!Fail
        BY <1>2, <1>3, <2>1, <2>4, StreamHasAll, StreamOperators DEF Stream!Fail
    <2>. QED BY <2>5 DEF Stream!Next
<1>6. CASE ~failed /\ parsing = "FINISHED" /\ stopRequested /\ ~stopResumable
    <2>1. StreamStatus = "aborted"
        BY <1>6 DEF StreamStatus
    <2>2. Stream!Stop
        BY <1>2, <1>3, <2>1 DEF Stream!Stop
    <2>. QED BY <2>2 DEF Stream!Next
<1>. QED BY <1>1, <1>2, <1>4, <1>5, <1>6 DEF StatusInv

(* XML_StopParser between two calls.                                       *)
LEMMA StopStep ==
    ASSUME ReplayInv, UNCHANGED doc, StopBetweenCalls
    PROVE  Stream!Next \/ UNCHANGED Stream!vars
<1>1. TypeOK /\ StatusInv
    BY DEF ReplayInv, TypeInv
<1>2. UNCHANGED <<failed, finalBuffer, slots, supplied, given>>
    BY DEF StopBetweenCalls, nativeVars, handlerVars
<1>3. PICK resumable \in BOOLEAN : XML_StopParser(resumable)
    BY DEF StopBetweenCalls
<1>4. CASE failed
    <2>1. StreamStatus = "failed" /\ StreamStatus' = "failed"
        BY <1>2, <1>4 DEF StreamStatus
    <2>. QED BY <1>2, <2>1 DEF Stream!vars
<1>5. CASE ~failed
    <2>1. StreamStatus' = IF resumable THEN "suspended" ELSE "aborted"
        BY <1>2, <1>3, <1>5 DEF StreamStatus, XML_StopParser
    <2>2. \/ StreamStatus = "open"
          \/ StreamStatus = "suspended" /\ ~resumable
        BY <1>1, <1>3, <1>5 DEF StreamStatus, XML_StopParser, StatusInv
    <2>3. Stream!Stop
        BY <1>2, <2>1, <2>2 DEF Stream!Stop
    <2>. QED BY <2>3 DEF Stream!Next
<1>. QED BY <1>4, <1>5

(* Steps that the application cannot tell from no step.                    *)
LEMMA HiddenSteps ==
    ASSUME ReplayInv, UNCHANGED doc,
           \/ PassUnobserved \/ PassReplayed \/ PassEnds
           \/ ReturnSuspended \/ ReturnOk
           \/ XML_SetReparseDeferralEnabled \/ UNCHANGED vars
    PROVE  UNCHANGED Stream!vars
<1>1. StatusInv
    BY DEF ReplayInv
<1>2. UNCHANGED <<failed, stopRequested, stopResumable, parsing>>
    BY <1>1 DEF PassUnobserved, PassReplayed, PassEnds, passVars, ReturnSuspended,
       ReturnOk, returnVars, XML_SetReparseDeferralEnabled, vars, StatusInv
<1>3. UNCHANGED <<slots, supplied, finalBuffer, given>>
    BY DEF PassUnobserved, PassReplayed, PassEnds, passVars, ReturnSuspended,
       ReturnOk, returnVars, XML_SetReparseDeferralEnabled, nativeVars, handlerVars, vars
<1>. QED BY <1>2, <1>3, SameStatus DEF Stream!vars

(* The handlers, before the first byte.                                    *)
LEMMA RegisterStep ==
    ASSUME Steady, ReplayInv, UNCHANGED doc, SetHandlers
    PROVE  Stream!Next
<1>1. /\ supplied = 0 /\ given = Nothing
    BY DEF ReplayInv, StatusInv, SetHandlers, Steady
<1>2. UNCHANGED <<failed, stopRequested, stopResumable, parsing, supplied, finalBuffer, given>>
    BY DEF SetHandlers, cVars, nativeVars
<1>3. slots' \in SUBSET Kinds
    BY ApplicationAssumption DEF SetHandlers
<1>4. StreamStatus' = StreamStatus
    BY <1>2, SameStatus
<1>5. Stream!Register
    BY <1>1, <1>2, <1>3, <1>4 DEF Stream!Register, Stream!Kinds, Kinds, Stream!Nothing, Nothing
<1>. QED BY <1>5 DEF Stream!Next

(* XML_ParserReset begins a new stream.                                    *)
LEMMA ResetStep ==
    ASSUME UNCHANGED doc, XML_ParserReset
    PROVE  Stream!Next
<1>1. StreamStatus' = "open"
    BY DEF StreamStatus, XML_ParserReset
<1>2. Stream!Reset
    BY <1>1 DEF Stream!Reset, XML_ParserReset, Stream!Nothing, Nothing
<1>. QED BY <1>2 DEF Stream!Next

LEMMA StreamInit == Init => Stream!Init
<1>. SUFFICES ASSUME Init
              PROVE  Stream!Init
    OBVIOUS
<1>1. StreamStatus = "open"
    BY DEF StreamStatus, Init
<1>. QED BY <1>1 DEF Stream!Init, Init, Stream!Nothing, Nothing

LEMMA StreamNext ==
    ASSUME Steady, ReplayInv, [Next]_vars
    PROVE  Stream!Next \/ UNCHANGED Stream!vars
<1>1. TypeOK /\ UNCHANGED doc
    BY DocumentStays DEF ReplayInv, TypeInv
<1>2. CASE Direct \/ PassDelivered
    BY <1>1, <1>2, InCallDelivers
<1>3. CASE \/ PassUnobserved \/ PassReplayed \/ PassEnds
           \/ ReturnSuspended \/ ReturnOk
           \/ XML_SetReparseDeferralEnabled \/ UNCHANGED vars
    BY <1>1, <1>3, HiddenSteps
<1>4. CASE ReturnFinished
    BY <1>1, <1>4, FinishStep
<1>5. CASE ReturnError
    BY <1>1, <1>5, FailStep
<1>6. CASE XML_ResumeParser
    BY <1>1, <1>6, ResumeStep
<1>7. CASE \E n \in Chunks, f \in BOOLEAN : XML_Parse(n, f)
    BY <1>1, <1>7, ParseSupplies
<1>8. CASE StopBetweenCalls
    BY <1>1, <1>8, StopStep
<1>9. CASE SetHandlers
    BY <1>1, <1>9, RegisterStep
<1>10. CASE XML_ParserReset
    BY <1>1, <1>10, ResetStep
<1>. QED BY <1>2, <1>3, <1>4, <1>5, <1>6, <1>7, <1>8, <1>9, <1>10 DEF Next, InCall

(* Whatever the chunks, the suspensions and the resumptions, replaying the *)
(* whole prefix with the first callbacks suppressed gives the application  *)
(* each callback once and in order, and everything when a parse succeeds.  *)
THEOREM ReplayImplementsStream ==
    ASSUME Steady
    PROVE  Spec => ImplementsStream
<1>1. Init => ReplayInv /\ Stream!Init
    BY ReplayInvInit, StreamInit
<1>2. ReplayInv /\ [Next]_vars => ReplayInv'
    BY ReplayInvNext
<1>3. ReplayInv /\ [Next]_vars => [Stream!Next]_Stream!vars
    BY StreamNext
<1>. QED BY <1>1, <1>2, <1>3, PTL DEF Spec, ImplementsStream, Stream!Spec

(* No callback the application has had is made again.                      *)
LEMMA GivenOnce ==
    ASSUME Steady, ReplayInv, [Next]_vars, given' # given, given'.cb # 0
    PROVE  \/ given'.cb > given.cb
           \/ given'.cb = given.cb /\ given'.from >= given.to
<1>1. /\ TypeInv /\ DeferInv /\ StatusInv /\ BufferInv /\ DirectInv
      /\ GivenInv /\ CountInv /\ LengthsInv /\ TypeOK
    BY DEF ReplayInv, TypeInv
<1>2. CASE Direct
    <2>1. given.cb < at /\ at \in Nat /\ given.cb \in Nat
        BY <1>1, <1>2, DirectFacts
    <2>2. given'.cb = at
        BY <1>2 DEF Direct, Give
    <2>. QED BY <2>1, <2>2
<1>3. CASE PassDelivered
    <2>1. AtCallback /\ Observed /\ (~Replayed \/ Grows)
        BY <1>3 DEF PassDelivered
    <2>2. given.cb < at \/ (given.cb = at /\ Already = given.to)
        BY <1>1, <2>1, DeliveryFacts
    <2>3. given'.cb = at /\ given'.from = Already
        BY <1>3 DEF PassDelivered, Give
    <2>4. given.cb \in Int /\ at \in Int /\ given.to \in Int
        BY <1>1, DocumentFacts DEF TypeOK
    <2>. QED BY <2>2, <2>3, <2>4
<1>4. CASE XML_ParserReset
    BY <1>4 DEF XML_ParserReset, Nothing
<1>. QED BY <1>1, <1>2, <1>3, <1>4, GivenStays

(* A callback delivered before is never made again: what a stopped direct  *)
(* start tag or a change of the handlers breaks, a steady application has. *)
THEOREM NothingTwice ==
    ASSUME Steady
    PROVE  Spec => NoRepeat
<1>1. Init => ReplayInv
    BY ReplayInvInit
<1>2. ReplayInv /\ [Next]_vars => ReplayInv'
    BY ReplayInvNext
<1>3. ReplayInv /\ [Next]_vars =>
          [given' # given /\ given'.cb # 0
               => \/ given'.cb > given.cb
                  \/ given'.cb = given.cb /\ given'.from >= given.to]_vars
    BY GivenOnce
<1>. QED BY <1>1, <1>2, <1>3, PTL DEF Spec, NoRepeat
=============================================================================
