---------------------- MODULE IncrementalSessionProofs ----------------------
(***************************************************************************)
(* Theorems of the incremental session: its counters are those of a        *)
(* recount, it keeps nothing it could have reported, and it stops when it  *)
(* is asked to.                                                            *)
(***************************************************************************)
EXTENDS IncrementalSession, TokenSessionProofs

-----------------------------------------------------------------------------
(* The inductive invariant.                                                *)

ControlTypes ==
    /\ stopRequested \in BOOLEAN
    /\ pc \in {"idle", "run", "empty"} /\ returned \in Answers
    /\ suspended \in BOOLEAN /\ finished \in BOOLEAN /\ failed \in BOOLEAN

(* A stop that is asked for and not obeyed is asked for within an empty    *)
(* element; no call runs while the session is suspended or finished.       *)
StatusFits ==
    /\ stopRequested => suspended \/ pc = "empty"
    /\ pc # "idle" => ~suspended /\ ~finished
    /\ suspended => ~finished
    /\ pc = "empty" => ~failed

IInv ==
    /\ DataOK /\ GivenIsConsumed /\ ControlTypes /\ StatusFits
    /\ KeepsOnlyIncompleteToken

(* What is kept when the next feed is asked for.                           *)
LEMMA NeedMoreKeepsToken ==
    ASSUME DataOK, AllGiven, IF Empty THEN TRUE ELSE Incomplete
    PROVE  /\ Stream!HasAll(supplied)
           /\ Empty \/ \E c \in Unfinished(supplied) : First[c] = consumed
<1>1. Empty \/ (FrontText = {} /\ ~Complete)
    BY DEF Incomplete
<1>2. Stream!HasAll(supplied)
    <2> SUFFICES ASSUME NEW c \in Callback, Kind[c] \in {"start", "end", "text"},
                        Seen(c, supplied)
                 PROVE  c < given.cb \/ (c = given.cb /\ given.to = Reported(c, supplied))
        BY DEF Stream!HasAll, Stream!Callback, Stream!Kind, Stream!N, Callback, Kind, N,
               Stream!Seen, Stream!Reported, Seen, Reported, Stream!Ready, Stream!BadAt,
               Stream!BadFrom, Ready, BadAt, BadFrom, Stream!First, First, Stream!Last, Last
    <2>1. Ready[c] <= supplied
        BY DEF Seen
    <2>. QED BY <1>1, <2>1, AllIsMade
<1>. QED BY <1>1, <1>2, FrontIsUnfinished DEF Incomplete

LEMMA InitInv == Init => IInv
<1> SUFFICES ASSUME Init
             PROVE  IInv
    OBVIOUS
<1>1. SessionInit
    BY DEF Init
<1>2. DataOK /\ AllGiven
    BY <1>1, InitKeeps
<1>3. pc = "idle" /\ consumed = supplied /\ stopRequested = FALSE /\ returned = "NEED_MORE"
      /\ suspended = FALSE /\ finished = FALSE /\ failed = FALSE
    BY <1>1 DEF SessionInit, Init
<1>4. KeepsOnlyIncompleteToken
    BY <1>2, <1>3, NeedMoreKeepsToken DEF KeepsOnlyIncompleteToken, Empty
<1>. QED BY <1>2, <1>3, <1>4 DEF IInv, GivenIsConsumed, ControlTypes, StatusFits, Answers

-----------------------------------------------------------------------------
(* Every step keeps the invariant.                                         *)

(* The end of a call changes nothing of the document.                      *)
LEMMA ReturnKeeps ==
    ASSUME IInv, pc = "run", NEW status \in Answers, Return(status)
    PROVE  /\ DataOK' /\ GivenIsConsumed' /\ AllGiven
           /\ stopRequested' = stopRequested /\ pc' = "idle" /\ returned' = status
<1>1. /\ UNCHANGED <<doc, finalBuffer, consumed, line, column, stack, elements, given>>
      /\ supplied' = supplied /\ stopRequested' = stopRequested
      /\ pc' = "idle" /\ returned' = status
    BY DEF Return, documentVars
<1>2. DataOK /\ AllGiven
    BY DEF IInv, GivenIsConsumed
<1>. QED BY <1>1, <1>2, IdleKeeps DEF GivenIsConsumed

(* After a callback the call goes on, or is suspended as it was asked to.  *)
LEMMA EventKeeps ==
    ASSUME ControlTypes, ~suspended, ~finished, ~failed, event_or_suspended,
           UNCHANGED <<finished, failed>>, stopRequested' \in BOOLEAN
    PROVE  /\ ControlTypes' /\ StatusFits' /\ pc' # "empty"
           /\ ~(pc' = "idle" /\ returned' = "NEED_MORE")
BY DEF ControlTypes, StatusFits, event_or_suspended, Answers

LEMMA feedKeeps ==
    ASSUME IInv, NEW n \in Chunks, NEW final \in BOOLEAN, feed(n, final)
    PROVE  IInv'
<1>1. /\ DataOK /\ AllGiven /\ ControlTypes /\ StatusFits
    BY DEF IInv, GivenIsConsumed, feed
<1>2. /\ supplied + n <= DocSize /\ supplied' = supplied + n /\ finalBuffer' = final
      /\ UNCHANGED <<doc, consumed, line, column, stack, elements, given>>
    BY DEF feed, positionVars, elementVars
<1>3. DataOK' /\ AllGiven'
    BY <1>1, <1>2, SupplyKeeps
<1>4. /\ pc = "idle" /\ pc' = "run" /\ ~finished /\ ~suspended
      /\ UNCHANGED <<returned, stopRequested, suspended, finished, failed>>
    BY DEF feed, MayFeed, statusVars
<1>5. ControlTypes' /\ StatusFits'
    BY <1>1, <1>4 DEF ControlTypes, StatusFits
<1>6. GivenIsConsumed' /\ KeepsOnlyIncompleteToken'
    BY <1>3, <1>4 DEF GivenIsConsumed, KeepsOnlyIncompleteToken
<1>. QED BY <1>3, <1>5, <1>6 DEF IInv

LEMMA resumeKeeps ==
    ASSUME IInv, resume
    PROVE  IInv'
<1>1. /\ DataOK /\ AllGiven /\ ControlTypes /\ StatusFits
    BY DEF IInv, GivenIsConsumed, resume
<1>2. /\ UNCHANGED <<doc, finalBuffer, consumed, line, column, stack, elements, given>>
      /\ supplied' = supplied
    BY DEF resume, positionVars, elementVars, windowVars
<1>3. DataOK' /\ AllGiven'
    BY <1>1, <1>2, IdleKeeps
<1>4. /\ suspended' = FALSE /\ stopRequested' = FALSE /\ pc' = "run"
      /\ UNCHANGED <<returned, finished, failed>>
    BY DEF resume
<1>5. ~finished
    BY <1>1 DEF StatusFits, resume
<1>6. ControlTypes' /\ StatusFits'
    BY <1>1, <1>4, <1>5 DEF ControlTypes, StatusFits
<1>7. GivenIsConsumed' /\ KeepsOnlyIncompleteToken'
    BY <1>3, <1>4 DEF GivenIsConsumed, KeepsOnlyIncompleteToken
<1>. QED BY <1>3, <1>6, <1>7 DEF IInv
(* A call that ends, in every way it can.                                  *)
LEMMA EndKeeps ==
    ASSUME IInv,
           AfterError \/ Finish \/ NeedMore \/ EndsEarly \/ RefusesMarkup
    PROVE  IInv' /\ UNCHANGED given
<1>1. /\ pc = "run" /\ ~suspended /\ ~finished /\ ~stopRequested /\ ControlTypes
    BY DEF IInv, StatusFits, AfterError, Finish, NeedMore, EndsEarly, RefusesMarkup, Advances
<1>2. ASSUME NEW status \in Answers, Return(status),
             status = "NEED_MORE" => (IF Empty THEN TRUE ELSE Incomplete),
             suspended' = suspended, finished' \in BOOLEAN, failed' \in BOOLEAN
      PROVE  IInv' /\ UNCHANGED given
    <2>1. /\ DataOK' /\ GivenIsConsumed' /\ AllGiven /\ DataOK
          /\ stopRequested' = stopRequested /\ pc' = "idle" /\ returned' = status
        BY <1>1, <1>2, ReturnKeeps DEF IInv
    <2>2. ControlTypes' /\ StatusFits'
        BY <1>1, <1>2, <2>1 DEF ControlTypes, StatusFits
    <2>3. UNCHANGED <<doc, supplied, finalBuffer, consumed, given>>
        BY <1>2 DEF Return, documentVars
    <2>4. KeepsOnlyIncompleteToken'
        <3> SUFFICES ASSUME status = "NEED_MORE"
                     PROVE  /\ Stream!HasAll(supplied)'
                            /\ Empty' \/ \E c \in Unfinished(supplied)' : First'[c] = consumed'
            BY <2>1 DEF KeepsOnlyIncompleteToken
        <3>1. /\ Stream!HasAll(supplied)
              /\ Empty \/ \E c \in Unfinished(supplied) : First[c] = consumed
            BY <1>2, <2>1, NeedMoreKeepsToken
        <3>2. /\ Stream!HasAll(supplied)' = Stream!HasAll(supplied)
              /\ Empty' = Empty /\ Unfinished(supplied)' = Unfinished(supplied) /\ First' = First
            BY <2>3 DEF Stream!HasAll, Stream!Callback, Stream!Kind, Stream!N, Stream!Seen,
               Stream!Reported, Stream!Ready, Stream!BadAt, Stream!BadFrom, Stream!First,
               Stream!Last, Empty, Unfinished, Callback, N, Kind, First, Last
        <3>. QED BY <2>3, <3>1, <3>2
    <2>. QED BY <2>1, <2>2, <2>3, <2>4 DEF IInv
<1>3. CASE AfterError
    BY <1>1, <1>2, <1>3 DEF AfterError, statusVars, Answers, ControlTypes
<1>4. CASE Finish
    BY <1>1, <1>2, <1>4 DEF Finish, Answers, ControlTypes
<1>5. CASE NeedMore
    BY <1>1, <1>2, <1>5 DEF NeedMore, statusVars, Answers, ControlTypes
<1>6. CASE EndsEarly
    BY <1>1, <1>2, <1>6 DEF EndsEarly, set_error, Answers, ControlTypes
<1>7. CASE RefusesMarkup
    BY <1>1, <1>2, <1>7 DEF RefusesMarkup, set_error, Answers, ControlTypes
<1>. QED BY <1>3, <1>4, <1>5, <1>6, <1>7

LEMMA TextKeeps ==
    ASSUME IInv, Text
    PROVE  IInv' /\ ~stopRequested
<1>1. /\ pc = "run" /\ ~failed /\ ~Empty /\ DataOK /\ AllGiven /\ ControlTypes
      /\ ~suspended /\ ~finished /\ ~stopRequested
    BY DEF Text, Advances, IInv, GivenIsConsumed, StatusFits
<1>2. PICK c \in FrontText : EmitText(c)
    BY DEF Text
<1>3. event_or_suspended /\ UNCHANGED <<finished, failed>> /\ UNCHANGED windowVars
    BY DEF Text
<1>4. DataOK' /\ AllGiven'
    BY <1>1, <1>2, <1>3, EmitTextKeeps
<1>5. stopRequested' \in BOOLEAN
    BY <1>1, <1>2 DEF EmitText, Give, ControlTypes
<1>6. /\ ControlTypes' /\ StatusFits' /\ pc' # "empty"
      /\ ~(pc' = "idle" /\ returned' = "NEED_MORE")
    BY <1>1, <1>3, <1>5, EventKeeps
<1>. QED BY <1>1, <1>4, <1>6 DEF IInv, GivenIsConsumed, KeepsOnlyIncompleteToken

LEMMA StartTagKeeps ==
    ASSUME IInv, StartTag
    PROVE  IInv' /\ ~stopRequested
<1>1. /\ pc = "run" /\ ~failed /\ DataOK /\ AllGiven /\ ControlTypes
      /\ ~suspended /\ ~finished /\ ~stopRequested
    BY DEF StartTag, Advances, IInv, GivenIsConsumed, StatusFits
<1>2. PICK c \in FrontTag("start") :
          /\ EmitStart(c)
          /\ IF FrontTag("end") = {} THEN event_or_suspended
             ELSE pc' = "empty" /\ UNCHANGED <<suspended, returned>>
    BY DEF StartTag
<1>3. UNCHANGED <<finished, failed>> /\ UNCHANGED windowVars
    BY DEF StartTag
<1>4. /\ DataOK'
      /\ FrontTag("end") = {} => AllGiven'
      /\ FrontTag("end") # {} => TagHalfGiven'
    BY <1>1, <1>2, <1>3, EmitStartKeeps
<1>5. stopRequested' \in BOOLEAN
    BY <1>1, <1>2 DEF EmitStart, Give, ControlTypes
<1>6. CASE FrontTag("end") = {}
    <2>1. /\ ControlTypes' /\ StatusFits' /\ pc' # "empty"
          /\ ~(pc' = "idle" /\ returned' = "NEED_MORE")
        BY <1>1, <1>2, <1>3, <1>5, <1>6, EventKeeps
    <2>. QED BY <1>1, <1>4, <1>6, <2>1 DEF IInv, GivenIsConsumed, KeepsOnlyIncompleteToken
<1>7. CASE FrontTag("end") # {}
    <2>1. pc' = "empty" /\ UNCHANGED <<suspended, returned>>
        BY <1>2, <1>7
    <2>2. ControlTypes' /\ StatusFits'
        BY <1>1, <1>3, <1>5, <2>1 DEF ControlTypes, StatusFits
    <2>. QED BY <1>1, <1>4, <1>7, <2>1, <2>2 DEF IInv, GivenIsConsumed, KeepsOnlyIncompleteToken
<1>. QED BY <1>6, <1>7

LEMMA EmptyEndKeeps ==
    ASSUME IInv, EmptyEnd
    PROVE  IInv' /\ pc = "empty"
<1>1. PICK c \in FrontTag("end") : EmitEmptyEnd(c)
    BY DEF EmptyEnd
<1>2. /\ pc = "empty" /\ ~failed /\ DataOK /\ TagHalfGiven /\ ControlTypes
      /\ ~suspended /\ ~finished
    BY <1>1 DEF EmitEmptyEnd, IInv, GivenIsConsumed, StatusFits
<1>3. event_or_suspended /\ UNCHANGED <<finished, failed>> /\ UNCHANGED windowVars
    BY DEF EmptyEnd
<1>4. DataOK' /\ AllGiven'
    BY <1>1, <1>2, <1>3, EmitEmptyEndKeeps
<1>5. stopRequested' \in BOOLEAN
    BY <1>1, <1>2 DEF EmitEmptyEnd, Give, ControlTypes
<1>6. /\ ControlTypes' /\ StatusFits' /\ pc' # "empty"
      /\ ~(pc' = "idle" /\ returned' = "NEED_MORE")
    BY <1>2, <1>3, <1>5, EventKeeps
<1>. QED BY <1>2, <1>4, <1>6 DEF IInv, GivenIsConsumed, KeepsOnlyIncompleteToken

LEMMA EndTagKeeps ==
    ASSUME IInv, EndTag
    PROVE  IInv' /\ ~stopRequested
<1>1. /\ pc = "run" /\ ~failed /\ DataOK /\ AllGiven /\ ControlTypes
      /\ ~suspended /\ ~finished /\ ~stopRequested
    BY DEF EndTag, Advances, IInv, GivenIsConsumed, StatusFits
<1>2. PICK c \in FrontTag("end") : EmitEnd(c)
    BY DEF EndTag
<1>3. event_or_suspended /\ UNCHANGED <<finished, failed>> /\ UNCHANGED windowVars
    BY DEF EndTag
<1>4. DataOK' /\ AllGiven'
    BY <1>1, <1>2, <1>3, EmitEndKeeps
<1>5. stopRequested' \in BOOLEAN
    BY <1>1, <1>2 DEF EmitEnd, Give, ControlTypes
<1>6. /\ ControlTypes' /\ StatusFits' /\ pc' # "empty"
      /\ ~(pc' = "idle" /\ returned' = "NEED_MORE")
    BY <1>1, <1>3, <1>5, EventKeeps
<1>. QED BY <1>1, <1>4, <1>6 DEF IInv, GivenIsConsumed, KeepsOnlyIncompleteToken

(* A step that changes nothing.                                            *)
LEMMA StutterKeeps ==
    ASSUME IInv, UNCHANGED vars
    PROVE  IInv' /\ UNCHANGED given
<1>1. /\ UNCHANGED <<doc, finalBuffer, consumed, line, column, stack, elements, given>>
      /\ supplied' = supplied
      /\ UNCHANGED <<stopRequested, pc, returned, suspended, finished, failed>>
    BY DEF vars
<1>2. DataOK' /\ GivenIsConsumed'
    BY <1>1, IdleKeeps DEF IInv, GivenIsConsumed
<1>3. ControlTypes' /\ StatusFits'
    BY <1>1 DEF IInv, ControlTypes, StatusFits
<1>4. KeepsOnlyIncompleteToken'
    BY <1>1 DEF IInv, KeepsOnlyIncompleteToken, Stream!HasAll, Stream!Callback, Stream!Kind,
       Stream!N, Stream!Seen, Stream!Reported, Stream!Ready, Stream!BadAt, Stream!BadFrom,
       Stream!First, Stream!Last, Empty, Unfinished, Callback, N, Kind, First, Last
<1>. QED BY <1>1, <1>2, <1>3, <1>4 DEF IInv

LEMMA NextInv ==
    ASSUME IInv, [Next]_vars
    PROVE  IInv' /\ (given' # given /\ stopRequested => pc = "empty")
<1>1. ASSUME NEW n \in Chunks, NEW final \in BOOLEAN, feed(n, final)
      PROVE  IInv' /\ UNCHANGED given
    BY <1>1, feedKeeps DEF feed
<1>2. CASE resume
    BY <1>2, resumeKeeps DEF resume
<1>3. CASE AfterError \/ Finish \/ NeedMore \/ EndsEarly \/ RefusesMarkup
    BY <1>3, EndKeeps
<1>4. CASE Text
    BY <1>4, TextKeeps
<1>5. CASE StartTag
    BY <1>5, StartTagKeeps
<1>6. CASE EmptyEnd
    BY <1>6, EmptyEndKeeps
<1>7. CASE EndTag
    BY <1>7, EndTagKeeps
<1>8. CASE UNCHANGED vars
    BY <1>8, StutterKeeps
<1>. QED BY <1>1, <1>2, <1>3, <1>4, <1>5, <1>6, <1>7, <1>8 DEF Next, advance_available

LEMMA InvAlways == Spec => []IInv
<1>1. IInv /\ [Next]_vars => IInv'
    BY NextInv
<1>. QED BY <1>1, InitInv, PTL DEF Spec

-----------------------------------------------------------------------------
(* The theorems.                                                           *)

(* The session's variables keep their types, and its counters lie within   *)
(* the input.                                                              *)
THEOREM SessionTypes == Spec => []TypeOK
<1>1. IInv => TypeOK
    <2> SUFFICES ASSUME IInv
                 PROVE  TypeOK
        OBVIOUS
    <2>1. DataOK /\ ControlTypes
        BY DEF IInv
    <2>2. doc \in Documents /\ supplied \in Nat /\ consumed \in 0..supplied
        <3>1. doc \in Documents /\ supplied \in 0..DocSize /\ consumed \in 0..supplied
            BY <2>1 DEF DataOK
        <3>. QED BY <3>1, SessionFacts
    <2>3. line \in 1..supplied + 1 /\ column \in 0..supplied
        BY <2>1, <2>2, PositionTypes DEF DataOK
    <2>4. SessionTypeOK
        BY <2>1, <2>3 DEF SessionTypeOK, DataOK, ControlTypes
    <2>. QED BY <2>1, <2>4 DEF TypeOK, ControlTypes
<1>. QED BY <1>1, InvAlways, PTL

(* update_position, called with the length of one token after the other,   *)
(* counts the lines and columns that a scan from the first byte counts.    *)
THEOREM PositionCorrect == Spec => []PositionIsRecount
<1>1. IInv => PositionIsRecount
    BY DEF IInv, DataOK
<1>. QED BY <1>1, InvAlways, PTL

(* feed asks for more only when every callback of the bytes it was given   *)
(* is made and the window holds an unfinished markup token or nothing.     *)
THEOREM NothingKeptBack == Spec => []KeepsOnlyIncompleteToken
<1>1. IInv => KeepsOnlyIncompleteToken
    BY DEF IInv
<1>. QED BY <1>1, InvAlways, PTL

(* A stop is obeyed before the next callback, but for the end callback of  *)
(* an empty element whose start callback asked for it.                     *)
THEOREM StopObeyed == Spec => StopIsObeyed
<1>1. IInv /\ [Next]_vars => [given' # given /\ stopRequested => pc = "empty"]_vars
    BY NextInv
<1>. QED BY <1>1, InvAlways, PTL DEF Spec, StopIsObeyed
-----------------------------------------------------------------------------
(* The session refuses what the document says it does.                     *)

(* No callback that is made is one to refuse.                              *)
NotRefused == \A c \in 1..given.cb : ~RefusedMarkup(doc, c)

(* With these the invariant tells the status that the stream has.          *)
FInv ==
    /\ IInv /\ StackInv /\ NotRefused
    /\ suspended => ~failed

LEMMA TextNotRefused ==
    ASSUME doc \in Documents, NEW c \in FrontText
    PROVE  c \in Callback /\ ~RefusedMarkup(doc, c)
<1>1. c \in Callback /\ Kind[c] = "text"
    BY DEF FrontText, Front
<1>. QED BY <1>1, RefusedIs, MalformedFacts

LEMMA NotRefusedNext ==
    ASSUME NotRefused, UNCHANGED doc, NEW c \in Callback, doc \in Documents,
           given.cb \in Nat, given.cb = c \/ given.cb = c - 1, given'.cb = c, ~RefusedMarkup(doc, c)
    PROVE  NotRefused'
<1>1. c \in Nat
    BY SessionFacts
<1>2. \A b \in 1..c : b \in 1..given.cb \/ b = c
    BY <1>1
<1>3. \A b \in 1..c : ~RefusedMarkup(doc, b)
    BY <1>2 DEF NotRefused
<1>. QED BY <1>3 DEF NotRefused

LEMMA FInvInit == Init => FInv
<1> SUFFICES ASSUME Init
             PROVE  FInv
    OBVIOUS
<1>1. IInv
    BY InitInv
<1>2. SessionInit /\ pc = "idle" /\ given.cb = 0 /\ suspended = FALSE
    BY DEF Init, SessionInit, Nothing
<1>3. StackInv
    BY <1>2, InitFits DEF StackInv
<1>. QED BY <1>1, <1>2, <1>3 DEF FInv, NotRefused

(* A step that makes no callback, outside an empty element.                *)
LEMMA QuietKeepsFits ==
    ASSUME FInv, IInv', pc # "empty", pc' # "empty",
           UNCHANGED <<doc, stack, elements, given>>, suspended' => ~failed'
    PROVE  FInv'
<1>1. StackInv'
    BY IdleFits DEF FInv, StackInv
<1>2. NotRefused'
    BY DEF FInv, NotRefused
<1>. QED BY <1>1, <1>2 DEF FInv

(* The callbacks keep it.                                                  *)
LEMMA TextFInv ==
    ASSUME FInv, Text
    PROVE  FInv' /\ GoesOn
<1>1. /\ IInv /\ pc = "run" /\ ~Empty /\ DataOK /\ AllGiven /\ OpenFits(given.cb)
      /\ NotRefused /\ ~failed
    BY DEF FInv, IInv, StackInv, GivenIsConsumed, Text, Advances
<1>2. PICK c \in FrontText : EmitText(c)
    BY DEF Text
<1>3. UNCHANGED windowVars /\ UNCHANGED doc /\ UNCHANGED failed
    BY DEF Text, windowVars
<1>4. IInv' /\ pc' # "empty"
    BY <1>1, TextKeeps DEF Text, event_or_suspended
<1>5. OpenFits(given.cb)' /\ GoesOn
    BY <1>1, <1>2, <1>3, EmitTextFits, TextGoesOn
<1>6. NotRefused'
    <2>1. doc \in Documents /\ given.cb \in Nat
        BY <1>1, SessionFacts DEF DataOK
    <2>2. given'.cb = c
        BY <1>2 DEF EmitText, Give
    <2>. QED BY <1>1, <1>2, <1>3, <2>1, <2>2, TextIsNext, TextNotRefused, NotRefusedNext
<1>. QED BY <1>1, <1>3, <1>4, <1>5, <1>6 DEF FInv, StackInv

LEMMA StartTagFInv ==
    ASSUME FInv, StartTag
    PROVE  FInv' /\ GoesOn
<1>1. /\ IInv /\ pc = "run" /\ DataOK /\ AllGiven /\ OpenFits(given.cb) /\ NotRefused
      /\ ~failed
    BY DEF FInv, IInv, StackInv, GivenIsConsumed, StartTag, Advances
<1>2. PICK c \in FrontTag("start") :
          /\ EmitStart(c)
          /\ IF FrontTag("end") = {} THEN event_or_suspended
             ELSE pc' = "empty" /\ UNCHANGED <<suspended, returned>>
    BY DEF StartTag
<1>3. UNCHANGED windowVars /\ UNCHANGED doc /\ UNCHANGED failed
    BY DEF StartTag, windowVars
<1>4. IInv' /\ (pc' = "empty" <=> FrontTag("end") # {})
    BY <1>1, <1>2, StartTagKeeps DEF event_or_suspended
<1>5. StackInv'
    BY <1>1, <1>2, <1>3, <1>4, EmitStartFits DEF StackInv
<1>6. c \in Front /\ Kind[c] = "start" /\ c \in Callback /\ Complete /\ Give(c, 0, 1)
    BY <1>2 DEF FrontTag, Front, EmitStart
<1>7. given.cb = c - 1 /\ First[c] = consumed
    BY <1>1, <1>6, TagIsNext
<1>8. GoesOn
    BY <1>1, <1>6, <1>7, LastIsWhole, TagGoesOn
<1>9. NotRefused'
    <2>1. doc \in Documents /\ given.cb \in Nat
        BY <1>1, SessionFacts DEF DataOK
    <2>2. given'.cb = c
        BY <1>6 DEF Give
    <2>. QED BY <1>1, <1>2, <1>3, <1>7, <2>1, <2>2, StartNotRefused, NotRefusedNext
<1>. QED BY <1>1, <1>3, <1>4, <1>5, <1>8, <1>9 DEF FInv

LEMMA EmptyEndFInv ==
    ASSUME FInv, EmptyEnd
    PROVE  FInv' /\ GoesOn
<1>1. PICK c \in FrontTag("end") : EmitEmptyEnd(c)
    BY DEF EmptyEnd
<1>2. /\ IInv /\ pc = "empty" /\ DataOK /\ TagHalfGiven /\ NotRefused /\ ~failed
      /\ OpenIsCounted(doc, given.cb - 1) /\ StackFits(given.cb - 1) /\ elements > 0
    BY <1>1 DEF FInv, IInv, StackInv, GivenIsConsumed, EmitEmptyEnd, StatusFits
<1>3. UNCHANGED windowVars /\ UNCHANGED doc /\ UNCHANGED failed
    BY DEF EmptyEnd, windowVars
<1>4. IInv' /\ pc' # "empty"
    BY <1>2, EmptyEndKeeps DEF EmptyEnd, event_or_suspended
<1>5. OpenFits(given.cb)'
    BY <1>1, <1>2, <1>3, EmitEmptyEndFits
<1>6. c \in Front /\ Kind[c] = "end" /\ c \in Callback /\ Complete /\ Give(c, 0, 1)
    BY <1>1, <1>2 DEF FrontTag, Front, EmitEmptyEnd, TagHalfGiven
<1>7. given.cb = c - 1
    BY <1>1, <1>2, EndIsNext
<1>8. given.to = Whole(given.cb)
    BY <1>2 DEF TagHalfGiven, FrontTag, Whole
<1>9. GoesOn
    BY <1>2, <1>6, <1>7, <1>8, TagGoesOn
<1>10. NotRefused'
    <2>1. doc \in Documents /\ given.cb \in Nat
        BY <1>2, SessionFacts DEF DataOK
    <2>2. given'.cb = c
        BY <1>6 DEF Give
    <2>3. ~RefusedMarkup(doc, c)
        BY <1>1, <1>2, EmptyEndNotRefused DEF NotRefused
    <2>. QED BY <1>2, <1>3, <1>6, <1>7, <2>1, <2>2, <2>3, NotRefusedNext
<1>. QED BY <1>2, <1>3, <1>4, <1>5, <1>9, <1>10 DEF FInv, StackInv

LEMMA EndTagFInv ==
    ASSUME FInv, EndTag
    PROVE  FInv' /\ GoesOn
<1>1. /\ IInv /\ pc = "run" /\ DataOK /\ AllGiven /\ OpenFits(given.cb) /\ NotRefused
      /\ ~failed
    BY DEF FInv, IInv, StackInv, GivenIsConsumed, EndTag, Advances
<1>2. PICK c \in FrontTag("end") : EmitEnd(c)
    BY DEF EndTag
<1>3. UNCHANGED windowVars /\ UNCHANGED doc /\ UNCHANGED failed
    BY DEF EndTag, windowVars
<1>4. IInv' /\ pc' # "empty"
    BY <1>1, EndTagKeeps DEF EndTag, event_or_suspended
<1>5. OpenFits(given.cb)'
    BY <1>1, <1>2, <1>3, EmitEndFits
<1>6. /\ c \in Front /\ Kind[c] = "end" /\ c \in Callback /\ Complete /\ Give(c, 0, 1)
      /\ FrontTag("start") = {}
    BY <1>2 DEF FrontTag, Front, EmitEnd
<1>7. given.cb = c - 1 /\ First[c] = consumed
    BY <1>1, <1>6, TagIsNext
<1>8. GoesOn
    BY <1>1, <1>6, <1>7, LastIsWhole, TagGoesOn
<1>9. NotRefused'
    <2>1. doc \in Documents /\ given.cb \in Nat
        BY <1>1, SessionFacts DEF DataOK
    <2>2. given'.cb = c
        BY <1>6 DEF Give
    <2>. QED BY <1>1, <1>2, <1>3, <1>7, <2>1, <2>2, EndNotRefused, NotRefusedNext
<1>. QED BY <1>1, <1>3, <1>4, <1>5, <1>8, <1>9 DEF FInv, StackInv

LEMMA FInvNext ==
    ASSUME FInv, [Next]_vars
    PROVE  FInv'
<1>1. IInv /\ IInv'
    BY NextInv DEF FInv
<1>2. ASSUME NEW n \in Chunks, NEW final \in BOOLEAN, feed(n, final)
      PROVE  FInv'
    BY <1>1, <1>2, QuietKeepsFits DEF feed, MayFeed, elementVars, statusVars
<1>3. CASE resume
    BY <1>1, <1>3, QuietKeepsFits DEF resume, elementVars, windowVars
<1>4. CASE AfterError \/ Finish \/ NeedMore \/ EndsEarly \/ RefusesMarkup
    <2>1. pc = "run" /\ ~suspended
        BY <1>1, <1>4 DEF AfterError, Finish, NeedMore, EndsEarly, RefusesMarkup, Advances,
           IInv, StatusFits
    <2>2. pc' = "idle" /\ UNCHANGED documentVars /\ UNCHANGED suspended
        BY <1>4 DEF AfterError, Finish, NeedMore, EndsEarly, RefusesMarkup, Return, set_error,
           statusVars
    <2>. QED BY <1>1, <2>1, <2>2, QuietKeepsFits DEF documentVars
<1>5. CASE UNCHANGED vars
    <2>1. UNCHANGED <<doc, stack, elements, given, pc, suspended, failed>>
        BY <1>5 DEF vars
    <2>2. StackInv'
        BY <2>1, IdleFits DEF FInv, StackInv
    <2>. QED BY <1>1, <2>1, <2>2 DEF FInv, NotRefused
<1>. QED BY <1>2, <1>3, <1>4, <1>5, TextFInv, StartTagFInv, EmptyEndFInv, EndTagFInv
         DEF Next, advance_available

LEMMA FInvAlways == Spec => []FInv
<1>1. FInv /\ [Next]_vars => FInv'
    BY FInvNext
<1>. QED BY <1>1, FInvInit, PTL DEF Spec

(* The element stack is the list of the elements the application has been  *)
(* told of and not seen closed, whatever tags the document has.            *)
THEOREM StackCorrect == Spec => []StackIsOpen
<1>1. FInv => StackIsOpen
    BY DEF FInv, StackInv, OpenFits, StackFits, StackIsOpen, OpenElements
<1>. QED BY <1>1, FInvAlways, PTL
-----------------------------------------------------------------------------
(* The session implements the callback stream, step by step.               *)

(* The operators of the abstract specification are the same.               *)
LEMMA StreamOperators ==
    /\ Stream!Callback = Callback /\ Stream!Kind = Kind /\ Stream!DocSize = DocSize
    /\ \A c, b : Stream!Seen(c, b) <=> Seen(c, b)
    /\ \A c, b : Stream!Reported(c, b) = Reported(c, b)
    /\ \A c : Stream!Whole(c) = Whole(c)
    /\ \A b, f : Stream!Accepts(b, f) <=> Accepts(b, f)
BY DEF Stream!Callback, Stream!N, Stream!Kind, Stream!Seen, Stream!Ready, Stream!DocSize,
       Stream!BadAt, Stream!BadFrom, Stream!Reported, Stream!First, Stream!Last,
       Stream!Whole, Stream!Accepts, Stream!RootEnd, Stream!Unfinished,
       Callback, N, Kind, Seen, Ready, BadAt, BadFrom, Reported, First, Last, DocSize,
       Whole, Accepts, RootEnd, Unfinished

(* The error of the document: none, or its first refused token.            *)
FirstRefused(b) ==
    /\ RefusedMarkup(doc, b) /\ \A a \in 1..b - 1 : ~RefusedMarkup(doc, a)
    /\ BadFrom = First[b] /\ BadAt = Last[b]

LEMMA FaultIs ==
    ASSUME doc \in Documents
    PROVE  \/ DocSize < BadAt /\ \A c \in Callback : ~RefusedMarkup(doc, c)
           \/ \E b \in Callback : FirstRefused(b)
BY FaultAssumption DEF DocSize, BadAt, BadFrom, Callback, N, First, Last, FirstRefused

(* Everything before the first refused callback is of earlier tokens: the  *)
(* two callbacks of an empty element are refused together.                 *)
LEMMA BeforeFault ==
    ASSUME doc \in Documents, NEW b \in Callback, FirstRefused(b), NEW c \in Callback, c < b
    PROVE  Last[c] <= First[b]
<1>1. c \in 1..b - 1
    BY SessionFacts
<1>2. RefusedMarkup(doc, b) /\ ~RefusedMarkup(doc, c)
    BY <1>1 DEF FirstRefused
<1>. QED BY <1>2, OrderFacts, RefusedTogether

(* The fault lies ahead of what is made.                                   *)
LEMMA FaultAhead ==
    ASSUME DataOK, NotRefused, NEW b \in Callback, FirstRefused(b)
    PROVE  given.cb \in Nat /\ given.cb < b
<1>1. doc \in Documents /\ given.cb \in 0..N
    BY DEF DataOK
<1>2. b \in Nat /\ N \in Nat /\ b >= 1
    BY <1>1, SessionFacts
<1>3. b \notin 1..given.cb
    BY DEF NotRefused, FirstRefused
<1>. QED BY <1>1, <1>2, <1>3

(* What is not refused is of the tokens before the error.                  *)
LEMMA BeforeError ==
    ASSUME doc \in Documents, NEW c \in Callback, \A d \in 1..c : ~RefusedMarkup(doc, d)
    PROVE  DocSize < BadAt \/ Last[c] <= BadFrom
<1>1. ASSUME NEW b \in Callback, FirstRefused(b)
      PROVE  Last[c] <= BadFrom
    <2>1. b \notin 1..c /\ b \in Nat /\ b >= 1 /\ c \in Nat
        BY <1>1, SessionFacts DEF FirstRefused
    <2>2. c < b
        BY <2>1
    <2>. QED BY <1>1, <2>2, BeforeFault DEF FirstRefused
<1>. QED BY <1>1, FaultIs

(* A callback of the session is one of the stream.                         *)
LEMMA DeliverStep ==
    ASSUME FInv, FInv', GoesOn, UNCHANGED <<doc, supplied, finalBuffer>>,
           StreamStatus = "open", StreamStatus' \in {"open", "suspended"}
    PROVE  Stream!Next
<1>1. /\ DataOK /\ DataOK' /\ NotRefused' /\ doc \in Documents /\ supplied \in 0..DocSize
      /\ given.cb \in 0..N /\ N \in Nat
    BY SessionFacts DEF FInv, IInv, DataOK
<1>2. PICK c \in Callback : c = given'.cb
    BY DEF GoesOn
<1>3. given' = [turn |-> 1 - given.turn, cb |-> c, from |-> given'.from, to |-> given'.to]
    <2>1. given' \in [turn : 0..1, cb : 0..N', from : Nat, to : Nat]
        BY <1>1 DEF DataOK
    <2>. QED BY <1>2, <2>1 DEF GoesOn
<1>4. Seen(c, supplied)
    <2>1. \A d \in 1..c : ~RefusedMarkup(doc, d)
        BY <1>1, <1>2 DEF NotRefused
    <2>2. Ready[c] <= supplied
        BY <1>2 DEF GoesOn
    <2>. QED BY <1>1, <2>1, <2>2, BeforeError, MadeIsSeen
<1>5. Stream!Follows(given, given')
    <2>1. CASE given'.cb = given.cb /\ given'.from = given.to /\ given'.from < given'.to
        BY <2>1 DEF Stream!Follows
    <2>2. CASE /\ given'.cb = given.cb + 1 /\ given'.from = 0
               /\ given.cb > 0 => given.to = Whole(given.cb)
        <3>1. given'.cb > given.cb
            BY <1>1, <2>2
        <3>2. \A d \in Callback : ~(given.cb < d /\ d < given'.cb)
            BY <1>1, <2>2, SessionFacts
        <3>3. Kind[given'.cb] \in {"start", "end", "text"}
            BY DEF GoesOn
        <3>. QED BY <2>2, <3>1, <3>2, <3>3, StreamOperators DEF Stream!Follows
    <2>. QED BY <2>1, <2>2 DEF GoesOn
<1>6. Stream!Deliver
    <2>1. /\ given'.from \in 0..supplied /\ given'.to \in 0..supplied
          /\ given'.to <= Reported(c, supplied)
        BY <1>2 DEF GoesOn
    <2>. QED BY <1>2, <1>3, <1>4, <1>5, <2>1, StreamOperators DEF Stream!Deliver
<1>. QED BY <1>6 DEF Stream!Next

(* A step that makes a callback, in a call of a session that is open.      *)
LEMMA CallbackDelivers ==
    ASSUME FInv, Text \/ StartTag \/ EmptyEnd \/ EndTag
    PROVE  Stream!Next
<1>1. FInv' /\ GoesOn
    BY TextFInv, StartTagFInv, EmptyEndFInv, EndTagFInv
<1>2. UNCHANGED <<doc, supplied, finalBuffer>> /\ UNCHANGED <<finished, failed>>
    BY DEF Text, StartTag, EmptyEnd, EndTag, windowVars
<1>3. ~failed /\ ~finished /\ ~suspended
    BY DEF FInv, IInv, StatusFits, Text, StartTag, EmptyEnd, EndTag, Advances, EmitEmptyEnd
<1>4. StreamStatus = "open" /\ StreamStatus' \in {"open", "suspended"}
    BY <1>2, <1>3 DEF StreamStatus
<1>. QED BY <1>1, <1>2, <1>4, DeliverStep

(* Input is supplied, and a suspended session resumed.                     *)
LEMMA SupplyStep ==
    ASSUME FInv, NEW n \in Chunks, NEW f \in BOOLEAN, feed(n, f)
    PROVE  Stream!Next
<1>1. DataOK /\ n \in Nat /\ supplied \in Nat /\ DocSize \in Nat
    BY SessionFacts DEF FInv, IInv, DataOK
<1>2. /\ supplied' = supplied + n /\ supplied + n <= DocSize /\ finalBuffer' = f
      /\ UNCHANGED <<doc, given>> /\ UNCHANGED <<suspended, finished, failed>>
      /\ ~finished /\ ~suspended
    BY DEF feed, MayFeed, statusVars
<1>3. StreamStatus' = StreamStatus /\ StreamStatus \in {"open", "failed"}
    BY <1>2 DEF StreamStatus
<1>4. supplied' \in supplied..DocSize
    BY <1>1, <1>2
<1>5. Stream!Supply
    BY <1>2, <1>3, <1>4, StreamOperators DEF Stream!Supply
<1>. QED BY <1>2, <1>5 DEF Stream!Next

LEMMA ResumeStep ==
    ASSUME FInv, resume
    PROVE  Stream!Next
<1>1. /\ suspended /\ ~failed /\ ~finished /\ suspended' = FALSE
      /\ UNCHANGED <<finished, failed, given>> /\ UNCHANGED <<doc, supplied, finalBuffer>>
    BY DEF FInv, IInv, StatusFits, resume, windowVars
<1>2. StreamStatus = "suspended" /\ StreamStatus' = "open"
    BY <1>1 DEF StreamStatus
<1>. QED BY <1>1, <1>2 DEF Stream!Resume, Stream!Next

(* What the end of a call finds: the session is open, no empty element is  *)
(* half made, and everything but the status stays.                         *)
LEMMA EndFacts ==
    ASSUME FInv, Finish \/ EndsEarly \/ RefusesMarkup
    PROVE  /\ DataOK /\ AllGiven /\ OpenFits(given.cb) /\ NotRefused
           /\ StreamStatus = "open"
           /\ UNCHANGED <<doc, supplied, finalBuffer, given>>
<1>1. pc = "run" /\ ~failed
    BY DEF Finish, EndsEarly, RefusesMarkup, Advances
<1>2. ~finished /\ ~suspended
    BY <1>1 DEF FInv, IInv, StatusFits
<1>3. UNCHANGED documentVars
    BY DEF Finish, EndsEarly, RefusesMarkup, Return, set_error
<1>. QED BY <1>1, <1>2, <1>3
         DEF FInv, IInv, GivenIsConsumed, StackInv, StreamStatus, documentVars

(* The verdict of a document that has all come in.                         *)
LEMMA EmptyVerdict ==
    ASSUME DataOK, AllGiven, OpenFits(given.cb), NotRefused, Empty, finalBuffer
    PROVE  Accepts(supplied, finalBuffer) <=> DocumentComplete /\ supplied < BadAt
<1>1. doc \in Documents /\ given.cb \in 0..N
    BY DEF DataOK
<1>2. RootEnds(doc, {c \in 1..doc.n : RefusedMarkup(doc, c)})
    BY <1>1, FaultAssumption
<1>3. \A c \in 1..given.cb : c \notin {b \in 1..doc.n : RefusedMarkup(doc, b)}
    BY DEF NotRefused
<1>. QED BY <1>2, <1>3, EmptyAccepts

(* finish_or_need_more accepts what the document says is complete.         *)
LEMMA FinishStep ==
    ASSUME FInv, Finish
    PROVE  Stream!Next
<1>1. /\ DataOK /\ AllGiven /\ OpenFits(given.cb) /\ NotRefused /\ StreamStatus = "open"
      /\ UNCHANGED <<doc, supplied, finalBuffer, given>>
    BY EndFacts
<1>2. Empty /\ finalBuffer /\ DocumentComplete /\ consumed = supplied
    BY DEF Finish, Empty
<1>3. StreamStatus' = "finished"
    BY DEF StreamStatus, Finish, Advances
<1>4. Stream!HasAll(supplied)
    BY <1>1, <1>2, NeedMoreKeepsToken
<1>5. /\ doc \in Documents /\ supplied \in 0..DocSize /\ supplied \in Nat /\ DocSize \in Nat
      /\ BadAt \in Nat
    BY <1>1, SessionFacts, DocumentAssumption DEF DataOK, IsDocument, BadAt
<1>6. supplied < BadAt
    <2>1. ASSUME NEW b \in Callback, FirstRefused(b)
          PROVE  supplied < BadAt
        <3>1. given.cb < b /\ given.cb \in Nat /\ b \in Nat
            BY <1>1, <1>5, <2>1, FaultAhead, SessionFacts
        <3>2. ~(First[b] < consumed)
            BY <1>1, <3>1 DEF AllGiven
        <3>3. First[b] \in Nat /\ Last[b] \in Nat /\ First[b] < Last[b] /\ BadAt = Last[b]
            BY <1>5, <2>1, SessionFacts DEF FirstRefused
        <3>. QED BY <1>2, <1>5, <3>2, <3>3
    <2>. QED BY <1>5, <2>1, FaultIs
<1>7. Accepts(supplied, finalBuffer)
    BY <1>1, <1>2, <1>6, EmptyVerdict
<1>. QED BY <1>1, <1>2, <1>3, <1>4, <1>7, StreamOperators DEF Stream!Finish, Stream!Next

(* Input that ends before the document does is an error of all of it.      *)
LEMMA EndsEarlyStep ==
    ASSUME FInv, EndsEarly
    PROVE  Stream!Next
<1>1. /\ DataOK /\ AllGiven /\ OpenFits(given.cb) /\ NotRefused /\ StreamStatus = "open"
      /\ UNCHANGED <<doc, supplied, finalBuffer, given>>
    BY EndFacts
<1>2. finalBuffer /\ (IF Empty THEN ~DocumentComplete ELSE Incomplete)
    BY DEF EndsEarly
<1>3. StreamStatus' = "failed"
    BY DEF StreamStatus, EndsEarly, set_error
<1>4. Stream!HasAll(supplied)
    BY <1>1, <1>2, NeedMoreKeepsToken
<1>5. ~Accepts(supplied, finalBuffer)
    <2>1. CASE Empty
        BY <1>1, <1>2, <2>1, EmptyVerdict
    <2>2. CASE ~Empty
        <3>1. \E c \in Unfinished(supplied) : First[c] = consumed
            BY <1>1, <1>2, <2>2, FrontIsUnfinished DEF Incomplete
        <3>. QED BY <1>2, <3>1 DEF Accepts
    <2>. QED BY <2>1, <2>2
<1>. QED BY <1>1, <1>3, <1>4, <1>5, StreamOperators DEF Stream!Fail, Stream!Next

(* A tag that is refused is the error of the document: all before it is    *)
(* made, and the bytes supplied reach its end.                             *)
LEMMA RefusesStep ==
    ASSUME FInv, RefusesMarkup
    PROVE  Stream!Next
<1>1. /\ DataOK /\ AllGiven /\ OpenFits(given.cb) /\ NotRefused /\ StreamStatus = "open"
      /\ UNCHANGED <<doc, supplied, finalBuffer, given>>
    BY EndFacts
<1>2. Complete
    BY DEF RefusesMarkup
<1>3. PICK c \in Front : RefusesTag(c) \/ Kind[c] \in {"comment", "doctype"}
    BY DEF RefusesMarkup
<1>4. StreamStatus' = "failed"
    BY DEF StreamStatus, RefusesMarkup, set_error
<1>5. /\ doc \in Documents /\ supplied \in Nat /\ consumed \in Nat /\ consumed <= supplied
      /\ BadAt \in Nat /\ BadFrom \in Nat /\ given.cb \in Nat
    <2>1. doc \in Documents /\ supplied \in 0..DocSize /\ consumed \in 0..supplied
          /\ given.cb \in 0..N
        BY <1>1 DEF DataOK
    <2>. QED BY <2>1, SessionFacts, DocumentAssumption DEF IsDocument, BadAt, BadFrom
<1>6. c \in Callback /\ RefusedMarkup(doc, c)
    BY <1>1, <1>3, RefusesRefused
<1>7. PICK b \in Callback : FirstRefused(b)
    BY <1>5, <1>6, FaultIs
<1>8. /\ given.cb < b /\ b \in Nat /\ c \in Nat /\ c >= 1
      /\ First[b] \in Nat /\ Last[b] \in Nat /\ First[b] < Last[b]
      /\ First[c] \in Nat /\ Last[c] \in Nat
    BY <1>1, <1>5, <1>6, <1>7, FaultAhead, SessionFacts
<1>9. b <= c
    <2>1. c \notin 1..b - 1
        BY <1>6, <1>7 DEF FirstRefused
    <2>. QED BY <1>8, <2>1
<1>10. First[b] >= consumed
    <2>1. ~(First[b] < consumed)
        BY <1>1, <1>5, <1>8 DEF AllGiven
    <2>. QED BY <1>5, <1>8, <2>1
<1>11. First[c] <= consumed /\ Last[c] <= supplied
    BY <1>2, <1>3 DEF Front, Complete
<1>12. First[b] = First[c] /\ Last[b] = Last[c]
    <2>1. CASE b = c
        BY <2>1
    <2>2. CASE b < c
        <3>1. ~(Last[b] <= First[c])
            BY <1>5, <1>8, <1>10, <1>11
        <3>. QED BY <1>5, <1>6, <2>2, <3>1, OrderFacts
    <2>. QED BY <1>8, <1>9, <2>1, <2>2
<1>13. BadFrom = consumed /\ BadAt <= supplied
    BY <1>5, <1>7, <1>8, <1>10, <1>11, <1>12 DEF FirstRefused
<1>14. given.cb > 0 => Last[given.cb] <= consumed
    <2> SUFFICES ASSUME given.cb > 0
                 PROVE  Last[given.cb] <= consumed
        OBVIOUS
    <2>1. given.cb \in Callback
        BY <1>1, <1>5, SessionFacts DEF DataOK
    <2>2. Last[given.cb] <= First[b]
        BY <1>5, <1>7, <1>8, <2>1, BeforeFault
    <2>. QED BY <1>7, <1>13, <2>2 DEF FirstRefused
<1>15. Stream!HasAll(supplied)
    BY <1>1, <1>13, <1>14, AllBeforeError, StreamOperators DEF Stream!HasAll
<1>16. ~Accepts(supplied, finalBuffer)
    BY <1>5, <1>13 DEF Accepts
<1>. QED BY <1>1, <1>4, <1>15, <1>16, StreamOperators DEF Stream!Fail, Stream!Next

(* Steps the application cannot tell from no step.                         *)
LEMMA HiddenSteps ==
    ASSUME AfterError \/ NeedMore \/ UNCHANGED vars
    PROVE  UNCHANGED Stream!vars
<1>1. UNCHANGED <<doc, supplied, finalBuffer, given, suspended, finished, failed>>
    BY DEF AfterError, NeedMore, Return, documentVars, statusVars, vars
<1>. QED BY <1>1 DEF Stream!vars, StreamStatus

LEMMA StreamInit == Init => Stream!Init
<1> SUFFICES ASSUME Init
             PROVE  Stream!Init
    OBVIOUS
<1>1. /\ SessionInit /\ StreamStatus = "open"
    BY DEF Init, StreamStatus
<1>. QED BY <1>1 DEF SessionInit, Stream!Init, Stream!Nothing, Nothing, Stream!Kinds

LEMMA StreamNext ==
    ASSUME FInv, [Next]_vars
    PROVE  Stream!Next \/ UNCHANGED Stream!vars
<1>1. CASE \E n \in Chunks, f \in BOOLEAN : feed(n, f)
    BY <1>1, SupplyStep
<1>. QED BY <1>1, ResumeStep, FinishStep, EndsEarlyStep, RefusesStep, CallbackDelivers,
            HiddenSteps DEF Next, advance_available

(* The incremental session makes, whatever the chunks and the stops, the   *)
(* callbacks of the document once and in order, all of them before it      *)
(* answers that it is finished or failed, and fails only for what the      *)
(* bytes supplied are.                                                     *)
THEOREM SessionImplementsStream == Spec => ImplementsStream
<1>1. Init => FInv /\ Stream!Init
    BY FInvInit, StreamInit
<1>2. FInv /\ [Next]_vars => FInv'
    BY FInvNext
<1>3. FInv /\ [Next]_vars => [Stream!Next]_Stream!vars
    BY StreamNext
<1>. QED BY <1>1, <1>2, <1>3, PTL DEF Spec, ImplementsStream, Stream!Spec
=============================================================================
