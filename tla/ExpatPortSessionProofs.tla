----------------------- MODULE ExpatPortSessionProofs -----------------------
(***************************************************************************)
(* Theorems of the session with Expat's processors: the processor that is  *)
(* active is the one for the part of the document the session is in, so    *)
(* that, as in the incremental session, nothing it could report is kept,   *)
(* and a stop is obeyed.                                                   *)
(***************************************************************************)
EXTENDS ExpatPortSession, TokenSessionProofs

-----------------------------------------------------------------------------
(* The inductive invariant.                                                *)

ControlTypes ==
    /\ stopRequested \in BOOLEAN
    /\ pc \in {"idle", "run", "empty"} /\ returned \in Answers
    /\ processor \in Processors /\ parsing \in ParsingStatuses

(* A stop that is asked for and not obeyed is asked for within an empty    *)
(* element; a call runs while the session is parsing.                      *)
StatusFits ==
    /\ stopRequested => parsing = "suspended" \/ pc = "empty"
    /\ pc # "idle" => parsing = "parsing"
    /\ pc = "empty" => processor = "content"

(* ProcessorIsPlace with what makes it inductive: how many elements there  *)
(* have been outside all elements, also while the end callback of an empty *)
(* element is due.                                                         *)
Place ==
    /\ processor \in {"prologInit", "prolog"} => elements = 0 /\ stack = <<>>
    /\ processor = "content" =>
          \/ elements = 1 /\ (stack # <<>> \/ pc = "empty")
          \/ elements = 0 /\ stack = <<>> /\ AtMarkup /\ pc # "empty"
    /\ processor = "epilog" => elements = 1 /\ stack = <<>>

IInv ==
    /\ DataOK /\ GivenIsConsumed /\ ControlTypes /\ StatusFits /\ Place
    /\ KeepsOnlyIncompleteToken

(* The declaration comes before every callback.                            *)
LEMMA DeclarationFirst ==
    ASSUME doc \in Documents
    PROVE  Declaration \in Nat /\ \A c \in Callback : Declaration <= First[c]
BY DeclarationAssumption DEF Declaration, Callback, N, First

(* What is kept when the next call of parse is asked for.                  *)
LEMMA NeedMoreKeepsToken ==
    ASSUME DataOK, AllGiven, IF Empty THEN TRUE ELSE Incomplete
    PROVE  /\ Stream!HasAll(supplied)
           /\ \/ Empty
              \/ AtDeclaration /\ supplied < Declaration
              \/ \E c \in Unfinished(supplied) : First[c] = consumed
<1>1. doc \in Documents /\ supplied \in Nat
    <2>1. doc \in Documents /\ supplied \in 0..DocSize
        BY DEF DataOK
    <2>. QED BY <2>1, SessionFacts
<1>2. Declaration \in Nat
    BY <1>1, DeclarationFirst
<1>3. \/ Empty
      \/ AtDeclaration /\ supplied < Declaration
      \/ ~Empty /\ FrontText = {} /\ ~Complete
    BY <1>1, <1>2 DEF Incomplete, DeclarationShows, AtMarkup, MarkupComplete
<1>4. Stream!HasAll(supplied)
    <2> SUFFICES ASSUME NEW c \in Callback, Kind[c] \in {"start", "end", "text"},
                        Seen(c, supplied)
                 PROVE  c < given.cb \/ (c = given.cb /\ given.to = Reported(c, supplied))
        BY DEF Stream!HasAll, Stream!Callback, Stream!Kind, Stream!N, Callback, Kind, N,
               Stream!Seen, Stream!Reported, Seen, Reported, Stream!Ready, Stream!BadAt,
               Stream!BadFrom, Ready, BadAt, BadFrom, Stream!First, First, Stream!Last, Last
    <2>1. Ready[c] <= supplied
        BY DEF Seen
    <2>2. CASE AtDeclaration /\ supplied < Declaration
        <3>1. First[c] < Ready[c] /\ First[c] \in Nat /\ Ready[c] \in Nat
            BY <1>1, SessionFacts
        <3>2. Declaration <= First[c]
            BY <1>1, DeclarationFirst
        <3>. QED BY <1>1, <1>2, <2>1, <2>2, <3>1, <3>2
    <2>. QED BY <1>3, <2>1, <2>2, AllIsMade
<1>5. \/ Empty
      \/ AtDeclaration /\ supplied < Declaration
      \/ \E c \in Unfinished(supplied) : First[c] = consumed
    BY <1>3, FrontIsUnfinished
<1>. QED BY <1>4, <1>5

LEMMA InitInv == Init => IInv
<1> SUFFICES ASSUME Init
             PROVE  IInv
    OBVIOUS
<1>1. SessionInit
    BY DEF Init
<1>2. DataOK /\ AllGiven
    BY <1>1, InitKeeps
<1>3. pc = "idle" /\ consumed = supplied /\ stopRequested = FALSE /\ returned = "NEED_MORE"
      /\ processor = "prologInit" /\ parsing = "initialized" /\ elements = 0 /\ stack = <<>>
    BY <1>1 DEF SessionInit, Init
<1>4. KeepsOnlyIncompleteToken
    BY <1>2, <1>3, NeedMoreKeepsToken DEF KeepsOnlyIncompleteToken, Empty
<1>5. ControlTypes /\ StatusFits /\ Place
    BY <1>3 DEF ControlTypes, StatusFits, Place, Answers, Processors, ParsingStatuses
<1>. QED BY <1>2, <1>3, <1>4, <1>5 DEF IInv, GivenIsConsumed

-----------------------------------------------------------------------------
(* Every step keeps the invariant.                                         *)

(* The end of a call changes nothing of the document.                      *)
LEMMA ReturnKeeps ==
    ASSUME IInv, pc = "run", NEW status \in Answers, Return(status), UNCHANGED documentVars,
           processor' = "error" \/ UNCHANGED processor,
           status = "NEED_MORE" => (IF Empty THEN TRUE ELSE Incomplete)
    PROVE  IInv' /\ UNCHANGED given
<1>1. /\ UNCHANGED <<doc, finalBuffer, consumed, line, column, stack, elements, given>>
      /\ supplied' = supplied /\ stopRequested' = stopRequested
      /\ pc' = "idle" /\ returned' = status
      /\ parsing' = CASE status = "NEED_MORE" -> "parsing"
                      [] status = "SUSPENDED" -> "suspended"
                      [] OTHER -> "finished"
    BY DEF Return, documentVars
<1>2. DataOK /\ AllGiven /\ ControlTypes /\ StatusFits /\ Place
    BY DEF IInv, GivenIsConsumed
<1>3. DataOK' /\ AllGiven'
    BY <1>1, <1>2, IdleKeeps
<1>4. ControlTypes' /\ StatusFits'
    BY <1>1, <1>2 DEF ControlTypes, StatusFits, Processors, ParsingStatuses, Answers
<1>5. AtMarkup' = AtMarkup
    BY <1>1, SameDocument DEF AtMarkup, AtDeclaration, Declaration, Front, FrontText
<1>6. Place'
    BY <1>1, <1>2, <1>5 DEF Place
<1>7. KeepsOnlyIncompleteToken'
    <2> SUFFICES ASSUME status = "NEED_MORE"
                 PROVE  /\ Stream!HasAll(supplied)'
                        /\ \/ Empty'
                           \/ AtDeclaration' /\ supplied' < Declaration'
                           \/ \E c \in Unfinished(supplied)' : First'[c] = consumed'
        BY <1>1 DEF KeepsOnlyIncompleteToken
    <2>1. /\ Stream!HasAll(supplied)
          /\ \/ Empty
             \/ AtDeclaration /\ supplied < Declaration
             \/ \E c \in Unfinished(supplied) : First[c] = consumed
        BY <1>2, NeedMoreKeepsToken
    <2>2. /\ Stream!HasAll(supplied)' = Stream!HasAll(supplied)
          /\ Empty' = Empty /\ Unfinished(supplied)' = Unfinished(supplied) /\ First' = First
          /\ AtDeclaration' = AtDeclaration /\ Declaration' = Declaration
        BY <1>1 DEF Stream!HasAll, Stream!Callback, Stream!Kind, Stream!N, Stream!Seen,
           Stream!Reported, Stream!Ready, Stream!BadAt, Stream!BadFrom, Stream!First,
           Stream!Last, Empty, Unfinished, Callback, N, Kind, First, Last, AtDeclaration,
           Declaration
    <2>. QED BY <1>1, <2>1, <2>2
<1>. QED BY <1>1, <1>3, <1>4, <1>6, <1>7 DEF IInv, GivenIsConsumed

LEMMA EndKeeps ==
    ASSUME IInv,
           NeedMore \/ Finish \/ EndsEarly \/ RefusesProlog \/ RefusesMarkup \/ RefusesJunk
    PROVE  IInv' /\ UNCHANGED given
<1>1. CASE NeedMore
    BY <1>1, ReturnKeeps DEF NeedMore, Answers
<1>2. CASE Finish
    BY <1>2, ReturnKeeps DEF Finish, Answers
<1>3. CASE EndsEarly \/ RefusesProlog \/ RefusesMarkup \/ RefusesJunk
    <2>1. pc = "run" /\ processor' = "error" /\ Return("ERROR") /\ UNCHANGED documentVars
        BY <1>3 DEF EndsEarly, RefusesProlog, RefusesMarkup, RefusesJunk, set_error, Runs
    <2>. QED BY <2>1, ReturnKeeps DEF Answers
<1>. QED BY <1>1, <1>2, <1>3

(* After a callback the call goes on, or is suspended as it was asked to.  *)
LEMMA EventKeeps ==
    ASSUME ControlTypes, parsing = "parsing", event_or_suspended,
           processor' \in Processors, stopRequested' \in BOOLEAN
    PROVE  /\ ControlTypes' /\ StatusFits' /\ pc' # "empty"
           /\ ~(pc' = "idle" /\ returned' = "NEED_MORE")
BY DEF ControlTypes, StatusFits, event_or_suspended, Return, Answers, ParsingStatuses

LEMMA parseKeeps ==
    ASSUME IInv, NEW n \in Chunks, NEW final \in BOOLEAN, parse(n, final)
    PROVE  IInv'
<1>1. /\ DataOK /\ AllGiven /\ ControlTypes /\ StatusFits /\ Place
    BY DEF IInv, GivenIsConsumed, parse
<1>2. /\ supplied + n <= DocSize /\ supplied' = supplied + n /\ finalBuffer' = final
      /\ UNCHANGED <<doc, consumed, line, column, stack, elements, given>>
    BY DEF parse, positionVars, elementVars
<1>3. DataOK' /\ AllGiven'
    BY <1>1, <1>2, SupplyKeeps
<1>4. /\ pc = "idle" /\ pc' = "run" /\ parsing' = "parsing" /\ parsing # "suspended"
      /\ UNCHANGED <<returned, stopRequested, processor>>
    BY DEF parse, MayParse
<1>5. ControlTypes' /\ StatusFits'
    BY <1>1, <1>4 DEF ControlTypes, StatusFits, ParsingStatuses
<1>6. AtMarkup' = AtMarkup
    BY <1>2, SameDocument DEF AtMarkup, AtDeclaration, Declaration, Front, FrontText
<1>7. Place'
    BY <1>1, <1>2, <1>4, <1>6 DEF Place
<1>8. GivenIsConsumed' /\ KeepsOnlyIncompleteToken'
    BY <1>3, <1>4 DEF GivenIsConsumed, KeepsOnlyIncompleteToken
<1>. QED BY <1>3, <1>5, <1>7, <1>8 DEF IInv

LEMMA resumeKeeps ==
    ASSUME IInv, resume
    PROVE  IInv'
<1>1. /\ DataOK /\ AllGiven /\ ControlTypes /\ StatusFits /\ Place
    BY DEF IInv, GivenIsConsumed, resume
<1>2. /\ UNCHANGED <<doc, finalBuffer, consumed, line, column, stack, elements, given>>
      /\ supplied' = supplied
    BY DEF resume, positionVars, elementVars, windowVars
<1>3. DataOK' /\ AllGiven'
    BY <1>1, <1>2, IdleKeeps
<1>4. /\ parsing' = "parsing" /\ stopRequested' = FALSE /\ pc = "idle" /\ pc' = "run"
      /\ UNCHANGED <<returned, processor>>
    BY DEF resume
<1>5. ControlTypes' /\ StatusFits'
    BY <1>1, <1>4 DEF ControlTypes, StatusFits, ParsingStatuses
<1>6. AtMarkup' = AtMarkup
    BY <1>2, SameDocument DEF AtMarkup, AtDeclaration, Declaration, Front, FrontText
<1>7. Place'
    BY <1>1, <1>2, <1>4, <1>6 DEF Place
<1>8. GivenIsConsumed' /\ KeepsOnlyIncompleteToken'
    BY <1>3, <1>4 DEF GivenIsConsumed, KeepsOnlyIncompleteToken
<1>. QED BY <1>3, <1>5, <1>7, <1>8 DEF IInv
(* The prolog begins, and ends at the first markup that is not its own.    *)
LEMMA HandOverKeeps ==
    ASSUME IInv, PrologInit \/ PrologEnds
    PROVE  IInv' /\ UNCHANGED given
<1>1. /\ pc = "run" /\ DataOK /\ AllGiven /\ ControlTypes /\ StatusFits /\ Place
    BY DEF IInv, GivenIsConsumed, PrologInit, PrologEnds, Runs
<1>2. /\ UNCHANGED <<doc, finalBuffer, consumed, line, column, stack, elements, given>>
      /\ supplied' = supplied /\ UNCHANGED <<stopRequested, pc, returned, parsing>>
    BY DEF PrologInit, PrologEnds, HandOver, documentVars
<1>3. DataOK' /\ AllGiven'
    BY <1>1, <1>2, IdleKeeps
<1>4. \/ processor = "prologInit" /\ processor' = "prolog"
      \/ processor = "prolog" /\ processor' = "content" /\ AtMarkup
    BY DEF PrologInit, PrologEnds, HandOver, Runs
<1>5. ControlTypes' /\ StatusFits'
    BY <1>1, <1>2, <1>4 DEF ControlTypes, StatusFits, Processors
<1>6. AtMarkup' = AtMarkup
    BY <1>2, SameDocument DEF AtMarkup, AtDeclaration, Declaration, Front, FrontText
<1>7. Place'
    BY <1>1, <1>2, <1>4, <1>6 DEF Place
<1>8. GivenIsConsumed' /\ KeepsOnlyIncompleteToken'
    BY <1>1, <1>2, <1>3 DEF GivenIsConsumed, KeepsOnlyIncompleteToken
<1>. QED BY <1>2, <1>3, <1>5, <1>7, <1>8 DEF IInv

(* Bytes that belong to no callback go by.                                 *)
LEMMA SkipKeeps ==
    ASSUME IInv, pc = "run", processor \in {"prolog", "epilog"},
           NEW n \in Nat, consumed + n <= supplied, Skip(n),
           \A c \in Callback : First[c] < consumed + n => Last[c] <= consumed
    PROVE  IInv' /\ UNCHANGED given
<1>1. /\ DataOK /\ AllGiven /\ ControlTypes /\ StatusFits /\ Place
    BY DEF IInv, GivenIsConsumed
<1>2. /\ Consume(n) /\ UNCHANGED windowVars /\ UNCHANGED doc
      /\ UNCHANGED <<stack, elements, given, pc, returned, parsing, processor, stopRequested>>
    BY DEF Skip, windowVars, elementVars
<1>3. /\ stack' \in Seq({Name[c] : c \in Callback}) /\ elements' \in Nat
      /\ given' \in [turn : 0..1, cb : 0..N, from : Nat, to : Nat]
    BY <1>1, <1>2 DEF DataOK
<1>4. DataOK' /\ consumed' = consumed + n
    BY <1>1, <1>2, <1>3, ConsumeKeepsData
<1>5. AllGiven'
    <2>1. doc \in Documents /\ consumed \in Nat /\ given.cb \in 0..N
        <3>1. doc \in Documents /\ supplied \in 0..DocSize /\ consumed \in 0..supplied
              /\ given.cb \in 0..N
            BY <1>1 DEF DataOK
        <3>. QED BY <3>1, SessionFacts
    <2>2. ASSUME NEW c \in Callback
          PROVE  /\ First[c] < consumed + n <=> First[c] < consumed
                 /\ First[c] < consumed + n => Last[c] <= consumed /\ Last[c] <= consumed + n
        <3>1. First[c] \in Nat /\ Last[c] \in Nat /\ First[c] < Last[c]
            BY <2>1, SessionFacts
        <3>. QED BY <2>1, <3>1
    <2>3. ASSUME NEW c \in Callback
          PROVE  /\ c <= given.cb <=> First[c] < consumed'
                 /\ ~(First[c] < consumed' /\ consumed' < Last[c])
        <3>1. First[c] \in Nat /\ Last[c] \in Nat
            BY <2>1, SessionFacts
        <3>2. c <= given.cb <=> First[c] < consumed
            BY <1>1 DEF AllGiven
        <3>. QED BY <1>4, <2>1, <2>2, <3>1, <3>2
    <2>4. ASSUME given.cb > 0
          PROVE  given.to = Reported(given.cb, consumed')
        <3>1. given.cb \in Callback
            BY <2>1, <2>4, SessionFacts
        <3>2. Last[given.cb] <= consumed /\ Last[given.cb] <= consumed'
            BY <1>1, <1>4, <2>1, <2>2, <3>1, SessionFacts DEF AllGiven
        <3>3. Reported(given.cb, consumed') = Reported(given.cb, consumed)
            <4>1. Last[given.cb] \in Nat /\ consumed' \in Nat
                BY <1>4, <2>1, <3>1, SessionFacts
            <4>. QED BY <2>1, <3>2, <4>1 DEF Reported
        <3>. QED BY <1>1, <2>4, <3>3 DEF AllGiven
    <2>5. Reported(given.cb, consumed)' = Reported(given.cb, consumed')
        BY <1>2, SameDocument DEF Reported
    <2>. QED BY <1>2, <2>3, <2>4, <2>5, SameDocument DEF AllGiven
<1>6. ControlTypes' /\ StatusFits'
    BY <1>1, <1>2 DEF ControlTypes, StatusFits
<1>7. Place'
    BY <1>1, <1>2 DEF Place
<1>. QED BY <1>2, <1>4, <1>5, <1>6, <1>7 DEF IInv, GivenIsConsumed, KeepsOnlyIncompleteToken

LEMMA SpaceKeeps ==
    ASSUME IInv, PrologDeclaration \/ SkipSpace
    PROVE  IInv' /\ UNCHANGED given
<1>1. doc \in Documents /\ consumed \in Nat /\ supplied \in Nat /\ consumed <= supplied
    <2>1. doc \in Documents /\ supplied \in 0..DocSize /\ consumed \in 0..supplied
        BY DEF IInv, DataOK
    <2>2. DocSize \in Nat
        BY <2>1, SessionFacts
    <2>. QED BY <2>1, <2>2
<1>2. \A c \in Callback : First[c] \in Nat /\ Last[c] \in Nat
    BY <1>1, SessionFacts
<1>3. CASE PrologDeclaration
    <2>1. /\ pc = "run" /\ processor = "prolog" /\ consumed < Declaration
          /\ Declaration <= supplied /\ Skip(Declaration - consumed)
        BY <1>3 DEF PrologDeclaration, Runs, DeclarationShows, AtDeclaration
    <2>2. Declaration \in Nat /\ \A c \in Callback : Declaration <= First[c]
        BY <1>1, DeclarationFirst
    <2>3. /\ Declaration - consumed \in Nat /\ consumed + (Declaration - consumed) = Declaration
        BY <1>1, <2>1, <2>2
    <2>4. \A c \in Callback : ~(First[c] < consumed + (Declaration - consumed))
        BY <1>2, <2>2, <2>3
    <2>5. consumed + (Declaration - consumed) <= supplied
        BY <2>1, <2>3
    <2>. QED BY <2>1, <2>3, <2>4, <2>5, SkipKeeps
<1>4. CASE SkipSpace
    <2>1. /\ pc = "run" /\ processor \in {"prolog", "epilog"} /\ consumed # supplied
          /\ Front = {} /\ Skip(1)
        BY <1>4 DEF SkipSpace, Runs, AtSpace, Empty
    <2>2. ASSUME NEW c \in Callback, First[c] < consumed + 1
          PROVE  Last[c] <= consumed
        <3>1. ~(First[c] <= consumed /\ consumed < Last[c])
            BY <2>1 DEF Front
        <3>2. First[c] \in Nat /\ Last[c] \in Nat
            BY <1>2
        <3>. QED BY <1>1, <2>2, <3>1, <3>2
    <2>3. consumed + 1 <= supplied
        BY <1>1, <2>1
    <2>. QED BY <2>1, <2>2, <2>3, SkipKeeps
<1>. QED BY <1>3, <1>4

-----------------------------------------------------------------------------
(* The callbacks of the content.                                           *)

LEMMA TextKeeps ==
    ASSUME IInv, ContentText
    PROVE  IInv' /\ ~stopRequested
<1>1. /\ pc = "run" /\ processor = "content" /\ parsing = "parsing" /\ ~Empty
      /\ DataOK /\ AllGiven /\ ControlTypes /\ ~stopRequested /\ Place
    BY DEF ContentText, Runs, IInv, GivenIsConsumed, StatusFits
<1>2. PICK c \in FrontText : EmitText(c)
    BY DEF ContentText
<1>3. event_or_suspended /\ UNCHANGED processor /\ UNCHANGED windowVars
    BY DEF ContentText
<1>4. DataOK' /\ AllGiven'
    BY <1>1, <1>2, <1>3, EmitTextKeeps
<1>5. stopRequested' \in BOOLEAN /\ UNCHANGED <<stack, elements>>
    BY <1>1, <1>2 DEF EmitText, Give, ControlTypes, elementVars
<1>6. /\ ControlTypes' /\ StatusFits' /\ pc' # "empty"
      /\ ~(pc' = "idle" /\ returned' = "NEED_MORE")
    BY <1>1, <1>3, <1>5, EventKeeps DEF ControlTypes
<1>7. ~AtMarkup
    <2>1. doc \in Documents /\ consumed \in Nat
        <3>1. doc \in Documents /\ supplied \in 0..DocSize /\ consumed \in 0..supplied
            BY <1>1 DEF DataOK
        <3>. QED BY <3>1, SessionFacts
    <2>2. c \in Callback /\ First[c] <= consumed /\ First[c] \in Nat
        BY <2>1, SessionFacts DEF FrontText, Front
    <2>3. ~(consumed < Declaration)
        BY <2>1, <2>2, DeclarationFirst
    <2>. QED BY <2>3 DEF AtMarkup, AtDeclaration
<1>8. Place'
    BY <1>1, <1>3, <1>5, <1>6, <1>7 DEF Place
<1>. QED BY <1>1, <1>4, <1>6, <1>8 DEF IInv, GivenIsConsumed, KeepsOnlyIncompleteToken

LEMMA StartTagKeeps ==
    ASSUME IInv, StartTag
    PROVE  IInv' /\ ~stopRequested
<1>1. /\ pc = "run" /\ processor = "content" /\ parsing = "parsing"
      /\ DataOK /\ AllGiven /\ ControlTypes /\ ~stopRequested /\ Place
    BY DEF StartTag, Runs, IInv, GivenIsConsumed, StatusFits
<1>2. PICK c \in FrontTag("start") :
          /\ EmitStart(c)
          /\ IF FrontTag("end") = {} THEN event_or_suspended
             ELSE pc' = "empty" /\ UNCHANGED <<returned, parsing>>
    BY DEF StartTag
<1>3. UNCHANGED processor /\ UNCHANGED windowVars
    BY DEF StartTag
<1>4. /\ DataOK'
      /\ FrontTag("end") = {} => AllGiven'
      /\ FrontTag("end") # {} => TagHalfGiven'
    BY <1>1, <1>2, <1>3, EmitStartKeeps
<1>5. /\ stopRequested' \in BOOLEAN
      /\ elements' = IF stack = <<>> THEN elements + 1 ELSE elements
      /\ stack' = IF FrontTag("end") = {} THEN Append(stack, Name[c]) ELSE stack
    BY <1>1, <1>2 DEF EmitStart, Give, ControlTypes, Opens
<1>6. elements' = 1
    BY <1>1, <1>5 DEF Place
<1>7. CASE FrontTag("end") = {}
    <2>1. /\ ControlTypes' /\ StatusFits' /\ pc' # "empty"
          /\ ~(pc' = "idle" /\ returned' = "NEED_MORE")
        BY <1>1, <1>2, <1>3, <1>5, <1>7, EventKeeps DEF ControlTypes
    <2>2. stack' # <<>>
        <3>1. stack \in Seq({Name[d] : d \in Callback}) /\ Name[c] \in {Name[d] : d \in Callback}
            BY <1>1 DEF DataOK, FrontTag, Front
        <3>2. Append(stack, Name[c]) # <<>>
            BY <3>1, AppendProperties
        <3>. QED BY <1>5, <1>7, <3>2
    <2>3. Place'
        BY <1>1, <1>3, <1>6, <2>2 DEF Place
    <2>. QED BY <1>1, <1>4, <1>7, <2>1, <2>3 DEF IInv, GivenIsConsumed, KeepsOnlyIncompleteToken
<1>8. CASE FrontTag("end") # {}
    <2>1. pc' = "empty" /\ UNCHANGED <<returned, parsing>>
        BY <1>2, <1>8
    <2>2. ControlTypes' /\ StatusFits'
        BY <1>1, <1>3, <1>5, <2>1 DEF ControlTypes, StatusFits
    <2>3. Place'
        BY <1>1, <1>3, <1>6, <2>1 DEF Place
    <2>. QED BY <1>1, <1>4, <1>8, <2>1, <2>2, <2>3 DEF IInv, GivenIsConsumed, KeepsOnlyIncompleteToken
<1>. QED BY <1>7, <1>8

LEMMA EmptyEndKeeps ==
    ASSUME IInv, EmptyEnd
    PROVE  IInv' /\ pc = "empty"
<1>1. PICK c \in FrontTag("end") : EmitEmptyEnd(c)
    BY DEF EmptyEnd
<1>2. /\ pc = "empty" /\ processor = "content" /\ parsing = "parsing"
      /\ DataOK /\ TagHalfGiven /\ ControlTypes /\ Place
    BY <1>1 DEF EmitEmptyEnd, IInv, GivenIsConsumed, StatusFits
<1>3. event_or_suspended /\ EpilogIfClosed /\ UNCHANGED windowVars
    BY DEF EmptyEnd
<1>4. DataOK' /\ AllGiven'
    BY <1>1, <1>2, <1>3, EmitEmptyEndKeeps
<1>5. stopRequested' \in BOOLEAN /\ UNCHANGED <<stack, elements>>
    BY <1>1, <1>2 DEF EmitEmptyEnd, Give, ControlTypes, elementVars
<1>6. processor' = IF stack = <<>> THEN "epilog" ELSE "content"
    BY <1>2, <1>3, <1>5 DEF EpilogIfClosed
<1>7. /\ ControlTypes' /\ StatusFits' /\ pc' # "empty"
      /\ ~(pc' = "idle" /\ returned' = "NEED_MORE")
    BY <1>2, <1>3, <1>5, <1>6, EventKeeps DEF ControlTypes, Processors
<1>8. Place'
    BY <1>2, <1>5, <1>6 DEF Place
<1>. QED BY <1>2, <1>4, <1>7, <1>8 DEF IInv, GivenIsConsumed, KeepsOnlyIncompleteToken

LEMMA EndTagKeeps ==
    ASSUME IInv, EndTag
    PROVE  IInv' /\ ~stopRequested
<1>1. /\ pc = "run" /\ processor = "content" /\ parsing = "parsing"
      /\ DataOK /\ AllGiven /\ ControlTypes /\ ~stopRequested /\ Place
    BY DEF EndTag, Runs, IInv, GivenIsConsumed, StatusFits
<1>2. PICK c \in FrontTag("end") : EmitEnd(c)
    BY DEF EndTag
<1>3. event_or_suspended /\ EpilogIfClosed /\ UNCHANGED windowVars
    BY DEF EndTag
<1>4. DataOK' /\ AllGiven'
    BY <1>1, <1>2, <1>3, EmitEndKeeps
<1>5. stopRequested' \in BOOLEAN /\ UNCHANGED elements /\ stack # <<>>
    BY <1>1, <1>2 DEF EmitEnd, Give, ControlTypes, Closes
<1>6. processor' = IF stack' = <<>> THEN "epilog" ELSE "content"
    BY <1>1, <1>3 DEF EpilogIfClosed
<1>7. /\ ControlTypes' /\ StatusFits' /\ pc' # "empty"
      /\ ~(pc' = "idle" /\ returned' = "NEED_MORE")
    BY <1>1, <1>3, <1>5, <1>6, EventKeeps DEF ControlTypes, Processors
<1>8. Place'
    BY <1>1, <1>5, <1>6 DEF Place
<1>. QED BY <1>1, <1>4, <1>7, <1>8 DEF IInv, GivenIsConsumed, KeepsOnlyIncompleteToken

(* A step that changes nothing.                                            *)
LEMMA StutterKeeps ==
    ASSUME IInv, UNCHANGED vars
    PROVE  IInv' /\ UNCHANGED given
<1>1. /\ UNCHANGED <<doc, finalBuffer, consumed, line, column, stack, elements, given>>
      /\ supplied' = supplied
      /\ UNCHANGED <<stopRequested, pc, returned, processor, parsing>>
    BY DEF vars
<1>2. DataOK' /\ GivenIsConsumed'
    BY <1>1, IdleKeeps DEF IInv, GivenIsConsumed
<1>3. ControlTypes' /\ StatusFits'
    BY <1>1 DEF IInv, ControlTypes, StatusFits
<1>4. AtMarkup' = AtMarkup
    BY <1>1, SameDocument DEF AtMarkup, AtDeclaration, Declaration, Front, FrontText
<1>5. Place'
    BY <1>1, <1>4 DEF IInv, Place
<1>6. KeepsOnlyIncompleteToken'
    BY <1>1 DEF IInv, KeepsOnlyIncompleteToken, Stream!HasAll, Stream!Callback, Stream!Kind,
       Stream!N, Stream!Seen, Stream!Reported, Stream!Ready, Stream!BadAt, Stream!BadFrom,
       Stream!First, Stream!Last, Empty, Unfinished, Callback, N, Kind, First, Last,
       AtDeclaration, Declaration
<1>. QED BY <1>1, <1>2, <1>3, <1>5, <1>6 DEF IInv

LEMMA NextInv ==
    ASSUME IInv, [Next]_vars
    PROVE  IInv' /\ (given' # given /\ stopRequested => pc = "empty")
<1>1. ASSUME NEW n \in Chunks, NEW final \in BOOLEAN, parse(n, final)
      PROVE  IInv' /\ UNCHANGED given
    BY <1>1, parseKeeps DEF parse
<1>2. CASE resume
    BY <1>2, resumeKeeps DEF resume
<1>3. CASE PrologInit \/ PrologEnds
    BY <1>3, HandOverKeeps
<1>4. CASE PrologDeclaration \/ SkipSpace
    BY <1>4, SpaceKeeps
<1>5. CASE NeedMore \/ Finish \/ EndsEarly \/ RefusesProlog \/ RefusesMarkup \/ RefusesJunk
    BY <1>5, EndKeeps
<1>6. CASE ContentText
    BY <1>6, TextKeeps
<1>7. CASE StartTag
    BY <1>7, StartTagKeeps
<1>8. CASE EmptyEnd
    BY <1>8, EmptyEndKeeps
<1>9. CASE EndTag
    BY <1>9, EndTagKeeps
<1>10. CASE UNCHANGED vars
    BY <1>10, StutterKeeps
<1>. QED BY <1>1, <1>2, <1>3, <1>4, <1>5, <1>6, <1>7, <1>8, <1>9, <1>10
         DEF Next, call_processor

LEMMA InvAlways == Spec => []IInv
<1>1. IInv /\ [Next]_vars => IInv'
    BY NextInv
<1>. QED BY <1>1, InitInv, PTL DEF Spec

-----------------------------------------------------------------------------
(* The theorems.                                                           *)

(* The session's variables keep their types, and its counters lie within   *)
(* the input.                                                              *)
THEOREM PortTypes == Spec => []TypeOK
<1>1. IInv => TypeOK
    <2> SUFFICES ASSUME IInv
                 PROVE  TypeOK
        OBVIOUS
    <2>1. DataOK /\ ControlTypes
        BY DEF IInv
    <2>2. doc \in Documents /\ supplied \in Nat /\ consumed \in 0..supplied
        <3>1. doc \in Documents /\ supplied \in 0..DocSize /\ consumed \in 0..supplied
            BY <2>1 DEF DataOK
        <3>. QED BY <3>1, SessionFacts
    <2>3. line \in 1..supplied + 1 /\ column \in 0..supplied
        BY <2>1, <2>2, PositionTypes DEF DataOK
    <2>4. SessionTypeOK
        BY <2>1, <2>3 DEF SessionTypeOK, DataOK, ControlTypes
    <2>. QED BY <2>1, <2>4 DEF TypeOK, ControlTypes
<1>. QED BY <1>1, InvAlways, PTL

(* The processor that is active is that of the place in the document: the  *)
(* content meets character data only inside the document element, and the  *)
(* epilog begins when that element has ended.                              *)
THEOREM ProcessorFitsPlace == Spec => []ProcessorIsPlace
<1>1. IInv => ProcessorIsPlace
    BY DEF IInv, Place, ProcessorIsPlace, ControlTypes, Processors
<1>. QED BY <1>1, InvAlways, PTL

(* parse asks for more only when every callback of the bytes it was given  *)
(* is made and the window holds the beginning of a token or nothing.       *)
THEOREM PortKeepsNothingBack == Spec => []KeepsOnlyIncompleteToken
<1>1. IInv => KeepsOnlyIncompleteToken
    BY DEF IInv
<1>. QED BY <1>1, InvAlways, PTL

(* A stop is obeyed before the next callback, but for the end callback of  *)
(* an empty element whose start callback asked for it.                     *)
THEOREM PortStopObeyed == Spec => StopIsObeyed
<1>1. IInv /\ [Next]_vars => [given' # given /\ stopRequested => pc = "empty"]_vars
    BY NextInv
<1>. QED BY <1>1, InvAlways, PTL DEF Spec, StopIsObeyed
-----------------------------------------------------------------------------
(* The element stack, and what is refused.                                 *)

(* No callback that is made is one to refuse.                              *)
NotRefused == \A c \in 1..given.cb : ~Refused(doc, c)

FInv ==
    /\ IInv /\ StackInv /\ NotRefused
    /\ processor = "error" => parsing = "finished"

LEMMA PortRefusedIs ==
    ASSUME doc \in Documents, NEW c \in Callback
    PROVE  /\ Refused(doc, c) <=>
                 \/ RefusedMarkup(doc, c)
                 \/ Kind[c] = "text" /\ OpenAfter(doc, c - 1) = {}
                 \/ Kind[c] = "start" /\ AfterRoot(doc, c)
           /\ AfterRoot(doc, c) <=>
                 (\E b \in 1..c - 1 : Kind[b] = "start") /\ OpenAfter(doc, c - 1) = {}
BY DEF Refused, AfterRoot, Kind

LEMMA NotRefusedNext ==
    ASSUME NotRefused, UNCHANGED doc, NEW c \in Callback, doc \in Documents,
           given.cb \in Nat, given.cb = c \/ given.cb = c - 1, given'.cb = c, ~Refused(doc, c)
    PROVE  NotRefused'
<1>1. c \in Nat
    BY SessionFacts
<1>2. \A b \in 1..c : b \in 1..given.cb \/ b = c
    BY <1>1
<1>3. \A b \in 1..c : ~Refused(doc, b)
    BY <1>2 DEF NotRefused
<1>. QED BY <1>3 DEF NotRefused

LEMMA FInvInit == Init => FInv
<1> SUFFICES ASSUME Init
             PROVE  FInv
    OBVIOUS
<1>1. IInv
    BY InitInv
<1>2. SessionInit /\ pc = "idle" /\ given.cb = 0 /\ processor = "prologInit"
    BY DEF Init, SessionInit, Nothing
<1>3. StackInv
    BY <1>2, InitFits DEF StackInv
<1>. QED BY <1>1, <1>2, <1>3 DEF FInv, NotRefused

(* A step that makes no callback, outside an empty element.                *)
LEMMA QuietKeepsFits ==
    ASSUME FInv, IInv', pc # "empty", pc' # "empty",
           UNCHANGED <<doc, stack, elements, given>>,
           processor' = "error" => parsing' = "finished"
    PROVE  FInv'
<1>1. StackInv'
    BY IdleFits DEF FInv, StackInv
<1>2. NotRefused'
    BY DEF FInv, NotRefused
<1>. QED BY <1>1, <1>2 DEF FInv

(* Character data comes only inside an element.                            *)
LEMMA TextNotRefused ==
    ASSUME FInv, pc = "run", processor = "content", NEW c \in FrontText
    PROVE  c \in Callback /\ ~Refused(doc, c)
<1>1. /\ DataOK /\ AllGiven /\ StackFits(given.cb) /\ doc \in Documents /\ Place
      /\ given.cb \in Nat /\ consumed \in Nat /\ NotRefused
    <2>1. /\ DataOK /\ AllGiven /\ StackFits(given.cb) /\ Place /\ NotRefused
        BY DEF FInv, IInv, StackInv, GivenIsConsumed, OpenFits
    <2>2. doc \in Documents /\ supplied \in 0..DocSize /\ consumed \in 0..supplied
          /\ given.cb \in 0..N
        BY <2>1 DEF DataOK
    <2>. QED BY <2>1, <2>2, SessionFacts
<1>2. c \in Callback /\ Kind[c] = "text" /\ First[c] <= consumed /\ c \in Nat /\ c >= 1
    BY <1>1, SessionFacts DEF FrontText, Front
<1>3. ~AtMarkup
    <2>1. Declaration \in Nat /\ Declaration <= First[c] /\ First[c] \in Nat
        BY <1>1, <1>2, DeclarationFirst, SessionFacts
    <2>2. ~(consumed < Declaration)
        BY <1>1, <1>2, <2>1
    <2>. QED BY <2>2 DEF AtMarkup, AtDeclaration
<1>4. CASE given.cb = c
    <2>1. c \in 1..given.cb
        BY <1>2, <1>4
    <2>. QED BY <1>1, <1>2, <2>1 DEF NotRefused
<1>5. CASE given.cb = c - 1
    <2>1. stack # <<>>
        BY <1>1, <1>3 DEF Place
    <2>2. OpenAfter(doc, c - 1) # {}
        BY <1>1, <1>5, <2>1, NothingOpen
    <2>3. ~RefusedMarkup(doc, c)
        BY <1>1, <1>2, RefusedIs, MalformedFacts
    <2>. QED BY <1>1, <1>2, <2>2, <2>3, PortRefusedIs
<1>. QED BY <1>1, <1>4, <1>5, TextIsNext

(* A start tag comes first or inside an element.                           *)
LEMMA PortStartNotRefused ==
    ASSUME FInv, pc = "run", processor = "content", NEW c \in FrontTag("start"), EmitStart(c)
    PROVE  c \in Callback /\ ~Refused(doc, c)
<1>1. /\ DataOK /\ AllGiven /\ StackFits(given.cb) /\ doc \in Documents /\ Place
      /\ ElementsFit(given.cb)
    BY DEF FInv, IInv, StackInv, GivenIsConsumed, OpenFits, DataOK
<1>2. c \in Callback /\ c \in Front /\ Kind[c] = "start" /\ ~RefusedMarkup(doc, c)
    BY <1>1, StartNotRefused DEF FrontTag, Front
<1>3. given.cb = c - 1
    BY <1>1, <1>2, TagIsNext
<1>4. ~AfterRoot(doc, c)
    <2>1. CASE stack # <<>>
        BY <1>1, <1>2, <1>3, <2>1, NothingOpen, PortRefusedIs
    <2>2. CASE elements = 0
        <3>1. ~\E b \in 1..given.cb : Kind[b] = "start"
            BY <1>1, <2>2 DEF ElementsFit
        <3>. QED BY <1>1, <1>2, <1>3, <3>1, PortRefusedIs
    <2>. QED BY <1>1, <2>1, <2>2 DEF Place
<1>. QED BY <1>1, <1>2, <1>4, PortRefusedIs

(* The callbacks keep it.                                                  *)
LEMMA TextFInv ==
    ASSUME FInv, ContentText
    PROVE  FInv' /\ GoesOn
<1>1. /\ IInv /\ pc = "run" /\ processor = "content" /\ ~Empty /\ DataOK /\ AllGiven
      /\ OpenFits(given.cb) /\ NotRefused
    BY DEF FInv, IInv, StackInv, GivenIsConsumed, ContentText, Runs
<1>2. PICK c \in FrontText : EmitText(c)
    BY DEF ContentText
<1>3. UNCHANGED windowVars /\ UNCHANGED doc /\ UNCHANGED processor /\ event_or_suspended
    BY DEF ContentText, windowVars
<1>4. IInv' /\ pc' # "empty"
    BY <1>1, <1>3, TextKeeps DEF event_or_suspended, Return
<1>5. OpenFits(given.cb)' /\ GoesOn
    BY <1>1, <1>2, <1>3, EmitTextFits, TextGoesOn
<1>6. NotRefused'
    <2>1. doc \in Documents /\ given.cb \in Nat
        BY <1>1, SessionFacts DEF DataOK
    <2>2. given'.cb = c
        BY <1>2 DEF EmitText, Give
    <2>. QED BY <1>1, <1>2, <1>3, <2>1, <2>2, TextIsNext, TextNotRefused, NotRefusedNext
<1>. QED BY <1>1, <1>3, <1>4, <1>5, <1>6 DEF FInv, StackInv

LEMMA StartTagFInv ==
    ASSUME FInv, StartTag
    PROVE  FInv' /\ GoesOn
<1>1. /\ IInv /\ pc = "run" /\ processor = "content" /\ DataOK /\ AllGiven
      /\ OpenFits(given.cb) /\ NotRefused
    BY DEF FInv, IInv, StackInv, GivenIsConsumed, StartTag, Runs
<1>2. PICK c \in FrontTag("start") :
          /\ EmitStart(c)
          /\ IF FrontTag("end") = {} THEN event_or_suspended
             ELSE pc' = "empty" /\ UNCHANGED <<returned, parsing>>
    BY DEF StartTag
<1>3. UNCHANGED windowVars /\ UNCHANGED doc /\ UNCHANGED processor
    BY DEF StartTag, windowVars
<1>4. IInv' /\ (pc' = "empty" <=> FrontTag("end") # {})
    BY <1>1, <1>2, StartTagKeeps DEF event_or_suspended, Return
<1>5. StackInv'
    BY <1>1, <1>2, <1>3, <1>4, EmitStartFits DEF StackInv
<1>6. c \in Front /\ Kind[c] = "start" /\ c \in Callback /\ Complete /\ Give(c, 0, 1)
    BY <1>2 DEF FrontTag, Front, EmitStart
<1>7. given.cb = c - 1 /\ First[c] = consumed
    BY <1>1, <1>6, TagIsNext
<1>8. GoesOn
    BY <1>1, <1>6, <1>7, LastIsWhole, TagGoesOn
<1>9. NotRefused'
    <2>1. doc \in Documents /\ given.cb \in Nat
        BY <1>1, SessionFacts DEF DataOK
    <2>2. given'.cb = c
        BY <1>6 DEF Give
    <2>3. ~Refused(doc, c)
        BY <1>1, <1>2, PortStartNotRefused
    <2>. QED BY <1>1, <1>3, <1>6, <1>7, <2>1, <2>2, <2>3, NotRefusedNext
<1>. QED BY <1>1, <1>3, <1>4, <1>5, <1>8, <1>9 DEF FInv

LEMMA EmptyEndFInv ==
    ASSUME FInv, EmptyEnd
    PROVE  FInv' /\ GoesOn
<1>1. PICK c \in FrontTag("end") : EmitEmptyEnd(c)
    BY DEF EmptyEnd
<1>2. /\ IInv /\ pc = "empty" /\ processor = "content" /\ DataOK /\ TagHalfGiven /\ NotRefused
      /\ OpenIsCounted(doc, given.cb - 1) /\ StackFits(given.cb - 1) /\ elements > 0
    BY <1>1 DEF FInv, IInv, StackInv, GivenIsConsumed, EmitEmptyEnd, StatusFits
<1>3. /\ UNCHANGED windowVars /\ UNCHANGED doc /\ processor' # "error" /\ event_or_suspended
    BY <1>2 DEF EmptyEnd, windowVars, EpilogIfClosed
<1>4. IInv' /\ pc' # "empty"
    BY <1>2, <1>3, EmptyEndKeeps DEF event_or_suspended, Return
<1>5. OpenFits(given.cb)'
    BY <1>1, <1>2, <1>3, EmitEmptyEndFits
<1>6. c \in Front /\ Kind[c] = "end" /\ c \in Callback /\ Complete /\ Give(c, 0, 1)
    BY <1>1, <1>2 DEF FrontTag, Front, EmitEmptyEnd, TagHalfGiven
<1>7. given.cb = c - 1
    BY <1>1, <1>2, EndIsNext
<1>8. given.to = Whole(given.cb)
    BY <1>2 DEF TagHalfGiven, FrontTag, Whole
<1>9. GoesOn
    BY <1>2, <1>6, <1>7, <1>8, TagGoesOn
<1>10. NotRefused'
    <2>1. doc \in Documents /\ given.cb \in 0..N /\ given.cb \in Nat
        BY <1>2, SessionFacts DEF DataOK
    <2>2. given'.cb = c
        BY <1>6 DEF Give
    <2>3. \A b \in 1..given.cb : ~RefusedMarkup(doc, b)
        BY <1>2 DEF NotRefused, Refused
    <2>4. ~Refused(doc, c)
        BY <1>1, <1>2, <1>6, <2>1, <2>3, EmptyEndNotRefused, PortRefusedIs
    <2>. QED BY <1>2, <1>3, <1>6, <1>7, <2>1, <2>2, <2>4, NotRefusedNext
<1>. QED BY <1>3, <1>4, <1>5, <1>9, <1>10 DEF FInv, StackInv

LEMMA EndTagFInv ==
    ASSUME FInv, EndTag
    PROVE  FInv' /\ GoesOn
<1>1. /\ IInv /\ pc = "run" /\ processor = "content" /\ DataOK /\ AllGiven
      /\ OpenFits(given.cb) /\ NotRefused
    BY DEF FInv, IInv, StackInv, GivenIsConsumed, EndTag, Runs
<1>2. PICK c \in FrontTag("end") : EmitEnd(c)
    BY DEF EndTag
<1>3. UNCHANGED windowVars /\ UNCHANGED doc /\ processor' # "error" /\ event_or_suspended
    BY <1>1 DEF EndTag, windowVars, EpilogIfClosed
<1>4. IInv' /\ pc' # "empty"
    BY <1>1, <1>3, EndTagKeeps DEF event_or_suspended, Return
<1>5. OpenFits(given.cb)'
    BY <1>1, <1>2, <1>3, EmitEndFits
<1>6. /\ c \in Front /\ Kind[c] = "end" /\ c \in Callback /\ Complete /\ Give(c, 0, 1)
      /\ FrontTag("start") = {}
    BY <1>2 DEF FrontTag, Front, EmitEnd
<1>7. given.cb = c - 1 /\ First[c] = consumed
    BY <1>1, <1>6, TagIsNext
<1>8. GoesOn
    BY <1>1, <1>6, <1>7, LastIsWhole, TagGoesOn
<1>9. NotRefused'
    <2>1. doc \in Documents /\ given.cb \in Nat
        BY <1>1, SessionFacts DEF DataOK
    <2>2. given'.cb = c
        BY <1>6 DEF Give
    <2>3. ~Refused(doc, c)
        BY <1>1, <1>2, <1>6, <2>1, EndNotRefused, PortRefusedIs
    <2>. QED BY <1>1, <1>3, <1>6, <1>7, <2>1, <2>2, <2>3, NotRefusedNext
<1>. QED BY <1>3, <1>4, <1>5, <1>8, <1>9 DEF FInv, StackInv

LEMMA FInvNext ==
    ASSUME FInv, [Next]_vars
    PROVE  FInv'
<1>1. /\ IInv /\ IInv' /\ (pc # "idle" => parsing = "parsing")
      /\ processor = "error" => parsing = "finished"
    BY NextInv DEF FInv, IInv, StatusFits
<1>2. ASSUME NEW n \in Chunks, NEW final \in BOOLEAN, parse(n, final)
      PROVE  FInv'
    BY <1>1, <1>2, QuietKeepsFits DEF parse, MayParse, elementVars
<1>3. CASE resume
    BY <1>1, <1>3, QuietKeepsFits DEF resume, elementVars, windowVars
<1>4. CASE NeedMore \/ Finish \/ EndsEarly \/ RefusesProlog \/ RefusesMarkup \/ RefusesJunk
    <2>1. pc = "run" /\ pc' = "idle" /\ UNCHANGED documentVars
          /\ (processor' = "error" => parsing' = "finished")
        BY <1>1, <1>4 DEF NeedMore, Finish, EndsEarly, RefusesProlog, RefusesMarkup,
           RefusesJunk, Return, set_error, Runs
    <2>. QED BY <1>1, <2>1, QuietKeepsFits DEF documentVars
<1>5. CASE PrologInit \/ PrologDeclaration \/ PrologEnds \/ SkipSpace
    <2>1. /\ pc = "run" /\ pc' = "run" /\ UNCHANGED <<doc, stack, elements, given>>
          /\ processor' # "error"
        BY <1>5 DEF PrologInit, PrologDeclaration, PrologEnds, SkipSpace, Runs, HandOver,
           Skip, documentVars, windowVars, elementVars
    <2>. QED BY <1>1, <2>1, QuietKeepsFits
<1>6. CASE UNCHANGED vars
    <2>1. UNCHANGED <<doc, stack, elements, given, pc, processor, parsing>>
        BY <1>6 DEF vars
    <2>2. StackInv'
        BY <2>1, IdleFits DEF FInv, StackInv
    <2>. QED BY <1>1, <2>1, <2>2 DEF FInv, NotRefused
<1>. QED BY <1>2, <1>3, <1>4, <1>5, <1>6, TextFInv, StartTagFInv, EmptyEndFInv, EndTagFInv
         DEF Next, call_processor

LEMMA FInvAlways == Spec => []FInv
<1>1. FInv /\ [Next]_vars => FInv'
    BY FInvNext
<1>. QED BY <1>1, FInvInit, PTL DEF Spec

(* The element stack names the elements that are open, outermost first,    *)
(* through the changes of processor.                                       *)
THEOREM PortStackCorrect == Spec => []StackIsOpen
<1>1. FInv => StackIsOpen
    BY DEF FInv, StackInv, OpenFits, StackFits, StackIsOpen, OpenElements
<1>. QED BY <1>1, FInvAlways, PTL
-----------------------------------------------------------------------------
(* The declaration.                                                        *)

(* Of a document whose first bytes show the declaration, the prolog takes  *)
(* the declaration: no other processor meets it.                           *)
DeclarationTaken ==
    AtDeclaration => /\ consumed = 0 /\ (supplied = 0 \/ supplied >= 5)
                     /\ processor \notin {"content", "epilog"}

DInv == FInv /\ DeclarationTaken

LEMMA CounterTypes ==
    ASSUME DataOK
    PROVE  /\ doc \in Documents /\ consumed \in Nat /\ supplied \in Nat /\ consumed <= supplied
           /\ supplied \in 0..DocSize /\ DocSize \in Nat /\ given.cb \in Nat
           /\ given.cb \in 0..N /\ BadFrom \in Nat /\ BadAt \in Nat /\ RootEnd \in Nat
           /\ BadFrom < BadAt
<1>1. doc \in Documents /\ supplied \in 0..DocSize /\ consumed \in 0..supplied
      /\ given.cb \in 0..N
    BY DEF DataOK
<1>. QED BY <1>1, SessionFacts, DocumentAssumption DEF IsDocument, BadFrom, BadAt, RootEnd

(* When a callback is made the declaration is past.                        *)
LEMMA MadeIsPast ==
    ASSUME UNCHANGED doc, DataOK', GivenIsConsumed', given'.cb \in Callback
    PROVE  ~AtDeclaration'
<1>1. doc \in Documents
    BY DEF DataOK
<1>2. N' = N /\ supplied' \in Nat /\ consumed' \in Nat
    <2>1. supplied' \in 0..DocSize' /\ consumed' \in 0..supplied'
        BY DEF DataOK
    <2>. QED BY <1>1, <2>1, SessionFacts, SameDocument
<1>3. PICK c \in Callback : c = given'.cb
    OBVIOUS
<1>4. Declaration' = Declaration /\ Declaration \in Nat /\ Declaration <= First[c]
      /\ First[c] \in Nat
    BY <1>1, DeclarationFirst, SessionFacts DEF Declaration
<1>5. First[c] <= consumed'
    <2>1. CASE pc' = "empty"
        <3>1. First'[given'.cb] = consumed'
            BY <2>1 DEF GivenIsConsumed, TagHalfGiven
        <3>. QED BY <1>2, <1>3, <1>4, <3>1, SameDocument
    <2>2. CASE pc' # "empty"
        <3>1. c <= given'.cb
            BY <1>1, <1>3, SessionFacts
        <3>2. First'[c] < consumed'
            BY <2>2, <3>1, SameDocument DEF GivenIsConsumed, AllGiven
        <3>. QED BY <1>2, <1>4, <3>2, SameDocument
    <2>. QED BY <2>1, <2>2
<1>. QED BY <1>2, <1>4, <1>5 DEF AtDeclaration

LEMMA DInvInit == Init => DInv
BY FInvInit DEF Init, SessionInit, DInv, DeclarationTaken

LEMMA DInvNext ==
    ASSUME \A d \in Documents : ShowsDeclaration(d), DInv, [Next]_vars
    PROVE  DInv'
<1>1. FInv /\ FInv' /\ DataOK /\ DataOK' /\ GivenIsConsumed' /\ DeclarationTaken
    BY FInvNext DEF DInv, FInv, IInv
<1>. SUFFICES DeclarationTaken'
    BY <1>1 DEF DInv
<1>2. /\ doc \in Documents /\ consumed \in Nat /\ supplied \in Nat /\ consumed <= supplied
      /\ Declaration \in Nat
    BY <1>1, CounterTypes, DeclarationFirst
<1>3. ASSUME UNCHANGED <<doc, consumed>>, supplied' = supplied,
             processor' = processor \/ processor' \in {"prolog", "error"}
      PROVE  DeclarationTaken'
    <2>1. Declaration' = Declaration
        BY <1>3 DEF Declaration
    <2>. QED BY <1>1, <1>3, <2>1 DEF DeclarationTaken, AtDeclaration
<1>4. ASSUME NEW n \in Chunks, NEW final \in BOOLEAN, parse(n, final)
      PROVE  DeclarationTaken'
    <2>1. supplied' = supplied + n /\ UNCHANGED <<doc, consumed, processor>>
        BY <1>4 DEF parse, positionVars
    <2>2. SUFFICES ASSUME consumed < Declaration
                   PROVE  supplied' = 0 \/ supplied' >= 5
        BY <1>1, <2>1 DEF DeclarationTaken, AtDeclaration, Declaration
    <2>3. n \in Nat /\ (n = 0 \/ n >= 5)
        <3>1. doc.declaration > 0
            BY <1>2, <2>2 DEF Declaration
        <3>2. ShowsDeclaration(doc)
            BY <1>2
        <3>. QED BY <1>2, <3>1, <3>2, SessionFacts DEF ShowsDeclaration, Chunks
    <2>4. supplied = 0 \/ supplied >= 5
        BY <1>1, <2>2 DEF DeclarationTaken, AtDeclaration
    <2>. QED BY <1>2, <2>1, <2>3, <2>4
<1>5. CASE resume \/ UNCHANGED vars
    <2>1. UNCHANGED <<doc, consumed, processor>> /\ supplied' = supplied
        BY <1>5 DEF resume, windowVars, positionVars, vars
    <2>. QED BY <1>3, <2>1
<1>6. CASE NeedMore \/ Finish \/ EndsEarly \/ RefusesProlog \/ RefusesMarkup \/ RefusesJunk
    <2>1. UNCHANGED documentVars /\ (processor' = processor \/ processor' = "error")
        BY <1>6 DEF NeedMore, Finish, EndsEarly, RefusesProlog, RefusesMarkup, RefusesJunk,
           set_error
    <2>. QED BY <1>3, <2>1 DEF documentVars
<1>7. CASE PrologInit
    BY <1>3, <1>7 DEF PrologInit, HandOver, documentVars
<1>8. CASE PrologEnds
    <2>1. UNCHANGED <<doc, consumed>>
        BY <1>8 DEF PrologEnds, documentVars
    <2>2. ~AtDeclaration
        <3>. SUFFICES ASSUME AtDeclaration
                      PROVE  FALSE
            OBVIOUS
        <3>1. consumed = 0 /\ (supplied = 0 \/ supplied >= 5)
            BY <1>1 DEF DeclarationTaken
        <3>2. consumed # supplied /\ ~(supplied - consumed >= 5)
            BY <1>8 DEF PrologEnds, Empty, DeclarationShows
        <3>. QED BY <1>2, <3>1, <3>2
    <2>3. ~AtDeclaration'
        BY <2>1, <2>2 DEF AtDeclaration, Declaration
    <2>. QED BY <2>3 DEF DeclarationTaken
<1>9. CASE PrologDeclaration \/ SkipSpace
    <2>1. UNCHANGED doc /\ consumed' \in Nat /\ Declaration <= consumed'
        <3>1. CASE PrologDeclaration
            <4>1. consumed' = consumed + (Declaration - consumed) /\ UNCHANGED doc
                BY <3>1 DEF PrologDeclaration, Skip, Consume, windowVars
            <4>. QED BY <1>2, <4>1
        <3>2. CASE SkipSpace
            <4>1. consumed' = consumed + 1 /\ UNCHANGED doc /\ ~(consumed < Declaration)
                BY <3>2 DEF SkipSpace, AtSpace, AtDeclaration, Skip, Consume, windowVars
            <4>. QED BY <1>2, <4>1
        <3>. QED BY <1>9, <3>1, <3>2
    <2>2. ~AtDeclaration'
        BY <1>2, <2>1 DEF AtDeclaration, Declaration
    <2>. QED BY <2>2 DEF DeclarationTaken
<1>10. CASE ContentText \/ StartTag \/ EmptyEnd \/ EndTag
    <2>1. GoesOn
        BY <1>1, <1>10, TextFInv, StartTagFInv, EmptyEndFInv, EndTagFInv
    <2>2. UNCHANGED doc
        BY <1>10 DEF ContentText, StartTag, EmptyEnd, EndTag, windowVars
    <2>3. ~AtDeclaration'
        BY <1>1, <2>1, <2>2, MadeIsPast DEF GoesOn
    <2>. QED BY <2>3 DEF DeclarationTaken
<1>. QED BY <1>1, <1>4, <1>5, <1>6, <1>7, <1>8, <1>9, <1>10 DEF Next, call_processor
-----------------------------------------------------------------------------
(* The error of the document.                                              *)

(* None, or its first refused token.                                       *)
FirstRefused(b) == Refused(doc, b) /\ \A a \in 1..b - 1 : ~Refused(doc, a)

LEMMA FaultIs ==
    ASSUME doc \in Documents
    PROVE  \/ DocSize < BadAt /\ \A c \in Callback : ~Refused(doc, c)
           \/ \E b \in Callback : /\ FirstRefused(b)
                                  /\ BadFrom = First[b] /\ BadAt = ErrorAt(doc, b)
BY PortFaultAssumption DEF DocSize, BadAt, BadFrom, Callback, N, First, FirstRefused

LEMMA FaultOf ==
    ASSUME doc \in Documents, NEW b \in Callback, FirstRefused(b)
    PROVE  BadFrom = First[b] /\ BadAt = ErrorAt(doc, b)
<1>1. PICK a \in Callback : FirstRefused(a) /\ BadFrom = First[a] /\ BadAt = ErrorAt(doc, a)
    BY FaultIs DEF FirstRefused
<1>2. a \notin 1..b - 1 /\ b \notin 1..a - 1
    BY <1>1 DEF FirstRefused
<1>3. a \in Nat /\ b \in Nat /\ a >= 1 /\ b >= 1
    BY SessionFacts
<1>4. a = b
    BY <1>2, <1>3
<1>. QED BY <1>1, <1>4

(* Everything before it is of earlier tokens.                              *)
LEMMA BeforeFault ==
    ASSUME doc \in Documents, NEW b \in Callback, FirstRefused(b), NEW c \in Callback, c < b
    PROVE  Last[c] <= First[b]
<1>1. c \in 1..b - 1
    BY SessionFacts
<1>2. Refused(doc, b) /\ ~Refused(doc, c)
    BY <1>1 DEF FirstRefused
<1>3. ~RefusedMarkup(doc, c)
    BY <1>2, PortRefusedIs
<1>4. SUFFICES ASSUME First[c] = First[b]
               PROVE  FALSE
    BY OrderFacts
<1>5. Kind[b] = "end" /\ ~RefusedMarkup(doc, b)
    BY <1>3, <1>4, RefusedTogether
<1>. QED BY <1>2, <1>5, PortRefusedIs

(* The fault lies ahead of what is made.                                   *)
LEMMA FaultAhead ==
    ASSUME DataOK, NotRefused, NEW b \in Callback, FirstRefused(b)
    PROVE  given.cb \in Nat /\ given.cb < b
<1>1. b \in Nat /\ b >= 1 /\ given.cb \in Nat
    BY CounterTypes, SessionFacts
<1>2. b \notin 1..given.cb
    BY DEF NotRefused, FirstRefused
<1>. QED BY <1>1, <1>2

(* What is not refused is of the tokens before the error.                  *)
LEMMA BeforeError ==
    ASSUME doc \in Documents, NEW c \in Callback, \A d \in 1..c : ~Refused(doc, d)
    PROVE  DocSize < BadAt \/ Last[c] <= BadFrom
<1>1. ASSUME NEW b \in Callback, FirstRefused(b)
      PROVE  Last[c] <= BadFrom
    <2>1. b \notin 1..c /\ b \in Nat /\ b >= 1 /\ c \in Nat
        BY <1>1, SessionFacts DEF FirstRefused
    <2>2. c < b
        BY <2>1
    <2>. QED BY <1>1, <2>2, BeforeFault, FaultOf
<1>. QED BY <1>1, FaultIs
-----------------------------------------------------------------------------
(* The session implements the callback stream, step by step.               *)

(* The operators of the abstract specification are the same.               *)
LEMMA StreamOperators ==
    /\ Stream!Callback = Callback /\ Stream!Kind = Kind /\ Stream!DocSize = DocSize
    /\ \A c, b : Stream!Seen(c, b) <=> Seen(c, b)
    /\ \A c, b : Stream!Reported(c, b) = Reported(c, b)
    /\ \A c : Stream!Whole(c) = Whole(c)
    /\ \A b, f : Stream!Accepts(b, f) <=> Accepts(b, f)
BY DEF Stream!Callback, Stream!N, Stream!Kind, Stream!Seen, Stream!Ready, Stream!DocSize,
       Stream!BadAt, Stream!BadFrom, Stream!Reported, Stream!First, Stream!Last,
       Stream!Whole, Stream!Accepts, Stream!RootEnd, Stream!Unfinished,
       Callback, N, Kind, Seen, Ready, BadAt, BadFrom, Reported, First, Last, DocSize,
       Whole, Accepts, RootEnd, Unfinished

(* A session whose call runs is open.                                      *)
LEMMA RunsOpen ==
    ASSUME FInv, pc # "idle"
    PROVE  StreamStatus = "open" /\ parsing = "parsing" /\ processor # "error"
BY DEF FInv, IInv, StatusFits, StreamStatus

(* A callback of the session is one of the stream.                         *)
LEMMA DeliverStep ==
    ASSUME FInv, FInv', GoesOn, UNCHANGED <<doc, supplied, finalBuffer>>,
           StreamStatus = "open", StreamStatus' \in {"open", "suspended"}
    PROVE  Stream!Next
<1>1. /\ DataOK /\ DataOK' /\ NotRefused' /\ doc \in Documents /\ supplied \in 0..DocSize
      /\ given.cb \in 0..N /\ N \in Nat
    BY SessionFacts DEF FInv, IInv, DataOK
<1>2. PICK c \in Callback : c = given'.cb
    BY DEF GoesOn
<1>3. given' = [turn |-> 1 - given.turn, cb |-> c, from |-> given'.from, to |-> given'.to]
    <2>1. given' \in [turn : 0..1, cb : 0..N', from : Nat, to : Nat]
        BY <1>1 DEF DataOK
    <2>. QED BY <1>2, <2>1 DEF GoesOn
<1>4. Seen(c, supplied)
    <2>1. \A d \in 1..c : ~Refused(doc, d)
        BY <1>1, <1>2 DEF NotRefused
    <2>2. Ready[c] <= supplied
        BY <1>2 DEF GoesOn
    <2>. QED BY <1>1, <2>1, <2>2, BeforeError, MadeIsSeen
<1>5. Stream!Follows(given, given')
    <2>1. CASE given'.cb = given.cb /\ given'.from = given.to /\ given'.from < given'.to
        BY <2>1 DEF Stream!Follows
    <2>2. CASE /\ given'.cb = given.cb + 1 /\ given'.from = 0
               /\ given.cb > 0 => given.to = Whole(given.cb)
        <3>1. given'.cb > given.cb
            BY <1>1, <2>2
        <3>2. \A d \in Callback : ~(given.cb < d /\ d < given'.cb)
            BY <1>1, <2>2, SessionFacts
        <3>3. Kind[given'.cb] \in {"start", "end", "text"}
            BY DEF GoesOn
        <3>. QED BY <2>2, <3>1, <3>2, <3>3, StreamOperators DEF Stream!Follows
    <2>. QED BY <2>1, <2>2 DEF GoesOn
<1>6. Stream!Deliver
    <2>1. /\ given'.from \in 0..supplied /\ given'.to \in 0..supplied
          /\ given'.to <= Reported(c, supplied)
        BY <1>2 DEF GoesOn
    <2>. QED BY <1>2, <1>3, <1>4, <1>5, <2>1, StreamOperators DEF Stream!Deliver
<1>. QED BY <1>6 DEF Stream!Next

LEMMA CallbackDelivers ==
    ASSUME FInv, ContentText \/ StartTag \/ EmptyEnd \/ EndTag
    PROVE  Stream!Next
<1>1. FInv' /\ GoesOn
    BY TextFInv, StartTagFInv, EmptyEndFInv, EndTagFInv
<1>2. UNCHANGED <<doc, supplied, finalBuffer>>
    BY DEF ContentText, StartTag, EmptyEnd, EndTag, windowVars
<1>3. pc # "idle"
    BY DEF ContentText, StartTag, EmptyEnd, EndTag, Runs, EmitEmptyEnd
<1>4. parsing' \in {"parsing", "suspended"} /\ processor' # "error"
    BY <1>3, RunsOpen DEF ContentText, StartTag, EmptyEnd, EndTag, event_or_suspended, Return,
       EpilogIfClosed
<1>5. StreamStatus = "open" /\ StreamStatus' \in {"open", "suspended"}
    BY <1>3, <1>4, RunsOpen DEF StreamStatus
<1>. QED BY <1>1, <1>2, <1>5, DeliverStep

(* Input is supplied, and a suspended session resumed.                     *)
LEMMA SupplyStep ==
    ASSUME FInv, NEW n \in Chunks, NEW f \in BOOLEAN, parse(n, f)
    PROVE  Stream!Next
<1>1. /\ DataOK /\ n \in Nat /\ supplied \in Nat /\ DocSize \in Nat
      /\ parsing \in ParsingStatuses
    BY SessionFacts, CounterTypes DEF FInv, IInv, ControlTypes, DataOK
<1>2. /\ supplied' = supplied + n /\ supplied + n <= DocSize /\ finalBuffer' = f
      /\ UNCHANGED <<doc, given, processor>> /\ parsing' = "parsing"
      /\ parsing \notin {"finished", "suspended"}
    BY DEF parse, MayParse
<1>3. StreamStatus' = "open" /\ StreamStatus = "open"
    BY <1>2 DEF StreamStatus, FInv
<1>4. supplied' \in supplied..DocSize
    BY <1>1, <1>2
<1>5. Stream!Supply
    BY <1>2, <1>3, <1>4, StreamOperators DEF Stream!Supply
<1>. QED BY <1>2, <1>5 DEF Stream!Next

LEMMA ResumeStep ==
    ASSUME FInv, resume
    PROVE  Stream!Next
<1>1. /\ parsing = "suspended" /\ parsing' = "parsing"
      /\ UNCHANGED <<given, processor>> /\ UNCHANGED <<doc, supplied, finalBuffer>>
    BY DEF resume, windowVars
<1>2. StreamStatus = "suspended" /\ StreamStatus' = "open"
    BY <1>1 DEF StreamStatus, FInv
<1>. QED BY <1>1, <1>2 DEF Stream!Resume, Stream!Next

(* The processors hand over, skip what is not reported and ask for more:   *)
(* the application cannot tell that from no step.                          *)
LEMMA HiddenSteps ==
    ASSUME FInv, \/ PrologInit \/ PrologDeclaration \/ PrologEnds \/ SkipSpace
                 \/ NeedMore \/ UNCHANGED vars
    PROVE  UNCHANGED Stream!vars
<1>1. CASE UNCHANGED vars
    BY <1>1 DEF vars, Stream!vars, StreamStatus
<1>2. CASE PrologInit \/ PrologDeclaration \/ PrologEnds \/ SkipSpace \/ NeedMore
    <2>1. pc # "idle" /\ UNCHANGED <<doc, supplied, finalBuffer, given>>
        BY <1>2 DEF PrologInit, PrologDeclaration, PrologEnds, SkipSpace, NeedMore, Runs,
           HandOver, Skip, windowVars, documentVars
    <2>2. StreamStatus = "open" /\ parsing = "parsing" /\ processor # "error"
        BY <2>1, RunsOpen
    <2>3. parsing' = "parsing" /\ processor' # "error"
        BY <1>2, <2>2 DEF PrologInit, PrologDeclaration, PrologEnds, SkipSpace, NeedMore,
           HandOver, Skip, Return
    <2>. QED BY <2>1, <2>2, <2>3 DEF Stream!vars, StreamStatus
<1>. QED BY <1>1, <1>2

(* What the end of a call finds: the session is open, no empty element is  *)
(* half made, and everything but the status stays.                         *)
LEMMA EndFacts ==
    ASSUME FInv, Finish \/ EndsEarly \/ RefusesProlog \/ RefusesMarkup \/ RefusesJunk
    PROVE  /\ DataOK /\ AllGiven /\ OpenFits(given.cb) /\ NotRefused /\ Place
           /\ StreamStatus = "open" /\ pc = "run" /\ processor # "error"
           /\ UNCHANGED <<doc, supplied, finalBuffer, given>>
<1>1. pc = "run"
    BY DEF Finish, EndsEarly, RefusesProlog, RefusesMarkup, RefusesJunk, Runs
<1>2. UNCHANGED documentVars
    BY DEF Finish, EndsEarly, RefusesProlog, RefusesMarkup, RefusesJunk, set_error
<1>. QED BY <1>1, <1>2, RunsOpen
         DEF FInv, IInv, GivenIsConsumed, StackInv, documentVars

(* The verdict of a document that has all come in.                         *)
LEMMA EmptyVerdict ==
    ASSUME DataOK, AllGiven, OpenFits(given.cb), NotRefused, Empty, finalBuffer
    PROVE  Accepts(supplied, finalBuffer) <=> DocumentComplete /\ supplied < BadAt
<1>1. doc \in Documents /\ given.cb \in 0..N
    BY DEF DataOK
<1>2. RootEnds(doc, {c \in 1..doc.n : Refused(doc, c)})
    BY <1>1, PortFaultAssumption
<1>3. \A c \in 1..given.cb : c \notin {b \in 1..doc.n : Refused(doc, b)}
    BY DEF NotRefused
<1>. QED BY <1>2, <1>3, EmptyAccepts

(* A document is finished when it says that it is complete.                *)
LEMMA FinishStep ==
    ASSUME FInv, Finish
    PROVE  Stream!Next
<1>1. /\ DataOK /\ AllGiven /\ OpenFits(given.cb) /\ NotRefused /\ StreamStatus = "open"
      /\ processor # "error" /\ UNCHANGED <<doc, supplied, finalBuffer, given>>
    BY EndFacts
<1>2. Empty /\ finalBuffer /\ DocumentComplete /\ consumed = supplied
    BY DEF Finish, Empty
<1>3. StreamStatus' = "finished"
    BY <1>1 DEF StreamStatus, Finish, Return
<1>4. Stream!HasAll(supplied)
    BY <1>1, <1>2, NeedMoreKeepsToken
<1>5. /\ doc \in Documents /\ supplied \in Nat /\ supplied <= DocSize /\ DocSize \in Nat
      /\ BadAt \in Nat /\ BadFrom \in Nat /\ BadFrom < BadAt
    BY <1>1, CounterTypes
<1>6. supplied < BadAt
    <2>1. ASSUME NEW b \in Callback, FirstRefused(b)
          PROVE  supplied < BadAt
        <3>1. given.cb < b /\ given.cb \in Nat /\ b \in Nat
            BY <1>1, <1>5, <2>1, FaultAhead, SessionFacts
        <3>2. ~(First[b] < consumed)
            BY <1>1, <3>1 DEF AllGiven
        <3>3. First[b] \in Nat /\ BadFrom = First[b]
            BY <1>5, <2>1, SessionFacts, FaultOf
        <3>. QED BY <1>2, <1>5, <3>2, <3>3
    <2>. QED BY <1>5, <2>1, FaultIs
<1>7. Accepts(supplied, finalBuffer)
    BY <1>1, <1>2, <1>6, EmptyVerdict
<1>. QED BY <1>1, <1>2, <1>3, <1>4, <1>7, StreamOperators DEF Stream!Finish, Stream!Next

(* Input that ends before the document does is an error of all of it.      *)
LEMMA EndsEarlyStep ==
    ASSUME FInv, EndsEarly
    PROVE  Stream!Next
<1>1. /\ DataOK /\ AllGiven /\ OpenFits(given.cb) /\ NotRefused /\ StreamStatus = "open"
      /\ UNCHANGED <<doc, supplied, finalBuffer, given>>
    BY EndFacts
<1>2. finalBuffer /\ (IF Empty THEN ~DocumentComplete ELSE Incomplete)
    BY DEF EndsEarly
<1>3. StreamStatus' = "failed"
    BY DEF StreamStatus, EndsEarly, set_error
<1>4. Stream!HasAll(supplied)
    BY <1>1, <1>2, NeedMoreKeepsToken
<1>5. ~Accepts(supplied, finalBuffer)
    <2>1. CASE Empty
        BY <1>1, <1>2, <2>1, EmptyVerdict
    <2>2. CASE ~Empty /\ AtDeclaration
        <3>1. /\ doc \in Documents /\ supplied \in Nat /\ supplied <= DocSize
              /\ DocSize \in Nat /\ RootEnd \in Nat
            BY <1>1, CounterTypes
        <3>2. supplied < Declaration /\ Declaration \in Nat
            BY <1>2, <2>2, <3>1, DeclarationFirst DEF Incomplete, MarkupComplete
        <3>3. RootEnds(doc, {c \in 1..doc.n : Refused(doc, c)})
            BY <3>1, PortFaultAssumption
        <3>4. supplied < RootEnd
            <4>1. CASE DocSize < RootEnd
                BY <3>1, <4>1
            <4>2. ASSUME NEW r \in Callback, Last[r] = RootEnd
                  PROVE  supplied < RootEnd
                <5>1. Declaration <= First[r] /\ First[r] < Last[r]
                      /\ First[r] \in Nat /\ Last[r] \in Nat
                    BY <3>1, DeclarationFirst, SessionFacts
                <5>. QED BY <3>1, <3>2, <4>2, <5>1
            <4>. QED BY <3>1, <3>3, <4>1, <4>2, RootFacts
        <3>. QED BY <1>2, <3>1, <3>4 DEF Accepts
    <2>3. CASE ~Empty /\ ~AtDeclaration
        <3>1. FrontText = {} /\ ~Complete
            BY <1>2, <2>3 DEF Incomplete, DeclarationShows, AtMarkup, MarkupComplete
        <3>2. \E c \in Unfinished(supplied) : First[c] = consumed
            BY <1>1, <2>3, <3>1, FrontIsUnfinished
        <3>. QED BY <1>2, <3>2 DEF Accepts
    <2>. QED BY <2>1, <2>2, <2>3
<1>. QED BY <1>1, <1>3, <1>4, <1>5, StreamOperators DEF Stream!Fail, Stream!Next

(* At the first token to refuse, everything before it is made and the      *)
(* bytes supplied show the error.                                          *)
LEMMA FailsAtFault ==
    ASSUME FInv, RefusesProlog \/ RefusesMarkup \/ RefusesJunk,
           NEW b \in Callback, FirstRefused(b), First[b] = consumed,
           ErrorAt(doc, b) <= supplied
    PROVE  Stream!Next
<1>1. /\ DataOK /\ AllGiven /\ NotRefused /\ StreamStatus = "open"
      /\ UNCHANGED <<doc, supplied, finalBuffer, given>>
    BY EndFacts
<1>2. StreamStatus' = "failed"
    BY DEF StreamStatus, RefusesProlog, RefusesMarkup, RefusesJunk, set_error
<1>3. doc \in Documents /\ supplied \in Nat /\ BadAt \in Nat /\ given.cb \in 0..N
    BY <1>1, CounterTypes
<1>4. BadFrom = consumed /\ BadAt <= supplied
    BY <1>3, FaultOf
<1>5. given.cb > 0 => Last[given.cb] <= consumed
    <2> SUFFICES ASSUME given.cb > 0
                 PROVE  Last[given.cb] <= consumed
        OBVIOUS
    <2>1. given.cb \in Callback /\ given.cb < b
        BY <1>1, <1>3, FaultAhead, SessionFacts
    <2>. QED BY <1>3, <2>1, BeforeFault
<1>6. Stream!HasAll(supplied)
    BY <1>1, <1>4, <1>5, AllBeforeError, StreamOperators DEF Stream!HasAll
<1>7. ~Accepts(supplied, finalBuffer)
    BY <1>3, <1>4 DEF Accepts
<1>. QED BY <1>1, <1>2, <1>6, <1>7, StreamOperators DEF Stream!Fail, Stream!Next
(* A token at the front of the window that nothing of is made: the next    *)
(* callback is its first one.                                              *)
LEMMA NextIsFront ==
    ASSUME DataOK, AllGiven, NEW c \in Front, First[c] = consumed
    PROVE  /\ given.cb + 1 \in Callback /\ given.cb + 1 <= c
           /\ First[given.cb + 1] = consumed /\ Last[given.cb + 1] = Last[c]
<1>1. doc \in Documents /\ given.cb \in Nat /\ consumed \in Nat
    BY CounterTypes
<1>2. c \in Callback /\ c \in Nat /\ consumed < Last[c] /\ Callback = 1..N /\ N \in Nat
    BY <1>1, SessionFacts DEF Front
<1>3. ~(c <= given.cb)
    BY <1>1, <1>2 DEF AllGiven
<1>4. PICK g \in Callback : g = given.cb + 1 /\ g <= c
    BY <1>1, <1>2, <1>3
<1>5. ~(First[g] < consumed) /\ g \in Nat
    BY <1>1, <1>4, SessionFacts DEF AllGiven
<1>6. First[g] \in Nat /\ Last[g] \in Nat /\ First[g] < Last[g]
    BY <1>1, <1>4, SessionFacts
<1>7. CASE g < c
    <2>1. ~(Last[g] <= First[c])
        BY <1>1, <1>5, <1>6
    <2>. QED BY <1>1, <1>2, <1>4, <1>7, <2>1, OrderFacts
<1>8. CASE g = c
    BY <1>4, <1>8
<1>. QED BY <1>2, <1>4, <1>5, <1>7, <1>8

(* A tag that is refused, or what is no tag.                               *)
LEMMA RefusesMarkupStep ==
    ASSUME FInv, DeclarationTaken, RefusesMarkup
    PROVE  Stream!Next
<1>1. /\ DataOK /\ AllGiven /\ OpenFits(given.cb) /\ NotRefused
    BY EndFacts
<1>2. Complete /\ \E c \in Front : RefusesTag(c) \/ Kind[c] \in {"comment", "doctype"}
    BY DEF RefusesMarkup, Runs, DeclarationTaken, MarkupComplete
<1>3. PICK c \in Front : RefusesTag(c) \/ Kind[c] \in {"comment", "doctype"}
    BY <1>2
<1>4. /\ doc \in Documents /\ supplied \in Nat /\ consumed \in Nat /\ given.cb \in Nat
    BY <1>1, CounterTypes
<1>5. c \in Callback /\ Refused(doc, c)
    BY <1>1, <1>3, <1>4, RefusesRefused, PortRefusedIs
<1>6. PICK b \in Callback : FirstRefused(b)
    BY <1>4, <1>5, FaultIs
<1>7. /\ given.cb < b /\ b \in Nat /\ c \in Nat /\ c >= 1
      /\ First[b] \in Nat /\ Last[b] \in Nat /\ First[b] < Last[b]
      /\ First[c] \in Nat /\ Last[c] \in Nat
    BY <1>1, <1>4, <1>5, <1>6, FaultAhead, SessionFacts
<1>8. b <= c
    <2>1. c \notin 1..b - 1
        BY <1>5, <1>6 DEF FirstRefused
    <2>. QED BY <1>7, <2>1
<1>9. First[b] >= consumed
    <2>1. ~(First[b] < consumed)
        BY <1>1, <1>4, <1>7 DEF AllGiven
    <2>. QED BY <1>4, <1>7, <2>1
<1>10. First[c] <= consumed /\ Last[c] <= supplied
    BY <1>2, <1>3 DEF Front, Complete
<1>11. First[b] = First[c] /\ Last[b] = Last[c]
    <2>1. CASE b = c
        BY <2>1
    <2>2. CASE b < c
        <3>1. ~(Last[b] <= First[c])
            BY <1>4, <1>7, <1>9, <1>10
        <3>. QED BY <1>4, <1>5, <2>2, <3>1, OrderFacts
    <2>. QED BY <1>7, <1>8, <2>1, <2>2
<1>12. First[b] = consumed
    BY <1>4, <1>7, <1>9, <1>10, <1>11
<1>13. ErrorAt(doc, b) <= supplied
    <2>1. ErrorAt(doc, b) = BadAt /\ BadAt \in Nat
        BY <1>1, <1>4, <1>6, FaultOf, CounterTypes
    <2>2. ErrorAt(doc, b) <= Last[b]
        BY <1>4, PortFaultAssumption DEF Callback, N, Last
    <2>. QED BY <1>4, <1>7, <1>10, <1>11, <2>1, <2>2
<1>. QED BY <1>6, <1>12, <1>13, FailsAtFault

(* Before the document element nothing is made: all that could be would be *)
(* refused.                                                                *)
LEMMA PrologMakesNothing ==
    ASSUME DataOK, NotRefused, ElementsFit(given.cb), elements = 0
    PROVE  given.cb = 0
<1>1. doc \in Documents /\ given.cb \in Nat /\ given.cb \in 0..N /\ N \in Nat
    BY CounterTypes, SessionFacts
<1>. SUFFICES ASSUME given.cb > 0
              PROVE  FALSE
    BY <1>1
<1>2. 1 \in Callback /\ 1 \in 1..given.cb /\ Kind[1] \in Kinds
    BY <1>1, SessionFacts
<1>3. Kind[1] # "start" /\ ~Refused(doc, 1)
    BY <1>2 DEF ElementsFit, NotRefused
<1>4. OpenAfter(doc, 1 - 1) = {} /\ ~\E a : a \in 1..1 - 1
    <2>1. \A a \in OpenAfter(doc, 0) : FALSE
        BY OpenFacts
    <2>. QED BY <2>1
<1>5. ~RefusedMarkup(doc, 1) /\ Kind[1] # "text"
    BY <1>1, <1>2, <1>3, <1>4, PortRefusedIs
<1>6. Kind[1] \notin {"comment", "doctype", "end"}
    BY <1>1, <1>2, <1>4, <1>5, RefusedIs
<1>. QED BY <1>2, <1>3, <1>5, <1>6 DEF Kinds

(* Text, a comment or a DOCTYPE before the document element.               *)
LEMMA RefusesPrologStep ==
    ASSUME FInv, RefusesProlog
    PROVE  Stream!Next
<1>1. /\ DataOK /\ AllGiven /\ OpenFits(given.cb) /\ NotRefused /\ Place
    BY EndFacts
<1>2. consumed # supplied /\ (UnsupportedShows \/ FrontText # {}) /\ elements = 0
    BY <1>1 DEF RefusesProlog, Runs, Empty, Place
<1>3. given.cb = 0
    BY <1>1, <1>2, PrologMakesNothing DEF OpenFits
<1>4. /\ doc \in Documents /\ supplied \in Nat /\ consumed \in Nat /\ consumed < supplied
    BY <1>1, <1>2, CounterTypes
<1>5. PICK c \in Front : Kind[c] \in {"text", "comment", "doctype"}
    BY <1>2 DEF UnsupportedShows, FrontTag, FrontText
<1>6. First[c] = consumed /\ c \in Callback /\ c \in Nat /\ c >= 1
    <2>1. c \in Callback /\ First[c] <= consumed /\ First[c] \in Nat /\ c \in Nat /\ c >= 1
        BY <1>4, SessionFacts DEF Front
    <2>2. ~(c <= given.cb)
        BY <1>3, <2>1
    <2>3. ~(First[c] < consumed)
        BY <1>1, <2>1, <2>2 DEF AllGiven
    <2>. QED BY <1>4, <2>1, <2>3
<1>7. 1 \in Callback /\ First[1] = consumed /\ Last[1] = Last[c] /\ 1 \in Front
    <2>1. given.cb + 1 = 1
        BY <1>3
    <2>. QED BY <1>1, <1>6, <2>1, NextIsFront DEF Front
<1>8. OpenAfter(doc, 1 - 1) = {} /\ ~\E a : a \in 1..1 - 1
    <2>1. \A a \in OpenAfter(doc, 0) : FALSE
        BY OpenFacts
    <2>. QED BY <2>1
<1>9. ~AfterRoot(doc, 1)
    BY <1>4, <1>7, <1>8, PortRefusedIs
(* The callbacks of the token at the front are those of callback 1.        *)
<1>10. \A b \in Callback : b \in Front <=> First[b] = consumed
    <2> SUFFICES ASSUME NEW b \in Callback
                 PROVE  b \in Front <=> First[b] = consumed
        OBVIOUS
    <2>1. First[b] \in Nat /\ Last[b] \in Nat /\ First[b] < Last[b] /\ b \in Nat /\ b >= 1
        BY <1>4, SessionFacts
    <2>2. ~(b <= given.cb)
        BY <1>3, <2>1
    <2>3. ~(First[b] < consumed)
        BY <1>1, <2>2 DEF AllGiven
    <2>. QED BY <1>4, <2>1, <2>3 DEF Front
<1>11. \A b : b \in TokenOf(doc, 1) <=> b \in Front
    BY <1>7, <1>10 DEF TokenOf, Front, Callback, N, First
<1>12. CASE c = 1 /\ Kind[c] = "text"
    <2>1. Refused(doc, 1) /\ ErrorAt(doc, 1) = First[1] + 1
        BY <1>4, <1>7, <1>8, <1>12, PortRefusedIs DEF ErrorAt, Kind, First
    <2>2. ErrorAt(doc, 1) <= supplied
        BY <1>4, <1>7, <2>1
    <2>3. FirstRefused(1)
        BY <1>8, <2>1 DEF FirstRefused
    <2>. QED BY <1>7, <2>2, <2>3, FailsAtFault
<1>13. ASSUME Kind[1] \in {"comment", "doctype"}
       PROVE  Stream!Next
    <2>1. Refused(doc, 1) /\ FirstRefused(1)
        BY <1>4, <1>7, <1>8, <1>13, RefusedIs, PortRefusedIs DEF FirstRefused
    <2>2. FrontText = {}
        <3>1. ASSUME NEW b \in Front, Kind[b] = "text"
              PROVE  FALSE
            <4>1. b \in Callback /\ First[b] = consumed /\ b \in Nat /\ b >= 1
                BY <1>4, <1>10, SessionFacts DEF Front
            <4>2. b # 1
                BY <1>13, <3>1
            <4>3. First[1] \in Nat /\ Last[1] \in Nat /\ First[1] < Last[1]
                BY <1>4, <1>7, SessionFacts
            <4>4. 1 < b
                BY <4>1, <4>2
            <4>5. ~(Last[1] <= First[b])
                BY <1>4, <1>7, <4>1, <4>3
            <4>. QED BY <1>4, <1>7, <3>1, <4>1, <4>4, <4>5, OrderFacts
        <3>. QED BY <3>1 DEF FrontText
    <2>3. CASE FrontTag("doctype") # {} /\ supplied - consumed >= 9
        <3>1. \E b \in TokenOf(doc, 1) : doc.kind[b] = "doctype"
            BY <1>11, <2>3 DEF FrontTag, Kind
        <3>2. ErrorAt(doc, 1) = First[1] + 9
            BY <1>9, <1>13, <3>1 DEF ErrorAt, Kind, First
        <3>3. ErrorAt(doc, 1) <= supplied
            BY <1>4, <1>7, <2>3, <3>2
        <3>. QED BY <1>7, <2>1, <3>3, FailsAtFault
    <2>4. CASE /\ FrontTag("doctype") = {} /\ FrontTag("comment") # {}
               /\ supplied - consumed >= 4
        <3>1. ~\E b \in TokenOf(doc, 1) : doc.kind[b] = "doctype"
            BY <1>11, <2>4 DEF FrontTag, Kind
        <3>2. Kind[1] = "comment"
            BY <1>7, <1>13, <2>4 DEF FrontTag
        <3>3. ErrorAt(doc, 1) = First[1] + 4
            BY <1>9, <3>1, <3>2 DEF ErrorAt, Kind, First
        <3>4. ErrorAt(doc, 1) <= supplied
            BY <1>4, <1>7, <2>4, <3>3
        <3>. QED BY <1>7, <2>1, <3>4, FailsAtFault
    <2>. QED BY <1>2, <2>2, <2>3, <2>4 DEF UnsupportedShows
<1>14. (c = 1 /\ Kind[c] = "text") \/ Kind[1] \in {"comment", "doctype"}
    <2>1. CASE c = 1
        BY <1>5, <2>1
    <2>2. CASE 1 < c
        <3>1. First[1] \in Nat /\ Last[1] \in Nat /\ First[1] < Last[1]
            BY <1>4, <1>7, SessionFacts
        <3>2. ~(Last[1] <= First[c])
            BY <1>4, <1>6, <1>7, <3>1
        <3>3. Kind[c] # "text" /\ Kind[c] # "end"
              /\ (\/ Kind[1] = "start" /\ Kind[c] = "end"
                  \/ Kind[1] \in {"comment", "doctype"} /\ Kind[c] \in {"comment", "doctype"})
            BY <1>4, <1>5, <1>6, <1>7, <2>2, <3>2, OrderFacts
        <3>. QED BY <3>3
    <2>. QED BY <1>6, <2>1, <2>2
<1>. QED BY <1>12, <1>13, <1>14
(* Text that has partly been made is inside an element still.              *)
LEMMA TextStaysOpen ==
    ASSUME NEW d, NEW g \in Nat, d.kind[g + 1] \notin {"start", "end"},
           OpenAfter(d, g) # {}
    PROVE  OpenAfter(d, g + 1) # {}
<1>1. PICK c \in OpenAfter(d, g) : TRUE
    OBVIOUS
<1>2. c \in Nat /\ 1 <= c /\ c <= g
    BY OpenFacts
<1>3. Count(d, "start", c, g) > Count(d, "end", c, g)
    <2>1. g \in c..g
        BY <1>2
    <2>2. \A e \in c..g : Cardinality({k \in c..e : d.kind[k] = "start"})
                            > Cardinality({k \in c..e : d.kind[k] = "end"})
        BY <1>1 DEF OpenAfter
    <2>. QED BY <2>1, <2>2 DEF Count
<1>4. /\ Count(d, "start", c, g + 1) = Count(d, "start", c, g) + 0
      /\ Count(d, "end", c, g + 1) = Count(d, "end", c, g) + 0
      /\ Count(d, "start", c, g) \in Nat /\ Count(d, "end", c, g) \in Nat
    <2>1. c <= g + 1 /\ d.kind[g + 1] # "start" /\ d.kind[g + 1] # "end"
        BY <1>2
    <2>. QED BY <1>2, <2>1, CountNext
<1>5. Count(d, "start", c, g + 1) > Count(d, "end", c, g + 1)
    BY <1>3, <1>4
<1>6. c \in OpenAfter(d, g + 1)
    BY <1>1, <1>5, OpenNext
<1>. QED BY <1>6

(* Anything but white space after the document element.                    *)
LEMMA RefusesJunkStep ==
    ASSUME FInv, DeclarationTaken, RefusesJunk
    PROVE  Stream!Next
<1>1. /\ DataOK /\ AllGiven /\ OpenFits(given.cb) /\ NotRefused /\ Place
    BY EndFacts
<1>2. consumed # supplied /\ Front # {} /\ elements = 1 /\ stack = <<>>
    BY <1>1 DEF RefusesJunk, Runs, Empty, AtSpace, DeclarationTaken, Place
<1>3. /\ doc \in Documents /\ supplied \in Nat /\ consumed \in Nat /\ consumed < supplied
      /\ given.cb \in Nat
    BY <1>1, <1>2, CounterTypes
<1>4. OpenAfter(doc, given.cb) = {} /\ \E b \in 1..given.cb : Kind[b] = "start"
    BY <1>1, <1>2, NothingOpen DEF OpenFits, ElementsFit
<1>5. PICK c \in Front : TRUE
    BY <1>2
<1>6. c \in Callback /\ First[c] <= consumed /\ consumed < Last[c] /\ First[c] \in Nat
      /\ c \in Nat /\ c >= 1
    BY <1>3, SessionFacts DEF Front
<1>7. First[c] = consumed
    <2>. SUFFICES ASSUME First[c] < consumed
                  PROVE  FALSE
        BY <1>3, <1>6
    <2>1. Kind[c] = "text" /\ c <= given.cb /\ c \in FrontText
        BY <1>1, <1>5, <1>6 DEF AllGiven, FrontText
    <2>2. given.cb = c
        <3>1. ~(First[c] = consumed)
            BY <1>3, <1>6
        <3>. QED BY <1>1, <2>1, <3>1, TextIsNext
    <2>3. ~Refused(doc, c)
        <3>1. c \in 1..given.cb
            BY <1>6, <2>2
        <3>. QED BY <1>1, <3>1 DEF NotRefused
    <2>4. OpenAfter(doc, c - 1) # {}
        BY <1>3, <1>6, <2>1, <2>3, PortRefusedIs
    <2>5. PICK g \in Nat : g = c - 1
        BY <1>6
    <2>6. g + 1 = c /\ doc.kind[g + 1] \notin {"start", "end"}
        BY <1>6, <2>1, <2>5 DEF Kind
    <2>7. OpenAfter(doc, g + 1) # {}
        BY <2>4, <2>5, <2>6, TextStaysOpen
    <2>. QED BY <1>4, <2>2, <2>6, <2>7
<1>8. PICK b \in Callback : b = given.cb + 1
    BY <1>1, <1>5, <1>7, NextIsFront
<1>9. First[b] = consumed /\ b - 1 = given.cb /\ b \in Nat /\ Kind[b] \in Kinds
    BY <1>1, <1>3, <1>5, <1>7, <1>8, NextIsFront, SessionFacts
<1>10. AfterRoot(doc, b)
    BY <1>3, <1>4, <1>9, PortRefusedIs
<1>11. Refused(doc, b)
    <2>1. CASE Kind[b] = "end"
        <3>1. ASSUME NEW a \in 1..b - 1
              PROVE  First[a] # First[b]
            <4>1. a \in Callback /\ a <= given.cb
                BY <1>3, <1>8, <1>9, SessionFacts
            <4>2. First[a] < consumed /\ First[a] \in Nat
                BY <1>1, <1>3, <4>1, SessionFacts DEF AllGiven
            <4>. QED BY <1>3, <1>9, <4>2
        <3>2. \A e \in OpenAfter(doc, b - 1) : FALSE
            BY <1>4, <1>9
        <3>. QED BY <1>3, <2>1, <3>1, <3>2, RefusedIs, PortRefusedIs
    <2>2. CASE Kind[b] \in {"comment", "doctype"}
        BY <1>3, <2>2, RefusedIs, PortRefusedIs
    <2>3. CASE Kind[b] \in {"text", "start"}
        BY <1>3, <1>4, <1>9, <1>10, <2>3, PortRefusedIs
    <2>. QED BY <1>9, <2>1, <2>2, <2>3 DEF Kinds
<1>12. FirstRefused(b)
    BY <1>1, <1>9, <1>11 DEF FirstRefused, NotRefused
<1>13. ErrorAt(doc, b) <= supplied
    <2>1. ErrorAt(doc, b) = First[b] + 1
        BY <1>10 DEF ErrorAt, First
    <2>. QED BY <1>3, <1>9, <2>1
<1>. QED BY <1>9, <1>12, <1>13, FailsAtFault

LEMMA StreamInit == Init => Stream!Init
<1> SUFFICES ASSUME Init
             PROVE  Stream!Init
    OBVIOUS
<1>1. /\ SessionInit /\ StreamStatus = "open"
    BY DEF Init, StreamStatus
<1>. QED BY <1>1 DEF SessionInit, Stream!Init, Stream!Nothing, Nothing, Stream!Kinds

LEMMA StreamNext ==
    ASSUME DInv, [Next]_vars
    PROVE  Stream!Next \/ UNCHANGED Stream!vars
<1>1. FInv /\ DeclarationTaken
    BY DEF DInv
<1>2. CASE \E n \in Chunks, f \in BOOLEAN : parse(n, f)
    BY <1>1, <1>2, SupplyStep
<1>. QED BY <1>1, <1>2, ResumeStep, FinishStep, EndsEarlyStep, RefusesPrologStep,
            RefusesMarkupStep, RefusesJunkStep, CallbackDelivers, HiddenSteps
         DEF Next, call_processor

(* When the first bytes of every document show its declaration, the        *)
(* session with Expat's processors promises what the incremental session   *)
(* does: the callbacks once and in order, all of them before its answer,   *)
(* and an error only for what the bytes supplied are.                      *)
THEOREM PortImplementsStream ==
    ASSUME \A d \in Documents : ShowsDeclaration(d)
    PROVE  Spec => ImplementsStream
<1>1. Init => DInv /\ Stream!Init
    BY DInvInit, StreamInit
<1>2. DInv /\ [Next]_vars => DInv'
    BY DInvNext
<1>3. DInv /\ [Next]_vars => [Stream!Next]_Stream!vars
    BY StreamNext
<1>. QED BY <1>1, <1>2, <1>3, PTL DEF Spec, ImplementsStream, Stream!Spec
=============================================================================
