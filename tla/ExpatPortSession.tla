-------------------------- MODULE ExpatPortSession --------------------------
(***************************************************************************)
(* XP_EXPAT_PORT_PARSE_SESSION: the session with Expat's processors.  One  *)
(* processor is active; parse and resume call it until it blocks or stops, *)
(* and it hands over to the next as prolog, content and epilog go by.      *)
(*                                                                         *)
(* The document may begin with an XML declaration.  The bytes after it     *)
(* that belong to no callback are white space.                             *)
(***************************************************************************)
EXTENDS TokenSession

Declaration == doc.declaration  \* bytes of the XML declaration, or zero

ASSUME DeclarationAssumption ==
    \A d \in Documents :
        d.declaration \in Nat /\ \A c \in 1..d.n : d.declaration <= d.first[c]

(* Is callback c of document d after the end of the document element?      *)
AfterRoot(d, c) ==
    (\E b \in 1..c - 1 : d.kind[b] = "start") /\ OpenAfter(d, c - 1) = {}

(* The session refuses callback c of document d: the markup, or text       *)
(* before, or text or an element after the document element.               *)
Refused(d, c) ==
    \/ RefusedMarkup(d, c)
    \/ d.kind[c] = "text" /\ OpenAfter(d, c - 1) = {}
    \/ d.kind[c] = "start" /\ AfterRoot(d, c)

(* The callbacks of the token of c.                                        *)
TokenOf(d, c) == {b \in 1..d.n : d.first[b] = d.first[c]}

(* The bytes after which a parser tells that callback c of d is an error:  *)
(* the first of text and of anything after the document element, the       *)
(* `<!--' or `<!DOCTYPE' that begins the prolog, all of any other token.   *)
ErrorAt(d, c) ==
    IF d.kind[c] = "text" \/ AfterRoot(d, c) THEN d.first[c] + 1
    ELSE IF c = 1 /\ \E b \in TokenOf(d, c) : d.kind[b] = "doctype" THEN d.first[c] + 9
    ELSE IF c = 1 /\ d.kind[c] = "comment" THEN d.first[c] + 4
    ELSE d.last[c]

(* The first error of a document, for this session, is the first token     *)
(* that it refuses; comments and DOCTYPEs have their delimiters.           *)
ASSUME PortFaultAssumption ==
    \A d \in Documents :
        /\ \/ d.size < d.badAt /\ \A c \in 1..d.n : ~Refused(d, c)
           \/ \E c \in 1..d.n : /\ Refused(d, c) /\ \A b \in 1..c - 1 : ~Refused(d, b)
                                /\ d.badFrom = d.first[c] /\ d.badAt = ErrorAt(d, c)
        /\ \A c \in 1..d.n : ErrorAt(d, c) <= d.last[c]
        /\ RootEnds(d, {c \in 1..d.n : Refused(d, c)})

VARIABLES
    processor,  \* the active processor
    parsing     \* parsing_status

vars == <<doc, supplied, finalBuffer, consumed, line, column, stack, elements,
          stopRequested, pc, returned, given, processor, parsing>>

Processors == {"prologInit", "prolog", "content", "epilog", "error"}
ParsingStatuses == {"initialized", "parsing", "finished", "suspended"}

Init ==
    /\ SessionInit
    /\ processor = "prologInit" /\ parsing = "initialized"

-----------------------------------------------------------------------------
(* The calls of the application.                                           *)

MayParse == parsing \notin {"finished", "suspended"}

parse(n, final) ==
    /\ pc = "idle" /\ MayParse
    /\ supplied + n <= DocSize
    /\ supplied' = supplied + n /\ finalBuffer' = final
    /\ UNCHANGED doc
    /\ parsing' = "parsing"
    /\ pc' = "run"
    /\ UNCHANGED <<returned, stopRequested, given, processor>>
    /\ UNCHANGED positionVars /\ UNCHANGED elementVars

(* The application withdraws its request before it resumes.                *)
resume ==
    /\ pc = "idle" /\ parsing = "suspended"
    /\ stopRequested' = FALSE
    /\ parsing' = "parsing"
    /\ pc' = "run"
    /\ UNCHANGED <<returned, given, processor>>
    /\ UNCHANGED windowVars /\ UNCHANGED positionVars /\ UNCHANGED elementVars

-----------------------------------------------------------------------------
(* How the processor loop goes on or ends.                                 *)

Runs(which) == pc = "run" /\ processor = which

Return(status) ==
    /\ pc' = "idle" /\ returned' = status
    /\ parsing' = CASE status = "NEED_MORE" -> "parsing"
                    [] status = "SUSPENDED" -> "suspended"
                    [] OTHER -> "finished"

set_error ==
    /\ processor' = "error"
    /\ Return("ERROR")
    /\ UNCHANGED documentVars

(* Mutant: the stop is not looked at after a callback.                     *)
NeverSuspends == pc' = "run" /\ UNCHANGED <<returned, parsing>>

event_or_suspended ==
    IF stopRequested' THEN Return("SUSPENDED")
    ELSE pc' = "run" /\ UNCHANGED <<returned, parsing>>

(* The loop goes on with the processor p.                                  *)
HandOver(p) ==
    /\ processor' = p
    /\ UNCHANGED <<pc, returned, parsing>>

(* Bytes no callback is made for: the declaration and the white space.     *)
Skip(n) ==
    /\ Consume(n)
    /\ UNCHANGED <<pc, returned, parsing, processor, stopRequested, given>>
    /\ UNCHANGED windowVars /\ UNCHANGED elementVars

AtDeclaration == consumed < Declaration
AtSpace == ~AtDeclaration /\ Front = {}
AtMarkup == AtDeclaration \/ (Front # {} /\ FrontText = {})

(* complete_markup_end, which knows no declaration from a tag.             *)
MarkupComplete == IF AtDeclaration THEN Declaration <= supplied ELSE Complete

-----------------------------------------------------------------------------
PrologInit ==
    /\ Runs("prologInit")
    /\ HandOver("prolog")
    /\ UNCHANGED documentVars

(* Mutant: `<!' alone is taken for a comment or a DOCTYPE.                 *)
ShowsEarly ==
    FrontTag("comment") \cup FrontTag("doctype") # {} /\ supplied - consumed >= 2

(* starts_with: as much of the declaration, the comment or the DOCTYPE has *)
(* come as tells it from a tag.                                            *)
DeclarationShows == AtDeclaration /\ supplied - consumed >= 5

UnsupportedShows ==
    \/ FrontTag("doctype") # {} /\ supplied - consumed >= 9
    \/ FrontTag("doctype") = {} /\ FrontTag("comment") # {} /\ supplied - consumed >= 4

PrologDeclaration ==
    /\ Runs("prolog") /\ DeclarationShows
    /\ Declaration <= supplied
    /\ Skip(Declaration - consumed)

(* White space before and after the document element, byte by byte.        *)
SkipSpace ==
    /\ Runs("prolog") \/ Runs("epilog")
    /\ ~Empty /\ AtSpace
    /\ Skip(1)

(* Any other `<' is the content's, also that of a longer token begun.      *)
PrologEnds ==
    /\ Runs("prolog")
    /\ ~Empty /\ AtMarkup /\ ~DeclarationShows /\ ~UnsupportedShows
    /\ HandOver("content")
    /\ UNCHANGED documentVars

(* Character data with no element open cannot come up in the content: see  *)
(* ProcessorIsPlace.                                                       *)
ContentText ==
    /\ Runs("content") /\ ~Empty
    /\ \E c \in FrontText : EmitText(c)
    /\ event_or_suspended
    /\ UNCHANGED processor /\ UNCHANGED windowVars

(* Mutant: the content goes on after the document element.                 *)
StaysInContent == UNCHANGED processor

(* The document element has ended when no element is open any more.        *)
EpilogIfClosed ==
    processor' = IF stack' = <<>> THEN "epilog" ELSE processor

StartTag ==
    /\ Runs("content") /\ ~Empty
    /\ \E c \in FrontTag("start") :
          /\ EmitStart(c)
          /\ IF FrontTag("end") = {} THEN event_or_suspended
             ELSE pc' = "empty" /\ UNCHANGED <<returned, parsing>>
    /\ UNCHANGED processor /\ UNCHANGED windowVars

EmptyEnd ==
    /\ \E c \in FrontTag("end") : EmitEmptyEnd(c)
    /\ EpilogIfClosed
    /\ event_or_suspended
    /\ UNCHANGED windowVars

EndTag ==
    /\ Runs("content") /\ ~Empty
    /\ \E c \in FrontTag("end") : EmitEnd(c)
    /\ EpilogIfClosed
    /\ event_or_suspended
    /\ UNCHANGED windowVars

-----------------------------------------------------------------------------
(* Mutant: text, too, waits for the markup that ends it.                   *)
TextWaits ==
    \/ Runs("prolog") /\ DeclarationShows /\ Declaration > supplied
    \/ Runs("content") /\ ~MarkupComplete

(* The token at the front has begun and the processor waits for its end.   *)
Incomplete ==
    \/ Runs("prolog") /\ DeclarationShows /\ Declaration > supplied
    \/ Runs("content") /\ AtMarkup /\ ~MarkupComplete

NeedMore ==
    /\ pc = "run" /\ processor # "prologInit" /\ ~finalBuffer
    /\ IF Empty THEN TRUE ELSE Incomplete
    /\ Return("NEED_MORE")
    /\ UNCHANGED processor /\ UNCHANGED documentVars

Finish ==
    /\ pc = "run" /\ processor # "prologInit" /\ finalBuffer
    /\ Empty /\ DocumentComplete
    /\ Return("FINISHED")
    /\ UNCHANGED processor /\ UNCHANGED documentVars

(* The input ends with elements open, or in a token, or has no element.    *)
EndsEarly ==
    /\ pc = "run" /\ processor # "prologInit" /\ finalBuffer
    /\ IF Empty THEN ~DocumentComplete ELSE Incomplete
    /\ set_error

RefusesProlog ==
    /\ Runs("prolog") /\ ~Empty
    /\ UnsupportedShows \/ FrontText # {}
    /\ set_error

RefusesMarkup ==
    /\ Runs("content") /\ ~Empty
    /\ AtMarkup /\ MarkupComplete
    /\ AtDeclaration \/ (\E c \in Front : RefusesTag(c)
                                     \/ Kind[c] \in {"comment", "doctype"})
    /\ set_error

RefusesJunk ==
    /\ Runs("epilog") /\ ~Empty /\ ~AtSpace
    /\ set_error

call_processor ==
    \/ PrologInit \/ PrologDeclaration \/ PrologEnds \/ SkipSpace
    \/ ContentText \/ StartTag \/ EmptyEnd \/ EndTag
    \/ NeedMore \/ Finish \/ EndsEarly
    \/ RefusesProlog \/ RefusesMarkup \/ RefusesJunk

-----------------------------------------------------------------------------
Next ==
    \/ \E n \in Chunks, final \in BOOLEAN : parse(n, final)
    \/ resume
    \/ call_processor

(* A call runs to its end; an application that suspended resumes.          *)
Fairness == WF_vars(call_processor) /\ WF_vars(resume)

Spec == Init /\ [][Next]_vars /\ Fairness

-----------------------------------------------------------------------------
(* The variables keep their types.                                         *)
TypeOK ==
    /\ SessionTypeOK
    /\ processor \in Processors /\ parsing \in ParsingStatuses

(* The active processor is the part of the document the session is in, so  *)
(* the content never meets character data outside the document element.    *)
ProcessorIsPlace ==
    pc # "empty" =>
        CASE processor \in {"prologInit", "prolog"} -> elements = 0
          [] processor = "content" -> stack # <<>> \/ (elements = 0 /\ AtMarkup)
          [] processor = "epilog" -> elements = 1 /\ stack = <<>>
          [] OTHER -> TRUE

StreamStatus ==
    IF processor = "error" THEN "failed"
    ELSE IF parsing \in {"finished", "suspended"} THEN parsing
    ELSE "open"

Stream == INSTANCE CallbackStream
          WITH status <- StreamStatus, final <- finalBuffer,
               slots <- {"start", "end", "text"}

(* The session is a push parser: it promises the stream the parser handle  *)
(* promises, whatever the chunks and the stops.                            *)
ImplementsStream == Stream!Spec

(* When parse asks for more, the window holds nothing but a token that is  *)
(* not complete; every other callback has been made.                       *)
KeepsOnlyIncompleteToken ==
    pc = "idle" /\ returned = "NEED_MORE" =>
        /\ Stream!HasAll(supplied)
        /\ \/ Empty
           \/ AtDeclaration /\ supplied < Declaration
           \/ \E c \in Unfinished(supplied) : First[c] = consumed

(* Once the application has asked for a stop it gets at most the end of    *)
(* the empty element it is in, until it resumes.                           *)
StopIsObeyed == [][given' # given /\ stopRequested => pc = "empty"]_vars

(* An application that goes on resuming gets an answer to its final chunk. *)
FinalChunkIsAnswered ==
    finalBuffer /\ pc = "run" ~> pc = "idle" /\ parsing = "finished"

(* Documents cut so that the first bytes show a declaration; of the others *)
(* the run of ErrorsAreTheDocuments shows one.                             *)
ShowsDeclaration(d) == d.declaration > 0 => \A n \in d.chunks : n = 0 \/ n >= 5

(* What the processors handle is no error, however it is cut.              *)
ErrorsAreTheDocuments == processor = "error" => ~Accepts(supplied, finalBuffer)
=============================================================================
