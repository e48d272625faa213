---------------------------- MODULE TokenSession ----------------------------
(***************************************************************************)
(* What the two incremental sessions have in common: an input window that  *)
(* loses each token once its callbacks are made, an element stack, byte,   *)
(* line and column counters, and calls (feed or parse, resume) that run to *)
(* a status.  The window is the bytes consumed+1..supplied of the input.   *)
(*                                                                         *)
(* A call is cut into one step per token, and one more where a token makes *)
(* two callbacks: the application acts inside a callback, and all it can   *)
(* do there is to ask for a stop (stop_requested of XP_EVENT_HANDLER).     *)
(***************************************************************************)
EXTENDS PrefixParse, Sequences

Name == doc.name            \* the element name of a start or end tag
Malformed == doc.malformed  \* the callbacks of tags that break the rules of a tag
Newlines == doc.newlines    \* the bytes of the document that are line feeds

ASSUME SessionAssumption ==
    \A d \in Documents : /\ DOMAIN d.name = 1..d.n
                         /\ d.malformed \subseteq {c \in 1..d.n : d.kind[c] \in {"start", "end"}}
                         /\ d.newlines \subseteq Nat \ {0}

(* A tag is a token; two callbacks of one token are those of an empty      *)
(* element, or of declarations.                                            *)
ASSUME TokenAssumption ==
    \A d \in Documents :
        /\ \A c \in 1..d.n :
              d.kind[c] \in {"start", "end"} => d.ready[c] = d.last[c]
        /\ \A b, c \in 1..d.n :
              b < c /\ d.first[b] = d.first[c] =>
                  \/ d.kind[b] = "start" /\ d.kind[c] = "end"
                  \/ {d.kind[b], d.kind[c]} \subseteq {"comment", "doctype"}
        /\ \A b, c \in 1..d.n :
              d.first[b] = d.first[c] => (b \in d.malformed <=> c \in d.malformed)

VARIABLES
    supplied,   \* bytes appended to the window since the beginning
    finalBuffer,\* final_buffer
    consumed,   \* current_byte_index
    line,       \* current_line_number
    column,     \* current_column_number
    stack,      \* element_stack, the innermost element last
    elements,   \* document_element_count
    stopRequested, \* stop_requested of the application's handler
    pc,         \* "idle", "run", or "empty": between the two callbacks of an
                \* empty element
    returned,   \* what the last call returned
    given       \* history: the last callback, as in CallbackStream

windowVars == <<doc, supplied, finalBuffer>>
positionVars == <<consumed, line, column>>
elementVars == <<stack, elements>>

Answers == {"NEED_MORE", "FINISHED", "ERROR", "SUSPENDED"}

Nothing == [turn |-> 0, cb |-> 0, from |-> 0, to |-> 0]

SessionInit ==
    /\ doc \in Documents
    /\ supplied = 0 /\ finalBuffer = FALSE
    /\ consumed = 0 /\ line = 1 /\ column = 0
    /\ stack = <<>> /\ elements = 0
    /\ stopRequested = FALSE
    /\ pc = "idle" /\ returned = "NEED_MORE"
    /\ given = Nothing

-----------------------------------------------------------------------------
(* The token at the front of the window.                                   *)

Empty == consumed = supplied

(* The callbacks of the token the next byte belongs to.                    *)
Front == {c \in Callback : First[c] <= consumed /\ consumed < Last[c]}

FrontText == {c \in Front : Kind[c] = "text"}
FrontTag(kind) == {c \in Front : Kind[c] = kind}

(* complete_markup_end finds the end of the token in the window.           *)
Complete == \A c \in Front : Last[c] <= supplied

(* Mutant: the last byte is kept, it may be half of a line end.            *)
KeepsLastByte(c) ==
    (IF Last[c] < supplied THEN Last[c] ELSE supplied) - consumed - 1

(* Mutant: all of the text is consumed, not what has come of it.           *)
AllOfText(c) == Last[c] - consumed

(* The text up to the next markup, or to the end of the window.            *)
TextLength(c) == (IF Last[c] < supplied THEN Last[c] ELSE supplied) - consumed

(* Mutant: the column goes on after a line feed.                           *)
ColumnGoesOn(n) ==
    /\ consumed' = consumed + n
    /\ LET new == Newlines \cap (consumed + 1)..(consumed + n) IN
          /\ line' = line + Cardinality(new)
          /\ column' = column + n

(* consume_prefix and update_position                                      *)
Consume(n) ==
    /\ consumed' = consumed + n
    /\ LET new == Newlines \cap (consumed + 1)..(consumed + n) IN
          /\ line' = line + Cardinality(new)
          /\ column' = IF new = {} THEN column + n
                       ELSE CHOOSE k \in 0..n - 1 :
                               /\ consumed + n - k \in new
                               /\ \A i \in new : i <= consumed + n - k

(* One call of the application; it may ask for a stop.                     *)
Give(c, from, to) ==
    /\ given' = [turn |-> 1 - given.turn, cb |-> c, from |-> from, to |-> to]
    /\ stopRequested' \in {stopRequested, TRUE}

-----------------------------------------------------------------------------
(* The callbacks.  What follows each (event_or_suspended) is the session's.*)

EmitText(c) ==
    /\ Give(c, consumed - First[c], consumed - First[c] + TextLength(c))
    /\ Consume(TextLength(c))
    /\ UNCHANGED elementVars

(* Mutant: an empty element is opened as well.                             *)
OpensAlways(c) == stack' = Append(stack, Name[c])

(* An element that is not empty is pushed once its callback has returned.  *)
Opens(c) ==
    stack' = IF FrontTag("end") = {} THEN Append(stack, Name[c]) ELSE stack

(* The tag of an empty element stays in the window until its end callback. *)
EmitStart(c) ==
    /\ Complete /\ c \notin Malformed
    /\ Give(c, 0, 1)
    /\ elements' = IF stack = <<>> THEN elements + 1 ELSE elements
    /\ Opens(c)
    /\ IF FrontTag("end") = {} THEN Consume(Last[c] - consumed)
       ELSE UNCHANGED positionVars

EmitEmptyEnd(c) ==
    /\ pc = "empty"
    /\ Give(c, 0, 1)
    /\ Consume(Last[c] - consumed)
    /\ UNCHANGED elementVars

(* Mutant: the name of the end tag is not looked at.                       *)
ClosesAny(c) == stack # <<>>

Closes(c) == stack # <<>> /\ stack[Len(stack)] = Name[c]

EmitEnd(c) ==
    /\ Complete /\ c \notin Malformed
    /\ FrontTag("start") = {}
    /\ Closes(c)
    /\ stack' = SubSeq(stack, 1, Len(stack) - 1)
    /\ Give(c, 0, 1)
    /\ Consume(Last[c] - consumed)
    /\ UNCHANGED elements

(* The tag of c is refused: invalid, or it does not end the innermost      *)
(* element.                                                                *)
RefusesTag(c) ==
    \/ c \in Malformed
    \/ Kind[c] = "end" /\ FrontTag("start") = {} /\ ~Closes(c)

(* finish_or_need_more, when the final window is empty.                    *)
DocumentComplete == elements > 0 /\ stack = <<>>

(* Nothing of the document changes when a call ends.                       *)
documentVars == <<doc, supplied, finalBuffer, consumed, line, column, stack,
                  elements, stopRequested, given>>

-----------------------------------------------------------------------------
(* What the document itself says of the element stack and of its errors.   *)

(* The elements that the callbacks 1..g of document d open and do not      *)
(* close: from the start tag on there are always more start than end tags. *)
OpenAfter(d, g) ==
    {c \in 1..g : /\ d.kind[c] = "start"
                  /\ \A e \in c..g :
                        Cardinality({k \in c..e : d.kind[k] = "start"})
                          > Cardinality({k \in c..e : d.kind[k] = "end"})}

(* Markup that both sessions refuse: the tag is malformed, it ends another *)
(* element than the innermost, or it is no tag.                            *)
RefusedMarkup(d, c) ==
    \/ c \in d.malformed
    \/ d.kind[c] \in {"comment", "doctype"}
    \/ /\ d.kind[c] = "end"
       /\ \A b \in 1..c - 1 : d.first[b] # d.first[c]
       /\ \A e \in OpenAfter(d, c - 1) :
             (\A f \in OpenAfter(d, c - 1) : f <= e) => d.name[e] # d.name[c]

(* The document element of d ends at rootEnd: as long as no callback of    *)
(* the set refused has come, there it is that no element is open any more. *)
RootEnds(d, refused) ==
    /\ \/ d.size < d.rootEnd
       \/ \E r \in 1..d.n : d.kind[r] = "end" /\ d.last[r] = d.rootEnd
    /\ \A g \in 0..d.n :
          (\A c \in 1..g : c \notin refused) =>
              ((\E c \in 1..g : d.kind[c] = "start") /\ OpenAfter(d, g) = {}
                 <=> \E r \in 1..g : d.kind[r] = "end" /\ d.last[r] = d.rootEnd)

-----------------------------------------------------------------------------
(* What both sessions owe the application.                                 *)

(* The elements open after the callbacks the application has had.          *)
OpenElements == OpenAfter(doc, given.cb)

(* element_stack names the elements the application has been told of and   *)
(* not seen closed, outermost first.                                       *)
StackIsOpen ==
    pc # "empty" =>
        /\ Len(stack) = Cardinality(OpenElements)
        /\ \A c \in OpenElements :
              stack[Cardinality({d \in OpenElements : d <= c})] = Name[c]

(* The line and the column are those of a recount from the first byte.     *)
PositionIsRecount ==
    LET before == {k \in Newlines : k <= consumed} IN
    /\ line = Cardinality(before) + 1
    /\ \A k \in before : column <= consumed - k
    /\ consumed - column \in before \cup {0}

(* The types of the variables; the counters lie within the input.          *)
SessionTypeOK ==
    /\ doc \in Documents
    /\ supplied \in 0..DocSize /\ finalBuffer \in BOOLEAN
    /\ consumed \in 0..supplied
    /\ line \in 1..supplied + 1 /\ column \in 0..supplied
    /\ stack \in Seq({Name[c] : c \in Callback})
    /\ elements \in Nat
    /\ stopRequested \in BOOLEAN
    /\ pc \in {"idle", "run", "empty"} /\ returned \in Answers
    /\ given \in [turn : 0..1, cb : 0..N, from : Nat, to : Nat]
=============================================================================
