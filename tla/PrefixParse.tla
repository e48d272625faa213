---------------------------- MODULE PrefixParse ----------------------------
(***************************************************************************)
(* The tokenizer of XP_PARSER seen from outside: what one call of `parse'  *)
(* or `parse_prefix' over the first b bytes of a document reports.         *)
(*                                                                         *)
(* A document is the sequence 1..N of the callbacks a complete parse would *)
(* make if every slot were set.  Callback c is of kind Kind[c]; it comes   *)
(* from the token made of the bytes First[c]+1 .. Last[c], and a parse of  *)
(* the first b bytes can report it once b >= Ready[c].  For ordinary       *)
(* markup Ready[c] = Last[c] (`is_incomplete_markup_prefix' stops the      *)
(* parse before an unfinished token); a declaration inside a DOCTYPE is    *)
(* ready before the DOCTYPE ends (`process_incomplete_doctype_prefix');    *)
(* character data is ready from its first byte and grows with the prefix.  *)
(***************************************************************************)
EXTENDS Integers, FiniteSets

CONSTANT Documents  \* the documents an application may feed

VARIABLE doc        \* the one it feeds, as long as the parser lives

N == doc.n              \* number of callbacks
Kind == doc.kind        \* the callback slot each one goes to
First == doc.first      \* bytes before the token of the callback
Ready == doc.ready      \* bytes a prefix needs before the callback is made
Last == doc.last        \* bytes up to and including the token
Plain == doc.plain      \* start tags that are a one-letter name and white space
DocSize == doc.size     \* bytes the application will supply at most
RootEnd == doc.rootEnd  \* bytes up to the end of the document element
BadFrom == doc.badFrom  \* bytes before the token that is not well formed
BadAt == doc.badAt      \* a parse of at least BadAt bytes meets that token
Chunks == doc.chunks    \* the lengths of the pieces it is cut into

Kinds == {"start", "end", "text", "comment", "doctype"}

Callback == 1..N

(* Any two callbacks come from the same markup token or from successive    *)
(* tokens; the order of the callbacks is the order of the input.           *)
IsDocument(d) ==
    /\ d.n \in Nat
    /\ d.size \in Nat /\ d.rootEnd \in Nat /\ d.badFrom \in Nat /\ d.badAt \in Nat
    /\ d.badFrom < d.badAt
    /\ d.kind \in [1..d.n -> Kinds]
    /\ d.first \in [1..d.n -> Nat]
    /\ d.ready \in [1..d.n -> Nat]
    /\ d.last \in [1..d.n -> Nat]
    /\ d.chunks \subseteq Nat
    /\ \A c \in 1..d.n : d.first[c] < d.ready[c] /\ d.ready[c] <= d.last[c]
    /\ \A c \in 1..d.n : d.kind[c] = "text" => d.ready[c] = d.first[c] + 1
    /\ \A b, c \in 1..d.n :
          b < c => /\ d.ready[b] <= d.ready[c]
                   /\ \/ d.last[b] <= d.first[c]
                      \/ /\ d.first[b] = d.first[c]
                         /\ d.last[b] = d.last[c]
                         /\ d.kind[b] # "text" /\ d.kind[c] # "text"
    /\ d.plain \subseteq {c \in 1..d.n : d.kind[c] = "start"}
    /\ \A c \in d.plain : d.ready[c] = d.last[c] /\ d.first[c] + 3 <= d.last[c]
    /\ \A b \in d.plain, c \in 1..d.n : d.first[b] = d.first[c] => b = c

ASSUME DocumentAssumption == \A d \in Documents : IsDocument(d)

(* Does a parse of the first b bytes make callback c?  A parse that meets  *)
(* the bad token stops there: set_error ends the token loop.               *)
Seen(c, b) ==
    /\ Ready[c] <= b
    /\ b < BadAt \/ Ready[c] <= BadFrom

(* The bytes of text callback c that a parse of b bytes reports; the other *)
(* callbacks are reported whole and count for one.                         *)
Reported(c, b) ==
    IF Kind[c] # "text" THEN 1
    ELSE IF b < Last[c] THEN b - First[c]
    ELSE Last[c] - First[c]

(* What the application has when it has all of callback c.                 *)
Whole(c) == IF Kind[c] = "text" THEN Last[c] - First[c] ELSE 1

(* The token that is unfinished at the end of the first b bytes.           *)
Unfinished(b) ==
    {c \in Callback : Kind[c] # "text" /\ First[c] < b /\ b < Last[c]}

(* incomplete_markup_prefix_start: its 1-based start index, zero if none.  *)
IncompleteStart(b) ==
    IF Unfinished(b) = {} THEN 0
    ELSE First[CHOOSE c \in Unfinished(b) : TRUE] + 1

(* The callbacks of the markup token that starts at 1-based index s.       *)
TokenAt(s) == {c \in Callback : Kind[c] # "text" /\ First[c] + 1 = s}

(* markup_prefix_end: the last byte of the token that starts at s, or zero *)
(* while the first b bytes do not hold all of it.                          *)
MarkupEnd(s, b) ==
    IF \E c \in TokenAt(s) : Last[c] <= b
    THEN Last[CHOOSE c \in TokenAt(s) : TRUE]
    ELSE 0

(* The verdict of a parse that no handler stopped: set_error at the bad    *)
(* token, and in a final parse also for an unfinished token, an unclosed   *)
(* element or a missing document element.                                  *)
Accepts(b, final) ==
    /\ b < BadAt
    /\ final => b >= RootEnd /\ Unfinished(b) = {}
=============================================================================
