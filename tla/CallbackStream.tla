--------------------------- MODULE CallbackStream ---------------------------
(***************************************************************************)
(* What a push parser promises the application that feeds it: the document *)
(* is a stream of callbacks, and whatever the chunks, the suspensions and  *)
(* the resumptions, the application gets each callback it registered for   *)
(* once, in order, text in contiguous pieces, nothing while it has the     *)
(* parser stopped, and everything when the parse succeeds.                 *)
(***************************************************************************)
EXTENDS PrefixParse

VARIABLES
    slots,      \* the callback slots the application registered
    status,     \* "open", "suspended", "finished", "aborted" or
                \* "failed"
    supplied,   \* bytes of the document supplied
    final,      \* has the application said that they are all?
    given       \* the last callback made: [turn, cb, from, to]

vars == <<doc, slots, status, supplied, final, given>>

Nothing == [turn |-> 0, cb |-> 0, from |-> 0, to |-> 0]

Init ==
    /\ doc \in Documents
    /\ slots \subseteq Kinds
    /\ status = "open" /\ supplied = 0 /\ final = FALSE /\ given = Nothing

(* Is the callback g2 the one that follows the callback g1?  Either more   *)
(* of the same text, or the next registered callback when g1 was whole.    *)
Follows(g1, g2) ==
    \/ /\ g2.cb = g1.cb
       /\ g2.from = g1.to /\ g2.from < g2.to
    \/ /\ g2.cb > g1.cb /\ Kind[g2.cb] \in slots
       /\ g2.from = 0
       /\ g1.cb > 0 => g1.to = Whole(g1.cb)
       /\ \A c \in Callback : g1.cb < c /\ c < g2.cb => Kind[c] \notin slots

Deliver ==
    /\ status = "open" /\ status' \in {"open", "suspended", "aborted"}
    /\ \E c \in Callback, from, to \in 0..supplied :
          given' = [turn |-> 1 - given.turn, cb |-> c, from |-> from, to |-> to]
    /\ Follows(given, given')
    /\ Seen(given'.cb, supplied)
    /\ given'.to <= Reported(given'.cb, supplied)
    /\ UNCHANGED <<slots, supplied, final>>

(* Does the application have all it registered for in the first b bytes?   *)
HasAll(b) ==
    \A c \in Callback :
        Kind[c] \in slots /\ Seen(c, b) =>
            c < given.cb \/ (c = given.cb /\ given.to = Reported(c, b))

(* The application supplies bytes; a resource limit may refuse new ones,   *)
(* and a failed parser ignores them.                                       *)
Supply ==
    /\ supplied' \in supplied..DocSize /\ final' \in BOOLEAN
    /\ \/ status \in {"open", "failed"} /\ UNCHANGED status
       \/ status = "open" /\ status' = "failed" /\ supplied' > supplied
    /\ UNCHANGED <<slots, given>>

Finish ==
    /\ status = "open" /\ status' = "finished"
    /\ final /\ Accepts(supplied, final)
    /\ HasAll(supplied)
    /\ UNCHANGED <<slots, supplied, final, given>>

(* A parse error is about the bytes supplied and whether they are all, and *)
(* never comes before callbacks the application is entitled to.            *)
Fail ==
    /\ status = "open" /\ status' = "failed"
    /\ ~Accepts(supplied, final)
    /\ HasAll(supplied)
    /\ UNCHANGED <<slots, supplied, final, given>>

(* The application suspends the parser, or aborts it: then the parser may  *)
(* fail whatever the input is.                                             *)
Stop ==
    /\ \/ status = "open" /\ status' \in {"suspended", "aborted"}
       \/ status = "suspended" /\ status' = "aborted"
       \/ status = "aborted" /\ status' = "failed"
    /\ UNCHANGED <<slots, supplied, final, given>>

Resume ==
    /\ status = "suspended" /\ status' = "open"
    /\ UNCHANGED <<slots, supplied, final, given>>

Register ==
    /\ supplied = 0 /\ given = Nothing
    /\ slots' \subseteq Kinds
    /\ UNCHANGED <<status, supplied, final, given>>

Reset ==
    /\ slots' = {} /\ status' = "open"
    /\ supplied' = 0 /\ final' = FALSE /\ given' = Nothing

Next ==
    /\ \/ Deliver \/ Supply \/ Finish \/ Fail \/ Stop \/ Resume
       \/ Register \/ Reset
    /\ UNCHANGED doc

Spec == Init /\ [][Next]_vars
=============================================================================
