----------------------------- MODULE PinnedTree -----------------------------
(***************************************************************************)
(* What the dependency cache promises of the directory named after the     *)
(* locked revision: it appears at once and whole, it is never replaced or  *)
(* removed, and a tree that somebody alters stays altered (it is refused,  *)
(* never repaired).                                                        *)
(***************************************************************************)
VARIABLE tree

Init == tree \in {"absent", "pinned"}

(* The staged checkout takes the name of the revision.                     *)
Publish == tree = "absent" /\ tree' = "pinned"

(* Somebody writes into the established checkout.                          *)
Alter == tree = "pinned" /\ tree' = "altered"

Next == Publish \/ Alter

Spec == Init /\ [][Next]_tree
=============================================================================
