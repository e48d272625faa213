------------------------- MODULE MCValidationScripts -------------------------
(***************************************************************************)
(* A small instance of the validation scripts.  The catalog has a case of  *)
(* each kind that is treated differently.                                  *)
(***************************************************************************)
EXTENDS ValidationScripts

Case(id, kind) ==
    [id |-> id, kind |-> kind, recommendation |-> "XML1.0", versions |-> {},
     editions |-> {}, entities |-> "none", erratum |-> FALSE]

SmallCatalog ==
    <<Case("wf", "valid"), [Case("old", "not-wf") EXCEPT !.editions = {"1", "4"}],
      [Case("e38", "not-wf") EXCEPT !.erratum = TRUE], Case("opt", "error")>>

(* Two unusual things; in the whole campaign one.                          *)
EventsOf == [c \in Commands |-> IF c = "campaign" THEN 1 ELSE 2]

Entry(engine, id, status) == [engine |-> engine, id |-> id, status |-> status]

SmallLists ==
    {{}, {Entry("xpact", "wf", "failed")},
     {Entry("xpact-core", "old", "error"), Entry("dll", "wf", "failed")}}
=============================================================================
