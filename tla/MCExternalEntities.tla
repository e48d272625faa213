------------------------ MODULE MCExternalEntities -------------------------
(***************************************************************************)
(* A document that includes two external parts in its DTD, one of them     *)
(* twice, through the other, and a part in its content; the second part    *)
(* overlaps the document's own declarations and reads an entity value from *)
(* a third.                                                                *)
(***************************************************************************)
EXTENDS ExternalEntities, TLC

CONSTANTS Document, Dtd, Inner, Literal, Body, a, b, c, one, two, three

MCParsers == {Document, Dtd, Inner, Literal, Body}
MCNames == {a, b, c}
MCValues == MCParsers \cup {one, two, three, Empty}

Part(kind, name, value, to) ==
    [kind |-> kind, name |-> name, value |-> value, to |-> to]
E(name, value) == Part("entity", name, value, Document)
R(kind, to) == Part(kind, a, Empty, to)
L(name, to) == Part("literal", name, Empty, to)
U(name) == Part("use", name, Empty, Document)
O == Part("other", a, Empty, Document)

MCText ==
    Document :> <<R("subset", Inner), E(a, one), R("subset", Dtd), E(b, one),
                  U(b), R("content", Body)>>
    @@ Dtd :> <<E(a, two), R("subset", Inner), L(c, Literal)>>
    @@ Inner :> <<E(b, three)>>
    @@ Literal :> <<O>>
    @@ Body :> <<U(c), O>>
=============================================================================
