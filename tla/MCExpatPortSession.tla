------------------------- MODULE MCExpatPortSession -------------------------
(***************************************************************************)
(* Small documents for TLC, as in MCNativeReplay.  Where one begins with a *)
(* declaration, its first chunk that is not empty shows it.                *)
(***************************************************************************)
EXTENDS ExpatPortSession

(* <?xml version='1.0'?>\n<a>tu<b/></a>\n                                  *)
Declared ==
    [n |-> 5, kind |-> <<"start", "text", "start", "end", "end">>,
     first |-> <<22, 25, 27, 27, 31>>, ready |-> <<25, 26, 31, 31, 35>>,
     last |-> <<25, 27, 31, 31, 35>>, plain |-> {},
     size |-> 36, rootEnd |-> 35, badFrom |-> 36, badAt |-> 40,
     chunks |-> {0, 5, 6, 7},
     name |-> <<"a", "", "b", "b", "a">>, malformed |-> {},
     newlines |-> {22, 36}, declaration |-> 21]

(* <a>t</a>\n<b/>: a second element after the document element             *)
Junk ==
    [n |-> 5, kind |-> <<"start", "text", "end", "start", "end">>,
     first |-> <<0, 3, 4, 9, 9>>, ready |-> <<3, 4, 8, 13, 13>>,
     last |-> <<3, 4, 8, 13, 13>>, plain |-> {},
     size |-> 13, rootEnd |-> 8, badFrom |-> 9, badAt |-> 10,
     chunks |-> {0, 1, 2, 3},
     name |-> <<"a", "", "a", "b", "b">>, malformed |-> {},
     newlines |-> {9}, declaration |-> 0]

(* <?xml version='1.0'?>\n\n<!----><a/>: a comment in the prolog, which    *)
(* the session does not take                                               *)
Unsupported ==
    [n |-> 3, kind |-> <<"comment", "start", "end">>,
     first |-> <<23, 30, 30>>, ready |-> <<30, 34, 34>>,
     last |-> <<30, 34, 34>>, plain |-> {},
     size |-> 34, rootEnd |-> 34, badFrom |-> 23, badAt |-> 27,
     chunks |-> {0, 5, 6, 7},
     name |-> <<"", "a", "a">>, malformed |-> {},
     newlines |-> {22, 23}, declaration |-> 21]

(* \nt<a/>: character data before the document element                     *)
Early ==
    [n |-> 3, kind |-> <<"text", "start", "end">>,
     first |-> <<1, 2, 2>>, ready |-> <<2, 6, 6>>,
     last |-> <<2, 6, 6>>, plain |-> {},
     size |-> 6, rootEnd |-> 6, badFrom |-> 1, badAt |-> 2,
     chunks |-> {0, 1, 2},
     name |-> <<"", "a", "a">>, malformed |-> {},
     newlines |-> {1}, declaration |-> 0]

(* <a><b></a>: an end tag that does not match                              *)
Mismatch ==
    [n |-> 3, kind |-> <<"start", "start", "end">>,
     first |-> <<0, 3, 6>>, ready |-> <<3, 6, 10>>,
     last |-> <<3, 6, 10>>, plain |-> {},
     size |-> 10, rootEnd |-> 10, badFrom |-> 6, badAt |-> 10,
     chunks |-> {1, 2, 3},
     name |-> <<"a", "b", "a">>, malformed |-> {},
     newlines |-> {}, declaration |-> 0]

(* <!DOCTYPE a><a/>: a DOCTYPE, which the session does not take either     *)
Doctype ==
    [n |-> 3, kind |-> <<"doctype", "start", "end">>,
     first |-> <<0, 12, 12>>, ready |-> <<12, 16, 16>>,
     last |-> <<12, 16, 16>>, plain |-> {},
     size |-> 16, rootEnd |-> 16, badFrom |-> 0, badAt |-> 9,
     chunks |-> {0, 3, 4, 5},
     name |-> <<"", "a", "a">>, malformed |-> {},
     newlines |-> {}, declaration |-> 0]

AllDocuments == {Declared, Junk, Unsupported, Early, Mismatch, Doctype}

(* They are documents of the theorem PortImplementsStream.                 *)
ASSUME AllShowDeclarations == \A d \in AllDocuments : ShowsDeclaration(d)

(* The declaration may be cut anywhere.                                    *)
AnyCut == {[Declared EXCEPT !.chunks = {1, 5, 10}]}
=============================================================================
