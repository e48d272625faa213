------------------------- MODULE MCIncrementalSession -------------------------
(***************************************************************************)
(* Small documents for TLC, as in MCNativeReplay.  The session reports     *)
(* text wherever it stands, so the documents have none it should not.      *)
(***************************************************************************)
EXTENDS IncrementalSession

(* <a>t\nu<b/></a>\n: a line feed in a text, one at the end                *)
Nested ==
    [n |-> 6, kind |-> <<"start", "text", "start", "end", "end", "text">>,
     first |-> <<0, 3, 6, 6, 10, 14>>, ready |-> <<3, 4, 10, 10, 14, 15>>,
     last |-> <<3, 6, 10, 10, 14, 15>>, plain |-> {},
     size |-> 15, rootEnd |-> 14, badFrom |-> 15, badAt |-> 20,
     chunks |-> {0, 1, 3, 5},
     name |-> <<"a", "", "b", "b", "a", "">>, malformed |-> {},
     newlines |-> {5, 15}]

(* <a>t</b>: the end tag does not match                                    *)
Mismatch ==
    [n |-> 3, kind |-> <<"start", "text", "end">>,
     first |-> <<0, 3, 4>>, ready |-> <<3, 4, 8>>, last |-> <<3, 4, 8>>,
     plain |-> {}, size |-> 8, rootEnd |-> 8, badFrom |-> 4, badAt |-> 8,
     chunks |-> {0, 1, 2, 3},
     name |-> <<"a", "", "b">>, malformed |-> {}, newlines |-> {}]

(* <a>t<b 1/></a>: no attribute begins with a digit                        *)
BadAttribute ==
    [n |-> 5, kind |-> <<"start", "text", "start", "end", "end">>,
     first |-> <<0, 3, 4, 4, 10>>, ready |-> <<3, 4, 10, 10, 14>>,
     last |-> <<3, 4, 10, 10, 14>>, plain |-> {},
     size |-> 14, rootEnd |-> 14, badFrom |-> 4, badAt |-> 10,
     chunks |-> {1, 2, 3},
     name |-> <<"a", "", "b", "b", "a">>, malformed |-> {3, 4}, newlines |-> {}]

(* <a>\n<!----></a>: the session takes no comments                         *)
Unsupported ==
    [n |-> 4, kind |-> <<"start", "text", "comment", "end">>,
     first |-> <<0, 3, 4, 11>>, ready |-> <<3, 4, 11, 15>>,
     last |-> <<3, 4, 11, 15>>, plain |-> {},
     size |-> 15, rootEnd |-> 15, badFrom |-> 4, badAt |-> 11,
     chunks |-> {1, 3, 5},
     name |-> <<"a", "", "", "a">>, malformed |-> {}, newlines |-> {4}]

AllDocuments == {Nested, Mismatch, BadAttribute, Unsupported}
=============================================================================
