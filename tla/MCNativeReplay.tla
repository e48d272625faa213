---------------------------- MODULE MCNativeReplay ----------------------------
(***************************************************************************)
(* Small documents for TLC.  Each is a real text; its callbacks and their  *)
(* byte ranges are the ones a complete parse of that text makes.           *)
(***************************************************************************)
EXTENDS NativeReplayProperties

(* <a>xy<b/></a>                                                           *)
Elements ==
    [n |-> 5, kind |-> <<"start", "text", "start", "end", "end">>,
     first |-> <<0, 3, 5, 5, 9>>, ready |-> <<3, 4, 9, 9, 13>>,
     last |-> <<3, 5, 9, 9, 13>>, plain |-> {1},
     size |-> 13, rootEnd |-> 13, badFrom |-> 13, badAt |-> 20,
     chunks |-> {0, 1, 3, 5}, amplifiedAt |-> 99]

(* <a ><!----><b></b></a>: two plain start tags and a comment              *)
Comment ==
    [n |-> 5, kind |-> <<"start", "comment", "start", "end", "end">>,
     first |-> <<0, 4, 11, 14, 18>>, ready |-> <<4, 11, 14, 18, 22>>,
     last |-> <<4, 11, 14, 18, 22>>, plain |-> {1, 3},
     size |-> 22, rootEnd |-> 22, badFrom |-> 22, badAt |-> 30,
     chunks |-> {1, 3, 7, 11}, amplifiedAt |-> 99]

(* <!DOCTYPE a[<!---->]><a>x</a>: the comment of the internal subset is    *)
(* made while the DOCTYPE is unfinished; one byte of white space follows   *)
Doctype ==
    [n |-> 5, kind |-> <<"doctype", "comment", "start", "text", "end">>,
     first |-> <<0, 0, 21, 24, 25>>, ready |-> <<12, 19, 24, 25, 29>>,
     last |-> <<21, 21, 24, 25, 29>>, plain |-> {3},
     size |-> 30, rootEnd |-> 29, badFrom |-> 30, badAt |-> 40,
     chunks |-> {0, 5, 12}, amplifiedAt |-> 99]

(* The same, had it entities that expand too far once the text has come    *)
Amplified == [Doctype EXCEPT !.amplifiedAt = 25]

(* <!DOCTYPE a[<!----><!X>]><a/>: a declaration there is not               *)
BadDeclaration ==
    [n |-> 4, kind |-> <<"doctype", "comment", "start", "end">>,
     first |-> <<0, 0, 25, 25>>, ready |-> <<12, 19, 29, 29>>,
     last |-> <<25, 25, 29, 29>>, plain |-> {},
     size |-> 29, rootEnd |-> 29, badFrom |-> 19, badAt |-> 23,
     chunks |-> {0, 5, 12}, amplifiedAt |-> 99]

(* <a>x</b>: the end tag does not match                                    *)
Mismatch ==
    [n |-> 3, kind |-> <<"start", "text", "end">>,
     first |-> <<0, 3, 4>>, ready |-> <<3, 4, 8>>, last |-> <<3, 4, 8>>,
     plain |-> {1}, size |-> 8, rootEnd |-> 8, badFrom |-> 4, badAt |-> 8,
     chunks |-> {1, 2, 4}, amplifiedAt |-> 99]

(* <a/><b>: a second element after the document element                    *)
Junk ==
    [n |-> 3, kind |-> <<"start", "end", "start">>,
     first |-> <<0, 0, 4>>, ready |-> <<4, 4, 7>>, last |-> <<4, 4, 7>>,
     plain |-> {3}, size |-> 7, rootEnd |-> 4, badFrom |-> 4, badAt |-> 7,
     chunks |-> {1, 6, 7}, amplifiedAt |-> 99]

AllDocuments == {Elements, Comment, Doctype, Amplified, BadDeclaration, Mismatch}
ElementsDocument == {Elements}
MismatchDocument == {Mismatch}
JunkDocument == {Junk}

SlotSets == {{"start", "end", "text"}, {"start", "comment"},
             {"doctype", "comment", "text"}, {"comment"}, {}}
ElementSlots == {{"start", "end", "text"}, {"start", "end"}, {"text"}, {}}
ElementsOnly == {{"start", "end"}}
=============================================================================
