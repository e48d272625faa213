-------------------------- MODULE ExternalEntities --------------------------
(***************************************************************************)
(* A document whose DTD, entity values and content refer to external       *)
(* entities, read by libexpat's protocol: the parser asks the application's*)
(* XML_ExternalEntityRefHandler, which makes a child parser with           *)
(* XML_ExternalEntityParserCreate, feeds it the entity in chunks, frees it *)
(* and returns.  A child may meet references of its own, so the parsers    *)
(* that wait in a callback form a stack.                                   *)
(*                                                                         *)
(* Every chunk of a parser parses its whole input again (NativeReplay); a  *)
(* reference asked in an earlier pass is not asked again, and its child is *)
(* gone.  XP_NATIVE_CALLBACK_HANDLER therefore keeps, under the ordinal of *)
(* the callback, what the child declared, how many bytes it read and the   *)
(* text it gave for an entity value, and replays them.                     *)
(*                                                                         *)
(* A text is a sequence of tokens of one byte each; chunks end at tokens,  *)
(* because a partial token changes nothing until the rest has come.  A     *)
(* reference names its text; the declaration that binds them is left out.  *)
(* Reparse deferral is off, parameter entities are always read, the        *)
(* DOCTYPE has no external identifier, and the application registers the   *)
(* external reference handler and perhaps the entity declaration handler.  *)
(***************************************************************************)
EXTENDS Integers, Sequences, FiniteSets, FiniteSetsExt

CONSTANTS
    Parsers,    \* an external entity and the handle that parses it, or Root
    Root,       \* the document and its handle
    Text,       \* the tokens of each of them
    Names,      \* of general entities
    Values,     \* their replacement texts, the names of Parsers among them
    Unbound,
    Empty,      \* the empty replacement text
    App         \* what this application does, a subset of Habits

Habits == {"finishes_empty", "refuses", "stops", "resets"}

Kinds == {"entity",   \* <!ENTITY name 'value'>
          "subset",   \* %to; between declarations
          "literal",  \* <!ENTITY name "%to;">
          "content",  \* &to; in content
          "use",      \* &name; in content, one byte of text when bound
          "other"}    \* anything that neither refers nor declares

References == {"subset", "literal", "content"}

Tokens == [kind : Kinds, name : Names, value : Values, to : Parsers]

(* What may stand in the text of a parser that was made for a reference.   *)
Within(role) ==
    CASE role = "subset" -> {"entity", "subset", "literal", "other"}
      [] role = "content" -> {"content", "use", "other"}
      [] role = "literal" -> {"other"}

(* Texts refer to one another without cycles, each to the kind of text its *)
(* reference is for, and the document names an undeclared entity only      *)
(* where one may have been declared unseen.                                *)
ASSUME EntityAssumption ==
    /\ IsFiniteSet(Parsers) /\ Root \in Parsers
    /\ Text \in [Parsers -> Seq(Tokens)]
    /\ Parsers \cup {Empty} \subseteq Values
    /\ Unbound \notin Values
    /\ App \subseteq Habits
    /\ \E depth \in [Parsers -> 0..Cardinality(Parsers)] :
         \A h \in Parsers : \A i \in 1..Len(Text[h]) :
           Text[h][i].kind \in References =>
             /\ depth[Text[h][i].to] < depth[h]
             /\ \A j \in 1..Len(Text[Text[h][i].to]) :
                  Text[Text[h][i].to][j].kind \in Within(Text[h][i].kind)
    /\ \A i \in 1..Len(Text[Root]) :
         /\ Text[Root][i].kind # "literal"
         /\ Text[Root][i].kind = "use" =>
              \E j \in 1..(i - 1) : Text[Root][j].kind = "subset"

VARIABLES
    reportsDeclarations,  \* the entity declaration handler is registered
    parser,   \* the C structure, XP_NATIVE_PARSER and handler of each handle
    asked     \* history: each handle's references, as they were asked

vars == <<reportsDeclarations, parser, asked>>

Tables == [Names -> Values \cup {Unbound}]
NoBindings == [n \in Names |-> Unbound]

(* A token reports at most itself and a reference of its own.              *)
Ordinals(h) == 1..2 * Len(Text[h])

NoParser(h) ==
    [status      |-> "none",
     failed      |-> FALSE,       \* parseErrorCode # XML_ERROR_NONE
     stop        |-> "no",        \* stopRequested, stopResumable
     childParses |-> 0,           \* externalChildParseCount
     lastChild   |-> 0,           \* the counts of the last child, added
     parent      |-> h,           \* parentParser
     role        |-> "document",  \* the kind of reference it was made for
     direct      |-> 0,           \* input_buffer.count, accounting_direct_count
     external    |-> 0,           \* accounting_external_child_count
     indirect    |-> 0,           \* accounting_indirect_count
     delivered   |-> 0,           \* delivered_callback_count
     final       |-> FALSE,       \* final_buffer
     len         |-> 0,           \* bytes of the call in progress
     inherited   |-> NoBindings,  \* inherited_entity_table
     table       |-> NoBindings,  \* entity_table
     expanded    |-> 0,           \* expanded_entity_bytes
     pc          |-> "idle",      \* "pass" or "callback" inside a call
     at          |-> 1,           \* next token of the pass
     extent      |-> 0,           \* tokens the pass parses
     sequence    |-> 0,           \* callback_sequence_count
     suppress    |-> 0,           \* callbacks_to_suppress
     lastSuspend |-> 0,           \* last_suspending_callback_index
     active      |-> 0,           \* active_external_entity_callback_index
     before      |-> 0,           \* l_before_external_count
     contexts    |-> [k \in Ordinals(h) |-> NoBindings],
     counts      |-> [k \in Ordinals(h) |-> 0],
     texts       |-> [k \in Ordinals(h) |-> Empty]]

NewParser(h) == [NoParser(h) EXCEPT !.status = "INITIALIZED"]

Init ==
    /\ reportsDeclarations \in BOOLEAN
    /\ parser = [h \in Parsers |->
                   IF h = Root THEN NewParser(h) ELSE NoParser(h)]
    /\ asked = [h \in Parsers |-> <<>>]

-----------------------------------------------------------------------------
(* Declarations.                                                           *)

(* The first binding of a name stays: put_general_entity and the copies    *)
(* between the tables of parent, child and snapshot.                       *)
Bind(t, n, v) == IF t[n] = Unbound THEN [t EXCEPT ![n] = v] ELSE t
Merge(t, u) == [n \in Names |-> IF t[n] = Unbound THEN u[n] ELSE t[n]]

(* entity_context_snapshot: what the child itself declared.                *)
Snapshot(r) ==
    [n \in Names |-> IF r.inherited[n] = Unbound THEN r.table[n] ELSE Unbound]

-----------------------------------------------------------------------------
(* How a call ends, for the record r of the parser.                        *)

Terminal(h, r) ==
    [r EXCEPT !.pc = "idle", !.active = 0, !.delivered = 0, !.suppress = 0,
              !.lastSuspend = 0,
              !.contexts = NoParser(h).contexts,
              !.counts = NoParser(h).counts,
              !.texts = NoParser(h).texts]

Fail(h, r) == [Terminal(h, r) EXCEPT !.failed = TRUE]

(* Mutant: the count of delivered callbacks stays where it was.            *)
ForgetsSuspension(r) == [r EXCEPT !.pc = "idle", !.status = "SUSPENDED"]

Suspend(r) ==
    [r EXCEPT !.pc = "idle", !.status = "SUSPENDED",
              !.delivered = r.lastSuspend]

(* check_handler_stop.                                                     *)
CheckStop(h, r) ==
    CASE r.stop = "suspend" -> Suspend(r)
      [] r.stop = "abort" -> Fail(h, r)
      [] OTHER -> r

(* XML_StopParser in a callback of r: what it accepts, and what it sets.   *)
MayStop(r, how) ==
    \/ how = "abort" /\ r.status \in {"PARSING", "SUSPENDED"}
    \/ /\ how = "suspend"
       /\ r.status = "PARSING"
       /\ r.role \notin {"subset", "literal"}

Stopped(r, how) ==
    [r EXCEPT !.stop = how,
              !.status = IF how = "suspend" THEN "SUSPENDED" ELSE "FINISHED"]

(* record_callback_stop_if_requested.                                      *)
RecordStop(r) ==
    IF r.stop = "suspend" THEN [r EXCEPT !.lastSuspend = r.sequence] ELSE r

(* prepare_callback_replay; mutant: the count goes on from the last pass.  *)
SuppressOnly(r) == [r EXCEPT !.suppress = r.delivered]
PrepareReplay(r) == [r EXCEPT !.sequence = 0, !.suppress = r.delivered]

(* suppress_next_callback: this callback was delivered in an earlier pass. *)
Counted(r) == [r EXCEPT !.sequence = @ + 1]
Suppressed(r) == r.sequence < r.suppress

(* What the declaration callback may do to r: nothing, or stop the parser. *)
Reported(r) ==
    IF ~reportsDeclarations THEN {r}
    ELSE IF Suppressed(r) THEN {Counted(r)}
    ELSE {RecordStop(Counted(r))}
         \cup {RecordStop(Counted(Stopped(r, how))) :
                 how \in {w \in {"suspend", "abort"} :
                            "stops" \in App /\ MayStop(r, w)}}

(* The end of parse_entity_declaration: bind, report, look for a stop.     *)
Declare(h, r, n, v) ==
    {CheckStop(h, q) :
        q \in Reported([r EXCEPT !.table = Bind(@, n, v), !.at = @ + 1])}

(* The reference at r.at has been answered with text v.                    *)
Resolved(h, r, v) ==
    IF Text[h][r.at].kind = "literal"
    THEN Declare(h, r, Text[h][r.at].name, v)
    ELSE {[r EXCEPT !.at = @ + 1]}

-----------------------------------------------------------------------------
(* The calls an application makes on handle h: its own, or inside the      *)
(* callback of the parser that made it.                                    *)

Token(h) == Text[h][parser[h].at]
Child(h) == Token(h).to

Callable(h) ==
    /\ parser[h].pc = "idle"
    /\ parser[h].status # "none"
    /\ h # Root => parser[parser[h].parent].pc = "callback"

(* The handler of h's reference runs, and no call inside it does.          *)
InCallback(h) == parser[h].pc = "callback" /\ parser[Child(h)].pc = "idle"

Becomes(h, r) == parser' = [parser EXCEPT ![h] = r]

(* A DTD text is not parsed before its end when it has a %, nor is the     *)
(* text for a literal.                                                     *)
Skips(r, text, final) ==
    /\ ~final
    /\ \/ r.role = "literal"
       \/ r.role = "subset"
          /\ \E i \in DOMAIN text : text[i].kind \in {"subset", "literal"}

(* parse_with_current_gc_policy with n more bytes, up to its loop.         *)
Start(h, r, n, final) ==
    LET supplied == r.direct + n
        q == PrepareReplay(
               [r EXCEPT !.status = "PARSING", !.stop = "no", !.final = final,
                         !.len = n, !.direct = supplied])
    IN IF Skips(r, SubSeq(Text[h], 1, supplied), final)
       THEN q
       ELSE [q EXCEPT !.pc = "pass", !.at = 1, !.expanded = 0,
                      !.table = r.inherited,
                      !.extent = IF r.role = "literal" THEN 0 ELSE supplied]

XML_Parse(h, n, final) ==
    LET r == parser[h] IN
    /\ Callable(h)
    /\ r.status \in {"INITIALIZED", "PARSING"}
    /\ ~r.failed
    /\ r.direct + n <= Len(Text[h])
    /\ final => /\ r.direct + n = Len(Text[h])
                /\ n > 0 \/ "finishes_empty" \in App
    /\ Becomes(h, Start(h, r, n, final))
    /\ UNCHANGED <<reportsDeclarations, asked>>

(* This application does not resume a parser that reported an error.       *)
XML_ResumeParser(h) ==
    /\ Callable(h)
    /\ parser[h].status = "SUSPENDED"
    /\ ~parser[h].failed
    /\ Becomes(h, Start(h, parser[h], 0, parser[h].final))
    /\ UNCHANGED <<reportsDeclarations, asked>>

XML_ParserReset ==
    /\ parser[Root].pc = "idle"
    /\ "resets" \in App
    /\ Becomes(Root, NewParser(Root))
    /\ asked' = [asked EXCEPT ![Root] = <<>>]
    /\ reportsDeclarations' \in BOOLEAN

-----------------------------------------------------------------------------
(* The parse loop.                                                         *)

At(h, kinds) ==
    /\ parser[h].pc = "pass"
    /\ parser[h].at <= parser[h].extent
    /\ Token(h).kind \in kinds

Declaration(h) ==
    /\ At(h, {"entity"})
    /\ \E r \in Declare(h, parser[h], Token(h).name, Token(h).value) :
         Becomes(h, r)
    /\ UNCHANGED <<reportsDeclarations, asked>>

Other(h) ==
    /\ At(h, {"other"})
    /\ Becomes(h, [parser[h] EXCEPT !.at = @ + 1])
    /\ UNCHANGED <<reportsDeclarations, asked>>

(* include_general_entity_in_content.                                      *)
Use(h) ==
    LET r == parser[h]
        bound == r.table[Token(h).name] # Unbound
    IN
    /\ At(h, {"use"})
    /\ Becomes(h, IF bound THEN [r EXCEPT !.expanded = @ + 1, !.at = @ + 1]
                  ELSE IF h = Root THEN [r EXCEPT !.at = @ + 1]
                  ELSE Fail(h, r))
    /\ UNCHANGED <<reportsDeclarations, asked>>

(* resolve_external_entity calls the handler; what an earlier answer to    *)
(* this ordinal left is removed.                                           *)
Ask(h) ==
    LET r == parser[h]
        k == r.sequence + 1
    IN
    /\ At(h, References)
    /\ ~Suppressed(r)
    /\ Becomes(h, [Counted(r) EXCEPT !.pc = "callback", !.active = k,
                                     !.before = r.childParses,
                                     !.contexts[k] = NoBindings,
                                     !.counts[k] = 0, !.texts[k] = Empty])
    /\ asked' = [asked EXCEPT ![h] = Append(@, [token |-> r.at, ordinal |-> k])]
    /\ UNCHANGED reportsDeclarations

(* resolve_external_entity repeats the answer of an earlier pass.          *)
Replay(h) ==
    LET r == parser[h]
        k == r.sequence + 1
    IN
    /\ At(h, References)
    /\ Suppressed(r)
    /\ \E q \in Resolved(h, [Counted(r) EXCEPT
                               !.table = Merge(@, r.contexts[k])],
                         r.texts[k]) :
         Becomes(h, q)
    /\ UNCHANGED <<reportsDeclarations, asked>>

-----------------------------------------------------------------------------
(* The external reference handler of h.                                    *)

XML_ExternalEntityParserCreate(h) ==
    LET child == Child(h) IN
    /\ InCallback(h)
    /\ parser[child].status = "none"
    /\ Becomes(child, [NewParser(child) EXCEPT
                         !.parent = h, !.role = Token(h).kind,
                         !.inherited = parser[h].table,
                         !.table = parser[h].table])
    /\ UNCHANGED <<reportsDeclarations, asked>>

XML_StopParser(h, how) ==
    /\ InCallback(h)
    /\ "stops" \in App
    /\ MayStop(parser[h], how)
    /\ Becomes(h, Stopped(parser[h], how))
    /\ UNCHANGED <<reportsDeclarations, asked>>

(* last_resolution_replacement_byte_count is kept for the replays; mutant: *)
(* under the number of children instead of the number of the callback.     *)
KeepCountByChild(r) == [r EXCEPT !.counts[r.childParses] = r.lastChild]
KeepCount(r) == [r EXCEPT !.counts[r.active] = r.lastChild]

(* The handler reports success: the child has read its entity.             *)
Answer(h) ==
    LET r == parser[h]
        k == r.active
        parameter == Token(h).kind \in {"subset", "literal"}
        given == parameter /\ r.childParses > r.before
        q == RecordStop([(IF given THEN KeepCount(r) ELSE r)
                           EXCEPT !.pc = "pass", !.active = 0])
    IN
    /\ InCallback(h)
    /\ parser[Child(h)].status = "FINISHED"
    /\ ~parser[Child(h)].failed
    /\ \E s \in Resolved(h, q, IF given THEN r.texts[k] ELSE Empty) :
         parser' = [parser EXCEPT ![h] = s, ![Child(h)] = NoParser(Child(h))]
    /\ asked' = [asked EXCEPT ![Child(h)] = <<>>]
    /\ UNCHANGED reportsDeclarations

(* The handler reports failure, of its own or because the child failed.    *)
Refuse(h) ==
    /\ InCallback(h)
    /\ "refuses" \in App \/ parser[Child(h)].failed
    /\ parser' = [parser EXCEPT ![h] = Fail(h, RecordStop(@)),
                                ![Child(h)] = NoParser(Child(h))]
    /\ asked' = [asked EXCEPT ![Child(h)] = <<>>]
    /\ UNCHANGED reportsDeclarations

-----------------------------------------------------------------------------
(* The end of a pass.                                                      *)

(* accounting_indirect_count after a successful pass.                      *)
Accounted(r) == [r EXCEPT !.indirect = r.external + r.expanded]

(* record_external_entity_context_from; mutant: nothing is kept.           *)
KeepNothing(p, c) == p
KeepContext(p, c) ==
    [p EXCEPT !.contexts[p.active] = Merge(@, Snapshot(c))]

(* xp_finish_external_child_parse: parent p takes over what its child c    *)
(* counted, declared or read.                                              *)
Finished(p, c, child) ==
    LET sum == c.direct + c.indirect
        external == p.external + sum
        q == [p EXCEPT !.external = external,
                       !.indirect = external + p.expanded,
                       !.childParses = @ + 1, !.lastChild = sum]
    IN CASE c.role = "subset" ->
              KeepContext([q EXCEPT !.table = Merge(@, c.table)], c)
         [] c.role = "literal" -> [q EXCEPT !.texts[p.active] = child]
         [] OTHER -> q

(* When it does so; mutant: after every call.                              *)
MergesAlways(h, r) == h # Root /\ r.len > 0
Merges(h, r) == h # Root /\ r.final /\ r.len > 0

EndPass(h) ==
    LET r == Accounted(parser[h])
        q == IF r.final
             THEN [Terminal(h, r) EXCEPT !.status = "FINISHED"]
             ELSE [r EXCEPT !.pc = "idle", !.status = "PARSING",
                            !.delivered = IF r.sequence > @
                                          THEN r.sequence ELSE @]
    IN
    /\ parser[h].pc = "pass"
    /\ parser[h].at > parser[h].extent
    /\ IF Merges(h, r)
       THEN parser' = [parser EXCEPT ![h] = q,
                                     ![r.parent] = Finished(@, r, h)]
       ELSE Becomes(h, q)
    /\ UNCHANGED <<reportsDeclarations, asked>>

Next ==
    \/ XML_ParserReset
    \/ \E h \in Parsers :
         \/ \E n \in 0..Len(Text[h]), final \in BOOLEAN : XML_Parse(h, n, final)
         \/ XML_ResumeParser(h)
         \/ Declaration(h)
         \/ Other(h)
         \/ Use(h)
         \/ Ask(h)
         \/ Replay(h)
         \/ XML_ExternalEntityParserCreate(h)
         \/ \E how \in {"suspend", "abort"} : XML_StopParser(h, how)
         \/ Answer(h)
         \/ Refuse(h)
         \/ EndPass(h)

Spec == Init /\ [][Next]_vars

-----------------------------------------------------------------------------
(* Properties.                                                             *)

Records(h) ==
    LET longest == 0..Len(Text[h]) IN
    [status : {"none", "INITIALIZED", "PARSING", "SUSPENDED", "FINISHED"},
     failed : BOOLEAN, stop : {"no", "suspend", "abort"},
     childParses : Nat, lastChild : Nat,
     parent : Parsers, role : References \cup {"document"},
     direct : longest, external : Nat, indirect : Nat,
     delivered : 0..2 * Len(Text[h]), final : BOOLEAN, len : longest,
     inherited : Tables, table : Tables, expanded : longest,
     pc : {"idle", "pass", "callback"}, at : 1..Len(Text[h]) + 1,
     extent : longest, sequence : 0..2 * Len(Text[h]),
     suppress : 0..2 * Len(Text[h]), lastSuspend : 0..2 * Len(Text[h]),
     active : {0} \cup Ordinals(h), before : Nat,
     contexts : [Ordinals(h) -> Tables], counts : [Ordinals(h) -> Nat],
     texts : [Ordinals(h) -> Values]]

(* Every handle holds what its fields may hold, an ordinal within the      *)
(* callbacks of its text included (XML_ParserStruct, XP_NATIVE_PARSER).    *)
TypeInv ==
    /\ reportsDeclarations \in BOOLEAN
    /\ \A h \in Parsers :
         /\ parser[h] \in Records(h)
         /\ asked[h] \in Seq([token : 1..Len(Text[h]), ordinal : Ordinals(h)])

(* What the first n tokens of a text declare, read in place: references    *)
(* are replaced by the texts they name, and the first binding counts.      *)
Places == UNION {{h} \X (0..Len(Text[h])) : h \in Parsers}

Declared[p \in Places] ==
    IF p[2] = 0 THEN NoBindings
    ELSE LET t == Text[p[1]][p[2]]
             before == Declared[<<p[1], p[2] - 1>>]
         IN CASE t.kind = "entity" -> Bind(before, t.name, t.value)
              [] t.kind = "literal" -> Bind(before, t.name, t.to)
              [] t.kind = "subset" ->
                   Merge(before, Declared[<<t.to, Len(Text[t.to])>>])
              [] OTHER -> before

(* In every pass, at every token, the entity table is the one a reader of  *)
(* the whole document with its external parts in place would have: neither *)
(* a replayed reference (resolve_external_entity, whose child is gone) nor *)
(* a nested or repeated one loses or overrides a declaration.              *)
DeclarationsAreTheTexts ==
    \A h \in Parsers :
        parser[h].pc = "pass" =>
          parser[h].table =
            Merge(parser[h].inherited, Declared[<<h, parser[h].at - 1>>])

(* The bytes a text stands for once its references have been read.         *)
Weight[p \in Places] ==
    IF p[2] = 0 THEN 0
    ELSE LET t == Text[p[1]][p[2]] IN
         Weight[<<p[1], p[2] - 1>>] + 1
         + CASE t.kind \in References -> Weight[<<t.to, Len(Text[t.to])>>]
             [] t.kind = "use" -> 1
             [] OTHER -> 0

RefWeight(h, i) == Weight[<<Text[h][i].to, Len(Text[Text[h][i].to])>>]

(* The references whose children have been merged into h.                  *)
Merged(h) ==
    LET last == Len(asked[h]) IN
    {j \in 1..last : j = last /\ parser[h].pc = "callback" =>
                       parser[h].childParses > parser[h].before}

(* merge_accounting_from: however many passes there were, however deep the *)
(* children, a parser has counted each child it asked for exactly once.    *)
ChildrenCountedOnce ==
    \A h \in Parsers :
        ~parser[h].failed =>
          parser[h].external =
            FoldSet(LAMBDA j, sum : RefWeight(h, asked[h][j].token) + sum,
                    0, Merged(h))

(* The handler is asked for a reference once, whatever stops and chunks    *)
(* came between (suppress_next_callback, delivered_callback_count).        *)
AskedOnce ==
    \A h \in Parsers : \A j, k \in DOMAIN asked[h] :
        asked[h][j].token = asked[h][k].token => j = k

(* A pass that reaches a reference asked before is at the ordinal it was   *)
(* asked under, will not ask again, and finds there the byte count of a    *)
(* parameter entity's child: external_entity_replay_counts is keyed by     *)
(* ordinals, and every pass must count its callbacks alike.                *)
AnswersRepeat ==
    \A h \in Parsers : \A j \in DOMAIN asked[h] :
        LET r == parser[h]
            k == asked[h][j].ordinal
        IN r.pc = "pass" /\ r.at <= r.extent /\ r.at = asked[h][j].token =>
             /\ k = r.sequence + 1
             /\ Suppressed(r)
             /\ Token(h).kind = "subset" => r.counts[k] = RefWeight(h, r.at)

(* docs/libexpat-parity.md:173: a child for a parameter entity that has    *)
(* read its text without error has given its declarations to its parent.   *)
ChildDeclarationsReachParent ==
    \A h \in Parsers :
        parser[h].pc = "callback" =>
          LET child == parser[Child(h)] IN
          child.role = "subset" /\ child.status = "FINISHED"
          /\ ~child.failed =>
            \A n \in Names : child.table[n] # Unbound =>
                               parser[h].table[n] # Unbound
=============================================================================
