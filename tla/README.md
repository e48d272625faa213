# xpact in TLA+

xpact is an XML parser written in Eiffel with the C interface of libexpat in
front of it. Beside it stand the scripts that decide whether a version may be
used: they build two implementations, qualify, measure and compare them. This
directory holds a specification of the stateful core of both: the modules, the
TLC configurations that check them on small instances, and theorems that TLAPS
proves for every value of the constants.

The parser comes first. The grammar of XML is not the subject. The subject is what is hard to test in
this code: one document arrives in arbitrary chunks, the application stops and
resumes the parser inside its callbacks, and the code must produce the same
callbacks as if the document had come at once, with nothing repeated, lost,
reordered or held back, on storage that grows, moves and shrinks meanwhile.

Of the scripts it is what their tests, which replace the compilers and the
clock, hardly reach: they hold no lock on the working tree, the cache and the
executables they vouch for, any of their steps can fail or be interrupted, and
what they leave behind is read by other programs.

## The system and its parts

| part | source | state | operations | here |
|---|---|---|---|---|
| C parser handle | `native/xpact_native.c`, `xpact_native_private.h` | parsing status, error code, stop flags, deferral switch, input storage | `XML_Parse`, `XML_GetBuffer`, `XML_ParseBuffer`, `XML_StopParser`, `XML_ResumeParser`, `XML_ParserReset`, `XML_Set...` | `NativeReplay`, `InputBuffer` |
| Eiffel side of the handle | `src/xp_native_parser.e` | accumulated input, delivered count, deferred token, shortcuts | parse a chunk, reset, wait, defer, emit directly | `NativeReplay` |
| callback handler | `src/xp_native_callback_handler.e` | callback slots, numbering of a pass, suppression, delivered text lengths | one `on_...` per callback, prepare a replay | `NativeReplay` |
| tokenizer | `src/xp_parser.e` | position, element and entity stacks, DTD | parse, parse a prefix | `PrefixParse` (from outside) |
| incremental session | `src/xp_incremental_parse_session.e` | window, position, element stack, status | feed, resume | `TokenSession`, `IncrementalSession` |
| Expat port session | `src/xp_expat_port_parse_session.e` | the same and the active processor | parse, resume | `TokenSession`, `ExpatPortSession` |
| external entity children | `xpact_native.c`, `xp_native_parser.e`, `xp_native_callback_handler.e`, `xp_parser.e` | parent pointer, byte counts, entity tables, the answers kept for replays | ask, create, read, merge, free, replay | `ExternalEntities` |
| handle registry, bridge | `xp_native_bridge_*.e`, `native/xpact_eiffel_*` | slots of live handles, a global function table | install, export, register, unregister | planned |
| GC critical section | `src/xp_gc_critical_section.e` | nesting, collector switched off | execute | planned |
| entities, DTD, attributes, content model, namespaces, encodings, position | `xp_parser.e`, `xp_attributes.e`, `xp_content_model.e`, ... | tables and stacks of the tokenizer | declare, look up, expand, decode | planned |
| dependency cache | `scripts/prepare_xpact_core.py` | a checkout named after its revision, a staging directory for each process | prepare, verify, rename, clean up | `DependencyCache`, `PinnedTree` |
| build | `scripts/build_implementations.py` | fingerprint, revision, manifest, run.json | build one, build all | `BuildOne` |
| paired benchmark | `scripts/compare_eiffel_benchmarks.py` | documents per sample, the rows of the report | calibrate, warm up, measure, publish | `PairedBenchmark` |
| catalog lane | `scripts/run_dual_catalog.py` | four qualified builds, run.json, reports | qualify, gate, measure, verify, publish, undo | `CatalogLane` |
| W3C runner and lane | `scripts/run_w3c_conformance.py`, `run_dual_w3c.py` | results, known failures, suite snapshot, run.json, reports | run a case, apply known failures, verify, publish, undo | `W3cConformance`, `W3cLane` |
| regression lane | `scripts/run_dual_regression.py` | results of each build, run.json | trace, life cycle, judge, publish | `RegressionLane` |
| campaign | `scripts/run_dual_jenkins.py`, `jenkins_xpact_summary.py`, `dual_jenkins_reports.py` | status of both lanes, summary, plots | run the lanes, summarise, plot, withdraw | `DualCampaign` |
| external entity resolution | `xp_local_external_entity_resolver.e` | a base directory | resolve a path, read a file | planned (paths only) |

How they interact. The application calls the C interface; a feeding call copies
its bytes to the input storage and hands the new slice to `XP_NATIVE_PARSER`
through a table of function pointers; that appends the slice to its own buffer
and runs `XP_PARSER` over the whole prefix; `XP_PARSER` calls the callback
handler, which calls the application, which may call the C interface again. All
of it is one thread. The interleavings are therefore between the steps of a
call and what the application does in the callbacks of that call, and between
the calls. The two sessions are separate implementations of the same promise,
prototypes that are to replace the replay; they share no state with it.

The scripts are ordinary processes. `run_dual_jenkins.py` calls the two lanes,
the lanes call `build_one` for each executable and then the benchmark or the
W3C runner, `build_one` calls `prepare_dependency`; exceptions go back the same
way, through handlers that remove reports and write run.json. The state they
share with others is outside of them: the working tree, the pinned checkout,
the executables, the W3C suite, the files of an earlier run.

What is hard in each part, and what makes it correct:

- *Replay.* Each chunk is parsed together with all before it and the first
  `delivered_callback_count` callbacks are suppressed. The count must be exact
  after every outcome of a call: accepted, suspended, deferred, waiting, failed,
  refused, finished, reset. Text grows: the callback with an old number may have
  a new end.
- *Deferral and shortcuts.* A token may be hidden for a while after it is
  complete, a start tag may be reported without a parse. Neither may be seen in
  the stream of callbacks, and a hidden token must come out in time.
- *Stops.* Flags set in a callback survive the call; a resume goes on exactly
  after the callback that suspended.
- *Input storage.* A region is handed out, filled, committed, consumed from the
  front and moved, by four different calls, over C ints.
- *External entities.* A child parser lives in one callback of its parent; the
  passes after that one must find its declarations, its byte count and its text
  under the number of that callback, and count none of them twice.
- *Sessions.* The window loses a token when its callbacks are made; the element
  stack, the counters and the processor must be those of the document, however
  it was cut.

- *Dependency cache.* Processes without a lock race to one rename; a checkout
  must appear whole, once, and never be replaced.
- *Builds.* Compilers read the tree for minutes while it is edited; the manifest
  must be true anyway.
- *Lanes.* Four builds, their controls, the measurement and hundreds of cases
  must be of one snapshot, or there is no report.
- *Failure.* A step, and then its handler, may fail; what run.json and the
  manifest of the plots say of the files must hold at every moment.
- *Verdicts.* Exit statuses are computed from results, lists and other exit
  statuses by several scripts, which must agree with the results and with each
  other.

`PROJECT.json` lists the hazards at their lines with the properties that watch
them, and those no property watches yet.

## Modules

`PrefixParse` is the tokenizer seen from outside. A document is the sequence of
the callbacks a complete parse would make, each with its kind and the bytes of
its token (`First`, `Last`) and the number of bytes after which a parse of a
prefix can make it (`Ready`). `Seen`, `Reported`, `Unfinished`, `MarkupEnd` and
`Accepts` answer what `parse_prefix`, `is_incomplete_markup_prefix` and the
parse verdict answer. `DocumentAssumption` states what makes such a description
consistent, `LayoutAssumption` (in `NativeReplay`) what the tokenizer adds: text
is made only inside an element (`xp_parser.e:2613`), a DOCTYPE holds
declarations and comments (`xp_parser.e:2231`), and a callback comes from before
the bad token or is not made until that token is met. A bad token (`BadFrom`, `BadAt`) stands for any error of the
grammar. The constant `Documents` is the set of documents; the variable `doc` is
the one the application feeds, chosen in the initial state and never changed, so
that one run covers several. The documents of the runs are real texts, given as
records in the `MC` modules.

`CallbackStream` is the abstract specification: an application supplies bytes
and is given callbacks. Each registered callback comes once and in order, text in
contiguous pieces, nothing while the parser is stopped or after a failure,
everything by the time the parse succeeds or fails. A failure has one of three
causes: the bytes supplied are not well formed, a resource limit refuses new
bytes, or the application aborted the parse. There is no buffer, no numbering
and no replay in it.

`NativeReplay` is one parser handle, the C structure, `XP_NATIVE_PARSER` and
`XP_NATIVE_CALLBACK_HANDLER` together. Its variables carry the names of the
fields next to them. A feeding call is `XML_Parse` or `XML_ResumeParser`,
followed in the same step by the branches of `parse_with_current_gc_policy` that
need no parse (`Refuse`, `Wait`) or by the preparation of a pass (`StartPass`).
A pass is one step per callback: `PassUnobserved`, `PassReplayed`,
`PassDelivered`, with the stop the application may ask for in it and the check
of the stop after it; `Direct` is the start tag emitted without a parse. `PassEnds`
is the verdict and the four `Return...` actions are what the call leaves behind
for each status. The other actions are the calls that do not parse. The one
C value that is not a function of the state is whether the C buffer is tight
(`native_buffer_spare_capacity`); it is chosen freely.

`NativeReplayProperties` states what a handle owes, with `CallbackStream`
instantiated over it, and `Steady`, the hypothesis of its theorems.
`MCNativeReplay` holds the documents; `MCSteadyReplay` has TLC confirm that those
of the passing run, and its application, are steady.

`InputBuffer` is the storage of the C structure: `xp_input_buffer` as a request
that either fits, or goes through the doubling loop (`Double`), the replacement
(`Replace`) or the failure of malloc (`NoMemory`); the calls that use it; and
`Consume`, the memmove of `xp_consume_input_prefix`. The input of `XML_Parse` is
in the application's memory or at any place of the storage (`Sources`, `Input`), as
in `tests/native/xpact_bridge_smoke.c:582-586`: bytes of the region, or bytes sent
before and sent again, which a growth reads from the storage it is about to free.
Bytes the application makes are numbered by their place in the input, so that a
byte in the wrong place is visible; `document` remembers what it has passed.
`memory` keeps what the code leaves beyond the committed length.

`TokenSession` is what the two sessions share: the window, the position, the
element stack, one operator for each kind of token. `IncrementalSession` adds
feed, resume and the loop `advance_available`; `ExpatPortSession` the
processors and the white space and declaration around the document element.
A call is one step per token, and two for an empty element, whose start and end
callbacks are made before the stop is looked at. In both the application clears
its stop request when it resumes. `RefusedMarkup` and `RootEnds` say what a document
itself says of its errors and of the end of its document element; with them
`FaultAssumption` and `PortFaultAssumption` ask of the documents that their error
(`BadFrom`, `BadAt`) is the first token the session refuses.

`ExternalEntities` is a family of handles: a document and the child parsers made
for the entities it refers to. A text is a sequence of tokens (a declaration, a
reference between declarations, in an entity value or in content, a use of a
declared entity, anything else); the declarations that name the external
entities are left out. `parser[h]` gathers the fields of the C structure, the
Eiffel parser and the handler that the children touch. `XML_Parse` and
`XML_ResumeParser` start a pass; a pass is one step per token, with `Ask` where
the external reference handler is called and `Replay` where an earlier answer is
repeated. Between `Ask` and `Answer` or `Refuse` the application makes and feeds
the child, whose `EndPass` merges what it found into the parent. A parser in
that callback waits, so the handles form a stack. The tables of general entities
stand for all that `merge_entity_context_from` copies. `MCExternalEntities` has
the texts.

The modules of the scripts extend one another, in the order in which the scripts
call one another, and each leaves the variables of those after it alone;
`ValidationScripts` frames every step for all of them and gives the whole.

`CommandRun` is what the scripts have in common. One `command` is at a step
(`at`) of a `lane`; an exception on its way is `error`, and `Handler` is the
except clause it goes to. `files` says of every report file whether it is of
this run, of an earlier one, a part or not there; `runjson` is the status in
each run.json. A publisher writes its files one by one, in the code's order:
`PublishAll` is the case where nothing happens in between, `PublishCut` each
place where a failure, an interrupt or a kill can. What is unusual takes one of
`events`; a handler that an event has led to fails freely.

`DependencyCache` is `prepare_dependency` for a set of processes, cut at each
operation that another process can come between; `PinnedTree` is what it
promises. `BuildOne` is `build_one`: build inputs are numbered by their edits, so
that a fingerprint is a number (`inputs`), what the compilers read another
(`used`), and `tree` the checkout they saw. `EditInputs`, `Commit` and
`ReplaceExecutable` are what others do. `PairedBenchmark` has one step per
sample; `foreign` remembers that an executable which gave evidence had been
replaced. `CatalogLane` holds also the gates that the W3C lane states in the same
words, and the except clause of both. `W3cConformance` is the runner as a pure
part (`Expected`, `Excluded`, `run_case`, `apply_known_failures`) and as a command; a case
of the catalog is a record of the attributes that decide anything. `W3cLane` runs
it with a snapshot of the suite (`edited`, `stale`). `RegressionLane` gives each
build an outcome set. `DualCampaign` runs both lanes, then `OwnStatus`, which is
`jenkins_xpact_summary.py`, and `PlotsAccepted`, which is
`dual_jenkins_reports.py`; both read the rows and results the lanes left.
`ValidationScripts` adds the steps that can come anywhere: `StepFails`,
`Interrupt`, `KillCommand`, the edits and the other process of the cache.
`MCValidationScripts` has the small catalog and lists.

The theorems are in modules of their own: `ReplayProofs` (the handle),
`ExternalEntitiesProofs` (the family of handles), `InputBufferProofs`,
`TokenSessionProofs` (lemmas of both sessions), `IncrementalSessionProofs`,
`ExpatPortSessionProofs`, `EvidenceProofs` (cache, builds and the reports of the
lanes) and `OutcomeProofs` (what a script leaves: its exit status, run.json and
the files of its report).

Operators whose comment says *Mutant* are not part of the models. Each is a
plausible slip in the definition that follows, and each property has one that
breaks it, so that a property which passes is known to be able to fail.

## What each run checks

Deadlock is not checked where the system may rightly stop: a document that is
all supplied, a handle that failed and is not reset. It is checked for
`InputBuffer` and `external_entities`, where a reset is always possible.

| run | documents and application | properties |
|---|---|---|
| `replay` | `<a>xy<b/></a>`; `<a ><!----><b></b></a>`; `<!DOCTYPE a[<!---->]><a>x</a>` and a line feed, with and without an amplification breach; `<!DOCTYPE a[<!----><!X>]><a/>`; `<a>x</b>`. The application suspends, aborts, resumes, stops between calls, switches deferral, resets | `ImplementsStream`, `DeliveredCountIsExact`, `NothingHeldBack`, `DeferralIsBounded`, `SuspensionsEnd`, `TypeOK` |
| `input_buffer` | three-bit ints, a capacity that doubles twice, requests of 0, 1, 2 and 4 bytes, their input in the application's memory or in the storage | `NoOverflow`, `RoomIsThere`, `SliceIsInput`, `TailIsRetained`, `GrowthEnds`, `TypeOK` |
| `incremental` | nested and empty elements with line feeds; a mismatched end tag; an invalid attribute; markup the session does not support. Every cut, every stop | `ImplementsStream`, `StackIsOpen`, `PositionIsRecount`, `KeepsOnlyIncompleteToken`, `StopIsObeyed`, `FinalChunkIsAnswered`, `TypeOK` |
| `expat_port` | a declaration and white space around the document element; a second root element; a comment in the prolog, shown at once or begun earlier; a DOCTYPE; character data before the document element; a mismatched end tag | `ImplementsStream`, `ProcessorIsPlace`, `KeepsOnlyIncompleteToken`, `StopIsObeyed`, `FinalChunkIsAnswered`, `TypeOK` |
| `external_entities` | a DTD that includes one external part twice, once through another, overlapping declarations, a value and content from external texts. Every cut; the handler reads the entity, refuses it, stops the parser; the document's parser is reset | `DeclarationsAreTheTexts`, `ChildrenCountedOnce`, `AskedOnce`, `AnswersRepeat`, `TypeInv` |
| `validation_scripts` | every command (campaign, catalog, W3C, builds, regression, conformance, paired benchmark); two unusual things anywhere, in a campaign one | `BuiltFromItsInputs`, `EvidenceIsOneSnapshot`, `FilesTellTheRun`, `OwnGate`, `PublisherAccepts`, `ConformanceExit`, `RegressionExit`, `PublishedOnce`, `CommandEnds`, `TypeOK` |

`external_entities` shows that whatever the cuts, the table at every token is the
one that reading all texts in place gives, that no child is asked for or counted
twice, and that each replayed reference finds its own answer.

`validation_scripts` shows that a manifest tells what was compiled; that the
report of a lane is there only if its builds, its measurement and its results
are of one snapshot of sources, executables and suite; that at any moment, in
the middle of a publication, a cleanup or after a kill, run.json and the plot manifest agree
with the files; that the exit status of the campaign follows from xpact's own
controls and cases alone, and those of the conformance and regression commands
from their results; that the plots never refuse what the lanes have completed;
that the checkout of the dependency appears whole and once; and that every
command ends.

The passing runs of the parser show that, with handlers registered before the first byte and
no stop in a directly emitted start tag, the replay implements the callback
stream, and so do both sessions.

Six runs are expected to violate their property. Each property restates a
line of the repository that the code does not keep:

- `handlers_changed`: the replay numbers only callbacks whose slot is set, so a
  handler registered in mid-document shifts the numbers and a callback comes
  twice (`xp_native_callback_handler.e:1516` against `:829`).
- `stop_in_direct_tag`: a stop inside the directly emitted start tag makes the
  call run the whole pass with nothing suppressed: the start tag comes again,
  while the parser is stopped (`xp_native_parser.e:1544`).
- `junk_direct_tag`: `<a/><b>` cut inside the second tag reports it, although in
  one piece the same bytes are an error (`xp_native_parser.e:1516` against
  `docs/chunked-parse-crc.md:19`).
- `failed_then_resumed`: after an error, a stop between the calls and a resume
  answer `XML_STATUS_OK` (`xpact_native.c:915` against
  `tests/native/xpact_bridge_smoke.c:543`).
- `expat_port_declaration`: `<` alone makes the prolog hand over to the content,
  which then refuses the XML declaration (`xp_expat_port_parse_session.e:227`
  against `docs/expat-port-spike.md:32`).
- `child_finished_empty`: a child parser that is ended by a final call without
  bytes keeps its declarations and its byte count to itself
  (`xpact_native.c:130` against `docs/libexpat-parity.md:173`).

### Bounds

The documents are short because each is chosen for the places a cut, a stop or
an end of deferral can fall in it, and the chunk lengths so that their sums fall
on all of them: inside and at the end of each token, inside text, at lengths
just below and above what ends a deferral. Longer documents repeat the same
situations. The chunk lengths are part of the document (`chunks`), and so is its
size, which bounds the bytes supplied. `MaxInput`, the ceiling on accumulated
input, refuses the last byte of the longest document; `amplifiedAt` breaks the
amplification limit in one of them after its text. `HandlerSets` has the sets of
slots that matter to the shortcuts: elements with and without text, observers of
the DOCTYPE, none. The habits `App` say what the application does in a run;
`changes_handlers` and `stops_in_direct_tag` are left out of the passing runs
because the findings above are what they lead to. In `expat_port` the first
chunk of a document with a declaration has at least five bytes (or none) for the
same reason (`ShowsDeclaration`); `AnyCut` lifts that.
In `external_entities` every text is at most six tokens; they are enough for a
child in a child, a repeated entity, a declaration that comes second and a pass
that replays each kind of reference. Only the application that always ends a
child with bytes is in the passing run (`finishes_empty` is the finding).
In `validation_scripts` the unusual things are bounded by `MaxEvents`: two let an
edit, a commit or a replaced executable meet a failure, a second edit or a kill,
and since handlers fail freely, one suffices for a failing handler. A campaign
runs both lanes and gets one. The catalog has four cases, one of each treatment:
required, of another edition, the reviewed erratum, optional; the lists of known
failures are empty, of a failure, and of an error and an engine that does not
run. Samples begin at 2 documents and stop at 5, which is no power of two times
2; one warmup and two pairs show both orders.
`IntMax = 7` with an initial capacity of 1 and a maximum of 4 gives two
doublings and a request refused at the limit; the theorems lift these bounds.

### Fairness

Parsing is synchronous: once called, a call goes on to its end, hence weak
fairness of the steps of a call (`InCall`, `advance_available`,
`call_processor`, `Double` and `Replace`). `SuspensionsEnd` and
`FinalChunkIsAnswered` also assume that the application resumes what it
suspended, weak fairness of the resume. Nothing is assumed of the other calls.

For the scripts: weak fairness of `Progress`, any next step of the command that
runs. `build_implementations.py`, `prepare_xpact_core.py` and the lanes give every
compiler, Git command, control, sample and engine a time limit; a paired
comparison that a user starts has one if `--timeout-seconds` is given, and
`CommandEnds` takes it to be given (or its executables to end). Nothing is
assumed of edits, of the other process or of failures.

## What is proved

`InputBufferProofs`, for every `IntMax`, first capacity, context size, set of
request sizes and document size with `2 * MaximumCapacity = IntMax + 1`:

- `StorageInvariant`: `Spec => []IInv`. `IInv` strengthens the checked
  invariants with what each byte of the storage is at every step
  (`HoldsSent`, `MadeAhead`), what the region handed out holds (`RegionIsNext`),
  that a growth can still read its input (`SourceIsThere`) and that the
  capacity reached by the loop is within reach of one more doubling
  (`GrowthFits`). The last is what makes `NoOverflow` inductive: the limit
  `INT_MAX / 2 + 1` on the request is exactly what keeps the doubling an int.
- `NeverOverflows`, `AlwaysRoom`, `SliceIsAlwaysInput`, `TailIsAlwaysRetained`
  and `StorageTypes` follow, each for the invariant of that meaning in the run.

`ReplayProofs`, for every document, set of chunks, limits and
application: `TypeCorrect`, `Spec => []TypeOK`. The inductive invariant adds
that a pass has numbered no more callbacks than it has gone through (one more
after a stop in a direct start tag), which bounds the numbers that index
`lengths` and become the suspending position.

Under the same generality: `DeferralBounded`,
`Spec => []DeferralIsBounded`. The decision is made when a call begins, of a token
found by one scan or remembered from the call before, and other calls (waits,
passes, suspensions, resumes) keep what was decided. The inductive invariant
`DeferInv` says in which way: a remembered start is that of a token of the
document that was not complete, or not followed far enough, at the length the
buffer has, and a pass goes to the byte before it (`Bound`). `OverlapIsOneToken` is
the fact about documents it rests on: two scans that end in overlapping tokens
have found the same one.

The replay itself: for every document, chunking, limit and set of
slots, and every steady application,

- `DeliveredCountExact`, `NothingIsHeldBack`: the two invariants of the run;
- `ReplayImplementsStream`: `NativeReplay` implements `CallbackStream`;
- `NothingTwice`: no callback is made again (`NoRepeat`, which two other runs
  violate).

`Steady` asks for what the findings below the table of runs show to be needed:
handlers are registered before the first byte (`handlers_changed`), nobody stops
the parser in the callback of a start tag that goes out without a parse
(`stop_in_direct_tag`), and no plain start tag lies beyond the first error
(`junk_direct_tag`). It also sets aside an amplification limit that the empty
input exceeds. Suspending, aborting, stopping between calls, resuming after a
failure, switching deferral and resetting are all in.

The inductive invariant `ReplayInv` has nine parts. `CountInv` is the core: with
`Had(k)` the number of registered callbacks up to the k-th, `delivered` is
`Had(given.cb)` between calls; in a pass `sequence` is `Had(at - 1)` and the larger
of both counts is `Had(given.cb)`, because a pass may go less far than an earlier
one; at a suspension it is `lastSuspend`. `LengthsInv` says the same of text: what
`lengths` has under the number of a text callback is what the application was
given of it. `HeldInv` is the converse: after a call, nothing the prefix up to
`Bound` contains is missing, which needs that a call which waits without a parse
adds nothing (`WaitsHideNothing`) and that a deferred plain start tag, which may go
out alone, is not one already given. `BufferInv` ties the buffer to what was
supplied, `StatusInv` the stop flags and statuses to the place in the call,
`GivenInv` and `DirectInv` bound what was given. The refinement then goes step by
step: a callback of a pass or the direct start tag is a `Deliver`
(`InCallDelivers`), a call is a `Supply`, a `Resume` or a refusal, the return from a
call a `Finish`, a `Fail` or a `Stop`, and the replayed callbacks are not seen
(`HiddenSteps`). That an error found in a shortened prefix is an error of all bytes
supplied is `ErrorIsFinal`.

`ExternalEntitiesProofs`, for every finite set of texts whose references lead to
lower `Depth`, every chunking and every application:

- `TypeCorrect`: `TypeInv`, every field of every parser;
- `ReferencesAskedOnce`: no reference is asked twice, whatever was replayed,
  suspended, refused or reset in between.

And for an application that never finishes a child by a call without text
(`Faithful`; `child_finished_empty` shows that the other loses declarations):

- `DeclarationsFollowTexts`: at every token of every pass the entity table is the
  one of the texts read in place;
- `RepeatedAnswers`: a replayed reference has the number it was answered under,
  and there its byte count;
- `ChildrenAreCounted`: the bytes of each child are counted once.

All follow from `Invariance`, `Spec => []IInv`. `Local` is the part for a single
parser. It speaks of a number `e`, the tokens delivered by earlier passes: what
is suppressed is the callbacks of the first `e` tokens (`Calls`), what has been
asked is the references up to where this pass or an earlier one came
(`AskedUpTo`), and for each of them table, count and text are kept under its
number (`KeptUpTo`). `e` cannot be read off the state, since tokens without a
callback leave no trace, so it is a bound variable of the invariant. `Children`,
`Stacked` and `Lowest` say that the parsers in a callback form a stack along
`Depth`; without them a child could be finished while another child of
the same parent waits. `Linked` ties a child to its parent: once it is done the
parent has counted it and has its bytes, and what it inherited is the table at
its reference. A waiting parser keeps its `pc`, so a step of the child is one of
the parser itself and of nothing below (`Active`).

`Declared` and `Weight`, which say what the texts mean, are recursive over the
places of the texts, and their recursion must be shown to be well founded before
anything follows from it. The library's theorem for that takes an operator. The
module uses sets in its place: `LeastNumber`, that a set of numbers has a
least member, is had from the well-foundedness of strict inclusion
(`FS_StrictSubsetOrderingWellFounded`); `Induction` states induction for a set of
numbers; places are ranked by the depth of their text and their position in it, and
`Recursion` builds the function rank by rank.

The sessions, for every document, every set of chunk lengths and every pattern of
stops and resumptions. `TokenSessionProofs` has what the two share, one lemma for
each kind of token:

- the window: `DataOK` has the types and that line and column are those of a
  recount; `GivenIsConsumed` ties the last callback to the bytes consumed.
  Between two tokens (`AllGiven`) a callback is made exactly when its token begins
  before `consumed`, and only text is cut in two; between the two callbacks of an
  empty element (`TagHalfGiven`) its tag is still at the front, whole.
- the stack: `StackFits` says that it names the elements of `OpenAfter`, the start
  tags made and not matched. What makes it inductive is `OpenIsCounted`, that an
  open element and those inside it are as many as the start tags from it on exceed
  the end tags: a next end tag then closes the innermost and no other. In an empty
  element both hold of the callback before (`StackInv`).
- the stream: each callback made goes on where the last one ended (`GoesOn`).

`IncrementalSessionProofs`: `SessionTypes`, `PositionCorrect`, `NothingKeptBack`
and `StopObeyed` from `IInv`; `StackCorrect` and `SessionImplementsStream`, that
`IncrementalSession` implements `CallbackStream`, from `FInv`, which adds `StackInv`
and that no callback made is one to refuse (`NotRefused`). The refinement turns on
errors. The session may fail only if the bytes supplied are in error, and only
when everything before is made: the token it refuses is refused by the document
too (`RefusesRefused`), so it is of the first such token; what is before that is
of earlier tokens (`BeforeFault`) and made (`AllBeforeError`). At the end of the
input the verdict of counter and stack is that of the document (`EmptyAccepts`,
`CompleteIsRoot`).

`ExpatPortSessionProofs`: `PortTypes`, `ProcessorFitsPlace`,
`PortKeepsNothingBack`, `PortStopObeyed`, `PortStackCorrect` and
`PortImplementsStream`. `Place` strengthens `ProcessorIsPlace` with the number of
document elements in every processor and with the half-made empty element, whose
end may be the end of the document element. For the refinement each refusal is
shown to be of the first token to refuse, at the byte where a parser tells it:
nothing is made in the prolog (`PrologMakesNothing`), what comes in the epilog is
the next callback (`NextIsFront`) after all elements are closed, where text that
has partly been made cannot be (`TextStaysOpen`). `PortImplementsStream` has the
hypothesis `ShowsDeclaration`, that the first bytes of a document show its
declaration, which is why no other processor meets one (`DeclarationTaken`);
`expat_port_declaration` shows that it is needed, and `MCExpatPortSession` has TLC
confirm that the documents of the passing run fulfil it. The other five theorems
need no hypothesis.

`EvidenceProofs`, for any set of processes: `CacheTypes`, and
`CacheImplementsPinnedTree`, that `DependencyCache` implements `PinnedTree`. The
inductive invariant `CacheInv` adds to the types that whoever is about to rename
has a verified staging directory of its own: this is what makes the rename
publish the pinned tree, and the guard of the rename what keeps it from
replacing one. The whole system inherits it: every step of a command is a step of
the cache or leaves it alone (`SystemPublishesOnce`).

The builds, for every catalog, list, benchmark size, number of
events and set of processes: `ManifestsAreTrue`, `Spec => []BuiltFromItsInputs`.
The inductive invariant `BuildInv` follows `build_one` from place to place: the
number of the fingerprint is at most what the compilers read, which is at most
the number now, so that equality at the second fingerprint closes the gap; and a
checkout once altered stays altered, so that the last verification covers the
compilation. All other steps of the scripts are shown to be `Quiet`: they keep
away from these places and only take finished builds into the rows of a lane.
The argument needs that edits are not undone (see below).

The reports, under the same generality: `ReportsAreOneSnapshot`,
`Spec => []EvidenceIsOneSnapshot`. Executables are replaced and suite files edited
at any step, also between a check and the use of what was checked, so no single
look is enough. The inductive invariant `SnapInv` says what each place of a lane
may rely on. `ForeignIsSeen` is its core: as long as a lane has no report,
evidence from a replaced executable has left a trace, a build recorded as failed,
or the build in hand replaced, or a benchmark executable replaced; the gate
finds the first (`GateQualifies`), the qualification the second, the last look
the third (`LookFinds`). `Gated` keeps the four builds of the lane as they passed,
`LastLooks` what the looks after the measurement or the last case have shown, in
their order, and `LanesBeginOnce` that neither lane writes into the evidence of
the other or runs twice. Each step of the scripts is one of a few kinds
(`Handling`, `Appends`, `Advances`, `Publishes`, `Outside`, `Still`), each with a
lemma. It uses `BuildInv` to conclude from equal fingerprints in the manifests
that the compilers read the same.

`OutcomeProofs`, under the same generality: `ConformanceStatus`,
`Spec => []ConformanceExit`. The runner keeps one result for each engine and case,
in the order of its two loops, whatever the engines answer (`InOrder`); before it
judges, either every case of both engines has one (`Whole`) or an error of the
suite has put a result of the harness there (`BrokeOff`). What it then writes is
known (`JudgedFrom`): the same results, those on the list marked, and after them
one result of the harness for each entry of the list that no result matches. The
verdict is read off that, without a list (`PlainVerdict`) and with one
(`MarkedVerdict`): for the second, a result that is unexpected must be shown to be
one of a case, or an entry that is stale, and conversely, for lists of any
(finite) size. `ConformanceInv` carries this from place to place, with the
reports of an earlier run removed before anything is judged, and
`ConformanceAlone` shows that nothing else in the system moves this command.

`RegressionStatusHolds`, `Spec => []RegressionExit`: results are there for
exactly the builds that were made (`JudgedAreRan`) and once (`JudgedOnce`), where
between documents and life cycle of a build the first are one ahead. It needs
from `SnapInv` that builds are appended in the order of the lane (`RowsInOrder`),
so that the build in hand has no row yet (`BuildIsNext`), and that four rows are
all four builds (`MissingDidNotRun`).

`FilesTellTheRunHolds`, `Spec => []FilesTellTheRun`. The property speaks of what
is there after any failure, and no part of it is inductive by itself: a status is
written at one place and the files at others. `FilesInv` ties the two by the place
of the command. `LaneTells`: a lane with a completed status has all its files and
is past its handler, one with a failed status has none and will write none, and a
lane that has not begun has no status, which is what keeps a campaign's first
lane true while the second runs. `PlaceTells` has what each place of the
publishers may rely on: reports before `complete`, the summary before the plots,
the plots before the campaign says `published`. `ManifestTells` has the order within
a set of files: a manifest comes last and nothing removes a file it names without
removing it (`CutFiles` has what a publication cut short leaves, `Removed` what a
handler removes). Each step is of one of four kinds: `Walks` writes no report,
`Working` works on the files of its own lane, `Paired` on those of the comparison,
`Publishing` on those of the campaign; that the sets of files do not meet
(`LaneNames`) settles the rest. Only the catalog and the comparison share files,
and never in one run.

`OwnGateHolds`, `Spec => []OwnGate`, and `PublisherNeverRefuses`,
`Spec => []PublisherAccepts`: what the campaign says of xpact, and what the
publisher of plots recomputes, follow from the reports of the lanes. `OwnInv`
says what those are worth by the place of the command. `RowsTell`: a build
either failed or ran its controls, one of the catalog that is `qualified` passed
them all (and one that passed them all is `qualified` as long as no executable was
replaced), and while nothing was edited inputs and revision are the first ones.
`CompareTells`: the comparison is valid from where it was validated on.
`ResultsTell`: there are no W3C results before the first case, fewer than all
while cases run, and from the end of the last one all of them in order, the first half those
of xpact. `LanesTell`: the status the campaign keeps of a lane is the one in its
run.json, which for W3C is that of the outcomes and for the catalog says
`gate_failed` only with four rows one of which is not `qualified`. `OwnTells`: from when the summary is written it says
what rows and results say, which nothing changes any more. A step that decides
nothing of this is shown to be `Plain` (rows and results stay or belong to
another lane, the places follow each other), and ten kinds of step decide something
(`CaseDecides`, `LanePublishDecides`, `NextLaneDecides` and so on). That the
publisher finds as many results of each engine as the catalog has cases, and as
many excluded, is a bijection between the two halves (`Halves`,
`SkippedAlike`).

`ScriptTypes`, `Spec => []TypeOK`. Its bounds are what takes work. The counters
of the rows are bounded by the events, because each edit and commit takes one
(`EventsBounded`) and what a build names was there when it looked (`RowsWithin`,
by way of `RowsStep`). That no more pairs are measured than were asked for needs
the phases of the comparison (`PhaseTyped`: at `pair` the pairs measured are half
the samples) and that nothing was measured before it began, in a campaign not even
by a lane that ran before (`NotMeasured`, from `LanesBeginOnce`). A step that is
not of the comparison `Rests`. Where the command is, its files and its events
follow from every step being `Typical`, an edit excepted.

The assumptions are those of the modules (`DocumentAssumption`,
`EntityAssumption`, `LayoutAssumption`, `ApplicationAssumption`, `SizesAssumption`, `SessionAssumption`,
`TokenAssumption`, `FaultAssumption`, `DeclarationAssumption`, `PortFaultAssumption`, `CommandAssumption`,
`BenchmarkAssumption`, `CatalogAssumption`, `KnownAssumption`,
`InvocationsAssumption`); TLC evaluates them in every run.

Only model-checked: liveness (`SuspensionsEnd`, `FinalChunkIsAnswered`,
`GrowthEnds`, `CommandEnds`), which is out of the prover's reach. Every invariant
and every other action or temporal property of the passing runs is a theorem.

## What is not modelled

In `NativeReplay`: the default handler, namespaces, explicitly named encodings
and partial characters, the cached DOCTYPE, external entity parsers (`ExternalEntities` has them), the error
codes of refused calls, and any call made on a handle inside its own callback
but the stop and the registration of handlers. The amplification check is
`amplifiedAt`, a number of bytes held: the estimate it compares is a constant of
the kind of parser (`amplification_estimate`, `xp_native_parser.e:2717-2723`), and
the limits are set before the first byte. Two details of a parse are left out: the full
parse of a chunk that puts `<` after the spaces of an unfinished plain start tag
with deferral off (`l_invalid_plain_start_suffix`), which only decides when an
input that is an error in any case is refused, and the look at a carriage return
in the final white space (`raw_cr_epilog_stop_status`), where a stop in its
default handler can turn a final success into a suspension or an error. In
`InputBuffer`: decoded against
raw counts, a second `XML_GetBuffer` inside a callback, a stop between
`XML_GetBuffer` and `XML_ParseBuffer`. In `ExternalEntities`: a handler
that succeeds without reading the entity, a child that outlives its callback,
deferral, external identifiers of the DOCTYPE, parameter entities with internal
values, text callbacks (so a stop in a child for content is never obeyed before
its pass ends), and resuming a parser that reported an error, which
`failed_then_resumed` treats. In the sessions: the scan inside a tag
(attributes are well formed or `Malformed`), `current_byte_count`,
`processor_transition_count`, the reserved stacks no code uses, and the
difference `stop_is_resumable` makes, which neither session looks at;
`complete_markup_end` ends any token at the first `>` outside quotes, which for a
comment or DOCTYPE that has one inside is not `Last`, and no document here has
such a token.
`ExpatPortSession` leaves out two branches its invariant `ProcessorIsPlace`
shows unreachable: text in the content with no element open.

In the scripts: an edit that is undone again, and an executable that is replaced
and put back, between two looks at it (fingerprints and hashes cannot see them;
edits are numbered upwards); an executable replaced between its identity run and
the hash of its manifest; a working tree or cache another command deletes; the
writing of run.json and the return that follows it as two steps; `fetch` and
`verify_checkout` as more than one step each; several workloads and more than one
csv per lane; two commands of the same run directory (each lane refuses a
directory that exists, and the conformance and paired scripts leave theirs to the user); the
statistics; the status words of the campaign's run.json other than running,
failed and published, and of the catalog lane's the word qualified, which it has
between the gate and the comparison. The prefixes XML1.1 and NS1.1 of a
recommendation are two names (`Later`). Of `run_w3c_conformance.py`: the separate executables of the
external entity lanes, `--write-known-failures`, the download of the suite. Of
`jenkins_xpact_summary.py`: its main function. `run_wsl_benchmarks.py` is one
sequential run with the publication of `compare_eiffel_benchmarks.py`, which is
modelled. The harnesses under reports/ and student/ made the evidence of single
reports and are called by nothing.

Command line, limits, facades and event handler classes have no state of their
own. Tests, native benchmarks, adapters and examples are part neither of the
parser nor of its gates.

## Plan

In this order, each with its runs and its theorems:

1. `ExpatApi`: the C interface with its error states, calls on a handle from its
   own callbacks as a call stack, the order of freeing parents and children, a
   child suspended in its final call. Invariants: an error survives until
   reset, no call returns to a freed structure.
2. `ParserHandles`: the registry's slots, their reuse, the bridge table,
   unregistration while handles live. `GcCriticalSection`: nesting and
   exceptions.
3. `PrefixScans`: the scans for the end of a DOCTYPE or a deferred token, which
   keep their state from chunk to chunk, against one scan of the whole; the
   cached DOCTYPE.
4. Pure algorithms against reference definitions: attribute tables and range
   sets, the content model, line and column against a recount, path
   containment of the local resolver, decoding and partial characters.
5. Entity expansion: recursion guard, depth, amplification.
