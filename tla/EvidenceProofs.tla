--------------------------- MODULE EvidenceProofs ---------------------------
(***************************************************************************)
(* What the evidence of the validation scripts rests on, for every         *)
(* catalog, every number of edits, commits and failures and any number of  *)
(* processes that prepare the dependency: the cache publishes the pinned   *)
(* checkout whole and once, an executable with a manifest was made of what *)
(* the manifest says, and a report of a lane is evidence of one snapshot.  *)
(*                                                                         *)
(* The cache: who is about to rename has a staging tree that was verified, *)
(* and nobody else can reach that tree.                                    *)
(*                                                                         *)
(* build_one holds no lock.  The argument follows its places: inputs only  *)
(* move on from the fingerprint, so that equality at the second            *)
(* fingerprint covers the compilers' reading in between; an altered        *)
(* checkout stays altered, so that its last verification covers it too.    *)
(* Every other step of the scripts keeps away from these places, and at    *)
(* most takes a finished build into the rows of its lane.                  *)
(***************************************************************************)
EXTENDS ValidationScripts, TLAPS

-----------------------------------------------------------------------------
(* The cache by itself.                                                    *)

(* What a rename publishes was verified.                                   *)
StagedIsVerified ==
    \A i \in Invocations : step[i] = "rename" => staging[i] = "pinned"

(* Whose call is verified found a checkout there: it is never removed.     *)
VerifiedIsThere ==
    \A i \in Invocations :
        step[i] = "verify" \/ answer[i] = "verified" => destination # "absent"

(* Who is not in a call has no answer yet.                                 *)
IdleHasNoAnswer ==
    \A i \in Invocations : step[i] = "idle" => answer[i] = "none"

CacheInv ==
    CacheTypeOK /\ StagedIsVerified /\ VerifiedIsThere /\ IdleHasNoAnswer

-----------------------------------------------------------------------------
(* The initial states: nobody has begun.                                   *)
LEMMA CacheInitInv == CacheInit => CacheInv
BY DEF CacheInit, CacheInv, CacheTypeOK, StagedIsVerified, VerifiedIsThere,
       IdleHasNoAnswer, Steps, Answers

(* Every step of an invocation keeps the invariant.                        *)
LEMMA InvocationInv ==
    ASSUME NEW i \in Invocations, CacheInv,
           \/ \E offline \in BOOLEAN : prepare_dependency(i, offline)
           \/ CacheStep(i) \/ Return(i) \/ CacheFault(i)
    PROVE  CacheInv'
<1> USE DEF CacheInv, CacheTypeOK, StagedIsVerified, VerifiedIsThere,
            IdleHasNoAnswer, Steps, Answers
<1>1. CASE \E offline \in BOOLEAN : prepare_dependency(i, offline)
  BY <1>1 DEF prepare_dependency, GoesTo, Finishes, Leaves
<1>2. CASE Fetch(i, "pinned")
  BY <1>2 DEF Fetch
<1>3. CASE VerifyStaging(i)
  BY <1>3 DEF VerifyStaging, GoesTo, Finishes, Leaves
<1>4. CASE Rename(i)
  BY <1>4 DEF Rename, GoesTo
<1>5. CASE Verify(i)
  BY <1>5 DEF Verify, Finishes, Leaves
<1>6. CASE Cleanup(i)
  BY <1>6 DEF Cleanup
<1>7. CASE Return(i)
  BY <1>7 DEF Return
<1>8. CASE \E a \in {"error", "interrupt"} : CacheFails(i, a)
  BY <1>8 DEF CacheFails, InCall, Finishes, Leaves
<1>9. CASE FetchStrange(i)
  BY <1>9 DEF FetchStrange, Fetch
<1>10. CASE Kill(i)
  BY <1>10 DEF Kill, GoesTo
<1>11. QED
  BY <1>1, <1>2, <1>3, <1>4, <1>5, <1>6, <1>7, <1>8, <1>9, <1>10
     DEF CacheStep, CacheFault

(* An edit of the checkout keeps it, and so does a step without effect.    *)
LEMMA AlterInv ==
    ASSUME CacheInv, AlterCheckout \/ UNCHANGED cacheVars
    PROVE  CacheInv'
BY DEF CacheInv, CacheTypeOK, StagedIsVerified, VerifiedIsThere,
       IdleHasNoAnswer, AlterCheckout, cacheVars

(* Every step is one of the cache.                                         *)
LEMMA CacheStepInv == CacheInv /\ [CacheNext]_cacheVars => CacheInv'
<1> SUFFICES ASSUME CacheInv, [CacheNext]_cacheVars PROVE CacheInv'
  OBVIOUS
<1>1. CASE \E i \in Invocations :
            \/ \E offline \in BOOLEAN : prepare_dependency(i, offline)
            \/ CacheStep(i) \/ Return(i) \/ CacheFault(i)
  BY <1>1, InvocationInv
<1>2. CASE AlterCheckout \/ UNCHANGED cacheVars
  BY <1>2, AlterInv
<1>3. QED
  BY <1>1, <1>2 DEF CacheNext

(* The cache's own type correctness, for any number of invocations.        *)
THEOREM CacheTypes == CacheSpec => []CacheTypeOK
<1>1. CacheInv => CacheTypeOK
  BY DEF CacheInv
<1>2. QED
  BY <1>1, CacheInitInv, CacheStepInv, PTL DEF CacheSpec

-----------------------------------------------------------------------------
(* A step of an invocation publishes the pinned tree, or changes nothing   *)
(* that others see: no step removes or replaces the established checkout.  *)
LEMMA InvocationPublishes ==
    ASSUME NEW i \in Invocations, CacheInv,
           \/ \E offline \in BOOLEAN : prepare_dependency(i, offline)
           \/ CacheStep(i) \/ Return(i) \/ CacheFault(i)
    PROVE  Published!Publish \/ UNCHANGED destination
<1>1. CASE Rename(i)
  BY <1>1 DEF Rename, GoesTo, Published!Publish, CacheInv, StagedIsVerified
<1>2. CASE ~Rename(i)
  BY <1>2 DEF prepare_dependency, CacheStep, CacheFault, Fetch, VerifyStaging,
              Verify, Cleanup, Return, CacheFails, FetchStrange, Kill, GoesTo,
              Finishes
<1>3. QED
  BY <1>1, <1>2

(* Every step of the cache is a step or a stutter of the pinned tree.      *)
LEMMA CachePublishes ==
    CacheInv /\ [CacheNext]_cacheVars => [Published!Next]_destination
<1> SUFFICES ASSUME CacheInv, [CacheNext]_cacheVars
             PROVE  Published!Next \/ UNCHANGED destination
  OBVIOUS
<1>1. CASE \E i \in Invocations :
            \/ \E offline \in BOOLEAN : prepare_dependency(i, offline)
            \/ CacheStep(i) \/ Return(i) \/ CacheFault(i)
  BY <1>1, InvocationPublishes DEF Published!Next
<1>2. CASE AlterCheckout \/ UNCHANGED cacheVars
  BY <1>2 DEF AlterCheckout, cacheVars, Published!Next, Published!Alter
<1>3. QED
  BY <1>1, <1>2 DEF CacheNext

(* The cache implements the pinned tree: whatever the number of processes, *)
(* wherever they fail or are killed, what stands under the name of the     *)
(* revision appeared whole, and was neither replaced nor removed.          *)
THEOREM CacheImplementsPinnedTree == CacheSpec => PublishedOnce
<1>1. CacheInit => Published!Init
  BY DEF CacheInit, Published!Init
<1>2. QED
  BY <1>1, CacheInitInv, CacheStepInv, CachePublishes, PTL
     DEF CacheSpec, PublishedOnce, Published!Spec

-----------------------------------------------------------------------------
(* The cache inside the system of scripts.                                 *)

(* A step of the system is a step of the cache or none of its business.    *)
LEMMA StepOfCache == [Next]_vars => [CacheNext]_cacheVars
<1> SUFFICES ASSUME [Next]_vars PROVE CacheNext \/ UNCHANGED cacheVars
  OBVIOUS
<1>0. "build" \in Invocations /\ "other" \in Invocations
  BY InvocationsAssumption
<1>1. CASE Build
  <2>1. CASE CallPrepare
    BY <1>0, <2>1 DEF CallPrepare, CacheNext
  <2>2. CASE TakePrepared
    BY <1>0, <2>2 DEF TakePrepared, CacheNext
  <2>3. CASE BeginBuild \/ Compile \/ CheckInputs \/ WriteManifest \/ BuildFails
    BY <2>3 DEF BeginBuild, Compile, CheckInputs, WriteManifest, BuildFails
  <2>4. QED
    BY <1>1, <2>1, <2>2, <2>3 DEF Build, BuildStep
<1>2. CASE Tools \/ Builds \/ Compare \/ CatalogOrLane \/ Conformance \/ W3c
           \/ Regression \/ Campaign \/ StepFails \/ Abort \/ Edits \/ EditsSuite
  BY <1>2 DEF Tools, Builds, Compare, CatalogOrLane, Conformance, W3c,
              Regression, Campaign, StepFails, Abort, Edits, EditsSuite
<1>3. CASE Prepare \/ OtherBegins \/ OtherGoesOn \/ OtherFails
  BY <1>0, <1>3 DEF Prepare, OtherBegins, OtherGoesOn, OtherFails, CacheNext
<1>4. CASE PrepareFails
  BY <1>0, <1>4 DEF PrepareFails, CacheNext, CacheFault
<1>5. CASE Interrupt
  BY <1>0, <1>5 DEF Interrupt, CacheNext, CacheFault
<1>6. CASE KillCommand
  BY <1>0, <1>6 DEF KillCommand, CacheNext, CacheFault
<1>7. CASE Ended \/ UNCHANGED vars
  BY <1>7 DEF Ended, vars, cacheVars
<1>8. QED
  BY <1>1, <1>2, <1>3, <1>4, <1>5, <1>6, <1>7 DEF Next, Progress

(* The cache inside the system keeps its invariant.                        *)
LEMMA CacheInside == Spec => []CacheInv
<1>1. Init => CacheInv
  BY CacheInitInv DEF Init
<1>2. CacheInv /\ [Next]_vars => CacheInv'
  BY StepOfCache, CacheStepInv
<1>3. QED
  BY <1>1, <1>2, PTL DEF Spec

(* No command, whatever it does and wherever it fails, is interrupted or   *)
(* killed, publishes anything but the pinned checkout, or takes it away.   *)
THEOREM SystemPublishesOnce == Spec => PublishedOnce
<1>1. Init => CacheInit
  BY DEF Init
<1>2. Spec => CacheSpec
  BY <1>1, StepOfCache, PTL DEF Spec, CacheSpec
<1>3. QED
  BY <1>2, CacheImplementsPinnedTree

-----------------------------------------------------------------------------
(* The builds.                                                             *)

Rows ==
    [implementation : Implementations \cup {"none"}, assertions : BOOLEAN,
     status : {"none", "running", "failed", "verified", "qualified", "executed"},
     inputs : Nat, revision : Nat, used : Nat,
     tree : {"absent", "pinned", "altered"},
     outcomes : SUBSET {"PASS", "FAIL", "broken"}]

GoodRows == {r \in Rows : MadeOf(r)}

(* Where build_one is, and where a lane handles its builds.                *)
BuildPlaces == {"prepare", "compile", "check", "recheck", "manifest"}
LanePlaces ==
    BuildPlaces \cup {"begin", "suite", "tools", "build", "built", "controls",
                      "qualify", "trace", "lifecycle"}

RowsAreGood ==
    /\ build \in GoodRows
    /\ rows \in [Profiles -> Seq(GoodRows)]
    /\ source \in [Implementations -> Nat] /\ head \in Nat

LaneIsKnown == at \in LanePlaces => lane \in Profiles

ControlsOfVerified == at \in {"controls", "qualify"} => build.status = "verified"

(* A call of prepare_dependency lives at its two places only.              *)
CallsAtPlaces ==
    at \notin {"prepare", "recheck", "ended"} => step["build"] = "idle"

(* The inputs of the build in progress: taken first, read next, and the    *)
(* same when they are taken again.                                         *)
InputsFollow ==
    at \in BuildPlaces =>
        /\ build.implementation \in Implementations /\ build.status = "running"
        /\ at \in {"prepare", "recheck"} => build.implementation = "xpact-core"
        /\ build.inputs <= source[build.implementation]
        /\ at = "check" => /\ build.inputs <= build.used
                           /\ build.used <= source[build.implementation]
        /\ at \in {"recheck", "manifest"} => build.used = build.inputs

(* The checkout that was compiled.                                         *)
CheckoutFollows ==
    at \in BuildPlaces /\ build.implementation = "xpact-core" =>
        /\ at = "compile" => destination # "absent"
        /\ at \in {"check", "recheck"} =>
            /\ build.tree # "absent"
            /\ build.tree = "altered" => destination = "altered"
        /\ at = "recheck" /\ answer["build"] = "verified" => build.tree = "pinned"
        /\ at = "manifest" => build.tree = "pinned"

BuildInv ==
    /\ RowsAreGood /\ LaneIsKnown /\ ControlsOfVerified /\ CallsAtPlaces
    /\ InputsFollow /\ CheckoutFollows

-----------------------------------------------------------------------------
(* A step that keeps away from build_one: it neither comes from its places *)
(* nor goes there, and only a good row is appended.                        *)
Quiet ==
    /\ at \notin BuildPlaces \cup {"ended"} /\ at' \notin BuildPlaces
    /\ at' \in LanePlaces => lane' \in Profiles
    /\ at' \in {"controls", "qualify"} => build'.status = "verified"
    /\ build' \in GoodRows /\ rows' \in [Profiles -> Seq(GoodRows)]
    /\ UNCHANGED <<source, head, cacheVars>>

(* Such a step keeps the invariant.                                        *)
LEMMA QuietKeeps == BuildInv /\ Quiet => BuildInv'
BY DEF BuildInv, Quiet, RowsAreGood, LaneIsKnown, ControlsOfVerified,
       CallsAtPlaces, InputsFollow, CheckoutFollows, LanePlaces, BuildPlaces,
       cacheVars

(* The empty row is good, and so is a failed one.                          *)
LEMMA EmptyIsGood == NoBuild \in GoodRows
BY DEF NoBuild, GoodRows, Rows, MadeOf, Implementations

(* A change of the status, or of the outcomes, leaves a row good, when it  *)
(* was verified or has failed.                                             *)
LEMMA StatusIsGood ==
    ASSUME NEW r \in GoodRows, NEW s \in {"failed", "qualified", "executed"},
           r.status = "verified" \/ s = "failed"
    PROVE  [r EXCEPT !.status = s] \in GoodRows
<1>1. [r EXCEPT !.status = s] \in Rows
  BY DEF GoodRows, Rows
<1>2. MadeOf([r EXCEPT !.status = s])
  BY DEF GoodRows, Rows, MadeOf
<1>3. QED
  BY <1>1, <1>2 DEF GoodRows

LEMMA OutcomesAreGood ==
    ASSUME NEW r \in GoodRows, NEW o \in SUBSET {"PASS", "FAIL", "broken"}
    PROVE  /\ [r EXCEPT !.outcomes = o] \in GoodRows
           /\ [r EXCEPT !.outcomes = o].status = r.status
<1>1. [r EXCEPT !.outcomes = o] \in Rows
  BY DEF GoodRows, Rows
<1>2. MadeOf([r EXCEPT !.outcomes = o])
  BY DEF GoodRows, Rows, MadeOf
<1>3. QED
  BY <1>1, <1>2 DEF GoodRows, Rows

(* Appending a good row keeps the rows good, and empties the build.        *)
LEMMA AppendIsGood ==
    ASSUME RowsAreGood, lane \in Profiles, NEW r \in GoodRows, Append1(r)
    PROVE  build' \in GoodRows /\ rows' \in [Profiles -> Seq(GoodRows)]
BY EmptyIsGood DEF RowsAreGood, Append1

(* An exception goes to a handler, which is none of the places.            *)
LEMMA HandlerIsElsewhere ==
    Handler \in {"discard", "undo", "withdraw", "abort"}
BY DEF Handler

(* Short sequences over a set.                                             *)
LEMMA ShortSequences ==
    ASSUME NEW S, NEW a \in S, NEW b \in S, NEW c \in S, NEW d \in S
    PROVE  <<a, b>> \in Seq(S) /\ <<a, b, c, d>> \in Seq(S)
OBVIOUS

(* The next build of a lane is of an implementation, in a configuration.   *)
LEMMA NextIsKnown ==
    ASSUME RowsAreGood, lane \in Profiles, ~AllBuilt
    PROVE  NextBuild[1] \in Implementations /\ NextBuild[2] \in BOOLEAN
<1> DEFINE n == Len(rows[lane]) + 1
<1>1. rows[lane] \in Seq(GoodRows)
  BY DEF RowsAreGood
<1>2. n \in 1..Len(Order(lane)) /\ NextBuild = Order(lane)[n]
  BY <1>1 DEF AllBuilt, NextBuild, Order
<1>3. Order(lane) \in Seq(Implementations \X BOOLEAN)
  <2>1. /\ <<"xpact", TRUE>> \in Implementations \X BOOLEAN
        /\ <<"xpact-core", TRUE>> \in Implementations \X BOOLEAN
        /\ <<"xpact", FALSE>> \in Implementations \X BOOLEAN
        /\ <<"xpact-core", FALSE>> \in Implementations \X BOOLEAN
    BY DEF Implementations
  <2>2. QED
    BY <2>1, ShortSequences, Zenon DEF Order
<1>4. NextBuild \in Implementations \X BOOLEAN
  BY <1>2, <1>3
<1>5. QED
  BY <1>4

-----------------------------------------------------------------------------
(* The steps that leave build, rows, sources and cache alone are quiet as  *)
(* soon as they move between places that are not those of build_one.       *)
Elsewhere ==
    /\ at \notin BuildPlaces \cup {"ended"} /\ at' \notin BuildPlaces
    /\ at' \in LanePlaces => lane' \in Profiles
    /\ at' \notin {"controls", "qualify"}
    /\ UNCHANGED <<buildVars, inputVars, cacheVars>>

LEMMA ElsewhereIsQuiet == BuildInv /\ Elsewhere => Quiet
BY DEF BuildInv, RowsAreGood, Elsewhere, Quiet, buildVars, inputVars

(* The comparison.                                                         *)
LEMMA CompareIsElsewhere == Compare => Elsewhere
<1> SUFFICES ASSUME Compare PROVE Elsewhere
  OBVIOUS
<1> USE DEF Compare, Elsewhere, BuildPlaces, LanePlaces
<1>1. CASE StartComparison \/ RefuseComparison \/ Identify \/ EndComparison
  BY <1>1 DEF StartComparison, RefuseComparison, Identify, EndComparison, Goto,
              Exit
<1>2. CASE SampleFirst \/ Calibrate
  BY <1>2, HandlerIsElsewhere
     DEF SampleFirst, Calibrate, Double, Raise, Goto, whereVars
<1>3. CASE Warmup \/ MeasurePair
  BY <1>3 DEF Warmup, MeasurePair, Goto, whereVars
<1>4. CASE PublishComparison \/ PublishComparisonCut
  BY <1>4, HandlerIsElsewhere
     DEF PublishComparison, PublishComparisonCut, PublishAll, PublishCut, Goto,
         Raise, Killed, Exit
<1>5. CASE Discard
  BY <1>5 DEF Discard, AfterDiscard, Exit, Killed
<1>6. QED
  BY <1>1, <1>2, <1>3, <1>4, <1>5 DEF BenchStep

(* The commands that build nothing, and the end of a campaign.             *)
LEMMA ConformanceIsElsewhere == Conformance => Elsewhere
<1> SUFFICES ASSUME Conformance PROVE Elsewhere
  OBVIOUS
<1> USE DEF Conformance, Elsewhere, BuildPlaces, LanePlaces, laneVars
<1>1. CASE StartConformance \/ Setup \/ RunConformanceCase \/ SetupError
  BY <1>1 DEF StartConformance, Setup, RunConformanceCase, SetupError, Goto,
              Exit, whereVars
<1>2. CASE Judge \/ WriteReports \/ EndConformance
  BY <1>2, HandlerIsElsewhere
     DEF Judge, WriteReports, EndConformance, PublishAll, PublishCut, Goto,
         Raise, Killed, Exit
<1>3. QED
  BY <1>1, <1>2 DEF ConformanceStep

LEMMA CampaignIsElsewhere == Campaign => Elsewhere
<1> SUFFICES ASSUME Campaign PROVE Elsewhere
  OBVIOUS
<1> USE DEF Campaign, Elsewhere, BuildPlaces, LanePlaces, elsewhere, laneVars
<1>1. CASE StartCampaign \/ NextLane
  BY <1>1 DEF StartCampaign, NextLane, Goto, Exit, Lanes, Profiles
<1>2. CASE LaneReturns \/ LaneFails
  BY <1>2 DEF LaneReturns, LaneFails, LaneEnds
<1>3. CASE PublishSummary \/ PublishPlots
  BY <1>3, HandlerIsElsewhere
     DEF PublishSummary, PublishPlots, PublishAll, PublishCut, Goto, Raise,
         Killed, Exit
<1>4. CASE Finish \/ Withdraw \/ WithdrawLocked \/ WithdrawBroken
  BY <1>4 DEF Finish, Withdraw, WithdrawLocked, WithdrawBroken, Exit, Killed
<1>5. QED
  BY <1>1, <1>2, <1>3, <1>4 DEF CampaignStep

-----------------------------------------------------------------------------
(* What the lanes do with a build: it is appended to the rows when it has  *)
(* failed, or was verified and its controls ran.                           *)
LEMMA BuildsAreQuiet == BuildInv /\ (Tools \/ Builds) => Quiet
<1> SUFFICES ASSUME BuildInv, Tools \/ Builds PROVE Quiet
  OBVIOUS
<1> USE DEF Quiet, BuildPlaces, LanePlaces, BuildInv
<1>1. CASE Tools
  BY <1>1 DEF Tools, Toolchain, Goto, LaneIsKnown, laneVars, buildVars,
              inputVars, RowsAreGood
<1>2. CASE RecordBuild /\ Builds
  <2>1. RowsAreGood /\ lane \in Profiles /\ build \in GoodRows /\ Append1(build)
    BY <1>2 DEF RecordBuild, RowsAreGood, Profiles
  <2>2. QED
    BY <1>2, <2>1, AppendIsGood DEF RecordBuild, Builds, Goto, inputVars
<1>3. CASE (StartBuilds \/ EndBuilds \/ EndBuildsBadly) /\ Builds
  BY <1>3 DEF StartBuilds, EndBuilds, EndBuildsBadly, Builds, Exit, Profiles,
              buildVars, inputVars, RowsAreGood
<1>4. QED
  BY <1>1, <1>2, <1>3 DEF Builds

LEMMA CatalogOrLaneIsQuiet == BuildInv /\ CatalogOrLane => Quiet
<1> SUFFICES ASSUME BuildInv, CatalogOrLane PROVE Quiet
  OBVIOUS
<1>0. /\ RowsAreGood /\ LaneIsKnown /\ ControlsOfVerified
      /\ build \in GoodRows
      /\ UNCHANGED <<source, head, cacheVars>>
  BY DEF BuildInv, CatalogOrLane, inputVars, RowsAreGood
<1> USE DEF BuildPlaces, LanePlaces
<1>1. CASE ValidateBuild
  <2>1. build' \in GoodRows
    BY <1>0, <1>1, StatusIsGood DEF ValidateBuild, Failed
  <2>2. QED
    BY <1>0, <1>1, <2>1
       DEF ValidateBuild, Quiet, RowsAreGood, LaneIsKnown, Goto, whereVars
<1>2. CASE RunControls
  <2>1. PICK o \in SUBSET {"PASS", "FAIL", "broken"} :
          build' = [build EXCEPT !.outcomes = o]
    BY <1>2 DEF RunControls
  <2>2. build' \in GoodRows /\ build'.status = "verified"
    BY <1>0, <1>2, <2>1, OutcomesAreGood DEF RunControls, ControlsOfVerified
  <2>3. QED
    BY <1>0, <1>2, <2>2 DEF RunControls, Quiet, RowsAreGood, LaneIsKnown, Goto
<1>3. CASE RecordQualified
  <2>1. PICK r \in GoodRows : Append1(r)
    BY <1>0, <1>3, StatusIsGood DEF RecordQualified, ControlsOfVerified
  <2>2. lane \in Profiles
    BY <1>3 DEF RecordQualified, Profiles, Lanes
  <2>3. QED
    BY <1>0, <1>3, <2>1, <2>2, AppendIsGood DEF RecordQualified, Quiet, Goto
<1>4. CASE RecordFailed
  <2>1. Append1(build) /\ lane \in Profiles
    BY <1>4 DEF RecordFailed, Profiles
  <2>2. QED
    BY <1>0, <1>4, <2>1, AppendIsGood DEF RecordFailed, Quiet, Goto
<1>5. CASE CatalogGate \/ Measure \/ ValidateComparison \/ ValidateSources
           \/ PublishCatalog \/ CompleteCatalog
  BY <1>0, <1>5, HandlerIsElsewhere
     DEF CatalogGate, Measure, ValidateComparison, ValidateSources,
         PublishCatalog, CompleteCatalog, PublishAll, PublishCut, Goto, Raise,
         Killed, Exit, Quiet, laneVars, buildVars, RowsAreGood
<1>6. CASE Undo \/ UndoCut
  BY <1>0, <1>6
     DEF Undo, UndoCut, AfterUndo, Exit, Killed, Quiet, laneVars, buildVars,
         RowsAreGood
<1>7. CASE StartLane \/ EndLane
  BY <1>0, <1>7
     DEF StartLane, EndLane, Exit, Quiet, laneVars, buildVars, RowsAreGood,
         Profiles
<1>8. CASE BeginLane("catalog", "tools") \/ BeginLane("w3c", "suite")
  BY <1>0, <1>8
     DEF BeginLane, Goto, Quiet, laneVars, buildVars, RowsAreGood, Profiles,
         Lanes
<1>9. QED
  BY <1>1, <1>2, <1>3, <1>4, <1>5, <1>6, <1>7, <1>8
     DEF CatalogOrLane, CatalogStep

LEMMA W3cIsQuiet == BuildInv /\ W3c => Quiet
<1> SUFFICES ASSUME BuildInv, W3c PROVE Quiet
  OBVIOUS
<1>0. /\ RowsAreGood /\ LaneIsKnown /\ ControlsOfVerified
      /\ build \in GoodRows
      /\ UNCHANGED <<source, head, cacheVars>>
  BY DEF BuildInv, W3c, inputVars, RowsAreGood
<1> USE DEF BuildPlaces, LanePlaces
<1>1. CASE RecordExecuted
  <2>1. PICK r \in GoodRows : Append1(r)
    BY <1>0, <1>1, StatusIsGood DEF RecordExecuted, ControlsOfVerified
  <2>2. lane \in Profiles
    BY <1>1 DEF RecordExecuted, Profiles, Lanes
  <2>3. QED
    BY <1>0, <1>1, <2>1, <2>2, AppendIsGood DEF RecordExecuted, Quiet, Goto
<1>2. CASE PrepareSuite \/ W3cGate \/ BeginEngine \/ CheckInput
  BY <1>0, <1>2, HandlerIsElsewhere
     DEF PrepareSuite, W3cGate, BeginEngine, CheckInput, Goto, Raise, Quiet,
         LaneIsKnown, laneVars, buildVars, RowsAreGood
<1>3. CASE RunW3cCase
  BY <1>0, <1>3 DEF RunW3cCase, Goto, Quiet, buildVars, RowsAreGood
<1>4. CASE RecheckInput
  <2>1. /\ at = "recheck input" /\ UNCHANGED laneVars
        /\ at' \in {Handler, "matrix", "engine", "input"}
    BY <1>4 DEF RecheckInput, Goto, Raise
  <2>2. QED
    BY <1>0, <2>1, HandlerIsElsewhere DEF Quiet, laneVars, buildVars, RowsAreGood
<1>5. CASE CheckMatrix \/ CheckW3cSources \/ CheckW3cArtifacts
  BY <1>0, <1>5, HandlerIsElsewhere
     DEF CheckMatrix, CheckW3cSources, CheckW3cArtifacts, Goto, Raise, Quiet,
         laneVars, buildVars, RowsAreGood
<1>6. CASE PublishW3c \/ CompleteW3c
  BY <1>0, <1>6, HandlerIsElsewhere
     DEF PublishW3c, CompleteW3c, PublishAll, PublishCut, Goto, Raise, Killed,
         Exit, Quiet, laneVars, buildVars, RowsAreGood
<1>7. QED
  BY <1>1, <1>2, <1>3, <1>4, <1>5, <1>6 DEF W3c, W3cStep

LEMMA RegressionIsQuiet == BuildInv /\ Regression => Quiet
<1> SUFFICES ASSUME BuildInv, Regression PROVE Quiet
  OBVIOUS
<1>0. /\ RowsAreGood /\ LaneIsKnown /\ build \in GoodRows
      /\ UNCHANGED <<source, head, cacheVars>>
  BY DEF BuildInv, Regression, inputVars, RowsAreGood
<1> USE DEF BuildPlaces, LanePlaces
<1>1. CASE SkipFailed /\ Append1(build)
  <2>1. lane \in Profiles
    BY <1>1 DEF SkipFailed, Profiles
  <2>2. QED
    BY <1>0, <1>1, <2>1, AppendIsGood DEF SkipFailed, Quiet, Goto
<1>2. CASE SkipFailed /\ ~Append1(build)
  BY <1>0, <1>2 DEF SkipFailed, Quiet, Goto, buildVars, RowsAreGood, Profiles
<1>3. CASE RunLifecycle
  <2>1. lane \in Profiles /\ Append1(build)
    BY <1>0, <1>3 DEF RunLifecycle, LaneIsKnown
  <2>2. QED
    BY <1>0, <1>3, <2>1, AppendIsGood DEF RunLifecycle, Quiet, Goto
<1>4. CASE StartRegression \/ TraceCases
  BY <1>0, <1>4
     DEF StartRegression, TraceCases, Goto, Quiet, LaneIsKnown, Profiles,
         otherThanJudged, laneVars, buildVars, RowsAreGood
<1>5. CASE EndTraces \/ PublishRegression
  BY <1>0, <1>5, HandlerIsElsewhere
     DEF EndTraces, PublishRegression, PublishAll, PublishCut, Goto, Raise,
         Killed, Exit, Quiet, otherThanJudged, laneVars, buildVars, RowsAreGood
<1>6. CASE EndRegression \/ AbortRegression
  BY <1>0, <1>6
     DEF EndRegression, AbortRegression, Exit, Quiet, otherThanJudged, laneVars,
         buildVars, RowsAreGood
<1>7. QED
  BY <1>1, <1>2, <1>3, <1>4, <1>5, <1>6 DEF Regression, RegressionStep

-----------------------------------------------------------------------------
(* build_one, step by step.                                                *)

(* The first fingerprint.                                                  *)
LEMMA BeginBuildKeeps ==
    BuildInv /\ Build /\ BeginBuild => BuildInv'
<1> SUFFICES ASSUME BuildInv, Build, BeginBuild PROVE BuildInv'
  OBVIOUS
<1> DEFINE i == NextBuild[1]
<1>1. lane \in Profiles /\ RowsAreGood /\ at = "build"
  BY DEF BuildInv, BeginBuild, LaneIsKnown, LanePlaces
<1>2. i \in Implementations /\ NextBuild[2] \in BOOLEAN
  BY <1>1, NextIsKnown DEF BeginBuild
<1>3. source[i] \in Nat /\ Revision(i) \in Nat
  BY <1>1, <1>2 DEF RowsAreGood, Revision
<1>4. build' = [NoBuild EXCEPT !.implementation = i,
                               !.assertions = NextBuild[2],
                               !.status = "running",
                               !.inputs = source[i],
                               !.revision = Revision(i)]
  BY DEF BeginBuild
<1>5. /\ build' \in GoodRows /\ build'.implementation = i
      /\ build'.inputs = source[i] /\ build'.status = "running"
  <2> HIDE DEF i
  <2>1. QED
    BY <1>2, <1>3, <1>4 DEF NoBuild, GoodRows, Rows, MadeOf
<1>6. /\ at' = IF i = "xpact-core" THEN "prepare" ELSE "compile"
      /\ UNCHANGED <<lane, rows, source, head, cacheVars>>
  BY DEF BeginBuild, Goto, Build, inputVars
<1> HIDE DEF i
<1>7. QED
  BY <1>1, <1>2, <1>3, <1>5, <1>6
     DEF BuildInv, RowsAreGood, LaneIsKnown, ControlsOfVerified, CallsAtPlaces,
         InputsFollow, CheckoutFollows, LanePlaces, BuildPlaces, cacheVars,
         Implementations

(* The call of prepare_dependency, and what is made of its answer.         *)
LEMMA CallPrepareKeeps ==
    BuildInv /\ CacheInv /\ Build /\ CallPrepare => BuildInv'
<1> SUFFICES ASSUME BuildInv, CacheInv, Build, CallPrepare PROVE BuildInv'
  OBVIOUS
<1>1. "build" \in Invocations
  BY InvocationsAssumption
<1>2. /\ at \in {"prepare", "recheck"} /\ answer'["build"] # "verified"
      /\ UNCHANGED <<destination, at, lane, build, rows, source, head>>
  BY <1>1 DEF CallPrepare, Build, prepare_dependency, GoesTo, Finishes,
              whereVars, buildVars, inputVars, CacheInv, CacheTypeOK,
              IdleHasNoAnswer
<1>3. QED
  BY <1>2 DEF BuildInv, RowsAreGood, LaneIsKnown, ControlsOfVerified,
              CallsAtPlaces, InputsFollow, CheckoutFollows, LanePlaces,
              BuildPlaces

LEMMA TakePreparedKeeps ==
    BuildInv /\ CacheInv /\ Build /\ TakePrepared => BuildInv'
<1> SUFFICES ASSUME BuildInv, CacheInv, Build, TakePrepared PROVE BuildInv'
  OBVIOUS
<1>1. "build" \in Invocations
  BY InvocationsAssumption
<1>2. /\ at \in {"prepare", "recheck"} /\ step'["build"] = "idle"
      /\ answer'["build"] = "none"
      /\ UNCHANGED <<destination, rows, source, head, lane>>
  BY <1>1 DEF TakePrepared, Return, Build, inputVars, Goto, Raise, CacheInv,
              CacheTypeOK
<1>3. answer["build"] = "verified" => destination # "absent"
  BY <1>1 DEF CacheInv, VerifiedIsThere
<1>4. build \in GoodRows /\ [build EXCEPT !.status = "failed"] \in GoodRows
  BY StatusIsGood DEF BuildInv, RowsAreGood
<1>5. CASE answer["build"] = "verified" /\ build' = build
           /\ at' = IF at = "prepare" THEN "compile" ELSE "manifest"
  BY <1>2, <1>3, <1>4, <1>5
     DEF BuildInv, RowsAreGood, LaneIsKnown, ControlsOfVerified, CallsAtPlaces,
         InputsFollow, CheckoutFollows, LanePlaces, BuildPlaces
<1>6. CASE build' \in GoodRows /\ at' \notin BuildPlaces
           /\ at' \notin {"controls", "qualify"}
           /\ (at' \in LanePlaces => lane' \in Profiles)
  BY <1>2, <1>6
     DEF BuildInv, RowsAreGood, LaneIsKnown, ControlsOfVerified, CallsAtPlaces,
         InputsFollow, CheckoutFollows
<1>7. QED
  BY <1>2, <1>4, <1>5, <1>6, EmptyIsGood, HandlerIsElsewhere
     DEF TakePrepared, Failed, Goto, Raise, BuildPlaces, LanePlaces, BuildInv,
         LaneIsKnown

(* The compilers, the second fingerprint and the manifest.                 *)
LEMMA CompileKeeps ==
    BuildInv /\ CacheInv /\ Build /\ Compile => BuildInv'
<1> SUFFICES ASSUME BuildInv, CacheInv, Build, Compile PROVE BuildInv'
  OBVIOUS
<1> DEFINE i == build.implementation
           t == IF i = "xpact-core" THEN destination ELSE "absent"
<1>1. /\ i \in Implementations /\ source[i] \in Nat
      /\ build.inputs <= source[i]
      /\ build \in GoodRows /\ destination \in {"absent", "pinned", "altered"}
      /\ i = "xpact-core" => destination # "absent"
      /\ step["build"] = "idle"
  BY DEF BuildInv, RowsAreGood, InputsFollow, CheckoutFollows, CallsAtPlaces,
         BuildPlaces, Compile, CacheInv, CacheTypeOK
<1>2. /\ at' = "check" /\ lane \in Profiles
      /\ UNCHANGED <<rows, source, head, lane, cacheVars>>
      /\ build' = [build EXCEPT !.used = source[i], !.tree = t]
  BY DEF BuildInv, LaneIsKnown, LanePlaces, BuildPlaces, Compile, Build, Goto,
         inputVars
<1>3. /\ build' \in Rows /\ build'.used = source[i] /\ build'.tree = t
      /\ build'.implementation = i /\ build'.inputs = build.inputs
      /\ build'.status = build.status
  BY <1>1, <1>2 DEF GoodRows, Rows
<1> HIDE DEF i, t
<1>4. build.status = "running"
  BY DEF BuildInv, InputsFollow, BuildPlaces, Compile
<1>5. build' \in GoodRows
  BY <1>3, <1>4 DEF GoodRows, MadeOf
<1>6. QED
  BY <1>1, <1>2, <1>3, <1>4, <1>5
     DEF t, BuildInv, RowsAreGood, LaneIsKnown, ControlsOfVerified,
         CallsAtPlaces, InputsFollow, CheckoutFollows, LanePlaces, BuildPlaces,
         cacheVars

LEMMA CheckInputsKeeps ==
    BuildInv /\ CacheInv /\ Build /\ CheckInputs => BuildInv'
<1> SUFFICES ASSUME BuildInv, CacheInv, Build, CheckInputs PROVE BuildInv'
  OBVIOUS
<1> DEFINE i == build.implementation
<1>1. /\ build \in GoodRows /\ lane \in Profiles /\ at = "check"
      /\ i \in Implementations /\ build.status = "running"
      /\ build.inputs <= build.used /\ build.used <= source[i]
      /\ step["build"] = "idle" /\ source[i] \in Nat
      /\ UNCHANGED <<rows, source, head, lane, cacheVars>>
  BY DEF BuildInv, RowsAreGood, LaneIsKnown, LanePlaces, InputsFollow,
         CallsAtPlaces, BuildPlaces, CheckInputs, Build, Goto, Failed, inputVars
<1>2. answer["build"] = "none"
  BY <1>1, InvocationsAssumption DEF CacheInv, IdleHasNoAnswer
<1>3. CASE ~InputsUnchanged
  <2>1. build' \in GoodRows /\ at' = "built"
    BY <1>1, <1>3, StatusIsGood DEF CheckInputs, Failed, Goto
  <2>2. QED
    BY <1>1, <2>1
       DEF BuildInv, RowsAreGood, LaneIsKnown, ControlsOfVerified,
           CallsAtPlaces, InputsFollow, CheckoutFollows, BuildPlaces, cacheVars
<1>4. CASE InputsUnchanged
  <2>1. build.used \in Nat /\ build.inputs \in Nat
    BY <1>1 DEF GoodRows, Rows
  <2>2. build.used = build.inputs
    BY <1>1, <1>4, <2>1 DEF InputsUnchanged
  <2>3. /\ at' = IF i = "xpact-core" THEN "recheck" ELSE "manifest"
        /\ build' = build
    BY <1>4 DEF CheckInputs, Goto
  <2>4. QED
    BY <1>1, <1>2, <2>1, <2>2, <2>3
       DEF BuildInv, RowsAreGood, LaneIsKnown, ControlsOfVerified,
           CallsAtPlaces, InputsFollow, CheckoutFollows, BuildPlaces,
           LanePlaces, cacheVars, Implementations
<1>5. QED
  BY <1>3, <1>4

LEMMA WriteManifestKeeps ==
    BuildInv /\ Build /\ (WriteManifest \/ BuildFails) => BuildInv'
<1> SUFFICES ASSUME BuildInv, Build, WriteManifest \/ BuildFails
             PROVE  BuildInv'
  OBVIOUS
<1>1. /\ build \in GoodRows /\ lane \in Profiles /\ step["build"] = "idle"
      /\ UNCHANGED <<rows, source, head, lane, cacheVars>> /\ at' = "built"
  BY DEF BuildInv, RowsAreGood, LaneIsKnown, LanePlaces, CallsAtPlaces,
         BuildPlaces, BuildSteps, WriteManifest, BuildFails, Build, Goto,
         inputVars
<1>2. build' \in GoodRows
  <2>1. CASE WriteManifest
    <3>1. /\ build.used = build.inputs
          /\ build.implementation = "xpact-core" => build.tree = "pinned"
      BY <2>1 DEF BuildInv, InputsFollow, CheckoutFollows, BuildPlaces,
                  WriteManifest
    <3>2. QED
      BY <1>1, <2>1, <3>1 DEF WriteManifest, GoodRows, Rows, MadeOf
  <2>2. CASE BuildFails
    <3>1. NextBuild[1] \in Implementations /\ NextBuild[2] \in BOOLEAN
      BY <1>1, <2>2, NextIsKnown DEF BuildFails, BuildInv
    <3>2. QED
      BY <1>1, <2>2, <3>1 DEF BuildFails, GoodRows, Rows, MadeOf
  <2>3. QED
    BY <2>1, <2>2
<1>3. QED
  BY <1>1, <1>2
     DEF BuildInv, RowsAreGood, LaneIsKnown, ControlsOfVerified, CallsAtPlaces,
         InputsFollow, CheckoutFollows, BuildPlaces, cacheVars

-----------------------------------------------------------------------------
(* Everybody else.                                                         *)

(* An edit or a commit only moves the sources on.                          *)
LEMMA EditsKeep == BuildInv /\ Edits => BuildInv'
<1> SUFFICES ASSUME BuildInv, Edits PROVE BuildInv'
  OBVIOUS
<1>1. UNCHANGED <<at, lane, build, rows, cacheVars>>
  BY DEF Edits, whereVars, laneVars, buildVars
<1>2. /\ source' \in [Implementations -> Nat] /\ head' \in Nat
      /\ \A i \in Implementations : source[i] <= source'[i]
  BY DEF Edits, SourceEvents, EditInputs, Commit, ReplaceExecutable, BuildInv,
         RowsAreGood
<1>3. build.inputs \in Nat /\ build.used \in Nat
  BY DEF BuildInv, RowsAreGood, GoodRows, Rows
<1>4. QED
  BY <1>1, <1>2, <1>3
     DEF BuildInv, RowsAreGood, LaneIsKnown, ControlsOfVerified, CallsAtPlaces,
         InputsFollow, CheckoutFollows, cacheVars

(* Inside prepare_dependency, of this command or of others: a checkout     *)
(* that is there stays there, and an altered one stays altered.            *)
LEMMA CacheKeeps ==
    ASSUME BuildInv, CacheInv, CacheInv',
           UNCHANGED <<at, lane, build, rows, source, head>>,
           [CacheNext]_cacheVars,
           at \notin {"prepare", "recheck", "ended"} => step'["build"] = "idle",
           at = "recheck" /\ answer'["build"] = "verified"
             => answer["build"] = "verified" \/ destination = "pinned"
    PROVE  BuildInv'
<1>1. /\ destination # "absent" => destination' # "absent"
      /\ destination = "altered" => destination' = "altered"
  BY CachePublishes DEF Published!Next, Published!Publish, Published!Alter
<1>2. build.tree \in {"absent", "pinned", "altered"}
  BY DEF BuildInv, RowsAreGood, GoodRows, Rows
<1>3. QED
  BY <1>1, <1>2
     DEF BuildInv, RowsAreGood, LaneIsKnown, ControlsOfVerified, CallsAtPlaces,
         InputsFollow, CheckoutFollows

(* A call of somebody else does not touch the call of the build.           *)
LEMMA OthersKeep ==
    ASSUME BuildInv, CacheInv, CacheInv',
           OtherBegins \/ OtherGoesOn \/ OtherFails
    PROVE  BuildInv'
<1>1. "other" \in Invocations /\ "build" \in Invocations
  BY InvocationsAssumption
<1>2. /\ UNCHANGED <<at, lane, build, rows, source, head>>
      /\ [CacheNext]_cacheVars
  BY <1>1 DEF OtherBegins, OtherGoesOn, OtherFails, exceptCache, whereVars,
              inputVars, laneVars, buildVars, CacheNext
<1>3. step'["build"] = step["build"] /\ answer'["build"] = answer["build"]
  BY <1>1 DEF OtherBegins, OtherGoesOn, OtherFails, prepare_dependency,
              CacheStep, CacheFault, Fetch, VerifyStaging, Rename, Verify,
              Cleanup, Return, CacheFails, FetchStrange, Kill, GoesTo, Finishes,
              CacheInv, CacheTypeOK
<1>4. QED
  BY <1>2, <1>3, CacheKeeps DEF BuildInv, CallsAtPlaces

(* The call of the build goes on, or goes wrong.                           *)
LEMMA PrepareKeeps ==
    ASSUME BuildInv, CacheInv, CacheInv', Prepare \/ PrepareFails
    PROVE  BuildInv'
<1>1. "build" \in Invocations
  BY InvocationsAssumption
<1>2. /\ UNCHANGED <<at, lane, build, rows, source, head>>
      /\ [CacheNext]_cacheVars
  BY <1>1 DEF Prepare, PrepareFails, exceptCache, whereVars, inputVars,
              laneVars, buildVars, CacheNext, CacheFault
<1>3. step["build"] # "idle" \/ step'["build"] = step["build"]
  BY <1>1 DEF Prepare, PrepareFails, CacheStep, Fetch, VerifyStaging, Rename,
              Verify, Cleanup, CacheFails, InCall, FetchStrange, AlterCheckout
<1>4. answer'["build"] = "verified"
        => answer["build"] = "verified" \/ destination = "pinned"
  BY <1>1 DEF Prepare, PrepareFails, CacheStep, Fetch, VerifyStaging, Rename,
              Verify, Cleanup, CacheFails, FetchStrange, AlterCheckout, GoesTo,
              Finishes, CacheInv, CacheTypeOK
<1>5. QED
  BY <1>2, <1>3, <1>4, CacheKeeps DEF BuildInv, CallsAtPlaces

(* The command breaks off: nothing of the build in progress is kept.       *)
LEMMA BreaksOff ==
    ASSUME BuildInv, CacheInv, CacheInv', StepFails \/ Interrupt \/ KillCommand
    PROVE  BuildInv'
<1>1. "build" \in Invocations
  BY InvocationsAssumption
<1>2. /\ RowsAreGood /\ UNCHANGED <<rows, source, head, lane>>
  BY DEF BuildInv, StepFails, Interrupt, KillCommand, Raise, whereVars,
         inputVars, laneVars, buildVars, Killed, Exit
<1>3. CASE Interrupt /\ CacheFails("build", "interrupt")
  <2>1. /\ UNCHANGED <<at, lane, build, rows, source, head>>
        /\ [CacheNext]_cacheVars /\ step["build"] # "idle"
    BY <1>1, <1>3 DEF Interrupt, CacheFails, InCall, whereVars, inputVars,
                      CacheNext, CacheFault
  <2>2. answer'["build"] = "verified" => answer["build"] = "verified"
    BY <1>1, <1>3 DEF CacheFails, Finishes, CacheInv, CacheTypeOK
  <2>3. QED
    BY <2>1, <2>2, CacheKeeps DEF BuildInv, CallsAtPlaces
<1>4. CASE /\ StepFails \/ Interrupt
           /\ at' = Handler /\ build' = NoBuild /\ UNCHANGED cacheVars
           /\ step["build"] = "idle"
  BY <1>2, <1>4, EmptyIsGood, HandlerIsElsewhere
     DEF BuildInv, RowsAreGood, LaneIsKnown, ControlsOfVerified, CallsAtPlaces,
         InputsFollow, CheckoutFollows, LanePlaces, BuildPlaces, cacheVars
<1>5. CASE KillCommand
  <2>1. at' = "ended" /\ build' = build
    BY <1>5 DEF KillCommand, Killed, Exit, laneVars, buildVars
  <2>2. QED
    BY <1>2, <2>1
       DEF BuildInv, RowsAreGood, LaneIsKnown, ControlsOfVerified,
           CallsAtPlaces, InputsFollow, CheckoutFollows, LanePlaces, BuildPlaces
<1>6. StepFails => step["build"] = "idle"
  BY DEF StepFails, MayFail, BuildInv, CallsAtPlaces
<1>7. QED
  BY <1>3, <1>4, <1>5, <1>6 DEF StepFails, Interrupt, Raise

LEMMA RestKeeps ==
    BuildInv /\ (Abort \/ EditsSuite \/ Ended \/ UNCHANGED vars) => BuildInv'
<1> SUFFICES ASSUME BuildInv, Abort \/ EditsSuite \/ Ended \/ UNCHANGED vars
             PROVE  BuildInv'
  OBVIOUS
<1>1. CASE Abort
  BY <1>1 DEF Abort, Exit, laneVars, buildVars, inputVars, cacheVars, BuildInv,
              RowsAreGood, LaneIsKnown, ControlsOfVerified, CallsAtPlaces,
              InputsFollow, CheckoutFollows, LanePlaces, BuildPlaces
<1>2. CASE EditsSuite \/ Ended \/ UNCHANGED vars
  <2>1. UNCHANGED <<at, lane, build, rows, source, head, cacheVars>>
    BY <1>2 DEF EditsSuite, Ended, vars, whereVars, laneVars, buildVars,
                inputVars
  <2>2. QED
    BY <2>1 DEF BuildInv, RowsAreGood, LaneIsKnown, ControlsOfVerified,
                CallsAtPlaces, InputsFollow, CheckoutFollows, cacheVars
<1>3. QED
  BY <1>1, <1>2

-----------------------------------------------------------------------------
LEMMA BuildInvInit == Init => BuildInv
<1> SUFFICES ASSUME Init PROVE BuildInv
  OBVIOUS
<1>1. rows = [p \in Profiles |-> <<>>] /\ build = NoBuild /\ at = "start"
  BY DEF Init, BuildInit, RunInit
<1>2. step["build"] = "idle"
  BY InvocationsAssumption DEF Init, CacheInit
<1>3. rows \in [Profiles -> Seq(GoodRows)]
  BY <1>1
<1>4. source \in [Implementations -> Nat] /\ head \in Nat
  BY DEF Init, BuildInit
<1>5. QED
  BY <1>1, <1>2, <1>3, <1>4, EmptyIsGood
     DEF BuildInv, RowsAreGood, LaneIsKnown, ControlsOfVerified, CallsAtPlaces,
         InputsFollow, CheckoutFollows, LanePlaces, BuildPlaces

LEMMA BuildInvStep ==
    BuildInv /\ CacheInv /\ CacheInv' /\ [Next]_vars => BuildInv'
<1> SUFFICES ASSUME BuildInv, CacheInv, CacheInv', [Next]_vars PROVE BuildInv'
  OBVIOUS
<1>1. CASE Build
  BY <1>1, BeginBuildKeeps, CallPrepareKeeps, TakePreparedKeeps, CompileKeeps,
     CheckInputsKeeps, WriteManifestKeeps DEF Build, BuildStep
<1>2. CASE Tools \/ Builds \/ CatalogOrLane \/ W3c \/ Regression
  BY <1>2, BuildsAreQuiet, CatalogOrLaneIsQuiet, W3cIsQuiet, RegressionIsQuiet,
     QuietKeeps
<1>3. CASE Compare \/ Conformance \/ Campaign
  BY <1>3, CompareIsElsewhere, ConformanceIsElsewhere, CampaignIsElsewhere,
     ElsewhereIsQuiet, QuietKeeps
<1>4. CASE Prepare \/ PrepareFails
  BY <1>4, PrepareKeeps
<1>5. CASE OtherBegins \/ OtherGoesOn \/ OtherFails
  BY <1>5, OthersKeep
<1>6. CASE StepFails \/ Interrupt \/ KillCommand
  BY <1>6, BreaksOff
<1>7. CASE Edits
  BY <1>7, EditsKeep
<1>8. CASE Abort \/ EditsSuite \/ Ended \/ UNCHANGED vars
  BY <1>8, RestKeeps
<1>9. QED
  BY <1>1, <1>2, <1>3, <1>4, <1>5, <1>6, <1>7, <1>8 DEF Next, Progress

(* Every executable with a manifest is made of the inputs of its           *)
(* fingerprint and of the pinned checkout, unaltered.                      *)
THEOREM ManifestsAreTrue == Spec => []BuiltFromItsInputs
<1>1. BuildInv => BuiltFromItsInputs
  <2> SUFFICES ASSUME BuildInv, NEW p \in Profiles, NEW k \in DOMAIN rows[p]
               PROVE  MadeOf(build) /\ MadeOf(rows[p][k])
    BY DEF BuiltFromItsInputs, BuildInv, RowsAreGood, GoodRows
  <2>1. rows[p] \in Seq(GoodRows) /\ build \in GoodRows
    BY DEF BuildInv, RowsAreGood
  <2>2. rows[p][k] \in GoodRows
    BY <2>1
  <2>3. QED
    BY <2>1, <2>2 DEF GoodRows
<1>2. QED
  BY <1>1, BuildInvInit, BuildInvStep, CacheInside, PTL DEF Spec

-----------------------------------------------------------------------------
(* The snapshot of a report is one, for every catalog and whatever is      *)
(* edited, committed, replaced, interrupted or killed.                     *)
(*                                                                         *)
(* Executables are replaced and suite files edited behind the back of the  *)
(* lane, but what was touched stays touched.  So evidence from a replaced  *)
(* executable leaves a trace that the gates find: a build that failed its  *)
(* qualification, or a benchmark executable that is still replaced when    *)
(* the lane looks for the last time.  After the gate the builds of a lane  *)
(* stay as they are, and a lane runs once.                                 *)

ReportOf(l) == IF l = "catalog" THEN "catalog/report.json" ELSE "w3c/report.json"

InComparisonPlaces == {"identify", "calibrate", "warmup", "pair", "compare"}
HandledPlaces == BuildPlaces \cup {"built", "controls", "qualify", "trace", "lifecycle"}

(* The places of a lane between its gate and its reports.                  *)
GatedPlaces(l) ==
    IF l = "catalog"
    THEN InComparisonPlaces \cup {"measure", "validate", "sources", "publish"}
    ELSE {"engine", "input", "run", "recheck input", "matrix", "sources",
          "artifacts", "publish"}

(* Where a lane may be once its report is written.                         *)
LatePlaces == {"complete", "returned", "failed", "undo", "withdraw", "abort", "ended"}

EarlyPlaces(l) == {"build"} \cup HandledPlaces \cup GatedPlaces(l)

Typed ==
    /\ lanes \in [Lanes -> {"pending", "running"} \cup Statuses]
    /\ runjson \in [Owners -> Statuses]

(* Builds are appended in the order of the lane.                           *)
RowsInOrder ==
    /\ \A p \in Profiles : \A k \in DOMAIN rows[p] :
        /\ k \in DOMAIN Order(p)
        /\ rows[p][k].implementation = Order(p)[k][1]
        /\ rows[p][k].assertions = Order(p)[k][2]
    /\ at \in HandledPlaces =>
        /\ ~AllBuilt
        /\ build.implementation = NextBuild[1]
        /\ build.assertions = NextBuild[2]

(* Only executables with a manifest are replaced.                          *)
ReplacedAreKnown ==
    /\ build.status \in {"verified", "qualified", "executed"} =>
        build.implementation \in Implementations
    /\ \A e \in replaced : e[2] \in Implementations

PlacesOfLanes ==
    /\ lane \in Lanes => command # "paired"
    /\ at \in InComparisonPlaces \cup {"discard"} =>
        lane = "catalog" \/ command = "paired"
    /\ at \in {"measure", "validate"} => lane = "catalog"
    /\ at \in {"engine", "input", "run", "recheck input", "matrix", "artifacts"} =>
        lane = "w3c"

(* A lane that has not begun, and lanes begin once.                        *)
Untouched(l) == rows[l] = <<>> /\ l \notin foreign /\ files[ReportOf(l)] # "new"

LanesBeginOnce ==
    \A l \in Lanes :
        /\ at = "start" => lane = "none" /\ Untouched(l)
        /\ command = "campaign" /\ lanes[l] = "pending" => lane # l /\ Untouched(l)
        /\ lane = l /\ at \in {"begin", "suite", "tools"} => Untouched(l)

(* The trace of evidence from a replaced executable.                       *)
ForeignIsSeen ==
    \A l \in Lanes :
        lane = l /\ at \in EarlyPlaces(l) /\ l \in foreign =>
            \/ \E k \in DOMAIN rows[l] : rows[l][k].status = "failed"
            \/ at = "qualify"
               /\ <<l, build.implementation, build.assertions>> \in replaced
            \/ \E i \in Implementations : <<l, i, FALSE>> \in replaced

(* All four builds of a lane have passed its gate.                         *)
Qualified(l) ==
    /\ Len(rows[l]) = 4
    /\ \A k \in 1..4 : rows[l][k].status \in {"qualified", "executed"}

SameSnapshot(l) ==
    \A i \in Implementations :
        /\ RowOf(l, i, TRUE).inputs = RowOf(l, i, FALSE).inputs
        /\ RowOf(l, i, TRUE).revision = RowOf(l, i, FALSE).revision

Gated ==
    \A l \in Lanes : lane = l /\ at \in GatedPlaces(l) => Qualified(l)

(* What the last looks of a lane have established.                         *)
LastLooks ==
    /\ stale => edited # {}
    /\ lane = "catalog" /\ at \in {"sources", "publish"} =>
        "catalog" \notin foreign /\ identity = {}
    /\ lane = "w3c" /\ at \in {"sources", "artifacts", "publish"} => ~stale
    /\ lane = "w3c" /\ at = "publish" => "w3c" \notin foreign
    /\ lane = "w3c" /\ at \in {"artifacts", "publish"} => SameSnapshot("w3c")
    /\ lane = "catalog" /\ at = "publish" => SameSnapshot("catalog")

(* A lane with a report.                                                   *)
ReportsHold ==
    \A l \in Lanes :
        files[ReportOf(l)] = "new" =>
            /\ command # "paired" /\ (lane = l => at \in LatePlaces)
            /\ Qualified(l) /\ SameSnapshot(l) /\ l \notin foreign
            /\ l = "catalog" => identity = {}
            /\ l = "w3c" => ~stale

SnapInv ==
    /\ Typed /\ RowsInOrder /\ ReplacedAreKnown /\ PlacesOfLanes
    /\ LanesBeginOnce /\ ForeignIsSeen /\ Gated /\ LastLooks /\ ReportsHold
-----------------------------------------------------------------------------
(* The reports are among the files, and only their lanes write them.       *)
LEMMA ReportIsName == \A l \in Lanes : ReportOf(l) \in Names
<1>1. CatalogFiles[1] = "catalog/report.json" /\ 1 \in DOMAIN CatalogFiles
  BY DEF CatalogFiles
<1>2. W3cFiles[7] = "w3c/report.json" /\ 7 \in DOMAIN W3cFiles
  BY DEF W3cFiles, ConformanceFiles
<1>3. "catalog/report.json" \in Listed(CatalogFiles)
      /\ "w3c/report.json" \in Listed(W3cFiles)
  BY <1>1, <1>2 DEF Listed
<1>4. QED
  BY <1>3 DEF ReportOf, Names

FilesKeep ==
    \A l \in Lanes : files'[ReportOf(l)] = "new" => files[ReportOf(l)] = "new"

LEMMA RemovedKeeps ==
    ASSUME NEW names, NEW k, Removed(names, k) PROVE FilesKeep
BY ReportIsName DEF Removed, Wrote, FilesKeep

LEMMA WithdrawnKeeps ==
    ASSUME NEW k, NEW j, Withdrawn(k, j) PROVE FilesKeep
BY ReportIsName DEF Withdrawn, FilesKeep

LEMMA PublishSpares ==
    ASSUME NEW names, NEW next, PublishAll(names, next) \/ PublishCut(names),
           Len(names) \in Nat, NEW l \in Lanes,
           \A k \in 1..Len(names) : names[k] # ReportOf(l)
    PROVE  files'[ReportOf(l)] = files[ReportOf(l)]
<1>1. CASE PublishAll(names, next)
  BY <1>1, ReportIsName DEF PublishAll, Wrote
<1>2. CASE PublishCut(names)
  <2>1. PICK k \in 0..(Len(names) - 1) :
          files' = [Wrote(names, k, "new") EXCEPT ![names[k + 1]] =
                      IF names[k + 1] \in DirectFiles THEN "partial" ELSE @]
    BY <1>2 DEF PublishCut
  <2>2. k + 1 \in 1..Len(names) /\ 1..k \subseteq 1..Len(names)
    OBVIOUS
  <2>3. files'[ReportOf(l)] = Wrote(names, k, "new")[ReportOf(l)]
    BY <2>1, <2>2, ReportIsName DEF Wrote
  <2>4. Wrote(names, k, "new")[ReportOf(l)] = files[ReportOf(l)]
    BY <2>2, ReportIsName DEF Wrote
  <2>5. QED
    BY <2>3, <2>4
<1>3. QED
  BY <1>1, <1>2

(* The publishers that write no report of a lane.                          *)
LEMMA OtherPublishers ==
    ASSUME NEW l \in Lanes,
           NEW names \in {ComparisonFiles, ConformanceFiles, RegressionFiles,
                          SummaryFiles, PlotFiles}
    PROVE  Len(names) \in Nat /\ \A k \in 1..Len(names) : names[k] # ReportOf(l)
<1>1. CASE names \in {ComparisonFiles, ConformanceFiles, RegressionFiles, SummaryFiles}
  BY <1>1 DEF ComparisonFiles, ConformanceFiles, RegressionFiles, SummaryFiles,
              ReportOf
<1>2. CASE names = PlotFiles
  <2> DEFINE S == Listed(PlotNames)
  <2>1. {"catalog.csv", "w3c.csv", "dual-implementation-plots.html", "plots.tsv"}
          \subseteq S
    BY DEF PlotNames, Listed
  <2>2. ReportOf(l) \notin S
    BY DEF PlotNames, Listed, ReportOf
  <2> HIDE DEF S
  <2>3. /\ (IF HasReport("catalog") THEN <<"catalog.csv">> ELSE <<>>) \in Seq(S)
        /\ (IF HasReport("w3c") THEN <<"w3c.csv">> ELSE <<>>) \in Seq(S)
        /\ <<"dual-implementation-plots.html", "plots.tsv">> \in Seq(S)
    BY <2>1
  <2>4. names \in Seq(S)
    BY <1>2, <2>3 DEF PlotFiles
  <2>5. QED
    BY <2>2, <2>4
<1>3. QED
  BY <1>1, <1>2

LEMMA PublishKeeps ==
    ASSUME NEW names \in {ComparisonFiles, ConformanceFiles, RegressionFiles,
                          SummaryFiles, PlotFiles},
           NEW next, PublishAll(names, next) \/ PublishCut(names)
    PROVE  FilesKeep
BY OtherPublishers, PublishSpares DEF FilesKeep

(* The reports of the two lanes are not the same file.                     *)
LEMMA LanePublishers ==
    /\ Len(CatalogFiles) \in Nat /\ Len(W3cFiles) \in Nat
    /\ \A k \in 1..Len(CatalogFiles) : CatalogFiles[k] # ReportOf("w3c")
    /\ \A k \in 1..Len(W3cFiles) : W3cFiles[k] # ReportOf("catalog")
BY DEF CatalogFiles, W3cFiles, ConformanceFiles, ReportOf

-----------------------------------------------------------------------------
(* What a lane has built depends on its rows alone.                        *)
LEMMA RowsDecide ==
    ASSUME NEW l, rows'[l] = rows[l]
    PROVE  SameSnapshot(l)' = SameSnapshot(l) /\ Qualified(l)' = Qualified(l)
<1>1. ASSUME NEW i, NEW a PROVE RowOf(l, i, a)' = RowOf(l, i, a)
  BY DEF RowOf
<1>2. SameSnapshot(l)' = SameSnapshot(l)
  BY <1>1 DEF SameSnapshot
<1>3. QED
  BY <1>2 DEF Qualified

(* Steps that take no evidence, touch none, and write no report.           *)
Steady ==
    /\ UNCHANGED <<command, rows, foreign, identity, stale, edited, replaced, lanes>>
    /\ FilesKeep /\ runjson' \in [Owners -> Statuses]

OutsidePlaces ==
    LatePlaces \cup {"setup", "case", "judge", "reports", "reported", "lane",
                     "summary", "plots", "finish", "compared"}

(* Steps to the handlers, to the end, and of whatever is no lane.          *)
Outside ==
    /\ Steady /\ UNCHANGED lane /\ build' \in {build, NoBuild}
    /\ at \in LatePlaces => at' \in LatePlaces
    /\ at' \in OutsidePlaces \/ (at' = "discard" /\ at \in InComparisonPlaces)

(* Nobody moves.                                                           *)
Still == Steady /\ UNCHANGED <<lane, at, build>>

LEMMA SteadyReports ==
    ASSUME SnapInv, Steady, NEW l \in Lanes, files'[ReportOf(l)] = "new"
    PROVE  /\ command' # "paired"
           /\ Qualified(l)' /\ SameSnapshot(l)' /\ l \notin foreign'
           /\ l = "catalog" => identity' = {}
           /\ l = "w3c" => ~stale'
           /\ lane = l => at \in LatePlaces
BY RowsDecide DEF SnapInv, ReportsHold, Steady, FilesKeep

LEMMA SteadyUntouched ==
    ASSUME Steady, NEW l \in Lanes, Untouched(l) PROVE Untouched(l)'
BY DEF Steady, FilesKeep, Untouched

LEMMA StillKeeps == SnapInv /\ Still => SnapInv'
<1> SUFFICES ASSUME SnapInv, Still PROVE SnapInv'
  OBVIOUS
<1>0. Steady /\ UNCHANGED <<lane, at, build>>
  BY DEF Still
<1>1. Typed' /\ RowsInOrder' /\ ReplacedAreKnown' /\ PlacesOfLanes'
  BY <1>0 DEF SnapInv, Steady, Typed, RowsInOrder, ReplacedAreKnown,
              PlacesOfLanes, AllBuilt, NextBuild
<1>2. LanesBeginOnce'
  BY <1>0, SteadyUntouched DEF SnapInv, Steady, LanesBeginOnce
<1>3. ForeignIsSeen'
  BY <1>0 DEF SnapInv, Steady, ForeignIsSeen
<1>4. Gated' /\ LastLooks'
  BY <1>0, RowsDecide DEF SnapInv, Steady, Gated, LastLooks
<1>5. ReportsHold'
  BY <1>0, SteadyReports DEF ReportsHold
<1>6. QED
  BY <1>1, <1>2, <1>3, <1>4, <1>5 DEF SnapInv

LEMMA OutsideKeeps == SnapInv /\ Outside => SnapInv'
<1> SUFFICES ASSUME SnapInv, Outside PROVE SnapInv'
  OBVIOUS
<1>0. Steady /\ UNCHANGED lane
  BY DEF Outside
<1>1. at' \notin HandledPlaces \cup {"start", "begin", "suite", "tools", "build"}
      /\ at' \notin InComparisonPlaces
      /\ at' \notin GatedPlaces("catalog") \cup GatedPlaces("w3c")
  BY DEF Outside, OutsidePlaces, LatePlaces, HandledPlaces, BuildPlaces,
         InComparisonPlaces, GatedPlaces
<1>2. Typed' /\ RowsInOrder'
  BY <1>0, <1>1 DEF SnapInv, Steady, Typed, RowsInOrder
<1>3. ReplacedAreKnown'
  BY <1>0 DEF SnapInv, Steady, ReplacedAreKnown, Outside, NoBuild
<1>4. PlacesOfLanes'
  BY <1>0, <1>1 DEF SnapInv, Steady, PlacesOfLanes, Outside, GatedPlaces,
                    OutsidePlaces, LatePlaces
<1>5. LanesBeginOnce'
  BY <1>0, <1>1, SteadyUntouched DEF SnapInv, Steady, LanesBeginOnce
<1>6. ForeignIsSeen' /\ Gated' /\ LastLooks'
  BY <1>0, <1>1 DEF SnapInv, Steady, ForeignIsSeen, Gated, LastLooks, Lanes,
                    EarlyPlaces, GatedPlaces
<1>7. ReportsHold'
  BY <1>0, SteadyReports DEF ReportsHold, Outside, LatePlaces,
                             InComparisonPlaces
<1>8. QED
  BY <1>2, <1>3, <1>4, <1>5, <1>6, <1>7 DEF SnapInv

-----------------------------------------------------------------------------
(* A build on its way to the rows of its lane.                             *)
Handling ==
    /\ Steady /\ UNCHANGED lane /\ ~AllBuilt
    /\ at \in {"build"} \cup HandledPlaces /\ at' \in HandledPlaces
    /\ at # "qualify" /\ at' # "qualify"
    /\ build'.implementation = NextBuild[1] /\ build'.assertions = NextBuild[2]

(* It arrives, as failed if its controls ran on other bytes.               *)
Appends(r) ==
    /\ at \in HandledPlaces /\ at' = "build" /\ Append1(r) /\ FilesKeep
    /\ r.implementation = build.implementation /\ r.assertions = build.assertions
    /\ at = "qualify" /\ ~Kept(build) => r.status = "failed"
    /\ UNCHANGED <<command, lane, foreign, identity, stale, edited, replaced, lanes>>
    /\ runjson' \in [Owners -> Statuses]

LEMMA OrderIsSequence ==
    \A p : Len(Order(p)) \in Nat /\ DOMAIN Order(p) = 1..Len(Order(p))
<1> DEFINE two == <<<<"xpact", TRUE>>, <<"xpact-core", TRUE>>>>
           four == <<<<"xpact", TRUE>>, <<"xpact-core", TRUE>>,
                     <<"xpact", FALSE>>, <<"xpact-core", FALSE>>>>
<1>1. Len(two) = 2 /\ DOMAIN two = 1..2 /\ Len(four) = 4 /\ DOMAIN four = 1..4
  OBVIOUS
<1>2. \A p : Order(p) \in {two, four}
  BY DEF Order
<1> HIDE DEF two, four
<1>3. QED
  BY <1>1, <1>2

LEMMA HandlingKeeps ==
    ASSUME SnapInv, BuildInv, Handling PROVE SnapInv'
<1>0. Steady /\ UNCHANGED lane
  BY DEF Handling
<1>1. at' \notin {"start", "begin", "suite", "tools", "build", "qualify"}
      /\ at' \notin InComparisonPlaces \cup LatePlaces
      /\ at' \notin GatedPlaces("catalog") \cup GatedPlaces("w3c")
  BY DEF Handling, LatePlaces, HandledPlaces, BuildPlaces, InComparisonPlaces,
         GatedPlaces
<1>2. lane \in Profiles /\ at \notin LatePlaces
  BY DEF BuildInv, LaneIsKnown, LanePlaces, Handling, HandledPlaces,
         BuildPlaces, LatePlaces
<1>3. Typed' /\ RowsInOrder'
  BY <1>0 DEF SnapInv, Steady, Typed, RowsInOrder, Handling, AllBuilt, NextBuild
<1>4. ReplacedAreKnown'
  BY <1>0, <1>2, NextIsKnown DEF SnapInv, Steady, ReplacedAreKnown, Handling,
                                 BuildInv
<1>5. PlacesOfLanes'
  BY <1>0, <1>1 DEF SnapInv, Steady, PlacesOfLanes, Handling, HandledPlaces,
                    BuildPlaces, GatedPlaces
<1>6. LanesBeginOnce'
  BY <1>0, <1>1, SteadyUntouched DEF SnapInv, Steady, LanesBeginOnce
<1>7. ForeignIsSeen'
  BY <1>0 DEF SnapInv, Steady, ForeignIsSeen, EarlyPlaces, Handling
<1>8. Gated' /\ LastLooks'
  BY <1>0, <1>1 DEF SnapInv, Steady, Gated, LastLooks, Lanes, GatedPlaces
<1>9. ReportsHold'
  BY <1>0, <1>2, SteadyReports DEF ReportsHold
<1>10. QED
  BY <1>3, <1>4, <1>5, <1>6, <1>7, <1>8, <1>9 DEF SnapInv

LEMMA AppendsKeeps ==
    ASSUME SnapInv, BuildInv, NEW r, Appends(r) PROVE SnapInv'
<1> DEFINE n == Len(rows[lane]) + 1
<1>1. /\ lane \in Profiles /\ rows \in [Profiles -> Seq(GoodRows)]
      /\ at \notin LatePlaces
  BY DEF BuildInv, RowsAreGood, LaneIsKnown, LanePlaces, Appends,
         HandledPlaces, BuildPlaces, LatePlaces
<1>2. /\ n \in DOMAIN Order(lane)
      /\ r.implementation = Order(lane)[n][1]
      /\ r.assertions = Order(lane)[n][2]
  <2>1. rows[lane] \in Seq(GoodRows)
    BY <1>1
  <2>2. ~AllBuilt /\ NextBuild = Order(lane)[n]
    BY DEF Appends, SnapInv, RowsInOrder, NextBuild
  <2>3. n \in DOMAIN Order(lane)
    BY <2>1, <2>2, OrderIsSequence DEF AllBuilt
  <2>4. QED
    BY <2>2, <2>3 DEF Appends, SnapInv, RowsInOrder
<1>3. /\ rows' = [rows EXCEPT ![lane] = Append(rows[lane], r)]
      /\ build' = NoBuild /\ at' = "build"
      /\ UNCHANGED <<command, lane, foreign, identity, stale, edited, replaced, lanes>>
  BY DEF Appends, Append1
<1>4. /\ DOMAIN rows'[lane] = DOMAIN rows[lane] \cup {n}
      /\ n \notin DOMAIN rows[lane] /\ rows'[lane][n] = r
      /\ \A k \in DOMAIN rows[lane] : rows'[lane][k] = rows[lane][k]
      /\ \A p \in Profiles \ {lane} : rows'[p] = rows[p]
  <2>1. rows[lane] \in Seq(GoodRows)
    BY <1>1
  <2>2. rows'[lane] = Append(rows[lane], r)
    BY <1>1, <1>3
  <2>3. \A p \in Profiles \ {lane} : rows'[p] = rows[p]
    BY <1>1, <1>3
  <2>4. QED
    BY <2>1, <2>2, <2>3
<1> HIDE DEF n
<1>5. Typed' /\ ReplacedAreKnown' /\ PlacesOfLanes'
  BY <1>3 DEF SnapInv, Typed, Appends, ReplacedAreKnown, PlacesOfLanes, NoBuild,
              InComparisonPlaces
<1>6. RowsInOrder'
  BY <1>1, <1>2, <1>3, <1>4
     DEF SnapInv, RowsInOrder, HandledPlaces, BuildPlaces
<1>7. LanesBeginOnce'
  BY <1>3, <1>4 DEF SnapInv, LanesBeginOnce, Untouched, Appends, FilesKeep,
                    Lanes, Profiles
<1>8. ForeignIsSeen'
  <2> SUFFICES ASSUME NEW l \in Lanes, lane = l, l \in foreign
               PROVE  \/ \E k \in DOMAIN rows'[l] : rows'[l][k].status = "failed"
                      \/ \E i \in Implementations : <<l, i, FALSE>> \in replaced
    BY <1>3 DEF ForeignIsSeen
  <2>1. at \in EarlyPlaces(l)
    BY DEF Appends, EarlyPlaces
  <2>2. \/ \E k \in DOMAIN rows[l] : rows[l][k].status = "failed"
        \/ at = "qualify" /\ <<l, build.implementation, build.assertions>> \in replaced
        \/ \E i \in Implementations : <<l, i, FALSE>> \in replaced
    BY <2>1 DEF SnapInv, ForeignIsSeen
  <2>3. QED
    BY <1>4, <2>2 DEF Appends, Kept, Exe
<1>9. Gated' /\ LastLooks'
  BY <1>3 DEF SnapInv, Gated, LastLooks, Lanes, GatedPlaces, InComparisonPlaces
<1>10. ReportsHold'
  <2> SUFFICES ASSUME NEW l \in Lanes, files'[ReportOf(l)] = "new"
               PROVE  /\ command' # "paired" /\ (lane' = l => at' \in LatePlaces)
                      /\ Qualified(l)' /\ SameSnapshot(l)' /\ l \notin foreign'
                      /\ l = "catalog" => identity' = {}
                      /\ l = "w3c" => ~stale'
    BY DEF ReportsHold
  <2>1. files[ReportOf(l)] = "new"
    BY DEF Appends, FilesKeep
  <2>2. lane # l
    BY <1>1, <2>1 DEF SnapInv, ReportsHold
  <2>3. rows'[l] = rows[l]
    BY <1>4, <2>2 DEF Lanes, Profiles
  <2>4. QED
    BY <1>3, <2>1, <2>2, <2>3, RowsDecide DEF SnapInv, ReportsHold
<1>11. QED
  BY <1>5, <1>6, <1>7, <1>8, <1>9, <1>10 DEF SnapInv

-----------------------------------------------------------------------------
(* A lane begins.                                                          *)
FirstPlaces == {"begin", "suite", "tools"}

LEMMA FirstStepsKeep ==
    ASSUME SnapInv, Steady, UNCHANGED <<lane, build>>,
           at \in FirstPlaces, at' \in {"suite", "tools", "build"}
    PROVE  SnapInv'
<1>1. Typed' /\ RowsInOrder' /\ ReplacedAreKnown' /\ PlacesOfLanes'
  BY DEF SnapInv, Steady, Typed, RowsInOrder, ReplacedAreKnown, PlacesOfLanes,
         HandledPlaces, BuildPlaces, InComparisonPlaces
<1>2. LanesBeginOnce'
  BY SteadyUntouched DEF SnapInv, Steady, LanesBeginOnce, FirstPlaces
<1>3. ForeignIsSeen'
  BY DEF SnapInv, Steady, ForeignIsSeen, LanesBeginOnce, Untouched, FirstPlaces
<1>4. Gated' /\ LastLooks'
  BY DEF SnapInv, Steady, Gated, LastLooks, GatedPlaces, InComparisonPlaces
<1>5. ReportsHold'
  BY SteadyReports DEF ReportsHold, FirstPlaces, LatePlaces
<1>6. QED
  BY <1>1, <1>2, <1>3, <1>4, <1>5 DEF SnapInv

LEMMA StartsKeep ==
    ASSUME SnapInv, Steady, UNCHANGED build, at = "start", at' \in FirstPlaces,
           lane' \in Lanes => command \notin {"campaign", "paired"}
    PROVE  SnapInv'
<1>1. Typed' /\ RowsInOrder' /\ ReplacedAreKnown' /\ PlacesOfLanes'
  BY DEF SnapInv, Steady, Typed, RowsInOrder, ReplacedAreKnown, PlacesOfLanes,
         HandledPlaces, BuildPlaces, InComparisonPlaces, FirstPlaces
<1>2. \A l \in Lanes : Untouched(l)
  BY DEF SnapInv, LanesBeginOnce
<1>3. LanesBeginOnce'
  BY <1>2, SteadyUntouched DEF Steady, LanesBeginOnce, FirstPlaces
<1>4. ForeignIsSeen' /\ Gated' /\ LastLooks'
  BY DEF SnapInv, Steady, ForeignIsSeen, Gated, LastLooks, EarlyPlaces, Lanes,
         GatedPlaces, InComparisonPlaces, HandledPlaces, BuildPlaces, FirstPlaces
<1>5. ReportsHold'
  BY <1>2 DEF Steady, FilesKeep, Untouched, ReportsHold
<1>6. QED
  BY <1>1, <1>3, <1>4, <1>5 DEF SnapInv

(* The campaign goes from lane to lane.                                    *)
LEMMA NextLaneKeeps == SnapInv /\ Campaign /\ NextLane => SnapInv'
<1> SUFFICES ASSUME SnapInv, Campaign, NextLane PROVE SnapInv'
  OBVIOUS
<1> DEFINE pending == {m \in Lanes : lanes[m] = "pending"}
           l == IF "catalog" \in pending THEN "catalog" ELSE "w3c"
<1>0. /\ UNCHANGED <<command, files, runjson, rows, build, foreign, identity,
                     stale, edited, replaced>>
      /\ command = "campaign" /\ at = "lane"
  BY DEF Campaign, NextLane, Goto, fileVars, elsewhere, laneVars, buildVars,
         benchVars, suiteVars, inputVars
<1>1. CASE pending = {}
  <2>1. Outside
    BY <1>0, <1>1 DEF NextLane, Goto, Outside, Steady, FilesKeep, OutsidePlaces,
                      LatePlaces, SnapInv, Typed
  <2>2. QED
    BY <2>1, OutsideKeeps
<1>2. CASE pending # {}
  <2>1. l \in Lanes /\ lanes[l] = "pending"
    BY <1>2 DEF Lanes
  <2>2. lanes' = [lanes EXCEPT ![l] = "running"] /\ lane' = l /\ at' = "begin"
    BY <1>2 DEF NextLane
  <2>3. Untouched(l)
    BY <1>0, <2>1 DEF SnapInv, LanesBeginOnce
  <2> HIDE DEF l, pending
  <2>4. /\ lanes' \in [Lanes -> {"pending", "running"} \cup Statuses]
        /\ lanes'[l] = "running" /\ \A m \in Lanes \ {l} : lanes'[m] = lanes[m]
    BY <2>1, <2>2 DEF SnapInv, Typed
  <2>5. Typed' /\ RowsInOrder' /\ ReplacedAreKnown' /\ PlacesOfLanes'
    BY <1>0, <2>2, <2>4 DEF SnapInv, Typed, RowsInOrder, ReplacedAreKnown,
       PlacesOfLanes, HandledPlaces, BuildPlaces, InComparisonPlaces
  <2>6. LanesBeginOnce'
    BY <1>0, <2>2, <2>3, <2>4 DEF SnapInv, LanesBeginOnce, Untouched
  <2>7. ForeignIsSeen' /\ Gated' /\ LastLooks'
    BY <1>0, <2>2 DEF SnapInv, ForeignIsSeen, Gated, LastLooks, EarlyPlaces, Lanes,
       GatedPlaces, InComparisonPlaces, HandledPlaces, BuildPlaces
  <2>8. ReportsHold'
    BY <1>0, <2>2, <2>3, RowsDecide DEF SnapInv, ReportsHold, Untouched
  <2>9. QED
    BY <2>5, <2>6, <2>7, <2>8 DEF SnapInv
<1>3. QED
  BY <1>1, <1>2

LEMMA LaneEndsKeeps ==
    ASSUME SnapInv, Campaign, LaneReturns \/ LaneFails PROVE SnapInv'
<1>1. PICK s : LaneEnds(s) /\ (lane \in Lanes => s \in Statuses)
  BY DEF LaneReturns, LaneFails, SnapInv, Typed, Lanes, Owners, Statuses
<1>2. /\ UNCHANGED <<command, files, runjson, rows, build, foreign, identity,
                     stale, edited, replaced>>
      /\ lanes' = [lanes EXCEPT ![lane] = s] /\ lane' = "none" /\ at' = "lane"
  BY <1>1 DEF Campaign, LaneEnds, fileVars, elsewhere, laneVars, buildVars,
              benchVars, suiteVars, inputVars
<1>3. /\ lanes' \in [Lanes -> {"pending", "running"} \cup Statuses]
      /\ \A m \in Lanes : lanes'[m] = "pending" => lanes[m] = "pending"
  BY <1>1, <1>2 DEF SnapInv, Typed, Statuses
<1>4. Typed' /\ RowsInOrder' /\ ReplacedAreKnown' /\ PlacesOfLanes'
  BY <1>2, <1>3 DEF SnapInv, Typed, RowsInOrder, ReplacedAreKnown, PlacesOfLanes,
     HandledPlaces, BuildPlaces, InComparisonPlaces, Lanes
<1>5. LanesBeginOnce'
  BY <1>2, <1>3 DEF SnapInv, LanesBeginOnce, Untouched, Lanes
<1>6. ForeignIsSeen' /\ Gated' /\ LastLooks'
  BY <1>2 DEF SnapInv, ForeignIsSeen, Gated, LastLooks, Lanes
<1>7. ReportsHold'
  BY <1>2, RowsDecide DEF SnapInv, ReportsHold, Lanes
<1>8. QED
  BY <1>4, <1>5, <1>6, <1>7 DEF SnapInv

(* A comparison of a user.                                                 *)
LEMMA PairedKeeps ==
    ASSUME SnapInv, command = "paired", FilesKeep,
           UNCHANGED <<command, lane, build, rows, stale, edited, replaced, lanes, runjson>>,
           foreign' \in {foreign, foreign \cup {lane}},
           at' \in InComparisonPlaces
    PROVE  SnapInv'
<1>1. lane \notin Lanes
  BY DEF SnapInv, PlacesOfLanes
<1>2. Typed' /\ RowsInOrder' /\ ReplacedAreKnown' /\ PlacesOfLanes'
  BY <1>1 DEF SnapInv, Typed, RowsInOrder, ReplacedAreKnown, PlacesOfLanes,
     HandledPlaces, BuildPlaces, InComparisonPlaces
<1>3. LanesBeginOnce' /\ ReportsHold'
  BY <1>1 DEF SnapInv, LanesBeginOnce, ReportsHold, FilesKeep, InComparisonPlaces
<1>4. ForeignIsSeen' /\ Gated' /\ LastLooks'
  BY <1>1 DEF SnapInv, ForeignIsSeen, Gated, LastLooks, Lanes
<1>5. QED
  BY <1>2, <1>3, <1>4 DEF SnapInv

-----------------------------------------------------------------------------
(* The gate and the last looks.                                            *)
LEMMA FourItems ==
    ASSUME NEW a, NEW b, NEW c, NEW d
    PROVE  /\ DOMAIN <<a, b, c, d>> = 1..4 /\ Len(<<a, b, c, d>>) = 4
           /\ <<a, b, c, d>>[1] = a /\ <<a, b, c, d>>[2] = b
           /\ <<a, b, c, d>>[3] = c /\ <<a, b, c, d>>[4] = d
OBVIOUS

LEMMA TwoItems == ASSUME NEW a, NEW b PROVE <<a, b>>[1] = a /\ <<a, b>>[2] = b
OBVIOUS

LEMMA OrderOfLanes ==
    ASSUME NEW l \in Lanes
    PROVE  /\ DOMAIN Order(l) = 1..4 /\ Len(Order(l)) = 4
           /\ \A i \in Implementations : \A a \in BOOLEAN :
                \E k \in 1..4 : Order(l)[k][1] = i /\ Order(l)[k][2] = a
<1> DEFINE p == <<"xpact", TRUE>>
           q == <<"xpact-core", TRUE>>
           r == <<"xpact", FALSE>>
           s == <<"xpact-core", FALSE>>
<1>1. Order(l) = <<p, q, r, s>>
  BY DEF Order, Lanes
<1>2. /\ p[1] = "xpact" /\ q[1] = "xpact-core" /\ r[1] = "xpact" /\ s[1] = "xpact-core"
      /\ p[2] = TRUE /\ q[2] = TRUE /\ r[2] = FALSE /\ s[2] = FALSE
  BY TwoItems, Zenon
<1> HIDE DEF p, q, r, s
<1>3. /\ DOMAIN Order(l) = 1..4 /\ Len(Order(l)) = 4
      /\ Order(l)[1] = p /\ Order(l)[2] = q /\ Order(l)[3] = r /\ Order(l)[4] = s
  BY <1>1, FourItems
<1>4. 1 \in 1..4 /\ 2 \in 1..4 /\ 3 \in 1..4 /\ 4 \in 1..4
  OBVIOUS
<1>5. ASSUME NEW i \in Implementations, NEW a \in BOOLEAN
      PROVE  \E k \in 1..4 : Order(l)[k][1] = i /\ Order(l)[k][2] = a
  <2>1. CASE i = "xpact" /\ a = TRUE
    BY <1>2, <1>3, <1>4, <2>1, Zenon
  <2>2. CASE i = "xpact-core" /\ a = TRUE
    BY <1>2, <1>3, <1>4, <2>2, Zenon
  <2>3. CASE i = "xpact" /\ a = FALSE
    BY <1>2, <1>3, <1>4, <2>3, Zenon
  <2>4. CASE i = "xpact-core" /\ a = FALSE
    BY <1>2, <1>3, <1>4, <2>4, Zenon
  <2>5. (a = TRUE \/ a = FALSE) /\ (i = "xpact" \/ i = "xpact-core")
    BY DEF Implementations
  <2>6. QED
    BY <2>1, <2>2, <2>3, <2>4, <2>5, Zenon
<1>6. QED
  BY <1>3, <1>5, Zenon

(* A lane has built all four.                                              *)
LEMMA FourRows ==
    ASSUME SnapInv, BuildInv, NEW l \in Lanes, lane = l, AllBuilt
    PROVE  Len(rows[l]) = 4 /\ DOMAIN rows[l] = 1..4
<1>1. rows[l] \in Seq(GoodRows)
  BY DEF BuildInv, RowsAreGood, Lanes, Profiles
<1>2. Len(rows[l]) >= 4 /\ DOMAIN rows[l] \subseteq 1..4
  BY OrderOfLanes DEF AllBuilt, SnapInv, RowsInOrder, Lanes, Profiles
<1>3. Len(rows[l]) = 4 /\ DOMAIN rows[l] = 1..4
  <2> DEFINE n == Len(rows[l])
  <2>1. n \in Nat /\ DOMAIN rows[l] = 1..n
    BY <1>1
  <2>2. n >= 4 /\ 1..n \subseteq 1..4
    BY <1>2, <2>1
  <2> HIDE DEF n
  <2>3. n \in 1..n
    BY <2>1, <2>2
  <2>4. n = 4
    BY <2>1, <2>2, <2>3
  <2>5. QED
    BY <2>1, <2>4 DEF n
<1>4. QED
  BY <1>3

LEMMA GateQualifies ==
    ASSUME SnapInv, BuildInv, NEW l \in Lanes, lane = l, AllBuilt,
           AllHave("qualified") \/ AllHave("executed")
    PROVE  Qualified(l)
BY FourRows DEF AllHave, Qualified

(* RowOf finds the row it looks for.                                       *)
LEMMA RowIsThere ==
    ASSUME SnapInv, BuildInv, NEW l \in Lanes, Qualified(l),
           NEW i \in Implementations, NEW a \in BOOLEAN
    PROVE  /\ RowOf(l, i, a).implementation = i
           /\ RowOf(l, i, a).assertions = a
           /\ RowOf(l, i, a) \in GoodRows
           /\ RowOf(l, i, a).status \in {"qualified", "executed"}
<1>1. rows[l] \in Seq(GoodRows)
  BY DEF BuildInv, RowsAreGood, Lanes, Profiles
<1>2. DOMAIN rows[l] = 1..4
  BY <1>1 DEF Qualified
<1>3. PICK k \in DOMAIN rows[l] :
        rows[l][k].implementation = i /\ rows[l][k].assertions = a
  BY <1>2, OrderOfLanes DEF SnapInv, RowsInOrder, Lanes, Profiles
<1> DEFINE c == CHOOSE n \in DOMAIN rows[l] :
                  rows[l][n].implementation = i /\ rows[l][n].assertions = a
<1>4. /\ c \in DOMAIN rows[l]
      /\ rows[l][c].implementation = i /\ rows[l][c].assertions = a
  BY <1>3
<1>5. RowOf(l, i, a) = rows[l][c]
  BY DEF RowOf
<1> HIDE DEF c
<1>6. QED
  BY <1>1, <1>2, <1>4, <1>5 DEF Qualified

(* The last look at the benchmark executables finds all foreign evidence.  *)
LEMMA LookFinds ==
    ASSUME SnapInv, BuildInv, NEW l \in Lanes, lane = l, at \in GatedPlaces(l),
           VerifyArtifacts
    PROVE  l \notin foreign
<1>1. Qualified(l)
  BY DEF SnapInv, Gated
<1>2. \A i \in Implementations : <<l, i, FALSE>> \notin replaced
  BY <1>1, RowIsThere DEF VerifyArtifacts, Kept, Exe, Artifact
<1>3. ~\E k \in DOMAIN rows[l] : rows[l][k].status = "failed"
  <2>1. rows[l] \in Seq(GoodRows)
    BY DEF BuildInv, RowsAreGood, Lanes, Profiles
  <2>2. QED
    BY <1>1, <2>1 DEF Qualified
<1>4. at # "qualify"
  BY DEF GatedPlaces, InComparisonPlaces
<1>5. QED
  BY <1>2, <1>3, <1>4 DEF SnapInv, ForeignIsSeen, EarlyPlaces

LEMMA SourcesFind ==
    ASSUME NEW l \in Lanes, lane = l, VerifySources PROVE SameSnapshot(l)
BY DEF VerifySources, Audit, Artifact, SameSnapshot

(* A lane goes on behind its gate.                                         *)
Advances(l) ==
    /\ lane = l /\ at \in {"build"} \cup GatedPlaces(l) /\ at' \in GatedPlaces(l)
    /\ UNCHANGED <<command, lane, build, rows, edited, replaced, lanes>>
    /\ FilesKeep /\ runjson' \in [Owners -> Statuses]
    /\ Qualified(l)
    /\ \/ foreign' = foreign
       \/ /\ foreign' = foreign \cup {l}
          /\ \E i \in Implementations : <<l, i, FALSE>> \in replaced
    /\ l = "w3c" => identity' = identity
    /\ l = "catalog" => stale' = stale

LEMMA AdvancesKeeps ==
    ASSUME SnapInv, NEW l \in Lanes, Advances(l), LastLooks' PROVE SnapInv'
<1>1. at \notin LatePlaces /\ at' \notin LatePlaces
      /\ at' \notin {"start", "begin", "suite", "tools", "discard"}
      /\ at' \notin HandledPlaces
  BY DEF Advances, GatedPlaces, LatePlaces, InComparisonPlaces, HandledPlaces,
         BuildPlaces
<1>2. Typed' /\ RowsInOrder' /\ ReplacedAreKnown'
  BY <1>1 DEF Advances, SnapInv, Typed, RowsInOrder, ReplacedAreKnown
<1>3. PlacesOfLanes'
  BY <1>1 DEF Advances, SnapInv, PlacesOfLanes, GatedPlaces, InComparisonPlaces,
              Lanes
<1>4. LanesBeginOnce'
  BY <1>1 DEF Advances, SnapInv, LanesBeginOnce, Untouched, FilesKeep
<1>5. ForeignIsSeen'
  <2> SUFFICES ASSUME l \in foreign'
               PROVE  \/ \E k \in DOMAIN rows[l] : rows[l][k].status = "failed"
                      \/ \E i \in Implementations : <<l, i, FALSE>> \in replaced
    BY DEF Advances, ForeignIsSeen
  <2>1. CASE \E i \in Implementations : <<l, i, FALSE>> \in replaced
    BY <2>1
  <2>2. CASE l \in foreign
    <3>1. at \in EarlyPlaces(l) /\ at # "qualify" /\ lane = l
      BY DEF Advances, EarlyPlaces, GatedPlaces, InComparisonPlaces
    <3>2. QED
      BY <2>2, <3>1 DEF SnapInv, ForeignIsSeen
  <2>3. QED
    BY <2>1, <2>2 DEF Advances
<1>6. Gated'
  BY RowsDecide DEF Advances, Gated
<1>7. ReportsHold'
  BY <1>1, RowsDecide DEF Advances, SnapInv, ReportsHold, FilesKeep, Lanes
<1>8. QED
  BY <1>2, <1>3, <1>4, <1>5, <1>6, <1>7 DEF SnapInv

(* A lane writes its report, or the write is cut.                          *)
Publishes(l) ==
    /\ lane = l /\ at = "publish" /\ at' \in {"complete", "undo", "ended"}
    /\ UNCHANGED <<command, lane, build, rows, foreign, identity, stale, edited,
                   replaced, lanes, runjson>>
    /\ \A m \in Lanes \ {l} :
        files'[ReportOf(m)] = "new" => files[ReportOf(m)] = "new"

LEMMA PublishesKeeps ==
    ASSUME SnapInv, NEW l \in Lanes, Publishes(l) PROVE SnapInv'
<1>1. Typed' /\ RowsInOrder' /\ ReplacedAreKnown' /\ PlacesOfLanes'
  BY DEF Publishes, SnapInv, Typed, RowsInOrder, ReplacedAreKnown,
         PlacesOfLanes, HandledPlaces, BuildPlaces, InComparisonPlaces
<1>2. LanesBeginOnce'
  BY DEF Publishes, SnapInv, LanesBeginOnce, Untouched
<1>3. ForeignIsSeen' /\ Gated' /\ LastLooks'
  BY DEF Publishes, SnapInv, ForeignIsSeen, Gated, LastLooks, EarlyPlaces,
         GatedPlaces, InComparisonPlaces, HandledPlaces, BuildPlaces
<1>4. Qualified(l) /\ SameSnapshot(l) /\ l \notin foreign /\ command # "paired"
      /\ (l = "catalog" => identity = {}) /\ (l = "w3c" => ~stale)
  BY DEF Publishes, SnapInv, Gated, GatedPlaces, LastLooks, PlacesOfLanes, Lanes
<1>5. ReportsHold'
  BY <1>4, RowsDecide DEF Publishes, SnapInv, ReportsHold, LatePlaces
<1>6. QED
  BY <1>1, <1>2, <1>3, <1>5 DEF SnapInv

-----------------------------------------------------------------------------
(* The steps of the scripts, one after another.                            *)

(* Where an exception goes.                                                *)
LEMMA RaiseGoes ==
    ASSUME NEW kind, Raise(kind)
    PROVE  /\ UNCHANGED <<command, lane>>
           /\ at \in LatePlaces => at' \in LatePlaces
           /\ at' \in OutsidePlaces \/ (at' = "discard" /\ at \in InComparisonPlaces)
BY DEF Raise, Handler, InComparison, InComparisonPlaces, OutsidePlaces, LatePlaces

(* A status is written, or none.                                           *)
LEMMA StatusIsTyped ==
    ASSUME SnapInv, NEW o, NEW s \in Statuses, Status(o, s) \/ UNCHANGED runjson
    PROVE  runjson' \in [Owners -> Statuses]
BY DEF SnapInv, Typed, Status

LEMMA BuildKeepsSnap == SnapInv /\ BuildInv /\ Build => SnapInv'
<1> SUFFICES ASSUME SnapInv, BuildInv, Build PROVE SnapInv'
  OBVIOUS
<1>1. Steady
  BY DEF Build, BuildStep, BeginBuild, CallPrepare, TakePrepared, Compile,
         CheckInputs, WriteManifest, BuildFails, Goto, Raise, whereVars,
         fileVars, inputVars, buildVars, benchVars, afterBench, suiteVars,
         afterSuite, campaignVars, Steady, FilesKeep, SnapInv, Typed
<1>2. build \in GoodRows
  BY DEF BuildInv, RowsAreGood
<1>3. CASE BeginBuild
  BY <1>1, <1>3, HandlingKeeps
     DEF BeginBuild, Handling, HandledPlaces, BuildPlaces, Goto, NoBuild
<1>4. CASE CallPrepare
  BY <1>1, <1>4, StillKeeps DEF CallPrepare, Still, whereVars, buildVars
<1>5. CASE TakePrepared
  <2>1. CASE Raise("interrupt") /\ build' = NoBuild
    BY <1>1, <2>1, RaiseGoes, OutsideKeeps DEF Outside
  <2>2. CASE at' \in {"compile", "manifest", "built"} /\ UNCHANGED <<command, lane>>
             /\ (UNCHANGED build \/ Failed)
    <3>1. at \in HandledPlaces /\ at # "qualify"
      BY <1>5 DEF TakePrepared, HandledPlaces, BuildPlaces
    <3>2. build'.implementation = build.implementation
          /\ build'.assertions = build.assertions
      BY <1>2, <2>2 DEF Failed, GoodRows, Rows
    <3>3. Handling
      BY <1>1, <2>2, <3>1, <3>2
         DEF Handling, HandledPlaces, BuildPlaces, SnapInv, RowsInOrder
    <3>4. QED
      BY <3>3, HandlingKeeps
  <2>3. QED
    BY <1>5, <2>1, <2>2 DEF TakePrepared, Goto
<1>6. CASE Compile \/ CheckInputs \/ WriteManifest
  <2>1. at \in HandledPlaces /\ at # "qualify" /\ at' \in HandledPlaces
        /\ at' # "qualify" /\ UNCHANGED lane
    BY <1>6 DEF Compile, CheckInputs, WriteManifest, Goto, HandledPlaces, BuildPlaces
  <2>2. build'.implementation = build.implementation
        /\ build'.assertions = build.assertions
    BY <1>2, <1>6 DEF Compile, CheckInputs, WriteManifest, Failed, GoodRows, Rows
  <2>3. Handling
    BY <1>1, <2>1, <2>2 DEF Handling, SnapInv, RowsInOrder
  <2>4. QED
    BY <2>3, HandlingKeeps
<1>7. CASE BuildFails
  <2>1. build'.implementation = NextBuild[1] /\ build'.assertions = NextBuild[2]
    BY <1>2, <1>7 DEF BuildFails, GoodRows, Rows
  <2>2. Handling
    BY <1>1, <1>7, <2>1
       DEF BuildFails, BuildSteps, Handling, HandledPlaces, BuildPlaces, Goto
  <2>3. QED
    BY <2>2, HandlingKeeps
<1>8. QED
  BY <1>3, <1>4, <1>5, <1>6, <1>7 DEF Build, BuildStep

LEMMA BuildsKeepSnap == SnapInv /\ BuildInv /\ (Tools \/ Builds) => SnapInv'
<1> SUFFICES ASSUME SnapInv, BuildInv, Tools \/ Builds PROVE SnapInv'
  OBVIOUS
<1>0. UNCHANGED <<command, foreign, identity, stale, edited, replaced, lanes>>
      /\ FilesKeep
  BY DEF Tools, Toolchain, Builds, StartBuilds, RecordBuild, EndBuilds,
         EndBuildsBadly, Goto, Exit, fileVars, inputVars, laneVars, benchVars,
         afterBench, suiteVars, afterSuite, campaignVars, FilesKeep
<1>1. runjson' \in [Owners -> Statuses]
  <2>1. \E s \in Statuses : Status("implementations", s) \/ UNCHANGED runjson
    BY DEF Tools, Toolchain, Builds, StartBuilds, RecordBuild, EndBuilds,
           EndBuildsBadly, Statuses, fileVars
  <2>2. QED
    BY <2>1, StatusIsTyped
<1>2. CASE Tools
  BY <1>0, <1>1, <1>2, FirstStepsKeep
     DEF Tools, Toolchain, Goto, laneVars, buildVars, Steady, FirstPlaces
<1>3. CASE StartBuilds
  BY <1>0, <1>1, <1>3, StartsKeep
     DEF StartBuilds, Steady, FirstPlaces, buildVars, Lanes
<1>4. CASE RecordBuild
  BY <1>0, <1>1, <1>4, AppendsKeeps
     DEF RecordBuild, Appends, HandledPlaces, Goto
<1>5. CASE EndBuilds \/ EndBuildsBadly
  BY <1>0, <1>1, <1>5, OutsideKeeps
     DEF EndBuilds, EndBuildsBadly, Exit, buildVars, Outside, Steady,
         OutsidePlaces, LatePlaces
<1>6. QED
  BY <1>2, <1>3, <1>4, <1>5 DEF Builds

(* Calibration gives up, after a last sample.                              *)
LEMMA GivesUp ==
    ASSUME SnapInv, at = "calibrate", at' = "discard", FilesKeep,
           UNCHANGED <<command, lane, build, rows, identity, stale, edited,
                       replaced, lanes, runjson>>,
           foreign' \in {foreign, foreign \cup {lane}}
    PROVE  SnapInv'
<1>1. Typed' /\ RowsInOrder' /\ ReplacedAreKnown' /\ PlacesOfLanes'
  BY DEF SnapInv, Typed, RowsInOrder, ReplacedAreKnown, PlacesOfLanes,
         HandledPlaces, BuildPlaces, InComparisonPlaces
<1>2. LanesBeginOnce'
  BY DEF SnapInv, LanesBeginOnce, Untouched, FilesKeep
<1>3. ForeignIsSeen' /\ Gated' /\ LastLooks'
  BY DEF SnapInv, ForeignIsSeen, Gated, LastLooks, EarlyPlaces, GatedPlaces,
         InComparisonPlaces, HandledPlaces, BuildPlaces
<1>4. ReportsHold'
  BY RowsDecide DEF SnapInv, ReportsHold, FilesKeep, LatePlaces
<1>5. QED
  BY <1>1, <1>2, <1>3, <1>4 DEF SnapInv

(* A step inside the comparison.                                           *)
LEMMA SamplesKeep ==
    ASSUME SnapInv, at \in InComparisonPlaces, at' \in InComparisonPlaces, FilesKeep,
           UNCHANGED <<command, lane, build, rows, stale, edited, replaced, lanes,
                       runjson>>,
           \/ foreign' = foreign
           \/ \E role \in Roles : Runs(Built(role))
    PROVE  SnapInv'
<1>1. foreign' \in {foreign, foreign \cup {lane}}
  BY DEF Runs
<1>2. CASE command = "paired"
  BY <1>1, <1>2, PairedKeeps
<1>3. CASE lane = "catalog"
  <2>1. \/ foreign' = foreign
        \/ /\ foreign' = foreign \cup {"catalog"}
           /\ \E i \in Implementations : <<"catalog", i, FALSE>> \in replaced
    BY <1>3 DEF Runs, Built, Implementations
  <2>2. Advances("catalog")
    BY <1>3, <2>1
       DEF Advances, GatedPlaces, SnapInv, Gated, Lanes, Typed
  <2>3. LastLooks'
    BY <1>3 DEF SnapInv, LastLooks, InComparisonPlaces
  <2>4. QED
    BY <2>2, <2>3, AdvancesKeeps DEF Lanes
<1>4. QED
  BY <1>2, <1>3 DEF SnapInv, PlacesOfLanes

LEMMA CompareKeepsSnap == SnapInv /\ BuildInv /\ Compare => SnapInv'
<1> SUFFICES ASSUME SnapInv, BuildInv, Compare PROVE SnapInv'
  OBVIOUS
<1>0. UNCHANGED <<command, lane, build, rows, stale, edited, replaced, lanes, runjson>>
      /\ runjson' \in [Owners -> Statuses]
  BY DEF Compare, BenchStep, StartComparison, RefuseComparison, Identify,
         SampleFirst, Sample, Calibrate, Double, Warmup, MeasurePair,
         PublishComparison, PublishComparisonCut, PublishAll, PublishCut,
         EndComparison, Discard, AfterDiscard, Raise, Goto, Exit, Killed,
         whereVars, fileVars, inputVars, buildVars, afterBench, suiteVars,
         afterSuite, campaignVars, SnapInv, Typed
<1>1. CASE StartComparison
  <2>1. FilesKeep /\ UNCHANGED foreign /\ at' = "identify" /\ command = "paired"
    BY <1>1, RemovedKeeps DEF StartComparison, Goto
  <2>2. QED
    BY <1>0, <2>1, PairedKeeps DEF InComparisonPlaces
<1>2. CASE RefuseComparison \/ Discard \/ EndComparison
  <2>1. FilesKeep
    BY <1>2, RemovedKeeps
       DEF RefuseComparison, Discard, EndComparison, fileVars, FilesKeep
  <2>2. QED
    BY <1>0, <1>2, <2>1, OutsideKeeps
       DEF RefuseComparison, Discard, EndComparison, AfterDiscard, Exit, Killed,
           benchVars, Outside, Steady, OutsidePlaces, LatePlaces
<1>3. CASE Identify
  BY <1>0, <1>3, SamplesKeep
     DEF Identify, InComparisonPlaces, Goto, fileVars, FilesKeep
<1>4. CASE SampleFirst \/ Calibrate \/ Warmup \/ MeasurePair
  <2>1. FilesKeep /\ UNCHANGED identity /\ at \in InComparisonPlaces
    BY <1>4 DEF SampleFirst, Calibrate, Warmup, MeasurePair, Sample, fileVars,
                FilesKeep, InComparisonPlaces
  <2>2. foreign' = foreign \/ \E role \in Roles : Runs(Built(role))
    <3>1. Built(RoleNow) \in {Built("A"), Built("B")}
      BY DEF Built
    <3>2. QED
      BY <1>4, <3>1
         DEF SampleFirst, Calibrate, Warmup, MeasurePair, Sample, Roles, Runs
  <2>3. \/ at' \in InComparisonPlaces
        \/ at = "calibrate" /\ at' = "discard"
    <3>1. CASE at = "calibrate" /\ Raise("error")
      BY <3>1 DEF Raise, Handler, InComparison, InLane
    <3>2. CASE at' \in {at, "warmup", "pair", "compare"}
      BY <2>1, <3>2 DEF InComparisonPlaces
    <3>3. QED
      BY <1>4, <3>1, <3>2 DEF SampleFirst, Calibrate, Double, Warmup, MeasurePair,
                              Goto, whereVars
  <2>4. foreign' \in {foreign, foreign \cup {lane}}
    BY <2>2 DEF Runs
  <2>5. QED
    BY <1>0, <2>1, <2>2, <2>3, <2>4, SamplesKeep, GivesUp
<1>5. CASE PublishComparison
  <2>1. FilesKeep
    BY <1>5, PublishKeeps DEF PublishComparison
  <2>2. CASE command = "paired"
    BY <1>0, <1>5, <2>1, <2>2, OutsideKeeps
       DEF PublishComparison, PublishAll, Goto, benchVars, Outside, Steady,
           OutsidePlaces, LatePlaces
  <2>3. CASE command # "paired"
    <3>1. /\ lane = "catalog" /\ at = "compare" /\ at' = "validate"
          /\ UNCHANGED <<foreign, identity>>
      BY <1>5, <2>3 DEF PublishComparison, PublishAll, Goto, benchVars, SnapInv,
                        PlacesOfLanes, InComparisonPlaces
    <3>2. Advances("catalog") /\ LastLooks'
      BY <1>0, <2>1, <3>1
         DEF Advances, GatedPlaces, InComparisonPlaces, SnapInv, Gated, Lanes,
             LastLooks
    <3>3. QED
      BY <3>2, AdvancesKeeps DEF Lanes
  <2>4. QED
    BY <2>2, <2>3
<1>6. CASE PublishComparisonCut
  <2>1. FilesKeep
    BY <1>6, PublishKeeps DEF PublishComparisonCut
  <2>2. QED
    BY <1>0, <1>6, <2>1, RaiseGoes, OutsideKeeps
       DEF PublishComparisonCut, PublishCut, Killed, Exit, benchVars, Outside,
           Steady, OutsidePlaces, LatePlaces
<1>7. QED
  BY <1>1, <1>2, <1>3, <1>4, <1>5, <1>6 DEF Compare, BenchStep

(* The controls run.                                                       *)
LEMMA ControlsKeep ==
    ASSUME SnapInv, BuildInv, RunControls, FilesKeep,
           UNCHANGED <<command, lane, rows, identity, stale, edited, replaced,
                       lanes, runjson>>
    PROVE  SnapInv'
<1>1. /\ at = "controls" /\ at' = "qualify"
      /\ \/ foreign' = foreign
         \/ /\ foreign' = foreign \cup {lane}
            /\ <<lane, build.implementation, build.assertions>> \in replaced
      /\ at \notin LatePlaces
  BY DEF RunControls, Runs, Exe, Goto, LatePlaces
<1>2. /\ build'.implementation = build.implementation
      /\ build'.assertions = build.assertions /\ build'.status = build.status
  <2>1. build \in GoodRows
    BY DEF BuildInv, RowsAreGood
  <2>2. QED
    BY <2>1 DEF RunControls, GoodRows, Rows
<1>3. Typed' /\ RowsInOrder' /\ ReplacedAreKnown' /\ PlacesOfLanes'
  BY <1>1, <1>2 DEF SnapInv, Typed, RowsInOrder, ReplacedAreKnown, PlacesOfLanes,
     HandledPlaces, InComparisonPlaces, AllBuilt, NextBuild
<1>4. LanesBeginOnce'
  BY <1>1 DEF SnapInv, LanesBeginOnce, Untouched, FilesKeep
<1>5. ForeignIsSeen'
  <2> SUFFICES ASSUME NEW l \in Lanes, lane = l, l \in foreign'
               PROVE  \/ \E k \in DOMAIN rows[l] : rows[l][k].status = "failed"
                      \/ <<l, build.implementation, build.assertions>> \in replaced
                      \/ \E i \in Implementations : <<l, i, FALSE>> \in replaced
    BY <1>1, <1>2 DEF ForeignIsSeen
  <2>1. at \in EarlyPlaces(l)
    BY <1>1 DEF EarlyPlaces, HandledPlaces
  <2>2. QED
    BY <1>1, <2>1 DEF SnapInv, ForeignIsSeen
<1>6. Gated' /\ LastLooks'
  BY <1>1 DEF SnapInv, Gated, LastLooks, GatedPlaces, InComparisonPlaces
<1>7. ReportsHold'
  BY <1>1, RowsDecide DEF SnapInv, ReportsHold, FilesKeep
<1>8. QED
  BY <1>3, <1>4, <1>5, <1>6, <1>7 DEF SnapInv

(* A lane writes its reports.                                              *)
LEMMA PublishIsPublishes ==
    ASSUME NEW l \in Lanes, lane = l, at = "publish",
           NEW names, l = "catalog" => names = CatalogFiles,
           l = "w3c" => names = W3cFiles,
           PublishAll(names, "complete") \/ PublishCut(names),
           UNCHANGED <<build, rows, foreign, identity, stale, edited, replaced, lanes>>
    PROVE  Publishes(l)
<1>1. ASSUME NEW m \in Lanes \ {l} PROVE files'[ReportOf(m)] = files[ReportOf(m)]
  <2>1. CASE l = "catalog" /\ m = "w3c"
    BY <2>1, LanePublishers, PublishSpares
  <2>2. CASE l = "w3c" /\ m = "catalog"
    BY <2>2, LanePublishers, PublishSpares
  <2>3. QED
    BY <1>1, <2>1, <2>2 DEF Lanes
<1>2. UNCHANGED <<command, lane, runjson>> /\ at' \in {"complete", "undo", "ended"}
  BY DEF PublishAll, PublishCut, Goto, Raise, Killed, Exit, Handler, InLane,
         InComparison
<1>3. QED
  BY <1>1, <1>2 DEF Publishes

LEMMA LaneBuildsKeepSnap ==
    ASSUME SnapInv, BuildInv, CatalogOrLane,
           \/ BeginLane("catalog", "tools") \/ BeginLane("w3c", "suite")
           \/ ValidateBuild \/ RunControls \/ RecordQualified \/ RecordFailed
           \/ StartLane \/ EndLane
    PROVE  SnapInv'
<1>0. /\ UNCHANGED <<command, identity, stale, edited, replaced, lanes>> /\ FilesKeep
      /\ build \in GoodRows
  BY DEF CatalogOrLane, BeginLane, ValidateBuild, RunControls, RecordQualified,
         RecordFailed, StartLane, EndLane, Goto, Exit, whereVars, fileVars,
         inputVars, laneVars, benchVars, afterBench, suiteVars, afterSuite,
         campaignVars, FilesKeep, BuildInv, RowsAreGood
<1>1. runjson' \in [Owners -> Statuses]
  <2>1. (\E o \in Lanes : Status(o, "running")) \/ UNCHANGED runjson
    BY DEF BeginLane, ValidateBuild, RunControls, RecordQualified, RecordFailed,
           StartLane, EndLane, fileVars, Lanes
  <2>2. "running" \in Statuses
    BY DEF Statuses
  <2>3. QED
    BY <2>1, <2>2, StatusIsTyped
<1>2. CASE BeginLane("catalog", "tools") \/ BeginLane("w3c", "suite")
  BY <1>0, <1>1, <1>2, FirstStepsKeep
     DEF BeginLane, Goto, laneVars, buildVars, Steady, FirstPlaces
<1>3. CASE ValidateBuild
  <2>1. /\ build'.implementation = build.implementation
        /\ build'.assertions = build.assertions
    BY <1>0, <1>3 DEF ValidateBuild, Failed, GoodRows, Rows
  <2>2. at = "built" /\ at' \in {"built", "controls"} /\ UNCHANGED <<lane, rows, foreign>>
    BY <1>3 DEF ValidateBuild, Goto, whereVars
  <2>3. Handling
    BY <1>0, <1>1, <2>1, <2>2
       DEF Handling, Steady, HandledPlaces, SnapInv, RowsInOrder
  <2>4. QED
    BY <2>3, HandlingKeeps
<1>4. CASE RunControls
  BY <1>0, <1>4, ControlsKeep DEF RunControls, Goto, fileVars
<1>5. CASE RecordQualified
  <2> DEFINE r == [build EXCEPT !.status =
                     IF build.outcomes = {"PASS"} /\ Kept(build)
                     THEN "qualified" ELSE "failed"]
  <2>1. /\ r.implementation = build.implementation
        /\ r.assertions = build.assertions /\ (~Kept(build) => r.status = "failed")
    BY <1>0 DEF GoodRows, Rows
  <2>2. Append1(r)
    BY <1>5 DEF RecordQualified
  <2> HIDE DEF r
  <2>3. Appends(r)
    BY <1>0, <1>1, <1>5, <2>1, <2>2
       DEF RecordQualified, Appends, HandledPlaces, Goto
  <2>4. QED
    BY <2>3, AppendsKeeps
<1>6. CASE RecordFailed
  BY <1>0, <1>1, <1>6, AppendsKeeps
     DEF RecordFailed, Appends, HandledPlaces, Goto
<1>7. CASE StartLane
  BY <1>0, <1>1, <1>7, StartsKeep
     DEF StartLane, laneVars, buildVars, Steady, FirstPlaces, Lanes
<1>8. CASE EndLane
  BY <1>0, <1>1, <1>8, OutsideKeeps
     DEF EndLane, Exit, laneVars, buildVars, Outside, Steady, OutsidePlaces,
         LatePlaces
<1>9. QED
  BY <1>2, <1>3, <1>4, <1>5, <1>6, <1>7, <1>8

(* A step of a lane that goes on behind the gate, and takes no evidence.   *)
LEMMA GoesOn ==
    ASSUME SnapInv, NEW l \in Lanes, lane = l, Steady, UNCHANGED <<lane, build>>,
           at \in {"build"} \cup GatedPlaces(l), at' \in GatedPlaces(l),
           Qualified(l), LastLooks'
    PROVE  SnapInv'
<1>1. Advances(l)
  BY DEF Advances, Steady
<1>2. QED
  BY <1>1, AdvancesKeeps

(* What the catalog lane establishes after its builds.                     *)
LEMMA CatalogLaneKeepsSnap ==
    ASSUME SnapInv, BuildInv, CatalogOrLane,
           CatalogGate \/ Measure \/ ValidateComparison \/ ValidateSources
    PROVE  SnapInv'
<1>0. Steady /\ UNCHANGED <<lane, build>>
  <2>1. Status("catalog", "measuring") \/ UNCHANGED runjson
    BY DEF CatalogGate, Measure, ValidateComparison, ValidateSources, fileVars
  <2>2. runjson' \in [Owners -> Statuses]
    BY <2>1, StatusIsTyped DEF Statuses
  <2>3. QED
    BY <2>2 DEF CatalogOrLane, CatalogGate, Measure, ValidateComparison,
         ValidateSources, Goto, Raise, fileVars, inputVars, laneVars, buildVars,
         benchVars, afterBench, suiteVars, afterSuite, campaignVars, Steady,
         FilesKeep
<1>1. lane = "catalog" /\ lane \in Lanes
  BY DEF CatalogGate, Measure, ValidateComparison, ValidateSources, SnapInv,
         PlacesOfLanes, Lanes
<1>2. ASSUME NEW k, Raise(k) PROVE SnapInv'
  BY <1>0, <1>2, RaiseGoes, OutsideKeeps DEF Outside
<1>3. SameSnapshot("catalog")' = SameSnapshot("catalog")
  BY <1>0, RowsDecide DEF Steady
<1>4. CASE CatalogGate /\ ~Raise("gate") /\ ~Raise("error")
  <2>1. /\ at = "build" /\ AllBuilt /\ AllHave("qualified") /\ at' = "measure"
    BY <1>4 DEF CatalogGate, Goto
  <2>2. Qualified("catalog")
    BY <1>1, <2>1, GateQualifies
  <2>3. LastLooks'
    BY <1>0, <1>1, <2>1 DEF SnapInv, LastLooks, Steady
  <2>4. QED
    BY <1>0, <1>1, <2>1, <2>2, <2>3, GoesOn DEF GatedPlaces
<1>5. CASE Measure /\ ~Raise("error")
  <2>1. at = "measure" /\ at' = "identify"
    BY <1>5 DEF Measure, Goto
  <2>2. Qualified("catalog")
    BY <1>1, <2>1 DEF SnapInv, Gated, GatedPlaces
  <2>3. LastLooks'
    BY <1>0, <1>1, <2>1 DEF SnapInv, LastLooks, Steady
  <2>4. QED
    BY <1>0, <1>1, <2>1, <2>2, <2>3, GoesOn DEF GatedPlaces, InComparisonPlaces
<1>6. CASE ValidateComparison /\ ~Raise("error")
  <2>1. at = "validate" /\ at' = "sources" /\ identity = {} /\ VerifyArtifacts
    BY <1>6 DEF ValidateComparison, ValidComparison, Goto
  <2>2. Qualified("catalog")
    BY <1>1, <2>1 DEF SnapInv, Gated, GatedPlaces
  <2>3. "catalog" \notin foreign
    BY <1>1, <2>1, LookFinds DEF GatedPlaces
  <2>4. LastLooks'
    BY <1>0, <1>1, <2>1, <2>3 DEF SnapInv, LastLooks, Steady
  <2>5. QED
    BY <1>0, <1>1, <2>1, <2>2, <2>4, GoesOn DEF GatedPlaces
<1>7. CASE ValidateSources /\ ~Raise("error")
  <2>1. at = "sources" /\ at' = "publish" /\ VerifySources
    BY <1>7 DEF ValidateSources, Goto
  <2>2. Qualified("catalog")
    BY <1>1, <2>1 DEF SnapInv, Gated, GatedPlaces
  <2>3. SameSnapshot("catalog")
    BY <1>1, <2>1, SourcesFind
  <2>4. LastLooks'
    BY <1>0, <1>1, <1>3, <2>1, <2>3 DEF SnapInv, LastLooks, Steady
  <2>5. QED
    BY <1>0, <1>1, <2>1, <2>2, <2>4, GoesOn DEF GatedPlaces
<1>8. QED
  BY <1>2, <1>4, <1>5, <1>6, <1>7

(* The reports of the catalog lane, and the handler of both lanes.         *)
LEMMA LaneReportsKeepSnap ==
    ASSUME SnapInv, BuildInv, CatalogOrLane,
           PublishCatalog \/ CompleteCatalog \/ Undo \/ UndoCut
    PROVE  SnapInv'
<1>0. UNCHANGED <<command, lane, build, rows, foreign, identity, stale, edited,
                  replaced, lanes>>
  BY DEF CatalogOrLane, PublishCatalog, CompleteCatalog, Undo, UndoCut, AfterUndo,
         PublishAll, PublishCut, Goto, Raise, Exit, Killed, inputVars, laneVars,
         buildVars, benchVars, afterBench, suiteVars, afterSuite, campaignVars
<1>1. CASE PublishCatalog
  <2>1. lane = "catalog" /\ lane \in Lanes /\ at = "publish"
        /\ (PublishAll(CatalogFiles, "complete") \/ PublishCut(CatalogFiles))
    BY <1>1 DEF PublishCatalog, Lanes
  <2>2. Publishes("catalog")
    BY <1>0, <2>1, PublishIsPublishes
  <2>3. QED
    BY <2>1, <2>2, PublishesKeeps
<1>2. CASE CompleteCatalog
  <2>1. runjson' \in [Owners -> Statuses]
    BY <1>2, StatusIsTyped DEF CompleteCatalog, Statuses
  <2>2. QED
    BY <1>0, <1>2, <2>1, OutsideKeeps
       DEF CompleteCatalog, Goto, Outside, Steady, FilesKeep, OutsidePlaces,
           LatePlaces
<1>3. CASE Undo \/ UndoCut
  <2>1. Status(lane, FailedStatus) \/ UNCHANGED runjson
    BY <1>3 DEF Undo, UndoCut
  <2>2. runjson' \in [Owners -> Statuses]
    BY <2>1, StatusIsTyped DEF Statuses, FailedStatus
  <2>3. FilesKeep
    BY <1>3, RemovedKeeps DEF Undo, UndoCut
  <2>4. at' \in {"withdraw", "failed", "ended"}
    BY <1>3 DEF Undo, UndoCut, AfterUndo, Exit, Killed
  <2>5. QED
    BY <1>0, <2>2, <2>3, <2>4, OutsideKeeps
       DEF Outside, Steady, OutsidePlaces, LatePlaces
<1>4. QED
  BY <1>1, <1>2, <1>3

LEMMA CatalogOrLaneKeepsSnap == SnapInv /\ BuildInv /\ CatalogOrLane => SnapInv'
BY LaneBuildsKeepSnap, CatalogLaneKeepsSnap, LaneReportsKeepSnap
   DEF CatalogOrLane, CatalogStep

-----------------------------------------------------------------------------
(* The W3C lane.                                                           *)
LEMMA W3cRunKeepsSnap ==
    ASSUME SnapInv, BuildInv, W3c, RunW3cCase PROVE SnapInv'
<1>1. /\ at = "run" /\ at' = "recheck input" /\ lane = "w3c" /\ lane \in Lanes
      /\ UNCHANGED <<command, lane, build, rows, edited, replaced, lanes, runjson,
                     identity, files>>
  BY DEF W3c, RunW3cCase, Goto, fileVars, inputVars, buildVars, benchVars,
         afterSuite, campaignVars, Lanes
<1>2. \/ foreign' = foreign
      \/ /\ foreign' = foreign \cup {"w3c"}
         /\ \E i \in Implementations : <<"w3c", i, FALSE>> \in replaced
  <2>1. foreign' = foreign \/ Runs(<<"w3c", EngineNow, FALSE>>)
    BY DEF RunW3cCase
  <2>2. CASE <<"w3c", EngineNow, FALSE>> \in replaced
    <3>1. <<"w3c", EngineNow, FALSE>>[2] \in Implementations
      BY <2>2 DEF SnapInv, ReplacedAreKnown
    <3>2. EngineNow \in Implementations
      BY <3>1
    <3>3. QED
      BY <1>1, <2>1, <2>2, <3>2 DEF Runs
  <2>3. QED
    BY <2>1, <2>2 DEF Runs
<1>3. stale' => edited # {}
  BY DEF RunW3cCase, SnapInv, LastLooks
<1>4. Advances("w3c")
  BY <1>1, <1>2 DEF Advances, GatedPlaces, FilesKeep, SnapInv, Typed, Gated
<1>5. LastLooks'
  BY <1>1, <1>3 DEF LastLooks
<1>6. QED
  BY <1>1, <1>4, <1>5, AdvancesKeeps

W3cLooks ==
    \/ W3cGate \/ BeginEngine \/ CheckInput \/ RecheckInput
    \/ CheckMatrix \/ CheckW3cSources \/ CheckW3cArtifacts

LEMMA W3cLooksKeepSnap ==
    ASSUME SnapInv, BuildInv, W3c, W3cLooks PROVE SnapInv'
<1>0. Steady /\ UNCHANGED <<lane, build>>
  <2>1. Status("w3c", "executing") \/ UNCHANGED runjson
    BY DEF W3cLooks, W3cGate, BeginEngine, CheckInput, RecheckInput,
           CheckMatrix, CheckW3cSources, CheckW3cArtifacts, fileVars
  <2>2. runjson' \in [Owners -> Statuses]
    BY <2>1, StatusIsTyped DEF Statuses
  <2>3. UNCHANGED <<command, lane, files, laneVars, suiteVars>>
    BY DEF W3cLooks, W3cGate, BeginEngine, CheckInput, RecheckInput,
           CheckMatrix, CheckW3cSources, CheckW3cArtifacts, fileVars, Goto, Raise
  <2>4. QED
    BY <2>2, <2>3 DEF W3c, inputVars, laneVars, buildVars, benchVars, suiteVars,
                      afterSuite, campaignVars, Steady, FilesKeep
<1>1. lane = "w3c" /\ lane \in Lanes
  BY DEF W3cLooks, W3cGate, BeginEngine, CheckInput, RecheckInput, CheckMatrix,
         CheckW3cSources, CheckW3cArtifacts, SnapInv, PlacesOfLanes, Lanes
<1>2. CASE Raise("error")
  BY <1>0, <1>2, RaiseGoes, OutsideKeeps DEF Outside
<1>3. /\ SameSnapshot("w3c")' = SameSnapshot("w3c")
      /\ UNCHANGED <<lane, foreign, stale, edited>>
  BY <1>0, RowsDecide DEF Steady
<1>4. ASSUME at \in GatedPlaces("w3c") PROVE Qualified("w3c")
  BY <1>1, <1>4 DEF SnapInv, Gated
<1>5. CASE W3cGate /\ ~Raise("error")
  <2>1. /\ at = "build" /\ AllBuilt /\ AllHave("executed") /\ at' = "engine"
    BY <1>5 DEF W3cGate, Goto
  <2>2. Qualified("w3c")
    BY <1>1, <2>1, GateQualifies
  <2>3. LastLooks'
    BY <1>1, <1>3, <2>1 DEF SnapInv, LastLooks
  <2>4. QED
    BY <1>0, <1>1, <2>1, <2>2, <2>3, GoesOn DEF GatedPlaces
<1>6. CASE (BeginEngine \/ CheckInput \/ RecheckInput) /\ ~Raise("error")
  <2>1. /\ at \in {"engine", "input", "recheck input"}
        /\ at' \in {"input", "run", "matrix", "engine"}
    BY <1>6 DEF BeginEngine, CheckInput, RecheckInput, Goto
  <2>2. LastLooks'
    BY <1>1, <1>3, <2>1 DEF SnapInv, LastLooks
  <2>3. QED
    BY <1>0, <1>1, <1>4, <2>1, <2>2, GoesOn DEF GatedPlaces
<1>7. CASE CheckMatrix /\ ~Raise("error")
  <2>1. at = "matrix" /\ at' = "sources" /\ edited = {}
    BY <1>7 DEF CheckMatrix, Goto
  <2>2. LastLooks'
    BY <1>1, <1>3, <2>1 DEF SnapInv, LastLooks
  <2>3. QED
    BY <1>0, <1>1, <1>4, <2>1, <2>2, GoesOn DEF GatedPlaces
<1>8. CASE CheckW3cSources /\ ~Raise("error")
  <2>1. at = "sources" /\ at' = "artifacts" /\ SameSnapshot("w3c")
    BY <1>1, <1>8, SourcesFind DEF CheckW3cSources, Goto
  <2>2. LastLooks'
    BY <1>1, <1>3, <2>1 DEF SnapInv, LastLooks
  <2>3. QED
    BY <1>0, <1>1, <1>4, <2>1, <2>2, GoesOn DEF GatedPlaces
<1>9. CASE CheckW3cArtifacts /\ ~Raise("error")
  <2>1. at = "artifacts" /\ at' = "publish" /\ VerifyArtifacts
    BY <1>9 DEF CheckW3cArtifacts, Goto
  <2>2. "w3c" \notin foreign
    BY <1>1, <2>1, LookFinds DEF GatedPlaces
  <2>3. LastLooks'
    BY <1>1, <1>3, <2>1, <2>2 DEF SnapInv, LastLooks
  <2>4. QED
    BY <1>0, <1>1, <1>4, <2>1, <2>3, GoesOn DEF GatedPlaces
<1>10. QED
  BY <1>2, <1>5, <1>6, <1>7, <1>8, <1>9 DEF W3cLooks

LEMMA W3cKeepsSnap == SnapInv /\ BuildInv /\ W3c => SnapInv'
<1> SUFFICES ASSUME SnapInv, BuildInv, W3c PROVE SnapInv'
  OBVIOUS
<1> DEFINE rest == PrepareSuite \/ RecordExecuted \/ PublishW3c \/ CompleteW3c
<1>0. rest => UNCHANGED <<command, lane, foreign, identity, stale, edited,
                          replaced, lanes>>
  BY DEF W3c, PrepareSuite, RecordExecuted, PublishW3c, CompleteW3c, PublishAll,
         PublishCut, Goto, Raise, Exit, Killed, inputVars, laneVars, benchVars,
         suiteVars, afterSuite, campaignVars
<1>1. CASE PrepareSuite
  BY <1>0, <1>1, FirstStepsKeep
     DEF PrepareSuite, Goto, fileVars, laneVars, buildVars, Steady, FilesKeep,
         FirstPlaces, SnapInv, Typed
<1>2. CASE RecordExecuted
  <2> DEFINE r == [build EXCEPT !.status = IF Kept(build) THEN "executed" ELSE "failed"]
  <2>1. /\ r.implementation = build.implementation
        /\ r.assertions = build.assertions /\ (~Kept(build) => r.status = "failed")
    BY DEF BuildInv, RowsAreGood, GoodRows, Rows
  <2>2. Append1(r)
    BY <1>2 DEF RecordExecuted
  <2> HIDE DEF r
  <2>3. Appends(r)
    BY <1>0, <1>2, <2>1, <2>2
       DEF RecordExecuted, Appends, HandledPlaces, Goto, fileVars, FilesKeep,
           SnapInv, Typed
  <2>4. QED
    BY <2>3, AppendsKeeps
<1>3. CASE PublishW3c
  <2>1. lane = "w3c" /\ lane \in Lanes /\ at = "publish" /\ UNCHANGED <<build, rows>>
        /\ (PublishAll(W3cFiles, "complete") \/ PublishCut(W3cFiles))
    BY <1>3 DEF PublishW3c, Lanes, laneVars, buildVars
  <2>2. Publishes("w3c")
    BY <1>0, <1>3, <2>1, PublishIsPublishes
  <2>3. QED
    BY <2>1, <2>2, PublishesKeeps
<1>4. CASE CompleteW3c
  <2>1. runjson' \in [Owners -> Statuses]
    BY <1>4, StatusIsTyped DEF CompleteW3c, Statuses, W3cStatus
  <2>2. QED
    BY <1>0, <1>4, <2>1, OutsideKeeps
       DEF CompleteW3c, Goto, laneVars, buildVars, Outside, Steady, FilesKeep,
           OutsidePlaces, LatePlaces
<1>5. QED
  BY <1>1, <1>2, <1>3, <1>4, W3cRunKeepsSnap, W3cLooksKeepSnap
     DEF W3c, W3cStep, W3cLooks

-----------------------------------------------------------------------------
(* The commands that write no report of a lane.                            *)
LEMMA ConformanceKeepsSnap == SnapInv /\ Conformance => SnapInv'
<1> SUFFICES ASSUME SnapInv, Conformance PROVE SnapInv'
  OBVIOUS
<1>1. UNCHANGED <<command, lane, build, rows, foreign, identity, stale, edited,
                  replaced, lanes, runjson>>
  BY DEF Conformance, ConformanceStep, StartConformance, Setup,
         RunConformanceCase, SetupError, Judge, WriteReports, EndConformance,
         PublishAll, PublishCut, Goto, Raise, Exit, Killed, whereVars, fileVars,
         inputVars, laneVars, buildVars, benchVars, suiteVars, afterSuite,
         campaignVars
<1>2. FilesKeep
  BY RemovedKeeps, PublishKeeps
     DEF Conformance, ConformanceStep, StartConformance, Setup,
         RunConformanceCase, SetupError, Judge, WriteReports, EndConformance,
         fileVars, FilesKeep
<1>3. CASE WriteReports
  BY <1>1, <1>2, <1>3, RaiseGoes, OutsideKeeps
     DEF WriteReports, PublishAll, PublishCut, Goto, Killed, Exit, Outside,
         Steady, OutsidePlaces, LatePlaces, SnapInv, Typed
<1>4. CASE ~WriteReports
  <2>1. at' \in {"setup", "ended", "case", "judge", "reports"} /\ at \notin LatePlaces
    BY <1>4 DEF Conformance, ConformanceStep, StartConformance, Setup,
                RunConformanceCase, SetupError, Judge, EndConformance, Goto,
                Exit, whereVars, LatePlaces
  <2>2. QED
    BY <1>1, <1>2, <2>1, OutsideKeeps
       DEF Outside, Steady, OutsidePlaces, LatePlaces, SnapInv, Typed
<1>5. QED
  BY <1>3, <1>4

LEMMA RegressionKeepsSnap == SnapInv /\ BuildInv /\ Regression => SnapInv'
<1> SUFFICES ASSUME SnapInv, BuildInv, Regression PROVE SnapInv'
  OBVIOUS
<1>0. UNCHANGED <<command, foreign, identity, stale, edited, replaced, lanes>>
  BY DEF Regression, RegressionStep, StartRegression, SkipFailed, TraceCases,
         RunLifecycle, EndTraces, PublishRegression, EndRegression,
         AbortRegression, PublishAll, PublishCut, Goto, Raise, Exit, Killed,
         inputVars, otherThanJudged, laneVars, benchVars, suiteVars, campaignVars
<1>1. FilesKeep
  BY PublishKeeps
     DEF Regression, RegressionStep, StartRegression, SkipFailed, TraceCases,
         RunLifecycle, EndTraces, PublishRegression, EndRegression,
         AbortRegression, fileVars, FilesKeep
<1>2. runjson' \in [Owners -> Statuses]
  <2>1. \E s \in Statuses : Status("regression", s) \/ UNCHANGED runjson
    BY DEF Regression, RegressionStep, StartRegression, SkipFailed, TraceCases,
           RunLifecycle, EndTraces, PublishRegression, PublishAll, PublishCut,
           EndRegression, AbortRegression, fileVars, Statuses, RegressionStatus
  <2>2. QED
    BY <2>1, StatusIsTyped
<1>3. CASE StartRegression
  BY <1>0, <1>1, <1>2, <1>3, StartsKeep
     DEF StartRegression, otherThanJudged, laneVars, buildVars, Steady,
         FirstPlaces, Lanes
<1>4. CASE (SkipFailed \/ RunLifecycle) /\ at' = "build"
  BY <1>0, <1>1, <1>2, <1>4, AppendsKeeps
     DEF SkipFailed, RunLifecycle, Appends, HandledPlaces, Goto
<1>5. CASE (SkipFailed \/ TraceCases) /\ at' # "build"
  <2>1. /\ at \in {"built", "trace"} /\ at' \in {"trace", "lifecycle"}
        /\ UNCHANGED <<lane, build, rows>>
    BY <1>5 DEF SkipFailed, TraceCases, otherThanJudged, laneVars, buildVars, Goto
  <2>2. Handling
    BY <1>0, <1>1, <1>2, <2>1
       DEF Handling, Steady, HandledPlaces, SnapInv, RowsInOrder
  <2>3. QED
    BY <2>2, HandlingKeeps
<1>6. CASE EndTraces \/ PublishRegression \/ EndRegression \/ AbortRegression
  BY <1>0, <1>1, <1>2, <1>6, RaiseGoes, OutsideKeeps
     DEF EndTraces, PublishRegression, PublishAll, PublishCut, EndRegression,
         AbortRegression, Goto, Exit, Killed, otherThanJudged, laneVars,
         buildVars, Outside, Steady, OutsidePlaces, LatePlaces
<1>7. QED
  BY <1>3, <1>4, <1>5, <1>6
     DEF Regression, RegressionStep, SkipFailed, TraceCases, RunLifecycle, Goto

LEMMA CampaignKeepsSnap == SnapInv /\ Campaign => SnapInv'
<1> SUFFICES ASSUME SnapInv, Campaign PROVE SnapInv'
  OBVIOUS
<1> DEFINE rest == StartCampaign \/ PublishSummary \/ PublishPlots \/ Finish
                   \/ Withdraw \/ WithdrawLocked \/ WithdrawBroken
<1>1. ASSUME rest PROVE SnapInv'
  <2>1. UNCHANGED <<command, lane, build, rows, foreign, identity, stale, edited,
                    replaced, lanes>>
    BY <1>1 DEF Campaign, StartCampaign, PublishSummary, PublishPlots, Finish,
           Withdraw, WithdrawLocked, WithdrawBroken, PublishAll, PublishCut,
           Goto, Raise, Exit, Killed, inputVars, elsewhere, laneVars, buildVars,
           benchVars, suiteVars, campaignVars
  <2>2. FilesKeep
    <3>1. CASE Withdraw \/ WithdrawLocked \/ WithdrawBroken
      BY <3>1, WithdrawnKeeps DEF Withdraw, WithdrawLocked, WithdrawBroken
    <3>2. QED
      BY <1>1, <3>1, PublishKeeps
         DEF StartCampaign, PublishSummary, PublishPlots, Finish, fileVars,
             FilesKeep
  <2>3. runjson' \in [Owners -> Statuses]
    <3>1. \E s \in Statuses : Status("campaign", s) \/ UNCHANGED runjson
      BY <1>1 DEF StartCampaign, PublishSummary, PublishPlots, Finish, Withdraw,
             WithdrawLocked, WithdrawBroken, PublishAll, PublishCut, fileVars,
             Statuses
    <3>2. QED
      BY <3>1, StatusIsTyped
  <2>4. CASE PublishSummary \/ PublishPlots
    BY <2>1, <2>2, <2>3, <2>4, RaiseGoes, OutsideKeeps
       DEF PublishSummary, PublishPlots, PublishAll, PublishCut, Goto, Killed,
           Exit, Outside, Steady, OutsidePlaces, LatePlaces
  <2>5. CASE StartCampaign \/ Finish \/ Withdraw \/ WithdrawLocked \/ WithdrawBroken
    <3>1. /\ at \in {"start", "finish", "withdraw"} /\ at' \in {"lane", "ended"}
          /\ at = "withdraw" => at' = "ended"
      BY <2>5 DEF StartCampaign, Finish, Withdraw, WithdrawLocked, WithdrawBroken,
                  Goto, Exit, Killed
    <3>2. QED
      BY <2>1, <2>2, <2>3, <3>1, OutsideKeeps
         DEF Outside, Steady, OutsidePlaces, LatePlaces
  <2>6. QED
    BY <1>1, <2>4, <2>5
<1>2. QED
  BY <1>1, NextLaneKeeps, LaneEndsKeeps DEF Campaign, CampaignStep

-----------------------------------------------------------------------------
(* Everybody else.                                                         *)

(* Executables are replaced, and suite files edited.                       *)
LEMMA TouchedKeeps ==
    ASSUME SnapInv,
           UNCHANGED <<command, lane, at, build, rows, foreign, identity, stale,
                       lanes, files, runjson>>,
           replaced \subseteq replaced', edited \subseteq edited',
           \A e \in replaced' : e \in replaced \/ e[2] \in Implementations
    PROVE  SnapInv'
<1>1. Typed' /\ RowsInOrder' /\ ReplacedAreKnown' /\ PlacesOfLanes'
  BY DEF SnapInv, Typed, RowsInOrder, ReplacedAreKnown, PlacesOfLanes, AllBuilt,
         NextBuild
<1>2. LanesBeginOnce' /\ ForeignIsSeen'
  BY DEF SnapInv, LanesBeginOnce, Untouched, ForeignIsSeen
<1>3. Gated' /\ LastLooks' /\ ReportsHold'
  BY RowsDecide DEF SnapInv, Gated, LastLooks, ReportsHold
<1>4. QED
  BY <1>1, <1>2, <1>3 DEF SnapInv

(* The builds in the rows are of the two implementations.                  *)
LEMMA OrderIsKnown ==
    \A p : \A k \in DOMAIN Order(p) : Order(p)[k][1] \in Implementations
<1> DEFINE a == <<"xpact", TRUE>>
           b == <<"xpact-core", TRUE>>
           c == <<"xpact", FALSE>>
           d == <<"xpact-core", FALSE>>
<1>1. /\ a[1] \in Implementations /\ b[1] \in Implementations
      /\ c[1] \in Implementations /\ d[1] \in Implementations
  BY TwoItems DEF Implementations
<1>2. \A p : Order(p) \in {<<a, b>>, <<a, b, c, d>>}
  BY DEF Order
<1> HIDE DEF a, b, c, d
<1>3. QED
  BY <1>1, <1>2

LEMMA EditsKeepSnap == SnapInv /\ (Edits \/ EditsSuite) => SnapInv'
<1> SUFFICES ASSUME SnapInv, Edits \/ EditsSuite PROVE SnapInv'
  OBVIOUS
<1>1. UNCHANGED <<command, lane, at, build, rows, foreign, identity, stale,
                  lanes, files, runjson>>
  BY DEF Edits, EditsSuite, EditSuite, whereVars, fileVars, laneVars, buildVars,
         benchVars, afterBench, suiteVars, afterSuite, campaignVars
<1>2. edited \subseteq edited'
  BY DEF Edits, EditsSuite, EditSuite, afterBench, suiteVars
<1>3. CASE UNCHANGED replaced
  BY <1>1, <1>2, <1>3, TouchedKeeps
<1>4. CASE ReplaceExecutable
  <2>0. PICK p \in Lanes :
          \E r \in {rows[p][k] : k \in DOMAIN rows[p]} \cup
                   (IF lane = p THEN {build} ELSE {}) :
            /\ r.status \in {"verified", "qualified", "executed"}
            /\ replaced' = replaced \cup {Exe(p, r)}
    BY <1>4 DEF ReplaceExecutable
  <2>1. PICK r \in {rows[p][k] : k \in DOMAIN rows[p]} \cup
                   (IF lane = p THEN {build} ELSE {}) :
          /\ r.status \in {"verified", "qualified", "executed"}
          /\ replaced' = replaced \cup {Exe(p, r)}
    BY <2>0
  <2>2. r.implementation \in Implementations
    <3>1. CASE r = build
      BY <2>1, <3>1 DEF SnapInv, ReplacedAreKnown
    <3>2. CASE \E k \in DOMAIN rows[p] : r = rows[p][k]
      BY <2>1, <3>2, OrderIsKnown DEF SnapInv, RowsInOrder, Lanes, Profiles
    <3>3. QED
      BY <2>1, <3>1, <3>2
  <2>3. Exe(p, r)[2] \in Implementations
    BY <2>2 DEF Exe
  <2>4. QED
    BY <1>1, <1>2, <2>1, <2>3, TouchedKeeps
<1>5. QED
  BY <1>3, <1>4 DEF Edits, SourceEvents, EditInputs, Commit, EditsSuite, inputVars

(* A command that breaks off.                                              *)
LEMMA BreaksOffSnap ==
    SnapInv /\ (StepFails \/ Interrupt \/ KillCommand \/ Abort) => SnapInv'
<1> SUFFICES ASSUME SnapInv, StepFails \/ Interrupt \/ KillCommand \/ Abort
             PROVE  SnapInv'
  OBVIOUS
<1>1. Steady
  BY DEF StepFails, Interrupt, KillCommand, Abort, Raise, Exit, Killed, whereVars,
         fileVars, inputVars, laneVars, buildVars, benchVars, afterBench,
         suiteVars, afterSuite, campaignVars, Steady, FilesKeep, SnapInv, Typed
<1>2. CASE (StepFails \/ Interrupt) /\ build' = NoBuild /\ \E k : Raise(k)
  BY <1>1, <1>2, RaiseGoes, OutsideKeeps DEF Outside
<1>3. CASE UNCHANGED <<whereVars, build>>
  BY <1>1, <1>3, StillKeeps DEF Still, whereVars
<1>4. CASE KillCommand \/ Abort
  BY <1>1, <1>4, OutsideKeeps
     DEF KillCommand, Abort, Exit, Killed, laneVars, buildVars, Outside,
         OutsidePlaces, LatePlaces
<1>5. QED
  BY <1>2, <1>3, <1>4 DEF StepFails, Interrupt

LEMMA CacheKeepsSnap ==
    SnapInv /\ (Prepare \/ PrepareFails \/ OtherBegins \/ OtherGoesOn
                \/ OtherFails \/ Ended \/ UNCHANGED vars) => SnapInv'
<1> SUFFICES ASSUME SnapInv,
                    Prepare \/ PrepareFails \/ OtherBegins \/ OtherGoesOn
                    \/ OtherFails \/ Ended \/ UNCHANGED vars
             PROVE  SnapInv'
  OBVIOUS
<1>1. Still
  BY DEF Prepare, PrepareFails, OtherBegins, OtherGoesOn, OtherFails, Ended,
         vars, exceptCache, whereVars, fileVars, inputVars, laneVars, buildVars,
         benchVars, afterBench, suiteVars, afterSuite, campaignVars, Still,
         Steady, FilesKeep, SnapInv, Typed
<1>2. QED
  BY <1>1, StillKeeps

-----------------------------------------------------------------------------
LEMMA SnapInvInit == Init => SnapInv
<1> SUFFICES ASSUME Init PROVE SnapInv
  OBVIOUS
<1>1. /\ lane = "none" /\ at = "start" /\ build = NoBuild
      /\ rows = [p \in Profiles |-> <<>>] /\ replaced = {} /\ foreign = {}
      /\ edited = {} /\ ~stale /\ lanes = [l \in Lanes |-> "pending"]
      /\ runjson = [o \in Owners |-> "absent"]
  BY DEF Init, RunInit, BuildInit, BenchInit, SuiteInit, CampaignInit
<1>2. \A l \in Lanes : files[ReportOf(l)] # "new"
  BY ReportIsName DEF Init
<1>3. \A p \in Profiles : DOMAIN rows[p] = {}
  BY <1>1
<1>4. Typed /\ RowsInOrder /\ ReplacedAreKnown /\ PlacesOfLanes
  BY <1>1, <1>3 DEF Typed, RowsInOrder, ReplacedAreKnown, PlacesOfLanes, NoBuild,
     Statuses, Lanes, HandledPlaces, BuildPlaces, InComparisonPlaces
<1>5. LanesBeginOnce
  BY <1>1, <1>2 DEF LanesBeginOnce, Untouched, Lanes, Profiles
<1>6. ForeignIsSeen /\ Gated /\ LastLooks /\ ReportsHold
  BY <1>1, <1>2 DEF ForeignIsSeen, Gated, LastLooks, ReportsHold, Lanes
<1>7. QED
  BY <1>4, <1>5, <1>6 DEF SnapInv

LEMMA SnapInvStep == SnapInv /\ BuildInv /\ [Next]_vars => SnapInv'
BY BuildKeepsSnap, BuildsKeepSnap, CompareKeepsSnap, CatalogOrLaneKeepsSnap,
   ConformanceKeepsSnap, W3cKeepsSnap, RegressionKeepsSnap, CampaignKeepsSnap,
   EditsKeepSnap, BreaksOffSnap, CacheKeepsSnap
   DEF Next, Progress

(* A lane that has left its report left it on one snapshot: audit and      *)
(* benchmark of the same inputs and revision, no evidence from a replaced  *)
(* executable, and no W3C result of edited bytes.                          *)
THEOREM ReportsAreOneSnapshot == Spec => []EvidenceIsOneSnapshot
<1>1. SnapInv /\ BuildInv => EvidenceIsOneSnapshot
  <2> SUFFICES ASSUME SnapInv, BuildInv, NEW l \in Lanes,
                      files[ReportOf(l)] = "new"
               PROVE  /\ OneSnapshot(l)
                      /\ l = "catalog" => identity = {}
                      /\ l = "w3c" => ~stale
    BY DEF EvidenceIsOneSnapshot, ReportOf, Lanes
  <2>1. /\ Qualified(l) /\ SameSnapshot(l) /\ l \notin foreign
        /\ l = "catalog" => identity = {}
        /\ l = "w3c" => ~stale
    BY DEF SnapInv, ReportsHold
  <2>2. ASSUME NEW i \in Implementations, NEW a \in BOOLEAN
        PROVE  RowOf(l, i, a).used = RowOf(l, i, a).inputs
    BY <2>1, RowIsThere DEF GoodRows, MadeOf
  <2>3. QED
    BY <2>1, <2>2 DEF OneSnapshot, SameSnapshot
<1>2. QED
  BY <1>1, SnapInvInit, SnapInvStep, BuildInvInit, BuildInvStep, CacheInside,
     PTL DEF Spec
=============================================================================
