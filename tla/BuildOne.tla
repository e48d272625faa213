------------------------------ MODULE BuildOne ------------------------------
(***************************************************************************)
(* build_implementations.py: build_one makes one executable and a manifest *)
(* that says what it was made of.  The repository is not locked meanwhile: *)
(* somebody may edit it, commit, or write into the pinned checkout between *)
(* any two steps.  Build inputs are numbered by their edits, so that a     *)
(* fingerprint is the number it was taken at.                              *)
(***************************************************************************)
EXTENDS CommandRun, DependencyCache

Implementations == {"xpact", "xpact-core"}

VARIABLES
    source,     \* edits so far of the inputs source_fingerprint selects
    head,       \* commits so far of the repository
    replaced,   \* executables overwritten after their manifest was written
    build,      \* the build in progress
    rows        \* builds done, for each profile

inputVars == <<source, head, replaced>>
buildVars == <<build, rows>>

(* An executable: its profile, implementation and assertion configuration. *)
Exe(profile, row) == <<profile, row.implementation, row.assertions>>

NoBuild ==
    [implementation |-> "none", assertions |-> FALSE, status |-> "none",
     inputs |-> 0, revision |-> 0, used |-> 0, tree |-> "absent",
     outcomes |-> {}]

BuildInit ==
    /\ source = [i \in Implementations |-> 0] /\ head = 0 /\ replaced = {}
    /\ build = NoBuild
    /\ rows = [p \in Profiles |-> <<>>]

(* main builds each implementation once; the lanes build all four.         *)
Order(profile) ==
    IF profile = "probe" THEN <<<<"xpact", TRUE>>, <<"xpact-core", TRUE>>>>
    ELSE <<<<"xpact", TRUE>>, <<"xpact-core", TRUE>>,
           <<"xpact", FALSE>>, <<"xpact-core", FALSE>>>>

AllBuilt == Len(rows[lane]) >= Len(Order(lane))
NextBuild == Order(lane)[Len(rows[lane]) + 1]

(* The commit a build names: of this repository, or the locked one.        *)
Revision(i) == IF i = "xpact" THEN head ELSE 0

-----------------------------------------------------------------------------
(* build_one: fingerprint and revision first.                              *)
BeginBuild ==
    /\ at = "build" /\ ~AllBuilt
    /\ LET i == NextBuild[1] IN
        /\ build' = [NoBuild EXCEPT !.implementation = i,
                                    !.assertions = NextBuild[2],
                                    !.status = "running",
                                    !.inputs = source[i],
                                    !.revision = Revision(i)]
        /\ Goto(IF i = "xpact-core" THEN "prepare" ELSE "compile")
    /\ Lucky /\ UNCHANGED <<rows, cacheVars>>

(* prepare_dependency is called, and again after compiling, then offline.  *)
CallPrepare ==
    /\ at \in {"prepare", "recheck"}
    /\ \E offline \in BOOLEAN :
        /\ at = "recheck" => offline
        /\ prepare_dependency("build", offline)
    /\ Lucky /\ UNCHANGED <<whereVars, buildVars>>

Failed == build' = [build EXCEPT !.status = "failed"]

(* Its answer: go on, fail the build, or leave with the interrupt.         *)
TakePrepared ==
    /\ at \in {"prepare", "recheck"} /\ step["build"] = "done"
    /\ \/ /\ answer["build"] = "verified"
          /\ Goto(IF at = "prepare" THEN "compile" ELSE "manifest")
          /\ UNCHANGED build
       \/ answer["build"] = "error" /\ Failed /\ Goto("built")
       \/ answer["build"] = "interrupt" /\ Raise("interrupt") /\ build' = NoBuild
    /\ Return("build") /\ Lucky /\ UNCHANGED rows

(* The Eiffel and C compilers read the inputs, and the executable tells    *)
(* its identity: the revision it was given.                                *)
Compile ==
    /\ at = "compile"
    /\ build' = [build EXCEPT !.used = source[build.implementation],
                              !.tree = IF build.implementation = "xpact-core"
                                       THEN destination ELSE "absent"]
    /\ Goto("check") /\ Lucky /\ UNCHANGED <<rows, cacheVars>>

(* Mutant: only the revision is compared after compiling.                  *)
OnlyRevisionUnchanged ==
    build.implementation = "xpact" => head = build.revision

(* The second fingerprint and HEAD are those of the beginning.              *)
InputsUnchanged ==
    /\ source[build.implementation] = build.inputs
    /\ build.implementation = "xpact" => head = build.revision

(* The fingerprint again, and HEAD or the checkout.                        *)
CheckInputs ==
    /\ at = "check"
    /\ \/ ~InputsUnchanged /\ Failed /\ Goto("built")
       \/ /\ InputsUnchanged
          /\ Goto(IF build.implementation = "xpact-core"
                  THEN "recheck" ELSE "manifest")
          /\ UNCHANGED build
    /\ Lucky /\ UNCHANGED <<rows, cacheVars>>

(* The manifest is written last, with the hash of the executable.          *)
WriteManifest ==
    /\ at = "manifest"
    /\ build' = [build EXCEPT !.status = "verified"]
    /\ Goto("built") /\ Lucky /\ UNCHANGED <<rows, cacheVars>>

BuildSteps == {"build", "compile", "check", "manifest"}

(* A directory, compiler, identity run, Git command or write fails: every  *)
(* caller catches these exceptions and records the build as failed.        *)
BuildFails ==
    /\ at \in BuildSteps \cup {"prepare", "recheck"}
    /\ step["build"] = "idle" /\ ~AllBuilt /\ Unlucky
    /\ build' = [build EXCEPT !.implementation = NextBuild[1],
                              !.assertions = NextBuild[2],
                              !.status = "failed"]
    /\ Goto("built") /\ UNCHANGED <<rows, cacheVars>>

Append1(row) ==
    /\ rows' = [rows EXCEPT ![lane] = Append(@, row)]
    /\ build' = NoBuild

BuildStep ==
    \/ BeginBuild \/ CallPrepare \/ TakePrepared \/ Compile \/ CheckInputs
    \/ WriteManifest \/ BuildFails

-----------------------------------------------------------------------------
(* Callers of build_one.                                                   *)

(* toolchain: the compilers and libraries are there.                       *)
Toolchain ==
    /\ at = "tools" /\ Goto("build") /\ Lucky

(* main of build_implementations.py.                                       *)
StartBuilds ==
    /\ command = "implementations" /\ at = "start"
    /\ lane' = "probe" /\ at' = "tools" /\ UNCHANGED <<command, error, code>>
    /\ Status("implementations", "running") /\ Lucky
    /\ UNCHANGED <<files, buildVars>>

RecordBuild ==
    /\ at = "built" /\ lane = "probe"
    /\ Append1(build) /\ Goto("build") /\ Lucky /\ UNCHANGED fileVars

AllVerified == \A k \in DOMAIN rows["probe"] : rows["probe"][k].status = "verified"

EndBuilds ==
    /\ at = "build" /\ lane = "probe" /\ AllBuilt /\ Lucky
    /\ Status("implementations", IF AllVerified THEN "verified" ELSE "failed")
    /\ Exit(IF AllVerified THEN "0" ELSE "1")
    /\ UNCHANGED <<files, buildVars>>

(* The toolchain is missing, or the last run.json cannot be written.       *)
EndBuildsBadly ==
    /\ lane = "probe" /\ Unlucky /\ Exit("1")
    /\ \/ at = "tools" /\ Status("implementations", "failed")
       \/ at = "build" /\ AllBuilt /\ UNCHANGED runjson
    /\ UNCHANGED <<files, buildVars>>

-----------------------------------------------------------------------------
(* Everybody else.                                                         *)

(* An edit of the inputs of one implementation (src/*.e is in the          *)
(* fingerprint of xpact only), or of the scripts both depend on.           *)
EditInputs ==
    /\ Unlucky
    /\ \E edited \in {{"xpact"}, {"xpact-core"}, Implementations} :
        source' = [i \in Implementations |->
                    IF i \in edited THEN source[i] + 1 ELSE source[i]]
    /\ UNCHANGED <<head, replaced>>

Commit == Unlucky /\ head' = head + 1 /\ UNCHANGED <<source, replaced>>

(* An executable of this run is overwritten after its manifest.            *)
ReplaceExecutable ==
    /\ Unlucky
    /\ \E p \in Lanes :
        \E r \in {rows[p][k] : k \in DOMAIN rows[p]} \cup
                 (IF lane = p THEN {build} ELSE {}) :
            /\ r.status \in {"verified", "qualified", "executed"}
            /\ Exe(p, r) \notin replaced
            /\ replaced' = replaced \cup {Exe(p, r)}
    /\ UNCHANGED <<source, head>>

SourceEvents == EditInputs \/ Commit \/ ReplaceExecutable

-----------------------------------------------------------------------------
(* What an executable with a manifest was made of is what the manifest     *)
(* says: the compilers read the inputs of its fingerprint, and the pinned  *)
(* checkout was not altered while it was compiled, whatever was committed, *)
(* prepared or edited in between; an edit that is taken back before the    *)
(* second fingerprint is not among the edits.  A failed build supplies     *)
(* nothing.                                                                *)
MadeOf(row) ==
    row.status \in {"verified", "qualified", "executed"} =>
        /\ row.used = row.inputs
        /\ row.implementation = "xpact-core" => row.tree = "pinned"

BuiltFromItsInputs ==
    /\ MadeOf(build)
    /\ \A p \in Profiles : \A k \in DOMAIN rows[p] : MadeOf(rows[p][k])
=============================================================================
