-------------------------- MODULE DependencyCache --------------------------
(***************************************************************************)
(* prepare_xpact_core.py: the cache of the pinned Xpact-core checkout.     *)
(*                                                                         *)
(* Any number of processes prepare the same revision at once, with no      *)
(* lock: each fetches into a staging directory of its own, verifies it,    *)
(* and renames it to the name of the revision.  Whoever comes second uses  *)
(* what is there, after verifying it.  A call of prepare_dependency is cut *)
(* where another process can act: at each file-system or Git operation.    *)
(***************************************************************************)
CONSTANT Invocations  \* processes that call prepare_dependency

VARIABLES
    destination,  \* build/dependencies/xpact-core/<revision>
    staging,      \* the .prepare-* directory of each invocation
    step,         \* where each invocation is in prepare_dependency
    answer        \* what it has to return: metadata, or an exception

cacheVars == <<destination, staging, step, answer>>

Steps == {"idle", "fetch", "staged", "rename", "verify", "cleanup", "done", "dead"}

(* "interrupt": a KeyboardInterrupt leaves the call, and no handler of the *)
(* module catches it.                                                      *)
Answers == {"none", "verified", "error", "interrupt"}

CacheTypeOK ==
    /\ destination \in {"absent", "pinned", "altered"}
    /\ staging \in [Invocations -> {"absent", "partial", "pinned", "strange"}]
    /\ step \in [Invocations -> Steps]
    /\ answer \in [Invocations -> Answers]

CacheInit ==
    /\ destination \in {"absent", "pinned"}
    /\ staging = [i \in Invocations |-> "absent"]
    /\ step = [i \in Invocations |-> "idle"]
    /\ answer = [i \in Invocations |-> "none"]

(* The finally clause: nothing to remove when nothing is staged.           *)
Leaves(i) == IF staging[i] = "absent" THEN "done" ELSE "cleanup"

Finishes(i, a) ==
    /\ answer' = [answer EXCEPT ![i] = a]
    /\ step' = [step EXCEPT ![i] = Leaves(i)]
    /\ UNCHANGED <<destination, staging>>

GoesTo(i, s) ==
    /\ step' = [step EXCEPT ![i] = s]
    /\ UNCHANGED <<destination, staging, answer>>

(* The call: reuse what is there, refuse if offline, or begin to stage.    *)
prepare_dependency(i, offline) ==
    /\ step[i] = "idle"
    /\ \/ destination # "absent" /\ GoesTo(i, "verify")
       \/ destination = "absent" /\ offline /\ Finishes(i, "error")
       \/ /\ destination = "absent" /\ ~offline
          /\ staging' = [staging EXCEPT ![i] = "partial"]
          /\ step' = [step EXCEPT ![i] = "fetch"]
          /\ UNCHANGED <<destination, answer>>

(* init, remote, fetch and checkout: the tree of the revision, or one that *)
(* differs from it, a filtered or incomplete checkout.                     *)
Fetch(i, tree) ==
    /\ step[i] = "fetch"
    /\ staging' = [staging EXCEPT ![i] = tree]
    /\ step' = [step EXCEPT ![i] = "staged"]
    /\ UNCHANGED <<destination, answer>>

(* Mutant: only the established checkout is verified.                      *)
SkipVerifyStaging(i) ==
    /\ step[i] = "staged"
    /\ GoesTo(i, IF destination # "absent" THEN "verify" ELSE "rename")

(* verify_checkout of the staged tree, then destination.exists.            *)
VerifyStaging(i) ==
    /\ step[i] = "staged"
    /\ \/ staging[i] # "pinned" /\ Finishes(i, "error")
       \/ /\ staging[i] = "pinned"
          /\ GoesTo(i, IF destination # "absent" THEN "verify" ELSE "rename")

(* A rename never replaces a checkout: when another process was quicker,   *)
(* it raises OSError and the established checkout is verified.             *)
Rename(i) ==
    /\ step[i] = "rename"
    /\ \/ /\ destination = "absent"
          /\ destination' = staging[i]
          /\ staging' = [staging EXCEPT ![i] = "absent"]
          /\ step' = [step EXCEPT ![i] = "verify"]
          /\ UNCHANGED answer
       \/ destination # "absent" /\ GoesTo(i, "verify")

(* The last verify_checkout, of the established checkout.                  *)
Verify(i) ==
    /\ step[i] = "verify"
    /\ Finishes(i, IF destination = "pinned" THEN "verified" ELSE "error")

(* _remove_staging: this invocation's own directory.                       *)
Cleanup(i) ==
    /\ step[i] = "cleanup"
    /\ staging' = [staging EXCEPT ![i] = "absent"]
    /\ step' = [step EXCEPT ![i] = "done"]
    /\ UNCHANGED <<destination, answer>>

CacheStep(i) ==
    \/ Fetch(i, "pinned")
    \/ VerifyStaging(i)
    \/ Rename(i)
    \/ Verify(i)
    \/ Cleanup(i)

(* The caller takes the answer.                                            *)
Return(i) ==
    /\ step[i] = "done"
    /\ step' = [step EXCEPT ![i] = "idle"]
    /\ answer' = [answer EXCEPT ![i] = "none"]
    /\ UNCHANGED <<destination, staging>>

-----------------------------------------------------------------------------
(* What goes wrong.                                                        *)

InCall(i) == step[i] \notin {"idle", "done", "dead"}

(* A Git command fails or takes 180 seconds, a file cannot be read, or the *)
(* rename fails although nothing is there; or the user interrupts.  The    *)
(* removal of the staging directory can fail too, and leaves it.           *)
CacheFails(i, a) ==
    /\ InCall(i)
    /\ a \in {"error", "interrupt"}
    /\ IF step[i] = "cleanup"
       THEN /\ answer' = [answer EXCEPT ![i] = a]
            /\ step' = [step EXCEPT ![i] = "done"]
            /\ UNCHANGED <<destination, staging>>
       ELSE Finishes(i, a)

FetchStrange(i) == Fetch(i, "strange")

(* The process is killed; its staging directory stays.                     *)
Kill(i) ==
    /\ step[i] # "dead"
    /\ GoesTo(i, "dead")

(* Somebody edits the established checkout.                                *)
AlterCheckout ==
    /\ destination = "pinned"
    /\ destination' = "altered"
    /\ UNCHANGED <<staging, step, answer>>

CacheFault(i) ==
    \/ \E a \in {"error", "interrupt"} : CacheFails(i, a)
    \/ FetchStrange(i)
    \/ Kill(i)

CacheNext ==
    \/ \E i \in Invocations :
        \/ \E offline \in BOOLEAN : prepare_dependency(i, offline)
        \/ CacheStep(i)
        \/ Return(i)
        \/ CacheFault(i)
    \/ AlterCheckout

CacheSpec == CacheInit /\ [][CacheNext]_cacheVars

-----------------------------------------------------------------------------
Published == INSTANCE PinnedTree WITH tree <- destination

(* The checkout appears whole and once, whatever number of processes       *)
(* prepare it and wherever they fail or die: no partial or strange tree    *)
(* takes the name of the revision, and none is replaced.                   *)
PublishedOnce == Published!Spec
=============================================================================
