----------------------------- MODULE SetupCache -----------------------------
(***************************************************************************)
(* Runners (run_qemu_player.py) that share a directory of prepared QEMU    *)
(* images (qemu_setup_cache.py).  A runner computes the key of its         *)
(* configuration, takes the lock of that key, reuses the entry or prepares *)
(* an image in a staging directory by booting a virtual machine on it,     *)
(* publishes the directory by a rename, and runs its experiment on an      *)
(* overlay of the entry's image.                                           *)
(*                                                                         *)
(* The configuration is abstracted to the one part of it that can change   *)
(* under a runner, the version of the base image; the other parts are the  *)
(* same for all runners.  Timeouts may elapse at any moment.               *)
(***************************************************************************)
EXTENDS Integers, FiniteSets

CONSTANTS
    Runners,
    MaxBase,        \* bound: versions of the base image are 0..MaxBase
    MaxRuns,        \* bound: runs started
    Corruptible     \* whether a published image may be touched from outside

ASSUME RunnersAssumption == Runners # {} /\ "none" \notin Runners
ASSUME BoundsAssumption == MaxBase \in Nat /\ MaxRuns \in Nat
ASSUME CorruptibleAssumption == Corruptible \in BOOLEAN

Keys == 0..MaxBase

VARIABLES
    base,       \* version of the base image and of its backing chain
    entry,      \* entry[k]: the directory of key k
    lock,       \* lock[k]: who holds the flock of k.lock
    pc,         \* where runner r is
    key,        \* key[r]: the key r computed
    staging,    \* staging[r]: the image in r's staging directory
    vm,         \* vm[r]: the virtual machine that r booted on its staging image
    hit,        \* hit[r]: what obtain told r
    backing,    \* backing[r]: the image under r's overlay
    runs

vars == <<base, entry, lock, pc, key, staging, vm, hit, backing, runs>>

NoImage == [by |-> "none", base |-> 0, built |-> FALSE, clean |-> FALSE]
Images == [by : Runners \cup {"none"}, base : Keys, built : BOOLEAN, clean : BOOLEAN]

Absent == [state |-> "absent", image |-> NoImage]

(* Before the first run an entry is absent, or is a directory that no run  *)
(* of this program wrote and that fails valid().                           *)
Init ==
    /\ base = 0
    /\ entry \in [Keys -> {Absent, [state |-> "invalid", image |-> NoImage]}]
    /\ lock = [k \in Keys |-> "none"]
    /\ pc = [r \in Runners |-> "idle"]
    /\ key = [r \in Runners |-> 0]
    /\ staging = [r \in Runners |-> NoImage]
    /\ vm = [r \in Runners |-> "off"]
    /\ hit = [r \in Runners |-> FALSE]
    /\ backing = [r \in Runners |-> NoImage]
    /\ runs = 0

Go(r, from, to) == pc[r] = from /\ pc' = [pc EXCEPT ![r] = to]

(* Leaving locked(), by return or by exception, closes the lock file.      *)
M_Released(r) == lock
Released(r) == [k \in Keys |-> IF lock[k] = r THEN "none" ELSE lock[k]]

Unlock(r) == lock' = Released(r)

----------------------------------------------------------------------------
(* The key and the lock                                                    *)

(* main computes base_identity and the digests before it takes the lock.   *)
Start(r) ==
    /\ runs < MaxRuns
    /\ pc[r] \in {"idle", "done", "failed"}
    /\ pc' = [pc EXCEPT ![r] = "lock"]
    /\ key' = [key EXCEPT ![r] = base]
    /\ hit' = [hit EXCEPT ![r] = FALSE]
    /\ backing' = [backing EXCEPT ![r] = NoImage]
    /\ runs' = runs + 1
    /\ UNCHANGED <<base, entry, lock, staging, vm>>

(* fcntl.flock(LOCK_EX)                                                     *)
LockFree(k) == lock[k] = "none"

Acquire(r) ==
    /\ Go(r, "lock", "check")
    /\ LockFree(key[r])
    /\ lock' = [lock EXCEPT ![key[r]] = r]
    /\ UNCHANGED <<base, entry, key, staging, vm, hit, backing, runs>>

(* valid(): metadata.json is there and agrees with the image.              *)
Valid(k) == entry[k].state = "valid"

Hit(r) ==
    /\ Go(r, "check", "overlay")
    /\ Valid(key[r])
    /\ hit' = [hit EXCEPT ![r] = TRUE]
    /\ backing' = [backing EXCEPT ![r] = entry[key[r]].image]
    /\ Unlock(r)
    /\ UNCHANGED <<base, entry, key, staging, vm, runs>>

(* An invalid entry is neither used nor replaced: RuntimeError.            *)
M_Exists(k) == FALSE
Exists(k) == entry[k].state # "absent"

Refuse(r) ==
    /\ Go(r, "check", "failed")
    /\ ~Valid(key[r]) /\ Exists(key[r])
    /\ Unlock(r)
    /\ UNCHANGED <<base, entry, key, staging, vm, hit, backing, runs>>

----------------------------------------------------------------------------
(* prepare, in a staging directory of its own                              *)

(* create_overlay on the base as it is now, and boot_qemu.                 *)
Boot(r) ==
    /\ Go(r, "check", "provision")
    /\ ~Valid(key[r]) /\ ~Exists(key[r])
    /\ staging' = [staging EXCEPT ![r] = [NoImage EXCEPT !.by = r, !.base = base]]
    /\ vm' = [vm EXCEPT ![r] = "up"]
    /\ UNCHANGED <<base, entry, lock, key, hit, backing, runs>>

(* Waiting for ssh, copying the archives and the setup script: a guest     *)
(* that is still there may finish it ...                                   *)
Provision(r) ==
    /\ Go(r, "provision", "stop")
    /\ vm[r] = "up"
    /\ staging' = [staging EXCEPT ![r].built = TRUE]
    /\ UNCHANGED <<base, entry, lock, key, vm, hit, backing, runs>>

(* ... and any step of it may raise: stop_qemu(require_clean=False) still  *)
(* tries to power the guest off, and the first exception goes on.          *)
ProvisionFails(r) ==
    /\ Go(r, "provision", "discard")
    /\ vm' = [vm EXCEPT ![r] = "off"]
    /\ \E clean \in IF vm[r] = "up" THEN BOOLEAN ELSE {FALSE} :
          staging' = [staging EXCEPT ![r].clean = clean]
    /\ UNCHANGED <<base, entry, lock, key, hit, backing, runs>>

(* stop_qemu(require_clean=True): poweroff by ssh, and exit code 0 within  *)
(* 60 seconds of a guest that was still running.                           *)
PowerOff(r) ==
    /\ Go(r, "stop", "inspect")
    /\ vm[r] = "up"
    /\ vm' = [vm EXCEPT ![r] = "off"]
    /\ staging' = [staging EXCEPT ![r].clean = TRUE]
    /\ UNCHANGED <<base, entry, lock, key, hit, backing, runs>>

(* Otherwise it is terminated or killed, and stop_qemu raises.             *)
M_AfterUnclean == "inspect"
AfterUnclean == "discard"

UncleanStop(r) ==
    /\ Go(r, "stop", AfterUnclean)
    /\ vm' = [vm EXCEPT ![r] = "off"]
    /\ UNCHANGED <<base, entry, lock, key, staging, hit, backing, runs>>

(* qemu-img check may reject the image.                                    *)
Inspect(r) ==
    /\ \/ Go(r, "inspect", "publish")
       \/ Go(r, "inspect", "discard")
    /\ UNCHANGED <<base, entry, lock, key, staging, vm, hit, backing, runs>>

----------------------------------------------------------------------------
(* Publication                                                             *)

(* chmod, metadata.json, os.replace: the rename is the one step another    *)
(* process can see.  It fails on a directory that is not empty.            *)
Publish(r) ==
    /\ Go(r, "publish", "cleanup")
    /\ ~Exists(key[r])
    /\ entry' = [entry EXCEPT ![key[r]] = [state |-> "valid", image |-> staging[r]]]
    /\ backing' = [backing EXCEPT ![r] = staging[r]]
    /\ UNCHANGED <<base, lock, key, staging, vm, hit, runs>>

PublishFails(r) ==
    /\ Go(r, "publish", "discard")
    /\ UNCHANGED <<base, entry, lock, key, staging, vm, hit, backing, runs>>

(* The TemporaryDirectory is removed and the lock released, on success ... *)
CleanUp(r) ==
    /\ Go(r, "cleanup", "overlay")
    /\ staging' = [staging EXCEPT ![r] = NoImage]
    /\ Unlock(r)
    /\ UNCHANGED <<base, entry, key, vm, hit, backing, runs>>

(* ... and on every exception.                                             *)
Discard(r) ==
    /\ Go(r, "discard", "failed")
    /\ staging' = [staging EXCEPT ![r] = NoImage]
    /\ Unlock(r)
    /\ UNCHANGED <<base, entry, key, vm, hit, backing, runs>>

(* The run itself: an overlay on the image, booted, and thrown away.       *)
Overlay(r) ==
    /\ Go(r, "overlay", "experiment")
    /\ UNCHANGED <<base, entry, lock, key, staging, vm, hit, backing, runs>>

Finish(r) ==
    /\ \/ Go(r, "experiment", "done")
       \/ Go(r, "experiment", "failed")
    /\ UNCHANGED <<base, entry, lock, key, staging, vm, hit, backing, runs>>

----------------------------------------------------------------------------
(* Signals, crashes and the world outside                                  *)

(* SIGTERM and ^C raise KeyboardInterrupt, which runs the finally clauses: *)
(* the guest is stopped, the staging directory and the lock go.  A signal  *)
(* between boot_qemu and the try that follows it leaves the guest running. *)
Interrupted(r) ==
    /\ pc[r] \notin {"idle", "done", "failed", "dead"}
    /\ pc' = [pc EXCEPT ![r] = "failed"]
    /\ \/ vm' = [vm EXCEPT ![r] = "off"]
       \/ pc[r] = "provision" /\ UNCHANGED vm
    /\ staging' = [staging EXCEPT ![r] = NoImage]
    /\ Unlock(r)
    /\ UNCHANGED <<base, entry, key, hit, backing, runs>>

(* SIGKILL or a power failure of the runner alone: the kernel drops the    *)
(* lock, the staging directory stays, and the guest runs on.               *)
Killed(r) ==
    /\ pc[r] \notin {"idle", "done", "failed", "dead"}
    /\ pc' = [pc EXCEPT ![r] = "dead"]
    /\ Unlock(r)
    /\ UNCHANGED <<base, entry, key, staging, vm, hit, backing, runs>>

(* A guest may exit on its own, which nobody calls a clean poweroff.       *)
GuestExits(r) ==
    /\ vm[r] = "up"
    /\ vm' = [vm EXCEPT ![r] = "off"]
    /\ UNCHANGED <<base, entry, lock, pc, key, staging, hit, backing, runs>>

(* Somebody touches a published image: its size or mtime no longer agree.  *)
Corrupt(k) ==
    /\ Corruptible /\ Valid(k)
    /\ entry' = [entry EXCEPT ![k].state = "invalid"]
    /\ UNCHANGED <<base, lock, pc, key, staging, vm, hit, backing, runs>>

ReplaceBase ==
    /\ base < MaxBase
    /\ base' = base + 1
    /\ UNCHANGED <<entry, lock, pc, key, staging, vm, hit, backing, runs>>

----------------------------------------------------------------------------
RunnerStep(r) ==
    \/ Acquire(r) \/ Hit(r) \/ Refuse(r) \/ Boot(r) \/ Provision(r)
    \/ ProvisionFails(r) \/ PowerOff(r) \/ UncleanStop(r) \/ Inspect(r)
    \/ Publish(r) \/ PublishFails(r) \/ CleanUp(r) \/ Discard(r)
    \/ Overlay(r) \/ Finish(r)

Next ==
    \/ \E r \in Runners :
          Start(r) \/ RunnerStep(r) \/ Interrupted(r) \/ Killed(r) \/ GuestExits(r)
    \/ \E k \in Keys : Corrupt(k)
    \/ ReplaceBase

Spec == Init /\ [][Next]_vars

(***************************************************************************)
(* flock serves a waiter of a lock that is free again and again; the steps *)
(* of prepare and of the experiment all have timeouts.                     *)
(***************************************************************************)
FairSpec ==
    /\ Spec
    /\ \A r \in Runners :
          /\ SF_vars(Acquire(r))
          /\ WF_vars(RunnerStep(r))

----------------------------------------------------------------------------
Preparing(r) == pc[r] \in {"provision", "stop", "inspect", "publish", "cleanup", "discard"}

(* Types, and: a staging directory outlives its run only after SIGKILL.    *)
Stages == {"idle", "lock", "check", "provision", "stop", "inspect", "publish",
           "cleanup", "discard", "overlay", "experiment", "done", "failed", "dead"}
Entries == [state : {"absent", "invalid", "valid"}, image : Images]

TypeOK ==
    /\ base \in Keys
    /\ entry \in [Keys -> Entries]
    /\ lock \in [Keys -> Runners \cup {"none"}]
    /\ pc \in [Runners -> Stages]
    /\ key \in [Runners -> Keys]
    /\ staging \in [Runners -> Images]
    /\ \A r \in Runners : staging[r] # NoImage => Preparing(r) \/ pc[r] = "dead"
    /\ vm \in [Runners -> {"off", "up"}]
    /\ hit \in [Runners -> BOOLEAN]
    /\ backing \in [Runners -> Images]
    /\ runs \in 0..MaxRuns

(***************************************************************************)
(* "Only successfully prepared, cleanly powered-off images are published"  *)
(* (README.md:117): whatever fails, is interrupted or is killed, a valid   *)
(* entry's image was provisioned to the end, powered off cleanly, and no   *)
(* guest has it open, an orphan of a killed runner included.               *)
(***************************************************************************)
PublishedIsPrepared ==
    \A k \in Keys : Valid(k) =>
        /\ entry[k].image.built /\ entry[k].image.clean
        /\ \A r \in Runners : vm[r] = "up" => staging[r] # entry[k].image

(***************************************************************************)
(* "Never rename/replace it, even when corruption makes it unusable": the  *)
(* image of an entry never changes once it is there (lines 85-88), so the  *)
(* overlay of a running experiment keeps its backing image.                *)
(***************************************************************************)
EntryIsNeverReplaced ==
    [][\A k \in Keys : entry[k].state # "absent" =>
          /\ entry'[k].state # "absent"
          /\ entry'[k].image = entry[k].image]_vars

(***************************************************************************)
(* A running experiment's overlay sits on the image of its key's entry,    *)
(* which the run prepared itself unless it reports a hit.                  *)
(***************************************************************************)
BackedByEntry ==
    \A r \in Runners :
        pc[r] \in {"overlay", "experiment"} =>
            /\ entry[key[r]].state # "absent"
            /\ entry[key[r]].image = backing[r]
            /\ backing[r].built /\ backing[r].clean
            /\ hit[r] \/ backing[r].by = r

(***************************************************************************)
(* A runner that waits for the lock of its key gets its answer: a holder   *)
(* that fails, is interrupted or is killed does not keep it.               *)
(***************************************************************************)
WaiterIsServed == \A r \in Runners : pc[r] = "lock" ~> pc[r] # "lock"
=============================================================================
