----------------------------- MODULE PlanLease -----------------------------
(***************************************************************************)
(* The lease of a plan's storage, src/plan-storage/internal/lease.ts: a    *)
(* lock file published by an exclusive link, renewed through its mtime by a *)
(* worker thread, taken over from a dead process of this host or from an   *)
(* expired one of another, and moved only behind a second file, the        *)
(* reclaim fence.  One action is one file-system call, or a run of them of *)
(* which only the last one matters to anybody else.                        *)
(*                                                                         *)
(* A member of Calls is one call of withPlanStorageLease or                *)
(* withPlanStorageLeaseAsync for the same plan.  A call publishes one      *)
(* candidate, so that a call also names the inode of its lease; a snapshot *)
(* of an inode is the same again unless the inode was renewed in between.  *)
(***************************************************************************)
EXTENDS FiniteSets

CONSTANTS
    Calls,     \* the calls for one plan
    Procs,     \* operating-system processes
    ProcOf,    \* the process that makes a call
    HostOf,    \* the host a process runs on
    Faulty,    \* calls that may be suspended past their lease or their fence's age,
               \* fail to write their fence, or lose their process
    None

\* What the file at reclaimFencePath can be.
Fence == [by : Calls, role : {"reclaim", "release"}, written : BOOLEAN]

ASSUME PlanLeaseAssumption ==
    /\ ProcOf \in [Calls -> Procs]
    /\ DOMAIN HostOf = Procs
    /\ Faulty \subseteq Calls
    /\ None \notin Calls \cup Fence

VARIABLES
    lock,      \* the inode at lockPath, or None
    expired,   \* inodes whose lease has run out
    fence,     \* the file at reclaimFencePath, or None
    fenceOld,  \* it is older than PLAN_LOCK_EXPIRY_MS
    pc,        \* the next step of each call
    role,      \* what a call wants the fence for
    after,     \* where a call goes on once it has released the fence
    obs,       \* the inode of its snapshot of lockPath, None once that is outdated
    held,      \* the inode under its .stale name, or None
    hb,        \* the heartbeat worker
    threw,     \* calls that will throw
    alive,     \* processes that have not crashed
    lapsed,    \* calls whose lease ran out under them
    fenceLost, \* somebody's fence was removed while it was using it
    met        \* the calls in their section when this one entered its own

fileVars == <<lock, expired, held>>
fenceVars == <<fence, fenceOld, fenceLost>>
callVars == <<role, after, threw, met>>
vars == <<fileVars, fenceVars, pc, callVars, obs, hb, alive, lapsed>>

PCs == {"idle", "gate", "gateUnlink", "link", "fence", "fenceUnlink", "fenceAgain", "fenceWrite",
        "check", "rename", "renamed", "discard", "putBack", "publish", "confirm", "reread", "undo",
        "undoUnlink", "relink", "unfence", "unfenceUnlink", "beat", "starting", "enter", "entering",
        "entered", "working", "leaving", "left", "stopping", "release", "done", "failed", "crashed"}

Ended == {"done", "failed", "crashed"}

\* A call that has, or believes to have, the fence.
Fencing == {"fenceWrite", "check", "rename", "renamed", "discard", "putBack", "publish", "confirm",
            "reread", "undo", "undoUnlink", "relink", "unfence", "unfenceUnlink"}

\* A call that has a heartbeat and has not told it to stop.
Serving(c) == pc[c] \in {"starting", "enter", "entering", "entered", "working", "leaving", "left"}

InSection(c) == pc[c] \in {"working", "leaving", "left"}

Worker == [phase : {"off", "first", "next", "last"},
           at : {"rest", "touch", "verify", "failed", "stopped"}]
Off == [phase |-> "off", at |-> "rest"]

(* Types, and: a call has a lease file under its .stale name only between   *)
(* its renaming and what becomes of it, and a call in its section has a     *)
(* heartbeat.                                                               *)
TypeOK ==
    /\ lock \in Calls \cup {None} /\ expired \subseteq Calls
    /\ fence \in Fence \cup {None} /\ fenceOld \in BOOLEAN
    /\ pc \in [Calls -> PCs]
    /\ role \in [Calls -> {"reclaim", "release"}]
    /\ after \in [Calls -> {"gate", "beat", "end", "failed"}]
    /\ obs \in [Calls -> Calls \cup {None}]
    /\ held \in [Calls -> Calls \cup {None}]
    /\ hb \in [Calls -> Worker]
    /\ threw \subseteq Calls /\ lapsed \subseteq Calls
    /\ alive \subseteq Procs /\ fenceLost \in BOOLEAN
    /\ met \in [Calls -> SUBSET Calls]
    /\ \A c \in Calls :
          /\ held[c] # None => pc[c] \in {"renamed", "discard", "putBack", "publish", "confirm",
                                          "reread", "undo", "undoUnlink", "relink"}
          /\ Serving(c) \/ pc[c] = "stopping" => hb[c].phase # "off"

Init ==
    /\ lock = None /\ expired = {}
    /\ fence = None /\ fenceOld = FALSE
    /\ pc = [c \in Calls |-> "idle"]
    /\ role = [c \in Calls |-> "reclaim"]
    /\ after = [c \in Calls |-> "gate"]
    /\ obs = [c \in Calls |-> None]
    /\ held = [c \in Calls |-> None]
    /\ hb = [c \in Calls |-> Off]
    /\ threw = {} /\ lapsed = {}
    /\ alive = Procs /\ fenceLost = FALSE
    /\ met = [c \in Calls |-> {}]

Live(c) == ProcOf[c] \in alive
At(c, l) == pc[c] = l /\ Live(c)
Goto(c, l) == pc' = [pc EXCEPT ![c] = l]
SameHost(c, d) == HostOf[ProcOf[c]] = HostOf[ProcOf[d]]

(* isRecoverableSnapshot, asked by call c about the lease of call i. *)
Recoverable(c, i) == IF SameHost(c, i) THEN ~Live(i) ELSE i \in expired

(* isRecoverableUnpublishedSnapshot, asked by call c about the fence. *)
FenceRecoverable(c) ==
    IF fence.written /\ SameHost(c, fence.by) THEN ~Live(fence.by) ELSE fenceOld

(* unlinkSync(fencePath), whatever is there by now. *)
RemoveFence(c) ==
    /\ fence' = None /\ fenceOld' = FALSE
    /\ fenceLost' = (fenceLost \/ (fence # None /\ fence.by # c /\ Live(fence.by)
                                      /\ pc[fence.by] \in Fencing))

-----------------------------------------------------------------------------
(* withPlanStorageLease up to the lock *)

\* reclaimOrphanCandidates, and the candidate.  Files under .stale names whose
\* lease is recoverable are removed, also those somebody still works with.
Start(c) ==
    /\ At(c, "idle")
    /\ held' = [d \in Calls |-> IF held[d] # None /\ Recoverable(c, held[d]) THEN None ELSE held[d]]
    /\ Goto(c, "gate")
    /\ UNCHANGED <<lock, expired, fenceVars, callVars, obs, hb, alive, lapsed>>

TimeOut(c) ==
    /\ At(c, "gate") /\ c \in Faulty
    /\ Goto(c, "failed")
    /\ UNCHANGED <<fileVars, fenceVars, callVars, obs, hb, alive, lapsed>>

\* A fence is waited for, unless it can be removed.
GateFenced(c) ==
    /\ At(c, "gate") /\ fence # None /\ FenceRecoverable(c)
    /\ Goto(c, "gateUnlink")
    /\ UNCHANGED <<fileVars, fenceVars, callVars, obs, hb, alive, lapsed>>

GateUnlink(c) ==
    /\ At(c, "gateUnlink")
    /\ RemoveFence(c)
    /\ Goto(c, "gate")
    /\ UNCHANGED <<fileVars, callVars, obs, hb, alive, lapsed>>

GateOpen(c) ==
    /\ At(c, "gate") /\ fence = None
    /\ Goto(c, "link")
    /\ UNCHANGED <<fileVars, fenceVars, callVars, obs, hb, alive, lapsed>>

\* Mutant: the candidate is renamed over whatever is there.
PublishOver(c) == lock' = c

(* linkSync(candidatePath, lockPath) succeeds. *)
PublishExclusively(c) == lock = None /\ lock' = c

Link(c) ==
    /\ At(c, "link")
    /\ PublishExclusively(c)
    /\ Goto(c, "beat")
    /\ UNCHANGED <<expired, held, fenceVars, callVars, obs, hb, alive, lapsed>>

\* EEXIST: replaceRecoverableLock takes its first snapshot.
LinkExists(c) ==
    /\ At(c, "link") /\ lock # None
    /\ IF Recoverable(c, lock)
       THEN Goto(c, "fence") /\ obs' = [obs EXCEPT ![c] = lock]
       ELSE Goto(c, "gate") /\ obs' = obs
    /\ UNCHANGED <<fileVars, fenceVars, callVars, hb, alive, lapsed>>

-----------------------------------------------------------------------------
(* acquireReclaimFence, releaseReclaimFence *)

Verdict(c) == IF c \in threw THEN "failed" ELSE "done"

FenceOpens(c) ==
    /\ pc[c] \in {"fence", "fenceAgain"} /\ Live(c)
    /\ fence = None
    /\ fence' = [by |-> c, role |-> role[c], written |-> FALSE] /\ fenceOld' = FALSE
    /\ Goto(c, "fenceWrite")
    /\ UNCHANGED <<fileVars, fenceLost, callVars, obs, hb, alive, lapsed>>

FenceToRemove(c) ==
    /\ At(c, "fence") /\ fence # None /\ FenceRecoverable(c)
    /\ Goto(c, "fenceUnlink")
    /\ UNCHANGED <<fileVars, fenceVars, callVars, obs, hb, alive, lapsed>>

FenceUnlink(c) ==
    /\ At(c, "fenceUnlink")
    /\ RemoveFence(c)
    /\ Goto(c, "fenceAgain")
    /\ UNCHANGED <<fileVars, callVars, obs, hb, alive, lapsed>>

\* Somebody else has the fence: a reclaim is tried again later, a release not.
FenceTaken(c) ==
    /\ pc[c] \in {"fence", "fenceAgain"} /\ Live(c)
    /\ fence # None /\ (pc[c] = "fence" => ~FenceRecoverable(c))
    /\ Goto(c, IF role[c] = "reclaim" THEN "gate" ELSE Verdict(c))
    /\ obs' = [obs EXCEPT ![c] = None]
    /\ UNCHANGED <<fileVars, fenceVars, callVars, hb, alive, lapsed>>

\* Through the descriptor: the record appears only if the path still names it.
FenceWritten(c) ==
    /\ At(c, "fenceWrite")
    /\ fence' = IF fence = [by |-> c, role |-> role[c], written |-> FALSE]
                THEN [fence EXCEPT !.written = TRUE] ELSE fence
    /\ Goto(c, "check")
    /\ UNCHANGED <<fileVars, fenceOld, fenceLost, callVars, obs, hb, alive, lapsed>>

\* The exception leaves the empty fence behind.
FenceWriteFails(c) ==
    /\ At(c, "fenceWrite") /\ c \in Faulty
    /\ Goto(c, "failed")
    /\ obs' = [obs EXCEPT ![c] = None]
    /\ UNCHANGED <<fileVars, fenceVars, callVars, hb, alive, lapsed>>

\* finally: the fence goes, then the call goes on to l.
Unfenced(c, l) ==
    /\ Goto(c, "unfence")
    /\ after' = [after EXCEPT ![c] = l]
    /\ obs' = [obs EXCEPT ![c] = None]

Onward(c) == IF after[c] = "end" THEN Verdict(c) ELSE after[c]

OwnFence(c) == fence = [by |-> c, role |-> role[c], written |-> TRUE]

Unfence(c) ==
    /\ At(c, "unfence")
    /\ Goto(c, IF OwnFence(c) THEN "unfenceUnlink" ELSE Onward(c))
    /\ after' = IF OwnFence(c) THEN after ELSE [after EXCEPT ![c] = "gate"]
    /\ UNCHANGED <<fileVars, fenceVars, role, threw, met, obs, hb, alive, lapsed>>

UnfenceUnlink(c) ==
    /\ At(c, "unfenceUnlink")
    /\ RemoveFence(c)
    /\ Goto(c, Onward(c))
    /\ after' = [after EXCEPT ![c] = "gate"]
    /\ UNCHANGED <<fileVars, role, threw, met, obs, hb, alive, lapsed>>

-----------------------------------------------------------------------------
(* replaceRecoverableLock and releaseOwnedLease, behind the fence *)

Unrenewed(c) == obs[c] # None /\ held[c] = obs[c]

\* Mutant: the snapshot taken before the fence is trusted.
CheckedBefore(c) == obs[c] # None

\* The second snapshot is the first one.
Checked(c) ==
    /\ obs[c] # None /\ lock = obs[c]
    /\ role[c] = "reclaim" => Recoverable(c, lock)

Check(c) ==
    /\ At(c, "check")
    /\ IF Checked(c) THEN Goto(c, "rename") /\ UNCHANGED <<after, obs>>
       ELSE Unfenced(c, IF role[c] = "reclaim" THEN "gate" ELSE "end")
    /\ UNCHANGED <<fileVars, fenceVars, role, threw, met, hb, alive, lapsed>>

\* renameSync to a .stale name: whatever is at lockPath by now.
Rename(c) ==
    /\ At(c, "rename")
    /\ held' = [held EXCEPT ![c] = lock] /\ lock' = None
    /\ IF lock # None THEN Goto(c, "renamed") /\ UNCHANGED <<after, obs>>
       ELSE Unfenced(c, "failed")
    /\ UNCHANGED <<expired, fenceVars, role, threw, met, hb, alive, lapsed>>

\* The reclaimer's third snapshot, of the file it has moved.
Renamed(c) ==
    /\ At(c, "renamed") /\ role[c] = "reclaim"
    /\ Goto(c, IF Unrenewed(c) THEN "publish" ELSE "relink")
    /\ UNCHANGED <<fileVars, fenceVars, callVars, obs, hb, alive, lapsed>>

\* The releaser's.
ReleaseRenamed(c) ==
    /\ At(c, "renamed") /\ role[c] = "release"
    /\ Goto(c, IF Unrenewed(c) THEN "discard" ELSE "putBack")
    /\ UNCHANGED <<fileVars, fenceVars, callVars, obs, hb, alive, lapsed>>

\* The released lease is gone for good, or renamed back over lockPath, whatever
\* is there by now.
Released(c) ==
    /\ pc[c] \in {"discard", "putBack"} /\ Live(c) /\ held[c] # None
    /\ held' = [held EXCEPT ![c] = None]
    /\ lock' = IF pc[c] = "putBack" THEN held[c] ELSE lock
    /\ Unfenced(c, "end")
    /\ UNCHANGED <<expired, fenceVars, role, threw, met, hb, alive, lapsed>>

\* Somebody has removed the file: the call throws, and once more in its
\* finally if nothing is at lockPath, past the release of the fence.
ReleaseThrows(c) ==
    /\ pc[c] \in {"discard", "putBack"} /\ Live(c) /\ held[c] = None
    /\ IF lock = None
       THEN Goto(c, "failed") /\ after' = after /\ obs' = [obs EXCEPT ![c] = None]
       ELSE Unfenced(c, "failed")
    /\ UNCHANGED <<fileVars, fenceVars, role, threw, met, hb, alive, lapsed>>

Publish(c) ==
    /\ At(c, "publish")
    /\ \/ PublishExclusively(c) /\ Goto(c, "confirm")
       \/ lock # None /\ lock' = lock /\ Goto(c, "relink")
    /\ UNCHANGED <<expired, held, fenceVars, callVars, obs, hb, alive, lapsed>>

\* The fourth snapshot, of the old lease ...
Confirm(c) ==
    /\ At(c, "confirm")
    /\ Goto(c, IF Unrenewed(c) THEN "reread" ELSE "undo")
    /\ UNCHANGED <<fileVars, fenceVars, callVars, obs, hb, alive, lapsed>>

\* ... and the owner of the new one.
Reread(c) ==
    /\ At(c, "reread")
    /\ IF lock = c THEN Unfenced(c, "beat") /\ held' = [held EXCEPT ![c] = None]
       ELSE Goto(c, "undo") /\ UNCHANGED <<after, obs, held>>
    /\ UNCHANGED <<lock, expired, fenceVars, role, threw, met, hb, alive, lapsed>>

Undo(c) ==
    /\ At(c, "undo")
    /\ Goto(c, IF lock = c THEN "undoUnlink" ELSE "relink")
    /\ UNCHANGED <<fileVars, fenceVars, callVars, obs, hb, alive, lapsed>>

UndoUnlink(c) ==
    /\ At(c, "undoUnlink")
    /\ lock' = None
    /\ IF lock # None THEN Goto(c, "relink") /\ UNCHANGED <<after, obs, held>>
       ELSE Unfenced(c, "failed") /\ held' = [held EXCEPT ![c] = None]
    /\ UNCHANGED <<expired, fenceVars, role, threw, met, hb, alive, lapsed>>

\* The old lease is linked back unless somebody else has published.
Relink(c) ==
    /\ At(c, "relink")
    /\ lock' = IF lock = None THEN held[c] ELSE lock
    /\ held' = [held EXCEPT ![c] = None]
    /\ Unfenced(c, "failed")
    /\ UNCHANGED <<expired, fenceVars, role, threw, met, hb, alive, lapsed>>

-----------------------------------------------------------------------------
(* The heartbeat worker *)

Worked(c, phase, at) == hb' = [hb EXCEPT ![c] = [phase |-> phase, at |-> at]]

Running(c) == Live(c) /\ hb[c].phase # "off"

\* renew up to futimes: owner, fence, expiry.
Renewable(c) == lock = c /\ fence = None /\ c \notin expired

\* The renewal that answers stop() is the last one.
Look(c) ==
    /\ Running(c) /\ hb[c].at = "rest"
    /\ Worked(c, IF hb[c].phase = "next" /\ ~Serving(c) THEN "last" ELSE hb[c].phase,
                 IF Renewable(c) THEN "touch" ELSE "failed")
    /\ UNCHANGED <<fileVars, fenceVars, pc, callVars, obs, alive, lapsed>>

\* futimes through the descriptor, wherever the file is by now.
Touch(c) ==
    /\ Running(c) /\ hb[c].at = "touch"
    /\ expired' = expired \ {c}
    /\ obs' = [d \in Calls |-> IF obs[d] = c THEN None ELSE obs[d]]
    /\ Worked(c, hb[c].phase, "verify")
    /\ UNCHANGED <<lock, held, fenceVars, pc, callVars, alive, lapsed>>

\* The file is still the one at lockPath, and in time.
StillPublished(c) == lock = c /\ c \notin expired

Verify(c) ==
    /\ Running(c) /\ hb[c].at = "verify"
    /\ IF ~StillPublished(c) THEN Worked(c, hb[c].phase, "failed")
       ELSE IF hb[c].phase = "last" THEN Worked(c, "last", "stopped")
       ELSE Worked(c, "next", "rest")
    /\ UNCHANGED <<fileVars, fenceVars, pc, callVars, obs, alive, lapsed>>

\* terminate() of a worker that nobody waits for any more takes effect.
WorkerEnds(c) ==
    /\ hb[c].phase # "off"
    /\ ~Serving(c) /\ pc[c] # "stopping"
    /\ hb' = [hb EXCEPT ![c] = Off]
    /\ UNCHANGED <<fileVars, fenceVars, pc, callVars, obs, alive, lapsed>>

-----------------------------------------------------------------------------
(* The section *)

Throws(c, l) == Goto(c, l) /\ threw' = threw \cup {c}

Beat(c) ==
    /\ At(c, "beat")
    /\ Worked(c, "first", "rest")
    /\ Goto(c, "starting")
    /\ UNCHANGED <<fileVars, fenceVars, callVars, obs, alive, lapsed>>

\* The candidate cannot be unlinked: the call gives its lease back.
CandidateStays(c) ==
    /\ At(c, "beat") /\ c \in Faulty
    /\ Throws(c, "release")
    /\ UNCHANGED <<fileVars, fenceVars, role, after, met, obs, hb, alive, lapsed>>

Started(c) ==
    /\ At(c, "starting") /\ hb[c].phase = "next"
    /\ Goto(c, "enter")
    /\ UNCHANGED <<fileVars, fenceVars, callVars, obs, hb, alive, lapsed>>

\* The first renewal failed, or took longer than the lease.
StartFails(c) ==
    /\ At(c, "starting") /\ hb[c].phase = "first"
    /\ hb[c].at = "failed" \/ c \in Faulty
    /\ Throws(c, "release")
    /\ UNCHANGED <<fileVars, fenceVars, role, after, met, obs, hb, alive, lapsed>>

\* assertPlanStorageLeaseOwner: a healthy heartbeat and no fence, the file,
\* and once more the first two.
Healthy(c) == hb[c].at # "failed" /\ fence = None
Owns(c) == lock = c /\ c \notin expired

\* One of its steps: on to l, or out of the section.
Asserted(c, ok, l) ==
    IF ok THEN Goto(c, l) /\ threw' = threw ELSE Throws(c, "stopping")

Enter(c) ==
    /\ \/ At(c, "enter") /\ Asserted(c, Healthy(c), "entering")
       \/ At(c, "entering") /\ Asserted(c, Owns(c), "entered")
    /\ UNCHANGED <<fileVars, fenceVars, role, after, met, obs, hb, alive, lapsed>>

Entered(c) ==
    /\ At(c, "entered")
    /\ Asserted(c, Healthy(c), "working")
    /\ met' = IF Healthy(c) THEN [met EXCEPT ![c] = {d \in Calls : InSection(d)}] ELSE met
    /\ UNCHANGED <<fileVars, fenceVars, role, after, obs, hb, alive, lapsed>>

\* The action returns.
Leave(c) ==
    /\ \/ At(c, "working") /\ Asserted(c, Healthy(c), "leaving")
       \/ At(c, "leaving") /\ Asserted(c, Owns(c), "left")
       \/ At(c, "left") /\ Asserted(c, Healthy(c), "stopping")
    /\ UNCHANGED <<fileVars, fenceVars, role, after, met, obs, hb, alive, lapsed>>

LeaveThrowing(c) ==
    /\ At(c, "working") /\ c \in Faulty
    /\ Throws(c, "stopping")
    /\ UNCHANGED <<fileVars, fenceVars, role, after, met, obs, hb, alive, lapsed>>

\* Mutant: stop() does not wait for the last renewal.
StoppedAtOnce(c) ==
    /\ At(c, "stopping")
    /\ Goto(c, "release")
    /\ UNCHANGED <<fileVars, fenceVars, callVars, obs, hb, alive, lapsed>>

\* heartbeat.stop(): the last renewal has ended, or stop() gives up waiting.
Stopped(c) ==
    /\ At(c, "stopping")
    /\ hb[c].at \in {"stopped", "failed"} \/ c \in Faulty
    /\ IF hb[c].at = "stopped" THEN Goto(c, "release") /\ threw' = threw ELSE Throws(c, "release")
    /\ UNCHANGED <<fileVars, fenceVars, role, after, met, obs, hb, alive, lapsed>>

\* releaseOwnedLease's first snapshot.
Release(c) ==
    /\ At(c, "release")
    /\ role' = [role EXCEPT ![c] = "release"]
    /\ IF lock = c THEN Goto(c, "fence") /\ obs' = [obs EXCEPT ![c] = c]
       ELSE Goto(c, Verdict(c)) /\ obs' = obs
    /\ UNCHANGED <<fileVars, fenceVars, after, threw, met, hb, alive, lapsed>>

-----------------------------------------------------------------------------
(* The clock and the processes *)

\* A lease runs out: its owner is dead, has ended, or is suspended.
Expire(c) ==
    /\ c \notin expired /\ pc[c] # "idle"
    /\ c = lock \/ \E d \in Calls : held[d] = c
    /\ c \in Faulty \/ pc[c] \in Ended
    /\ expired' = expired \cup {c}
    /\ lapsed' = IF pc[c] \in Ended THEN lapsed ELSE lapsed \cup {c}
    /\ UNCHANGED <<lock, held, fenceVars, pc, callVars, obs, hb, alive>>

FenceAges ==
    /\ fence # None /\ ~fenceOld
    /\ fence.by \in Faulty \/ pc[fence.by] \in Ended
    /\ fenceOld' = TRUE
    /\ UNCHANGED <<fileVars, fence, fenceLost, pc, callVars, obs, hb, alive, lapsed>>

Crash(p) ==
    /\ p \in alive /\ \E c \in Faulty : ProcOf[c] = p
    /\ alive' = alive \ {p}
    /\ pc' = [c \in Calls |-> IF ProcOf[c] = p /\ pc[c] \notin {"done", "failed"} THEN "crashed" ELSE pc[c]]
    /\ hb' = [c \in Calls |-> IF ProcOf[c] = p THEN Off ELSE hb[c]]
    /\ held' = [c \in Calls |-> IF ProcOf[c] = p THEN None ELSE held[c]]
    /\ obs' = [c \in Calls |-> IF ProcOf[c] = p THEN None ELSE obs[c]]
    /\ role' = [c \in Calls |-> IF ProcOf[c] = p THEN "reclaim" ELSE role[c]]
    /\ after' = [c \in Calls |-> IF ProcOf[c] = p THEN "gate" ELSE after[c]]
    /\ met' = [c \in Calls |-> IF ProcOf[c] = p /\ pc[c] # "done" THEN {} ELSE met[c]]
    /\ threw' = {c \in threw : ProcOf[c] # p}
    /\ lapsed' = {c \in lapsed : ProcOf[c] # p}
    /\ UNCHANGED <<lock, expired, fenceVars>>

-----------------------------------------------------------------------------
Acquiring(c) ==
    \/ Start(c) \/ GateFenced(c) \/ GateUnlink(c) \/ GateOpen(c) \/ Link(c) \/ LinkExists(c)
    \/ TimeOut(c)

AtFence(c) ==
    \/ FenceOpens(c) \/ FenceToRemove(c) \/ FenceUnlink(c) \/ FenceTaken(c) \/ FenceWritten(c)
    \/ FenceWriteFails(c) \/ Unfence(c) \/ UnfenceUnlink(c)

Replacing(c) ==
    \/ Check(c) \/ Rename(c) \/ Renamed(c) \/ ReleaseRenamed(c) \/ Released(c) \/ ReleaseThrows(c)
    \/ Publish(c) \/ Confirm(c) \/ Reread(c) \/ Undo(c) \/ UndoUnlink(c) \/ Relink(c)

Beating(c) == Look(c) \/ Touch(c) \/ Verify(c) \/ WorkerEnds(c)

Holding(c) ==
    \/ Beat(c) \/ CandidateStays(c) \/ Started(c) \/ StartFails(c) \/ Enter(c) \/ Entered(c)
    \/ Leave(c) \/ LeaveThrowing(c) \/ Stopped(c) \/ Release(c)

Next ==
    \/ \E c \in Calls : Acquiring(c) \/ AtFence(c) \/ Replacing(c) \/ Beating(c) \/ Holding(c) \/ Expire(c)
    \/ FenceAges
    \/ \E p \in Procs : Crash(p)

Spec == Init /\ [][Next]_vars

-----------------------------------------------------------------------------
(* Two calls are in their sections together only when one of them lost its   *)
(* lease by time, or a fence was removed from a call still behind it        *)
(* (isRecoverableSnapshot, linkSync, the snapshots behind the fence).       *)
SectionsExclude ==
    \A c, d \in Calls : c # d /\ InSection(c) /\ InSection(d) => {c, d} \cap lapsed # {} \/ fenceLost

(* Of two calls that were in their sections together at most one returns     *)
(* its result: the other one's assertion, heartbeat or stop() throws        *)
(* (assertPlanStorageLeaseOwner, renew), unless a fence was lost.            *)
SuccessWasAlone ==
    \A c, d \in Calls : pc[c] = "done" /\ pc[d] = "done" => d \notin met[c] \/ fenceLost

(* The lease excludes: the two above, over well-formed states.               *)
LeaseExcludes == TypeOK /\ SectionsExclude /\ SuccessWasAlone

(* The lock file of a live call goes away under it only when its lease ran   *)
(* out, when a fence was lost, or when a releaser whose lease was renewed   *)
(* late renames it back over a contender that had passed the gate           *)
(* (replaceRecoverableLock, releaseOwnedLease).                              *)
DisplacementHasCause ==
    [][\A c \in Calls : lock = c /\ lock' # c /\ Live(c) /\ pc[c] \notin Ended /\ pc'[c] = pc[c]
          => \/ c \in lapsed \/ fenceLost
             \/ \E d \in Calls \ {c} : pc[d] = "putBack" /\ lock' = d]_vars

(* A call that returns its result leaves its lock file behind only because  *)
(* somebody else had the fence at that moment (releaseOwnedLease returns     *)
(* silently), or a fence was lost: no late renewal of its own heartbeat      *)
(* makes it miss its file.                                                   *)
LeakHasCause ==
    [][\A c \in Calls : pc[c] # "done" /\ pc'[c] = "done" /\ lock' = c
          => (fence # None /\ fence.by # c) \/ fenceLost]_vars
=============================================================================
