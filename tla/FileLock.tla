------------------------------ MODULE FileLock ------------------------------
(***************************************************************************)
(* The advisory lock file of src/shared/filePersistence.ts, on which every *)
(* durable store of the Manager rests (delivery receipts, message context, *)
(* identities, plans).  One action is one system call of                   *)
(* acquireFileLockSync / reclaimStaleFileLock / releaseOwnedFileLock, so   *)
(* that every window between a check and the use of its result is there.   *)
(*                                                                         *)
(* A member of Calls is one call of acquireFileLockSync with the release   *)
(* closure it returns.  A call creates at most one lock file, so a file    *)
(* version (what owner token, mtime and size tell apart) is the pair of    *)
(* its creator and whether the owner record has been written into it.      *)
(***************************************************************************)
EXTENDS Naturals, FiniteSets

CONSTANTS
    Calls,     \* the calls of acquireFileLockSync on one lock path
    Procs,     \* operating-system processes
    ProcOf,    \* the process that makes a call
    HostOf,    \* the host a process runs on
    Win32,     \* process.platform = "win32"
    NoLockFile     \* nothing exists at lockPath

Version == [creator : Calls, written : BOOLEAN]

ASSUME FileLockAssumption ==
    /\ ProcOf \in [Calls -> Procs]
    /\ DOMAIN HostOf = Procs
    /\ Win32 \in BOOLEAN
    /\ NoLockFile \notin Version
    /\ NoLockFile \notin Calls

VARIABLES
    lockFile,     \* the version at lockPath, or NoLockFile
    stale,    \* versions whose mtime is at least staleMs old
    at,       \* the next system call of each call
    seen,     \* the version reclaimStaleFileLock's first stat returned
    alive,    \* processes that have not crashed
    denied    \* the file system currently refuses to create the file (EPERM)

lockVars == <<lockFile, stale, at, seen, alive, denied>>

PCs == {"idle", "open", "write", "stat", "read", "recheck", "unlink", "deadline",
        "held", "relread", "relunlink", "done", "failed", "timedout"}

Reclaiming == {"read", "recheck", "unlink"}

Returned == {"done", "failed", "timedout"}

(* Types, and: a call holds the version of its first stat exactly while it  *)
(* is between that stat and the end of reclaimStaleFileLock.                *)
LockTypeOK ==
    /\ lockFile \in Version \cup {NoLockFile}
    /\ stale \subseteq Version
    /\ at \in [Calls -> PCs]
    /\ seen \in [Calls -> Version \cup {NoLockFile}]
    /\ alive \subseteq Procs
    /\ denied \in BOOLEAN
    /\ \A c \in Calls : seen[c] # NoLockFile <=> at[c] \in Reclaiming

LockInit ==
    /\ lockFile = NoLockFile
    /\ stale = {}
    /\ at = [c \in Calls |-> "idle"]
    /\ seen = [c \in Calls |-> NoLockFile]
    /\ alive = Procs
    /\ denied \in BOOLEAN

Live(c) == ProcOf[c] \in alive

Goto(c, l) == at' = [at EXCEPT ![c] = l]

(* readFileLockRecord: the call whose record is at lockPath; NoLockFile stands  *)
(* for the null of a missing or not yet parseable record.                   *)
RecordOwner == IF lockFile # NoLockFile /\ lockFile.written THEN lockFile.creator ELSE NoLockFile

OwnerNeverAlive(c, owner) == FALSE

(* sameHostProcessAlive, evaluated by call c on a record it has read.       *)
SameHostProcessAlive(c, owner) ==
    /\ owner # NoLockFile
    /\ HostOf[ProcOf[owner]] = HostOf[ProcOf[c]]
    /\ ProcOf[owner] \in alive

-----------------------------------------------------------------------------
(* acquireFileLockSync *)

Start(c) ==
    /\ at[c] = "idle" /\ Live(c)
    /\ Goto(c, "open")
    /\ UNCHANGED <<lockFile, stale, seen, alive, denied>>

OpenNotExclusive(c) ==
    /\ at[c] = "open" /\ Live(c)
    /\ ~denied
    /\ lockFile' = [creator |-> c, written |-> FALSE]
    /\ Goto(c, "write")
    /\ UNCHANGED <<stale, seen, alive, denied>>

(* openSync(lockPath, "wx") creates the file. *)
OpenCreates(c) ==
    /\ at[c] = "open" /\ Live(c)
    /\ lockFile = NoLockFile /\ ~denied
    /\ lockFile' = [creator |-> c, written |-> FALSE]
    /\ Goto(c, "write")
    /\ UNCHANGED <<stale, seen, alive, denied>>

(* EEXIST: try to reclaim. *)
OpenExists(c) ==
    /\ at[c] = "open" /\ Live(c)
    /\ lockFile # NoLockFile
    /\ Goto(c, "stat")
    /\ UNCHANGED <<lockFile, stale, seen, alive, denied>>

(* EPERM: contention on Windows, an error of the caller anywhere else. *)
OpenDenied(c) ==
    /\ at[c] = "open" /\ Live(c)
    /\ lockFile = NoLockFile /\ denied
    /\ Goto(c, IF Win32 THEN "stat" ELSE "failed")
    /\ UNCHANGED <<lockFile, stale, seen, alive, denied>>

(* writeFileSync + fsyncSync through the descriptor: the record appears     *)
(* only if lockPath still names the file the descriptor refers to.          *)
Write(c) ==
    /\ at[c] = "write" /\ Live(c)
    /\ lockFile' = IF lockFile = [creator |-> c, written |-> FALSE]
                 THEN [creator |-> c, written |-> TRUE] ELSE lockFile
    /\ Goto(c, "held")
    /\ UNCHANGED <<stale, seen, alive, denied>>

(* The write or the fsync throws: the exception leaves the file behind. *)
WriteFails(c) ==
    /\ at[c] = "write" /\ Live(c)
    /\ Goto(c, "failed")
    /\ UNCHANGED <<lockFile, stale, seen, alive, denied>>

(* After a failed reclaim: 10 ms of Atomics.wait before the next open ... *)
WaitMore(c) ==
    /\ at[c] = "deadline" /\ Live(c)
    /\ Goto(c, "open")
    /\ UNCHANGED <<lockFile, stale, seen, alive, denied>>

(* ... or, once Date.now() has reached the deadline, the timeout error. *)
TimeOut(c) ==
    /\ at[c] = "deadline" /\ Live(c)
    /\ Goto(c, "timedout")
    /\ UNCHANGED <<lockFile, stale, seen, alive, denied>>

-----------------------------------------------------------------------------
(* reclaimStaleFileLock *)

(* statSync; ENOENT counts as reclaimed and retries the open at once. *)
Stat(c) ==
    /\ at[c] = "stat" /\ Live(c)
    /\ IF lockFile = NoLockFile
         THEN Goto(c, "open") /\ seen' = seen
         ELSE Goto(c, "read") /\ seen' = [seen EXCEPT ![c] = lockFile]
    /\ UNCHANGED <<lockFile, stale, alive, denied>>

(* Leaving reclaimStaleFileLock drops its local variables. *)
Leave(c, l) == Goto(c, l) /\ seen' = [seen EXCEPT ![c] = NoLockFile]

(* Read the record: a live local owner, or a recent mtime, stops here. *)
ReadRecord(c) ==
    /\ at[c] = "read" /\ Live(c)
    /\ IF SameHostProcessAlive(c, RecordOwner) \/ seen[c] \notin stale
         THEN Leave(c, "deadline")
         ELSE Goto(c, "recheck") /\ seen' = seen
    /\ UNCHANGED <<lockFile, stale, alive, denied>>

(* Second read and second stat.  A version that left lockPath never comes   *)
(* back, so comparing versions in one step decides as the two calls do.     *)
Recheck(c) ==
    /\ at[c] = "recheck" /\ Live(c)
    /\ \/ lockFile = NoLockFile /\ Leave(c, "open")
       \/ lockFile = seen[c] /\ Goto(c, "unlink") /\ seen' = seen
       \/ lockFile \notin {NoLockFile, seen[c]} /\ Leave(c, "deadline")
    /\ UNCHANGED <<lockFile, stale, alive, denied>>

UnlinkSwallowsFailure(c) ==
    /\ at[c] = "unlink" /\ Live(c)
    /\ Leave(c, "open")
    /\ UNCHANGED <<lockFile, stale, alive, denied>>

(* unlinkSync removes whatever is at lockPath by now. *)
Unlink(c) ==
    /\ at[c] = "unlink" /\ Live(c)
    /\ lockFile' = NoLockFile
    /\ Leave(c, "open")
    /\ UNCHANGED <<stale, alive, denied>>

-----------------------------------------------------------------------------
(* releaseOwnedFileLock, called once by the closure (released flag). *)

Finish(c) ==
    /\ at[c] = "held" /\ Live(c)
    /\ Goto(c, "relread")
    /\ UNCHANGED <<lockFile, stale, seen, alive, denied>>

ReleaseRead(c) ==
    /\ at[c] = "relread" /\ Live(c)
    /\ Goto(c, IF RecordOwner = c THEN "relunlink" ELSE "done")
    /\ UNCHANGED <<lockFile, stale, seen, alive, denied>>

ReleaseUnlink(c) ==
    /\ at[c] = "relunlink" /\ Live(c)
    /\ lockFile' = NoLockFile
    /\ Goto(c, "done")
    /\ UNCHANGED <<stale, seen, alive, denied>>

-----------------------------------------------------------------------------
(* The environment: time, crashes, the end of a transient denial. *)

Age ==
    /\ lockFile # NoLockFile /\ lockFile \notin stale
    /\ stale' = stale \cup {lockFile}
    /\ UNCHANGED <<lockFile, at, seen, alive, denied>>

ProcessCrash(p) ==
    /\ p \in alive
    /\ alive' = alive \ {p}
    /\ UNCHANGED <<lockFile, stale, at, seen, denied>>

Heal ==
    /\ denied
    /\ denied' = FALSE
    /\ UNCHANGED <<lockFile, stale, at, seen, alive>>

LockCallStep(c) ==
    \/ OpenCreates(c) \/ OpenExists(c) \/ OpenDenied(c)
    \/ Write(c) \/ WriteFails(c) \/ WaitMore(c) \/ TimeOut(c)
    \/ Stat(c) \/ ReadRecord(c) \/ Recheck(c) \/ Unlink(c)
    \/ Finish(c) \/ ReleaseRead(c) \/ ReleaseUnlink(c)

LockNext ==
    \/ \E c \in Calls : Start(c) \/ LockCallStep(c)
    \/ \E p \in Procs : ProcessCrash(p)
    \/ Age
    \/ Heal

LockSpec == LockInit /\ [][LockNext]_lockVars

(* A live process keeps executing.  Its clock advances by at least 10 ms    *)
(* per turn of the loop, so a call that reaches the deadline check again    *)
(* and again finds it passed.  The denial may last for ever: an access      *)
(* control list does not go away by itself.                                 *)
FairSpec ==
    LockSpec /\ \A c \in Calls : WF_lockVars(LockCallStep(c)) /\ SF_lockVars(TimeOut(c))

(* FairSpec where a denial is the transient contention the code expects.    *)
HealingSpec == FairSpec /\ WF_lockVars(Heal)

-----------------------------------------------------------------------------
(* Properties *)

(* Calls inside the protected section of withFileLockSync. *)
Critical == {c \in Calls : at[c] = "held" /\ Live(c)}

(* Every call that has started so far runs on the same host. *)
OneHost ==
    \A c, d \in Calls :
        (at[c] # "idle" /\ at[d] # "idle") => HostOf[ProcOf[c]] = HostOf[ProcOf[d]]

(* Nobody crashed, no record write failed, and no owner was suspended for   *)
(* staleMs between creating the file and writing its record.                *)
NoFault ==
    /\ OneHost
    /\ alive = Procs
    /\ \A c \in Calls : at[c] # "failed"
    /\ \A v \in stale : v.written

(* Mutual exclusion of withFileLockSync's sections: without faults at most  *)
(* one call is between acquireFileLockSync and its release, however long    *)
(* the owner keeps the lock and however stale its mtime becomes.            *)
MutexWithoutFaults ==
    NoFault => \A c, d \in Critical : c = d

OwnerPCs == {"write", "held", "relread", "relunlink"}

(* The call c owns the file at lockPath: it created it and has not returned *)
Owns(c) ==
    /\ lockFile # NoLockFile /\ lockFile.creator = c
    /\ at[c] \in OwnerPCs /\ Live(c)

(* A step of another call takes the lock file away from its live owner c.   *)
Displaced(c) == Owns(c) /\ lockFile' # lockFile /\ at'[c] = at[c]

(* What may displace a live owner: a reclaimer acting on the stale answer   *)
(* of its recheck, an owner of another host, an owner that has not written  *)
(* its record within staleMs, or a releaser that lost its own lock before.  *)
(* Anything else removing a live owner's lock would break every store.      *)
DisplacementHasCause ==
    [][ \A c \in Calls : Displaced(c) =>
          \E d \in Calls \ {c} :
             \/ /\ at[d] = "unlink" /\ at'[d] = "open"
                /\ \/ seen[d] # lockFile
                   \/ HostOf[ProcOf[c]] # HostOf[ProcOf[d]] /\ lockFile \in stale
                   \/ ~lockFile.written /\ lockFile \in stale
             \/ at[d] = "relunlink" /\ at'[d] = "done" ]_lockVars

(* acquireFileLockSync returns: every call that starts in a process that    *)
(* stays alive acquires and releases, fails or times out.                   *)
CallsReturn ==
    \A c \in Calls : at[c] = "open" ~> (at[c] \in Returned \/ ~Live(c))

(* Why MutexWithoutFaults holds, as an inductive invariant.  The file at     *)
(* lockPath is the live owner's; whoever has seen a written version has     *)
(* seen one whose owner still holds it or has released it; a reclaimer      *)
(* gets past its first read only behind an owner that is done, and          *)
(* therefore never past its recheck.                                        *)
FileIsOwners ==
    /\ \A c \in Calls : at[c] = "write" => lockFile = [creator |-> c, written |-> FALSE]
    /\ \A c \in Calls : at[c] \in OwnerPCs \ {"write"}
                          => lockFile = [creator |-> c, written |-> TRUE]
    /\ lockFile # NoLockFile => at[lockFile.creator] \in OwnerPCs

SeenIsPast ==
    /\ \A c \in Calls : at[c] = "read" /\ seen[c].written
                          => at[seen[c].creator] \in (OwnerPCs \ {"write"}) \cup {"done"}
    /\ \A c \in Calls : at[c] = "recheck" => at[seen[c].creator] = "done"
    /\ \A c \in Calls : at[c] # "unlink"

LockInv == LockTypeOK /\ (NoFault => FileIsOwners /\ SeenIsPast)
=============================================================================
