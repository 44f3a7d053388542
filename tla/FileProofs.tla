----------------------------- MODULE FileProofs -----------------------------
(***************************************************************************)
(* Proofs about two protocols on one file: the advisory lock (FileLock) and*)
(* the reservation of a task's creation (ThreadReservations).              *)
(***************************************************************************)
EXTENDS FileLock, ThreadReservations, FiniteSetTheorems, TLAPS

-----------------------------------------------------------------------------
(***************************************************************************)
(* FileLock, for every set of calls, processes and hosts.                  *)
(***************************************************************************)

(* A lock file of some call is a version, and never the absence of a file. *)
LEMMA VersionFacts ==
  ASSUME NEW c \in Calls, NEW b \in BOOLEAN
  PROVE  /\ [creator |-> c, written |-> b] \in Version
         /\ [creator |-> c, written |-> b] # NoLockFile
         /\ [creator |-> c, written |-> b].creator = c
         /\ [creator |-> c, written |-> b].written = b
<1>1. [creator |-> c, written |-> b] \in Version
  BY DEF Version
<1> QED
  BY <1>1, FileLockAssumption

(* An owner's file is at lockPath, under its own token. *)
LEMMA OwnerFile ==
  ASSUME FileIsOwners, NEW d \in Calls, at[d] \in OwnerPCs
  PROVE  /\ lockFile # NoLockFile
         /\ lockFile.creator = d
         /\ lockFile.written <=> at[d] # "write"
<1>1. CASE at[d] = "write"
  <2>1. lockFile = [creator |-> d, written |-> FALSE]
    BY <1>1 DEF FileIsOwners
  <2> QED BY <1>1, <2>1, VersionFacts
<1>2. CASE at[d] # "write"
  <2>1. lockFile = [creator |-> d, written |-> TRUE]
    BY <1>2 DEF FileIsOwners
  <2> QED BY <1>2, <2>1, VersionFacts
<1> QED BY <1>1, <1>2

(* Type correctness of every state the lock calls reach. *)
THEOREM LockTypeCorrect == LockSpec => []LockTypeOK
<1>1. LockInit => LockTypeOK
  BY FileLockAssumption DEF LockInit, LockTypeOK, PCs, Reclaiming, Version
<1>2. LockTypeOK /\ [LockNext]_lockVars => LockTypeOK'
  <2> SUFFICES ASSUME LockTypeOK, [LockNext]_lockVars PROVE LockTypeOK'
    OBVIOUS
  <2> USE FileLockAssumption DEF LockTypeOK, PCs, Reclaiming, Version, Goto, Leave
  <2>1. ASSUME NEW c \in Calls, Start(c) PROVE LockTypeOK'
    BY <2>1 DEF Start
  <2>2. ASSUME NEW c \in Calls, OpenCreates(c) PROVE LockTypeOK'
    BY <2>2 DEF OpenCreates
  <2>3. ASSUME NEW c \in Calls, OpenExists(c) PROVE LockTypeOK'
    BY <2>3 DEF OpenExists
  <2>4. ASSUME NEW c \in Calls, OpenDenied(c) PROVE LockTypeOK'
    BY <2>4 DEF OpenDenied
  <2>5. ASSUME NEW c \in Calls, Write(c) PROVE LockTypeOK'
    BY <2>5 DEF Write
  <2>6. ASSUME NEW c \in Calls, WriteFails(c) PROVE LockTypeOK'
    BY <2>6 DEF WriteFails
  <2>7. ASSUME NEW c \in Calls, WaitMore(c) PROVE LockTypeOK'
    BY <2>7 DEF WaitMore
  <2>8. ASSUME NEW c \in Calls, TimeOut(c) PROVE LockTypeOK'
    BY <2>8 DEF TimeOut
  <2>9. ASSUME NEW c \in Calls, Stat(c) PROVE LockTypeOK'
    BY <2>9 DEF Stat
  <2>10. ASSUME NEW c \in Calls, ReadRecord(c) PROVE LockTypeOK'
    BY <2>10 DEF ReadRecord
  <2>11. ASSUME NEW c \in Calls, Recheck(c) PROVE LockTypeOK'
    BY <2>11 DEF Recheck
  <2>12. ASSUME NEW c \in Calls, Unlink(c) PROVE LockTypeOK'
    BY <2>12 DEF Unlink
  <2>13. ASSUME NEW c \in Calls, Finish(c) PROVE LockTypeOK'
    BY <2>13 DEF Finish
  <2>14. ASSUME NEW c \in Calls, ReleaseRead(c) PROVE LockTypeOK'
    BY <2>14 DEF ReleaseRead
  <2>15. ASSUME NEW c \in Calls, ReleaseUnlink(c) PROVE LockTypeOK'
    BY <2>15 DEF ReleaseUnlink
  <2>16. CASE Age
    BY <2>16 DEF Age
  <2>17. ASSUME NEW p \in Procs, ProcessCrash(p) PROVE LockTypeOK'
    BY <2>17 DEF ProcessCrash
  <2>18. CASE Heal
    BY <2>18 DEF Heal
  <2>19. CASE UNCHANGED lockVars
    BY <2>19 DEF lockVars
  <2> QED
    BY <2>1, <2>2, <2>3, <2>4, <2>5, <2>6, <2>7, <2>8, <2>9, <2>10, <2>11, <2>12,
       <2>13, <2>14, <2>15, <2>16, <2>17, <2>18, <2>19 DEF LockNext, LockCallStep
<1> QED
  BY <1>1, <1>2, PTL DEF LockSpec

(* NoFault is lost for ever once it is lost. *)
LEMMA NoFaultStable == LockTypeOK /\ [LockNext]_lockVars /\ NoFault' => NoFault
<1> SUFFICES ASSUME LockTypeOK, [LockNext]_lockVars, NoFault' PROVE NoFault
  OBVIOUS
<1>1. /\ \A c \in Calls : at[c] = "failed" => at'[c] = "failed"
      /\ \A c \in Calls : at[c] # "idle" => at'[c] # "idle"
  BY DEF LockTypeOK, LockNext, LockCallStep, lockVars, Goto, Leave, Start, OpenCreates, OpenExists,
     OpenDenied, Write, WriteFails, WaitMore, TimeOut, Stat, ReadRecord, Recheck, Unlink,
     Finish, ReleaseRead, ReleaseUnlink, Age, ProcessCrash, Heal
<1>2. stale \subseteq stale' /\ alive' \subseteq alive
  BY DEF LockTypeOK, LockNext, LockCallStep, lockVars, Start, OpenCreates, OpenExists,
     OpenDenied, Write, WriteFails, WaitMore, TimeOut, Stat, ReadRecord, Recheck, Unlink,
     Finish, ReleaseRead, ReleaseUnlink, Age, ProcessCrash, Heal
<1> QED
  BY <1>1, <1>2 DEF NoFault, OneHost, LockTypeOK

(* The invariant behind mutual exclusion is inductive. *)
LEMMA LockInvStep == LockInv /\ LockTypeOK' /\ [LockNext]_lockVars => LockInv'
<1> SUFFICES ASSUME LockTypeOK, LockTypeOK', [LockNext]_lockVars, NoFault, NoFault', FileIsOwners, SeenIsPast
             PROVE  FileIsOwners' /\ SeenIsPast'
  BY NoFaultStable DEF LockInv
<1> USE FileLockAssumption, VersionFacts
    DEF LockTypeOK, FileIsOwners, SeenIsPast, OwnerPCs, PCs, Reclaiming, Version, Goto, Leave
<1>1. ASSUME NEW c \in Calls, Start(c) PROVE FileIsOwners' /\ SeenIsPast'
  BY <1>1 DEF Start
<1>2. ASSUME NEW c \in Calls, OpenCreates(c) PROVE FileIsOwners' /\ SeenIsPast'
  <2>1. \A d \in Calls : at[d] \notin OwnerPCs
    BY <1>2, OwnerFile DEF OpenCreates
  <2>2. lockFile' = [creator |-> c, written |-> FALSE] /\ at' = [at EXCEPT ![c] = "write"]
    BY <1>2 DEF OpenCreates
  <2>3. FileIsOwners'
    BY <2>1, <2>2
  <2>4. SeenIsPast'
    BY <1>2, <2>1 DEF OpenCreates
  <2> QED BY <2>3, <2>4
<1>3. ASSUME NEW c \in Calls, OpenExists(c) PROVE FileIsOwners' /\ SeenIsPast'
  BY <1>3 DEF OpenExists
<1>4. ASSUME NEW c \in Calls, OpenDenied(c) PROVE FileIsOwners' /\ SeenIsPast'
  BY <1>4 DEF OpenDenied, NoFault
<1>5. ASSUME NEW c \in Calls, Write(c) PROVE FileIsOwners' /\ SeenIsPast'
  <2>1. lockFile = [creator |-> c, written |-> FALSE] /\ lockFile' = [creator |-> c, written |-> TRUE]
    BY <1>5 DEF Write
  <2>2. \A d \in Calls \ {c} : at[d] \notin OwnerPCs
    BY <1>5, OwnerFile DEF Write
  <2>3. at' = [at EXCEPT ![c] = "held"]
    BY <1>5 DEF Write
  <2>4. FileIsOwners'
    <3>1. lockFile'.creator = c
      BY <2>1
    <3>2. \A d \in Calls : at'[d] \in OwnerPCs => d = c
      BY <2>2, <2>3
    <3>3. at'[c] = "held"
      BY <2>3
    <3> QED BY <2>1, <3>1, <3>2, <3>3
  <2>5. SeenIsPast'
    BY <1>5, <2>2 DEF Write
  <2> QED BY <2>4, <2>5
<1>6. ASSUME NEW c \in Calls, WriteFails(c) PROVE FileIsOwners' /\ SeenIsPast'
  BY <1>6 DEF WriteFails, NoFault
<1>7. ASSUME NEW c \in Calls, WaitMore(c) PROVE FileIsOwners' /\ SeenIsPast'
  BY <1>7 DEF WaitMore
<1>8. ASSUME NEW c \in Calls, TimeOut(c) PROVE FileIsOwners' /\ SeenIsPast'
  BY <1>8 DEF TimeOut
<1>9. ASSUME NEW c \in Calls, Stat(c) PROVE FileIsOwners' /\ SeenIsPast'
  BY <1>9 DEF Stat
<1>10. ASSUME NEW c \in Calls, ReadRecord(c) PROVE FileIsOwners' /\ SeenIsPast'
  <2>1. CASE at'[c] = "deadline"
    BY <1>10, <2>1 DEF ReadRecord
  <2>2. CASE at'[c] = "recheck"
    <3>1. seen[c] \in stale /\ ~SameHostProcessAlive(c, RecordOwner)
      BY <1>10, <2>2 DEF ReadRecord
    <3>2. seen[c].written
      BY <3>1 DEF NoFault
    <3>3. seen[c] \in Version
      BY <1>10 DEF ReadRecord
    <3>4. at[seen[c].creator] \notin OwnerPCs \ {"write"}
      <4> SUFFICES ASSUME at[seen[c].creator] \in OwnerPCs \ {"write"} PROVE FALSE
        OBVIOUS
      <4>1. lockFile # NoLockFile /\ lockFile.creator = seen[c].creator /\ lockFile.written
        BY <3>3, OwnerFile
      <4>2. RecordOwner = seen[c].creator
        BY <4>1 DEF RecordOwner
      <4>3. SameHostProcessAlive(c, RecordOwner)
        BY <3>3, <4>2 DEF SameHostProcessAlive, NoFault, OneHost
      <4> QED BY <3>1, <4>3
    <3>5. at[seen[c].creator] = "done"
      BY <1>10, <3>2, <3>4 DEF ReadRecord
    <3> QED
      BY <1>10, <2>2, <3>3, <3>5 DEF ReadRecord
  <2> QED BY <1>10, <2>1, <2>2 DEF ReadRecord
<1>11. ASSUME NEW c \in Calls, Recheck(c) PROVE FileIsOwners' /\ SeenIsPast'
  <2>1. lockFile # seen[c]
    BY <1>11 DEF Recheck
  <2> QED BY <1>11, <2>1 DEF Recheck
<1>12. ASSUME NEW c \in Calls, Unlink(c) PROVE FileIsOwners' /\ SeenIsPast'
  BY <1>12 DEF Unlink
<1>13. ASSUME NEW c \in Calls, Finish(c) PROVE FileIsOwners' /\ SeenIsPast'
  BY <1>13 DEF Finish
<1>14. ASSUME NEW c \in Calls, ReleaseRead(c) PROVE FileIsOwners' /\ SeenIsPast'
  BY <1>14 DEF ReleaseRead, RecordOwner
<1>15. ASSUME NEW c \in Calls, ReleaseUnlink(c) PROVE FileIsOwners' /\ SeenIsPast'
  BY <1>15 DEF ReleaseUnlink
<1>16. CASE Age
  BY <1>16 DEF Age
<1>17. ASSUME NEW p \in Procs, ProcessCrash(p) PROVE FileIsOwners' /\ SeenIsPast'
  BY <1>17 DEF ProcessCrash
<1>18. CASE Heal
  BY <1>18 DEF Heal
<1>19. CASE UNCHANGED lockVars
  BY <1>19 DEF lockVars
<1> QED
  BY <1>1, <1>2, <1>3, <1>4, <1>5, <1>6, <1>7, <1>8, <1>9, <1>10, <1>11, <1>12,
     <1>13, <1>14, <1>15, <1>16, <1>17, <1>18, <1>19 DEF LockNext, LockCallStep

(* Without faults at most one call is inside the section withFileLockSync  *)
(* protects: releaseOwnedFileLock and reclaimStaleFileLock never remove a  *)
(* live local owner's file, however old it is.                             *)
THEOREM LockExcludes == LockSpec => []MutexWithoutFaults
<1>1. LockInit => LockInv
  BY FileLockAssumption
     DEF LockInit, LockInv, LockTypeOK, PCs, Reclaiming, Version, FileIsOwners, SeenIsPast, OwnerPCs
<1>2. LockInv /\ LockTypeOK' /\ [LockNext]_lockVars => LockInv'
  BY LockInvStep
<1>3. LockInv => MutexWithoutFaults
  BY DEF LockInv, MutexWithoutFaults, Critical, FileIsOwners, OwnerPCs
<1> QED
  BY <1>1, <1>2, <1>3, LockTypeCorrect, PTL DEF LockSpec
-----------------------------------------------------------------------------
(* The calls that have created their lock file. *)
Past == OwnerPCs \cup {"done", "failed"}

(* A version is known only after its creation, its record only after the     *)
(* write: what a call has seen never comes back once it left lockPath.      *)
VersionIsPast(v) ==
    /\ at[v.creator] \in Past
    /\ v.written => at[v.creator] # "write"

(* A reclaimer that got past the first read acts on a stale version, which,  *)
(* if it is still at lockPath with its record, is of another host or of a    *)
(* process that died.                                                       *)
ReclaimInv ==
    /\ lockFile # NoLockFile => VersionIsPast(lockFile)
    /\ \A d \in Calls : seen[d] # NoLockFile => VersionIsPast(seen[d])
    /\ \A d \in Calls : at[d] \in {"recheck", "unlink"} =>
          /\ seen[d] \in stale
          /\ seen[d] = lockFile /\ lockFile.written /\ HostOf[ProcOf[lockFile.creator]] = HostOf[ProcOf[d]]
                => ~Live(lockFile.creator)

(* Who may be displaced holds for every step, faults included. *)
LEMMA ReclaimInvStep == LockTypeOK /\ LockTypeOK' /\ ReclaimInv /\ [LockNext]_lockVars => ReclaimInv'
<1> SUFFICES ASSUME LockTypeOK, LockTypeOK', ReclaimInv, [LockNext]_lockVars PROVE ReclaimInv'
  OBVIOUS
<1>1. /\ \A c \in Calls : at[c] \in Past => at'[c] \in Past
      /\ \A c \in Calls : at[c] \in Past /\ at[c] # "write" => at'[c] # "write"
  BY DEF Past, OwnerPCs, LockTypeOK, LockNext, LockCallStep, lockVars, Goto, Leave, Start, OpenCreates, OpenExists,
     OpenDenied, Write, WriteFails, WaitMore, TimeOut, Stat, ReadRecord, Recheck, Unlink,
     Finish, ReleaseRead, ReleaseUnlink, Age, ProcessCrash, Heal
<1>2. ASSUME NEW v \in Version, VersionIsPast(v) PROVE VersionIsPast(v)'
  <2>1. v.creator \in Calls
    BY DEF Version
  <2> QED
    BY <1>1, <1>2, <2>1 DEF VersionIsPast
<1>3. stale \subseteq stale' /\ alive' \subseteq alive
  BY DEF LockTypeOK, LockNext, LockCallStep, lockVars, Start, OpenCreates, OpenExists,
     OpenDenied, Write, WriteFails, WaitMore, TimeOut, Stat, ReadRecord, Recheck, Unlink,
     Finish, ReleaseRead, ReleaseUnlink, Age, ProcessCrash, Heal
<1>4. \/ lockFile' \in {lockFile, NoLockFile}
      \/ \E c \in Calls : /\ lockFile' = [creator |-> c, written |-> FALSE]
                          /\ at[c] = "open" /\ at'[c] = "write"
      \/ \E c \in Calls : /\ lockFile' = [creator |-> c, written |-> TRUE]
                          /\ at[c] = "write" /\ at'[c] = "held"
  BY DEF LockTypeOK, LockNext, LockCallStep, lockVars, Goto, Leave, Start, OpenCreates, OpenExists,
     OpenDenied, Write, WriteFails, WaitMore, TimeOut, Stat, ReadRecord, Recheck, Unlink,
     Finish, ReleaseRead, ReleaseUnlink, Age, ProcessCrash, Heal
<1>5. \A d \in Calls : seen'[d] \in {seen[d], lockFile, NoLockFile}
  BY DEF LockTypeOK, LockNext, LockCallStep, lockVars, Leave, Start, OpenCreates, OpenExists,
     OpenDenied, Write, WriteFails, WaitMore, TimeOut, Stat, ReadRecord, Recheck, Unlink,
     Finish, ReleaseRead, ReleaseUnlink, Age, ProcessCrash, Heal
<1>6. lockFile' # NoLockFile => VersionIsPast(lockFile)'
  <2>1. CASE lockFile' = lockFile
    BY <1>2, <2>1 DEF ReclaimInv, LockTypeOK, VersionIsPast
  <2>2. ASSUME NEW c \in Calls, lockFile' = [creator |-> c, written |-> FALSE], at'[c] = "write"
        PROVE  VersionIsPast(lockFile)'
    BY <2>2 DEF VersionIsPast, Past, OwnerPCs
  <2>3. ASSUME NEW c \in Calls, lockFile' = [creator |-> c, written |-> TRUE], at'[c] = "held"
        PROVE  VersionIsPast(lockFile)'
    BY <2>3 DEF VersionIsPast, Past, OwnerPCs
  <2> QED
    BY <1>4, <2>1, <2>2, <2>3
<1>7. ASSUME NEW d \in Calls, seen'[d] # NoLockFile PROVE VersionIsPast(seen[d])'
  <2>1. seen'[d] \in Version /\ VersionIsPast(seen'[d])
    BY <1>5, <1>7 DEF ReclaimInv, LockTypeOK
  <2> QED
    BY <1>2, <2>1 DEF VersionIsPast
<1>8. ASSUME NEW d \in Calls, at'[d] \in {"recheck", "unlink"}
      PROVE  /\ seen'[d] \in stale'
             /\ seen'[d] = lockFile' /\ lockFile'.written /\ HostOf[ProcOf[lockFile'.creator]] = HostOf[ProcOf[d]]
                   => ~Live(lockFile.creator)'
  <2>1. \/ at[d] \in {"recheck", "unlink"} /\ seen'[d] = seen[d]
        \/ ReadRecord(d) /\ seen'[d] = seen[d]
    BY <1>8 DEF LockTypeOK, LockNext, LockCallStep, lockVars, Goto, Leave, Start, OpenCreates, OpenExists,
       OpenDenied, Write, WriteFails, WaitMore, TimeOut, Stat, ReadRecord, Recheck, Unlink,
       Finish, ReleaseRead, ReleaseUnlink, Age, ProcessCrash, Heal
  <2>2. seen'[d] = lockFile' => lockFile' = lockFile
    <3> SUFFICES ASSUME seen'[d] = lockFile', lockFile' # lockFile PROVE FALSE
      OBVIOUS
    <3>1. seen[d] = lockFile' /\ lockFile' # NoLockFile /\ VersionIsPast(seen[d])
      BY <1>8, <2>1 DEF LockTypeOK, Reclaiming, ReclaimInv, ReadRecord
    <3>2. ASSUME NEW c \in Calls, lockFile' = [creator |-> c, written |-> FALSE], at[c] = "open" PROVE FALSE
      BY <3>1, <3>2 DEF VersionIsPast, Past, OwnerPCs
    <3>3. ASSUME NEW c \in Calls, lockFile' = [creator |-> c, written |-> TRUE], at[c] = "write" PROVE FALSE
      BY <3>1, <3>3 DEF VersionIsPast
    <3> QED
      BY <1>4, <3>1, <3>2, <3>3
  <2>3. CASE at[d] \in {"recheck", "unlink"} /\ seen'[d] = seen[d]
    BY <1>3, <2>2, <2>3 DEF ReclaimInv, Live
  <2>4. CASE ReadRecord(d) /\ seen'[d] = seen[d]
    <3>1. seen[d] \in stale /\ ~SameHostProcessAlive(d, RecordOwner) /\ seen[d] # NoLockFile
      BY <1>8, <2>4 DEF ReadRecord, Leave, Goto, LockTypeOK, Reclaiming
    <3>2. seen[d] = lockFile /\ lockFile.written => RecordOwner = lockFile.creator /\ lockFile.creator # NoLockFile
      BY <3>1, FileLockAssumption DEF RecordOwner, LockTypeOK, Version
    <3> QED
      BY <1>3, <2>2, <2>4, <3>1, <3>2 DEF SameHostProcessAlive, Live
  <2> QED
    BY <2>1, <2>3, <2>4
<1> QED
  BY <1>6, <1>7, <1>8 DEF ReclaimInv

(* One step of DisplacementHasCause. *)
HasCause ==
    \A c \in Calls : Displaced(c) =>
        \E d \in Calls \ {c} :
           \/ /\ at[d] = "unlink" /\ at'[d] = "open"
              /\ \/ seen[d] # lockFile
                 \/ HostOf[ProcOf[c]] # HostOf[ProcOf[d]] /\ lockFile \in stale
                 \/ ~lockFile.written /\ lockFile \in stale
           \/ at[d] = "relunlink" /\ at'[d] = "done"

(* Whatever crashes, hosts and delays there are, a live owner loses its     *)
(* lock file only to a reclaimer behind a stale recheck, to another host,   *)
(* to its own unwritten record or to a releaser that lost its own lock      *)
(* (reclaimStaleFileLock, releaseOwnedFileLock).                            *)
THEOREM DisplacementIsExplained == LockSpec => DisplacementHasCause
<1>1. LockInit => ReclaimInv
  BY DEF LockInit, ReclaimInv
<1>2. LockTypeOK /\ ReclaimInv /\ [LockNext]_lockVars => [HasCause]_lockVars
  <2> SUFFICES ASSUME LockTypeOK, ReclaimInv, LockNext, NEW c \in Calls, Displaced(c)
               PROVE  \E d \in Calls \ {c} :
                         \/ /\ at[d] = "unlink" /\ at'[d] = "open"
                            /\ \/ seen[d] # lockFile
                               \/ HostOf[ProcOf[c]] # HostOf[ProcOf[d]] /\ lockFile \in stale
                               \/ ~lockFile.written /\ lockFile \in stale
                         \/ at[d] = "relunlink" /\ at'[d] = "done"
    BY DEF HasCause
  <2>1. \E d \in Calls : Unlink(d) \/ ReleaseUnlink(d)
    <3>1. \A d \in Calls : ~OpenCreates(d)
      BY DEF Displaced, Owns, OpenCreates
    <3>2. ASSUME NEW d \in Calls, Write(d) PROVE FALSE
      <4>1. lockFile = [creator |-> d, written |-> FALSE]
        BY <3>2 DEF Displaced, Write
      <4>2. d = c
        BY <4>1 DEF Displaced, Owns
      <4> QED
        BY <3>2, <4>2 DEF Displaced, Write, Goto, LockTypeOK
    <3> QED
      BY <3>1, <3>2
      DEF Displaced, LockNext, LockCallStep, Start, OpenExists, OpenDenied, WriteFails, WaitMore, TimeOut, Stat,
          ReadRecord, Recheck, Finish, ReleaseRead, Age, ProcessCrash, Heal
  <2>2. PICK d \in Calls : Unlink(d) \/ ReleaseUnlink(d)
    BY <2>1
  <2>3. CASE Unlink(d)
    <3>1. d # c /\ at[d] = "unlink" /\ at'[d] = "open"
      BY <2>3 DEF Displaced, Owns, OwnerPCs, Unlink, Leave, Goto, LockTypeOK
    <3>2. seen[d] = lockFile => lockFile \in stale
      BY <3>1 DEF ReclaimInv
    <3>3. seen[d] = lockFile /\ lockFile.written => HostOf[ProcOf[c]] # HostOf[ProcOf[d]]
      BY <3>1 DEF ReclaimInv, Displaced, Owns
    <3> QED
      BY <3>1, <3>2, <3>3
  <2>4. CASE ReleaseUnlink(d)
    <3>1. d # c /\ at[d] = "relunlink" /\ at'[d] = "done"
      BY <2>4 DEF Displaced, ReleaseUnlink, Goto, LockTypeOK
    <3> QED
      BY <3>1
  <2> QED
    BY <2>2, <2>3, <2>4
<1>3. LockSpec => [][HasCause]_lockVars
  BY <1>1, <1>2, ReclaimInvStep, LockTypeCorrect, PTL DEF LockSpec
<1> QED
  BY <1>3 DEF DisplacementHasCause, HasCause

-----------------------------------------------------------------------------
(***************************************************************************)
(* ThreadReservations, for any number of calls and crashes: a caller's     *)
(* intent starts one task, a second task of another key has a named cause, *)
(* and a recorded task is not forgotten.                                   *)
(***************************************************************************)

(* Calls that have not created anything yet. *)
Before == {"idle", "recovering", "confirming"}

Creators == {c \in Callers : pc[c] \in {"creating", "created"}}

(* The calls whose task exists or may still come into being. *)
Begun == Sent \cup Tasks

(* What a reservation says is so: the recorded task exists, a completed     *)
(* creation has one, an early one has none, and a creating one was begun.   *)
Truthful(s) ==
    /\ s.state \in {"reserved", "creating", "failed_before_create"} => s.thread = None
    /\ s.state = "completed" => s.thread # None
    /\ s.thread # None => s.thread \in Tasks
    /\ s.state = "creating" => pc[s.by] \notin Before

(* A call that waits remembers a reservation that somebody else held. *)
SnapsHold ==
    \A c \in Callers :
        /\ pc[c] \in Before => native[c] = "none"
        /\ pc[c] = "recovering" => kind = "remote"
        /\ pc[c] = "confirming" => /\ MayConfirm
                                   /\ snap[c] # NoFile
                                   /\ snap[c].state = "creating"
                                   /\ pc[snap[c].by] # "creating"
        /\ pc[c] = "recovering" => snap[c] # NoFile
        /\ snap[c] # NoFile => Truthful(snap[c])

TasksExist ==
    /\ Readable => Truthful(file)
    /\ \A c \in Callers : /\ pc[c] = "created" => cur[c] # None
                          /\ cur[c] # None => cur[c] \in Tasks
                          /\ result[c] # None => result[c] \in Tasks

(* Nobody took over: at most one call has begun, and the key is then not    *)
(* free.  For a caller's intent nobody ever can; another host starts one    *)
(* task whatever it is sent.                                                *)
OnceBegun ==
    /\ kind = "caller" \/ ~overtaken => /\ \A c, d \in Begun : c = d
                                        /\ Free => Begun = {}
    /\ kind = "remote" => \A c, d \in Tasks : c = d

(* Nobody took over: one call creates, and the file is its reservation,     *)
(* unless another call has meanwhile recovered the remote task.             *)
CreatorHolds ==
    ~overtaken => \A c \in Creators :
        /\ \A d \in Creators : c = d
        /\ Readable
        /\ \/ file.by = c /\ file.state = (IF pc[c] = "creating" THEN "creating" ELSE "thread_created")
           \/ kind = "remote" /\ file.state = "completed"

ReservationInv ==
    /\ TypeOK
    /\ SnapsHold
    /\ TasksExist
    /\ OnceBegun
    /\ CreatorHolds

-----------------------------------------------------------------------------
(* A call until its first wait keeps the invariant. *)
LEMMA CallStep ==
    ASSUME ReservationInv, NEW c \in Callers,
           CallReserves(c) \/ CallReturns(c) \/ CallRefused(c) \/ CallRecovers(c) \/ CallJudges(c)
    PROVE  ReservationInv'
<1> USE ReservationsAssumption DEF ReservationInv, Sent, Tasks
<1>1. CASE CallReserves(c)
  <2> USE <1>1 DEF CallReserves, StartCreating
  <2>1. TypeOK'
    BY DEF TypeOK, Reservation, Running, Ended, Readable, TasksExist, Truthful, SnapsHold
  <2>2. SnapsHold'
    BY DEF TypeOK, Reservation, SnapsHold, Truthful, TasksExist, MayConfirm, Before, Readable
  <2>3. TasksExist'
    BY DEF TypeOK, Reservation, SnapsHold, Truthful, TasksExist, Before, Readable
  <2>4. OnceBegun'
    BY DEF TypeOK, Reservation, SnapsHold, Before, OnceBegun, Begun, Free, Readable, MayConfirm
  <2>5. CreatorHolds'
    BY DEF TypeOK, Reservation, SnapsHold, Before, OnceBegun, Begun, CreatorHolds, Creators, Free, Readable, MayConfirm
  <2> QED BY <2>1, <2>2, <2>3, <2>4, <2>5
<1>2. CASE CallReturns(c)
  <2> USE <1>2 DEF CallReturns, Return
  <2>1. TypeOK'
    BY DEF TypeOK, Reservation, Running, Ended, Readable, TasksExist, Truthful, SnapsHold
  <2>2. SnapsHold'
    BY DEF TypeOK, Reservation, SnapsHold, Truthful, TasksExist, MayConfirm, Before, Readable
  <2>3. TasksExist'
    BY DEF TypeOK, Reservation, SnapsHold, Truthful, TasksExist, Before, Readable
  <2>4. OnceBegun'
    BY DEF TypeOK, Reservation, SnapsHold, Before, OnceBegun, Begun, Free, Readable, MayConfirm
  <2>5. CreatorHolds'
    BY DEF TypeOK, Reservation, SnapsHold, Before, OnceBegun, Begun, CreatorHolds, Creators, Free, Readable, MayConfirm
  <2> QED BY <2>1, <2>2, <2>3, <2>4, <2>5
<1>3. CASE CallRefused(c)
  <2> USE <1>3 DEF CallRefused, End
  <2>1. TypeOK'
    BY DEF TypeOK, Reservation, Running, Ended, Readable, TasksExist, Truthful, SnapsHold
  <2>2. SnapsHold'
    BY DEF TypeOK, Reservation, SnapsHold, Truthful, TasksExist, MayConfirm, Before, Readable
  <2>3. TasksExist'
    BY DEF TypeOK, Reservation, SnapsHold, Truthful, TasksExist, Before, Readable
  <2>4. OnceBegun'
    BY DEF TypeOK, Reservation, SnapsHold, Before, OnceBegun, Begun, Free, Readable, MayConfirm
  <2>5. CreatorHolds'
    BY DEF TypeOK, Reservation, SnapsHold, Before, OnceBegun, Begun, CreatorHolds, Creators, Free, Readable, MayConfirm
  <2> QED BY <2>1, <2>2, <2>3, <2>4, <2>5
<1>4. CASE CallRecovers(c)
  <2> USE <1>4 DEF CallRecovers
  <2>1. TypeOK'
    BY DEF TypeOK, Reservation, Running, Ended, Readable, TasksExist, Truthful, SnapsHold
  <2>2. SnapsHold'
    BY DEF TypeOK, Reservation, SnapsHold, Truthful, TasksExist, MayConfirm, Before, Readable
  <2>3. TasksExist'
    BY DEF TypeOK, Reservation, SnapsHold, Truthful, TasksExist, Before, Readable
  <2>4. OnceBegun'
    BY DEF TypeOK, Reservation, SnapsHold, Before, OnceBegun, Begun, Free, Readable, MayConfirm
  <2>5. CreatorHolds'
    BY DEF TypeOK, Reservation, SnapsHold, Before, OnceBegun, Begun, CreatorHolds, Creators, Free, Readable, MayConfirm
  <2> QED BY <2>1, <2>2, <2>3, <2>4, <2>5
<1>5. CASE CallJudges(c)
  <2> USE <1>5 DEF CallJudges, Refuses, LooksInto, GivesUp, End, Stale
  <2>1. TypeOK'
    BY DEF TypeOK, Reservation, Running, Ended, Readable, TasksExist, Truthful, SnapsHold
  <2>2. SnapsHold'
    BY DEF TypeOK, Reservation, SnapsHold, Truthful, TasksExist, MayConfirm, Before, Readable
  <2>3. TasksExist'
    BY DEF TypeOK, Reservation, SnapsHold, Truthful, TasksExist, Before, Readable
  <2>4. OnceBegun'
    BY DEF TypeOK, Reservation, SnapsHold, Before, OnceBegun, Begun, Free, Readable, MayConfirm
  <2>5. CreatorHolds'
    BY DEF TypeOK, Reservation, SnapsHold, Before, OnceBegun, Begun, CreatorHolds, Creators, Free, Readable, MayConfirm
  <2> QED BY <2>1, <2>2, <2>3, <2>4, <2>5
<1> QED BY <1>1, <1>2, <1>3, <1>4, <1>5

(* What the waits of a call bring keeps the invariant. *)
LEMMA AnswerStep ==
    ASSUME ReservationInv, NEW c \in Callers,
           (\E t \in Callers : Recovered(c, t)) \/ NotRecovered(c) \/ Confirmed(c) \/ NotConfirmed(c)
    PROVE  ReservationInv'
<1> USE ReservationsAssumption DEF ReservationInv, Sent, Tasks
<1>1. ASSUME NEW t \in Callers, Recovered(c, t) PROVE ReservationInv'
  <2> DEFINE r == [snap[c] EXCEPT !.state = "completed", !.thread = t]
  <2>s. snap[c] \in Reservation
    BY <1>1 DEF Recovered, SnapsHold, TypeOK
  <2>r. r \in Reservation /\ r.state = "completed" /\ r.thread = t
    BY <2>s DEF Reservation
  <2>u. /\ pc[c] = "recovering" /\ t \in Tasks /\ file' = r
        /\ pc' = [pc EXCEPT ![c] = "returned"] /\ result' = [result EXCEPT ![c] = t]
        /\ UNCHANGED <<kind, snap, cur, native, crashes, overtaken>>
    BY <1>1 DEF Recovered, Return
  <2> HIDE DEF r
  <2> USE <2>r, <2>u
  <2>1. TypeOK'
    BY DEF TypeOK, Running, Ended
  <2>2. SnapsHold'
    BY DEF TypeOK, SnapsHold, Truthful, MayConfirm, Before
  <2>3. TasksExist'
    BY DEF TypeOK, Truthful, TasksExist, Before, Readable
  <2>4. OnceBegun'
    BY DEF TypeOK, SnapsHold, OnceBegun, Begun, Free, Readable, MayConfirm
  <2>5. CreatorHolds'
    BY DEF TypeOK, SnapsHold, CreatorHolds, Creators, Readable, MayConfirm
  <2> QED BY <2>1, <2>2, <2>3, <2>4, <2>5
<1>2. ASSUME pc[c] = "recovering",
             NEW e \in {"blocked", "failed"}, End(c, e),
             UNCHANGED <<file, snap, overtaken, kind, cur, native, crashes>>
      PROVE  ReservationInv'
  <2>u. pc' = [pc EXCEPT ![c] = e] /\ UNCHANGED result
    BY <1>2 DEF End
  <2> USE <1>2, <2>u
  <2>1. TypeOK'
    BY DEF TypeOK, Running, Ended
  <2>2. SnapsHold'
    BY DEF TypeOK, SnapsHold, Truthful, MayConfirm, Before
  <2>3. TasksExist'
    BY DEF TypeOK, Truthful, TasksExist, Before, Readable
  <2>4. OnceBegun'
    BY DEF TypeOK, SnapsHold, OnceBegun, Begun, Free, Readable, MayConfirm
  <2>5. CreatorHolds'
    BY DEF TypeOK, SnapsHold, CreatorHolds, Creators, Readable, MayConfirm
  <2> QED BY <2>1, <2>2, <2>3, <2>4, <2>5
<1>3. ASSUME pc[c] \in {"recovering", "confirming"}, snap[c].state = "creating", pc[snap[c].by] # "creating",
             file' = [snap[c] EXCEPT !.state = "uncertain"], overtaken' = (overtaken \/ file # snap[c]),
             End(c, "blocked"), UNCHANGED <<kind, snap, cur, native, crashes>>
      PROVE  ReservationInv'
  <2> DEFINE r == [snap[c] EXCEPT !.state = "uncertain"]
  <2>r. /\ r \in Reservation /\ r.state = "uncertain" /\ r.thread = None /\ snap[c] \in Reservation
    BY <1>3 DEF SnapsHold, Truthful, TypeOK, Reservation
  <2>u. /\ file' = r /\ pc' = [pc EXCEPT ![c] = "blocked"] /\ UNCHANGED result
        /\ overtaken' \in BOOLEAN /\ (~overtaken' => ~overtaken /\ file = snap[c])
    BY <1>3 DEF End, TypeOK
  <2> HIDE DEF r
  <2> USE <1>3, <2>r, <2>u
  <2>1. TypeOK'
    BY DEF TypeOK, Running, Ended
  <2>2. SnapsHold'
    BY DEF TypeOK, SnapsHold, Truthful, MayConfirm, Before
  <2>3. TasksExist'
    BY DEF TypeOK, Truthful, TasksExist, Before, Readable
  <2>4. OnceBegun'
    BY DEF TypeOK, SnapsHold, OnceBegun, Begun, Free, Readable, MayConfirm
  <2>5. CreatorHolds'
    BY DEF TypeOK, SnapsHold, CreatorHolds, Creators, Readable, MayConfirm
  <2> QED BY <2>1, <2>2, <2>3, <2>4, <2>5
<1>4. CASE NotRecovered(c)
  <2>1. pc[c] = "recovering" /\ UNCHANGED <<kind, cur, native, crashes>>
    BY <1>4 DEF NotRecovered
  <2>2. CASE Refuses(c)
    BY <2>1, <2>2, <1>2 DEF Refuses
  <2>3. CASE GivesUp(c, snap[c])
    BY <2>1, <2>3, <1>3 DEF GivesUp, Stale
  <2>4. CASE End(c, "failed") /\ UNCHANGED <<file, snap, overtaken>>
    BY <2>1, <2>4, <1>2
  <2> QED BY <1>4, <2>2, <2>3, <2>4 DEF NotRecovered
<1>5. CASE NotConfirmed(c)
  BY <1>3, <1>5 DEF NotConfirmed, Overtakes, SnapsHold
<1>6. CASE Confirmed(c)
  <2> DEFINE r == [state |-> "creating", thread |-> None, by |-> c]
  <2>r. r \in Reservation /\ r.state = "creating" /\ r.thread = None /\ r.by = c
    BY DEF Reservation
  <2>u. /\ pc[c] = "confirming" /\ file' = r /\ overtaken' \in BOOLEAN
        /\ pc' = [pc EXCEPT ![c] = "creating"] /\ native' = [native EXCEPT ![c] = "net"]
        /\ ~overtaken' => ~overtaken /\ file = snap[c] /\ Begun = {}
        /\ UNCHANGED <<kind, snap, cur, result, crashes>>
    BY <1>6 DEF Confirmed, StartCreating, OvertakesTask, Overtakes, Begun, TypeOK
  <2> HIDE DEF r
  <2> USE <2>r, <2>u
  <2>1. TypeOK'
    BY DEF TypeOK, Running, Ended
  <2>2. SnapsHold'
    BY DEF TypeOK, SnapsHold, Truthful, MayConfirm, Before
  <2>3. TasksExist'
    BY DEF TypeOK, SnapsHold, Truthful, TasksExist, Before, Readable
  <2>4. OnceBegun'
    BY DEF TypeOK, SnapsHold, OnceBegun, Begun, Free, Readable, MayConfirm
  <2>5. CreatorHolds'
    BY DEF TypeOK, SnapsHold, CreatorHolds, Creators, Readable, MayConfirm
  <2> QED BY <2>1, <2>2, <2>3, <2>4, <2>5
<1> QED BY <1>1, <1>4, <1>5, <1>6

(* The requests to the owner of the tasks and their answers keep the invariant. *)
LEMMA CreationStep ==
    ASSUME ReservationInv, NEW c \in Callers,
           StartLands(c) \/ StartLost(c) \/ NameLands(c) \/ (\E t \in Callers : ThreadCreated(c, t)) \/ Completes(c) \/ Fails(c) \/ NotStarted(c)
    PROVE  ReservationInv'
<1> USE ReservationsAssumption DEF ReservationInv, Sent, Tasks
<1>1. CASE StartLands(c)
  <2> USE <1>1 DEF StartLands
  <2>1. TypeOK'
    BY DEF TypeOK, Reservation, Running, Ended, Readable, TasksExist, Truthful, SnapsHold
  <2>2. SnapsHold'
    BY DEF TypeOK, Reservation, SnapsHold, Truthful, TasksExist, MayConfirm, Before, Readable
  <2>3. TasksExist'
    BY DEF TypeOK, Reservation, SnapsHold, Truthful, TasksExist, Before, Readable
  <2>4. OnceBegun'
    BY DEF TypeOK, Reservation, SnapsHold, Before, OnceBegun, Begun, Free, Readable, MayConfirm
  <2>5. CreatorHolds'
    BY DEF TypeOK, Reservation, SnapsHold, Before, OnceBegun, Begun, CreatorHolds, Creators, Free, Readable, MayConfirm
  <2> QED BY <2>1, <2>2, <2>3, <2>4, <2>5
<1>2. CASE StartLost(c)
  <2> USE <1>2 DEF StartLost
  <2>1. TypeOK'
    BY DEF TypeOK, Reservation, Running, Ended, Readable, TasksExist, Truthful, SnapsHold
  <2>2. SnapsHold'
    BY DEF TypeOK, Reservation, SnapsHold, Truthful, TasksExist, MayConfirm, Before, Readable
  <2>3. TasksExist'
    BY DEF TypeOK, Reservation, SnapsHold, Truthful, TasksExist, Before, Readable
  <2>4. OnceBegun'
    BY DEF TypeOK, Reservation, SnapsHold, Before, OnceBegun, Begun, Free, Readable, MayConfirm
  <2>5. CreatorHolds'
    BY DEF TypeOK, Reservation, SnapsHold, Before, OnceBegun, Begun, CreatorHolds, Creators, Free, Readable, MayConfirm
  <2> QED BY <2>1, <2>2, <2>3, <2>4, <2>5
<1>3. CASE NameLands(c)
  <2> USE <1>3 DEF NameLands
  <2>1. TypeOK'
    BY DEF TypeOK, Reservation, Running, Ended, Readable, TasksExist, Truthful, SnapsHold
  <2>2. SnapsHold'
    BY DEF TypeOK, Reservation, SnapsHold, Truthful, TasksExist, MayConfirm, Before, Readable
  <2>3. TasksExist'
    BY DEF TypeOK, Reservation, SnapsHold, Truthful, TasksExist, Before, Readable
  <2>4. OnceBegun'
    BY DEF TypeOK, Reservation, SnapsHold, Before, OnceBegun, Begun, Free, Readable, MayConfirm
  <2>5. CreatorHolds'
    BY DEF TypeOK, Reservation, SnapsHold, Before, OnceBegun, Begun, CreatorHolds, Creators, Free, Readable, MayConfirm
  <2> QED BY <2>1, <2>2, <2>3, <2>4, <2>5
<1>4. CASE \E t \in Callers : ThreadCreated(c, t)
  <2> USE <1>4 DEF ThreadCreated
  <2>1. TypeOK'
    BY DEF TypeOK, Reservation, Running, Ended, Readable, TasksExist, Truthful, SnapsHold
  <2>2. SnapsHold'
    BY DEF TypeOK, Reservation, SnapsHold, Truthful, TasksExist, MayConfirm, Before, Readable
  <2>3. TasksExist'
    BY DEF TypeOK, Reservation, SnapsHold, Truthful, TasksExist, Before, Readable
  <2>4. OnceBegun'
    BY DEF TypeOK, Reservation, SnapsHold, Before, OnceBegun, Begun, Free, Readable, MayConfirm
  <2>5. CreatorHolds'
    BY DEF TypeOK, Reservation, SnapsHold, Before, OnceBegun, Begun, CreatorHolds, Creators, Free, Readable, MayConfirm
  <2> QED BY <2>1, <2>2, <2>3, <2>4, <2>5
<1>5. CASE Completes(c)
  <2> USE <1>5 DEF Completes, Return
  <2>1. TypeOK'
    BY DEF TypeOK, Reservation, Running, Ended, Readable, TasksExist, Truthful, SnapsHold
  <2>2. SnapsHold'
    BY DEF TypeOK, Reservation, SnapsHold, Truthful, TasksExist, MayConfirm, Before, Readable
  <2>3. TasksExist'
    BY DEF TypeOK, Reservation, SnapsHold, Truthful, TasksExist, Before, Readable
  <2>4. OnceBegun'
    BY DEF TypeOK, Reservation, SnapsHold, Before, OnceBegun, Begun, Free, Readable, MayConfirm
  <2>5. CreatorHolds'
    BY DEF TypeOK, Reservation, SnapsHold, Before, OnceBegun, Begun, CreatorHolds, Creators, Free, Readable, MayConfirm
  <2> QED BY <2>1, <2>2, <2>3, <2>4, <2>5
<1>6. CASE Fails(c)
  <2> USE <1>6 DEF Fails, End
  <2>1. TypeOK'
    BY DEF TypeOK, Reservation, Running, Ended, Readable, TasksExist, Truthful, SnapsHold
  <2>2. SnapsHold'
    BY DEF TypeOK, Reservation, SnapsHold, Truthful, TasksExist, MayConfirm, Before, Readable
  <2>3. TasksExist'
    BY DEF TypeOK, Reservation, SnapsHold, Truthful, TasksExist, Before, Readable
  <2>4. OnceBegun'
    BY DEF TypeOK, Reservation, SnapsHold, Before, OnceBegun, Begun, Free, Readable, MayConfirm
  <2>5. CreatorHolds'
    BY DEF TypeOK, Reservation, SnapsHold, Before, OnceBegun, Begun, CreatorHolds, Creators, Free, Readable, MayConfirm
  <2> QED BY <2>1, <2>2, <2>3, <2>4, <2>5
<1>7. CASE NotStarted(c)
  <2> USE <1>7 DEF NotStarted, End
  <2>1. TypeOK'
    BY DEF TypeOK, Reservation, Running, Ended, Readable, TasksExist, Truthful, SnapsHold
  <2>2. SnapsHold'
    BY DEF TypeOK, Reservation, SnapsHold, Truthful, TasksExist, MayConfirm, Before, Readable
  <2>3. TasksExist'
    BY DEF TypeOK, Reservation, SnapsHold, Truthful, TasksExist, Before, Readable
  <2>4. OnceBegun'
    BY DEF TypeOK, Reservation, SnapsHold, Before, OnceBegun, Begun, Free, Readable, MayConfirm
  <2>5. CreatorHolds'
    BY DEF TypeOK, Reservation, SnapsHold, Before, OnceBegun, Begun, CreatorHolds, Creators, Free, Readable, MayConfirm
  <2> QED BY <2>1, <2>2, <2>3, <2>4, <2>5
<1> QED BY <1>1, <1>2, <1>3, <1>4, <1>5, <1>6, <1>7

(* A crash ends every call; what it leaves of a reservation in the making   *)
(* is free only where no task was begun.                                    *)
LEMMA CrashStep ==
    ASSUME ReservationInv, Crash \/ \E c \in Callers : CrashReserving(c)
    PROVE  ReservationInv'
<1> USE ReservationsAssumption DEF ReservationInv, Sent, Tasks
<1>1. CASE Crash
  <2> USE <1>1 DEF Crash, AllDie, Running
  <2>1. TypeOK'
    BY DEF TypeOK, Ended
  <2>2. SnapsHold'
    BY DEF TypeOK, SnapsHold, Truthful, Before, MayConfirm, Reservation
  <2>3. TasksExist'
    BY DEF TypeOK, TasksExist, Truthful, Before, Readable, Reservation
  <2>4. OnceBegun'
    BY DEF OnceBegun, Begun, Free, Readable
  <2>5. CreatorHolds'
    BY DEF TypeOK, CreatorHolds, Creators
  <2> QED BY <2>1, <2>2, <2>3, <2>4, <2>5
<1>2. ASSUME NEW c \in Callers, CrashReserving(c) PROVE ReservationInv'
  <2>u. /\ crashes' = crashes + 1 /\ crashes < MaxCrashes
        /\ pc' = [d \in Callers |-> IF d = c \/ pc[d] \in Running THEN "dead" ELSE pc[d]]
        /\ pc[c] \in {"idle", "confirming"}
        /\ UNCHANGED <<kind, snap, cur, native, result>>
    BY <1>2 DEF CrashReserving
  <2>o. /\ overtaken' \in BOOLEAN
        /\ ~overtaken' => ~overtaken /\ (pc[c] = "idle" => Free) /\ (pc[c] = "confirming" => Begun = {})
        /\ kind = "caller" => pc[c] = "idle" /\ Free
    BY <1>2 DEF CrashReserving, OvertakesTask, TypeOK, Begun, SnapsHold, MayConfirm
  <2>f. /\ file' \in Reservation \cup {Damaged}
        /\ file' \in Reservation => /\ file'.state \in {"reserved", "failed_before_create"}
                                    /\ file'.thread = None
                                    /\ pc[c] = "idle" => file'.state = "reserved"
    <3>1. CASE pc[c] = "confirming" /\ file' = [snap[c] EXCEPT !.state = "failed_before_create"]
      <4>1. snap[c] \in Reservation /\ snap[c].thread = None
        BY <3>1 DEF SnapsHold, Truthful, TypeOK
      <4> QED BY <3>1, <4>1 DEF Reservation
    <3>2. CASE file' = Damaged
      BY <3>2
    <3>3. CASE file' = [state |-> "reserved", thread |-> None, by |-> c]
      BY <3>3 DEF Reservation
    <3> QED BY <1>2, <3>1, <3>2, <3>3 DEF CrashReserving
  <2> USE <2>u, <2>o, <2>f DEF Running
  <2>1. TypeOK'
    BY DEF TypeOK, Ended
  <2>2. SnapsHold'
    BY DEF TypeOK, SnapsHold, Truthful, Before, MayConfirm, Reservation
  <2>3. TasksExist'
    BY DEF TypeOK, TasksExist, Truthful, Readable
  <2>4. OnceBegun'
    BY DEF TypeOK, OnceBegun, Begun, Free, Readable
  <2>5. CreatorHolds'
    BY DEF TypeOK, CreatorHolds, Creators
  <2> QED BY <2>1, <2>2, <2>3, <2>4, <2>5
<1> QED BY <1>1, <1>2

-----------------------------------------------------------------------------
(* Every reachable state satisfies the inductive invariant. *)
THEOREM ReservationInvariant == Spec => []ReservationInv
<1> USE ReservationsAssumption
<1>1. Init => ReservationInv
  <2> SUFFICES ASSUME Init PROVE ReservationInv
    OBVIOUS
  <2> USE DEF Init
  <2>1. TypeOK
    <3>1. /\ pc \in [Callers -> {"idle"} \cup Running \cup Ended]
          /\ snap \in [Callers -> Reservation \cup {NoFile}]
          /\ cur \in [Callers -> Callers \cup {None}] /\ result \in [Callers -> Callers \cup {None}]
          /\ native \in [Callers -> {"none", "net", "refused", "started", "naming", "named"}]
      OBVIOUS
    <3>2. crashes \in 0 .. MaxCrashes
      OBVIOUS
    <3> QED BY <3>1, <3>2 DEF TypeOK
  <2>2. Begun = {} /\ Tasks = {}
    BY DEF Begun, Tasks, Sent
  <2>3. SnapsHold /\ TasksExist
    BY <2>2 DEF SnapsHold, TasksExist, Readable
  <2>4. OnceBegun /\ CreatorHolds
    BY <2>2 DEF OnceBegun, CreatorHolds, Creators
  <2> QED BY <2>1, <2>3, <2>4 DEF ReservationInv
<1>2. ReservationInv /\ [Next]_vars => ReservationInv'
  <2> SUFFICES ASSUME ReservationInv, [Next]_vars PROVE ReservationInv'
    OBVIOUS
  <2>1. CASE Next
    BY <2>1, CallStep, AnswerStep, CreationStep, CrashStep DEF Next
  <2>2. CASE UNCHANGED vars
    BY <2>2 DEF vars, ReservationInv, TypeOK, SnapsHold, TasksExist, OnceBegun, CreatorHolds,
                Truthful, Creators, Begun, Sent, Tasks, Free, Readable, MayConfirm
  <2> QED BY <2>1, <2>2
<1> QED BY <1>1, <1>2, PTL DEF Spec

(* One element at most. *)
LEMMA AtMostOne ==
    ASSUME NEW S, \A c, d \in S : c = d
    PROVE  Cardinality(S) \in {0, 1}
<1>1. CASE S = {}
  BY <1>1, FS_EmptySet
<1>2. CASE S # {}
  <2>1. PICK c : S = {c}
    BY <1>2
  <2>2. Cardinality({c}) = 1
    BY FS_Singleton
  <2> QED BY <2>1, <2>2
<1> QED BY <1>1, <1>2

(* A caller's intent starts one task, and everyone who asks gets that one,  *)
(* for any number of calls and crashes.                                     *)
THEOREM IntentIsOneTask == Spec => []OneTaskPerIntent
<1>1. ReservationInv => OneTaskPerIntent
  <2> SUFFICES ASSUME ReservationInv PROVE OneTaskPerIntent
    OBVIOUS
  <2> USE DEF ReservationInv
  <2>1. IntentStartsOnce
    <3> SUFFICES ASSUME kind \in {"caller", "remote"} PROVE Cardinality(Tasks) <= 1
      BY DEF IntentStartsOnce
    <3>1. \A c, d \in Tasks : c = d
      BY DEF OnceBegun, Begun
    <3>2. Cardinality(Tasks) \in {0, 1}
      BY <3>1, AtMostOne
    <3> QED BY <3>2
  <2>2. CallersAgree
    BY DEF CallersAgree, OnceBegun, Begun, TasksExist, TypeOK
  <2> QED BY <2>1, <2>2 DEF OneTaskPerIntent
<1> QED BY <1>1, ReservationInvariant, PTL

(* A second task of one key has one cause: a stale reservation was taken    *)
(* over that had changed, or whose task existed or was on its way.          *)
THEOREM ExtraTaskWasOvertaken == Spec => []ExtraTaskHasCause
<1>1. ReservationInv => ExtraTaskHasCause
  <2> SUFFICES ASSUME ReservationInv, ~overtaken PROVE ~(Cardinality(Tasks) > 1)
    BY DEF ExtraTaskHasCause
  <2>1. \A c, d \in Tasks : c = d
    BY DEF ReservationInv, OnceBegun, Begun
  <2>2. Cardinality(Tasks) \in {0, 1}
    BY <2>1, AtMostOne
  <2> QED BY <2>2
<1> QED BY <1>1, ReservationInvariant, PTL

(* No step forgets or replaces a recorded task while nobody overtakes: a    *)
(* call that writes the file holds it, or writes the only task there is.    *)
THEOREM RecordedTaskIsKept == Spec => TaskIdKept
<1> DEFINE Kept == Readable /\ file.thread # None /\ ~overtaken'
                      => /\ Readable'
                         /\ \/ file'.thread = file.thread
                            \/ /\ kind = "remote" /\ file.state = "completed"
                               /\ file'.thread = None /\ pc[file'.by] = "creating"
<1>1. ReservationInv /\ [Next]_vars => [Kept]_vars
  <2> SUFFICES ASSUME ReservationInv, Next, Readable, file.thread # None, ~overtaken'
               PROVE  /\ Readable'
                      /\ \/ file'.thread = file.thread
                         \/ /\ kind = "remote" /\ file.state = "completed"
                            /\ file'.thread = None /\ pc[file'.by] = "creating"
    OBVIOUS
  <2>1. CASE file' = file
    BY <2>1 DEF Readable
  <2>2. /\ file.thread \in Tasks /\ ~Free
        /\ file.state \notin {"reserved", "creating", "failed_before_create"}
    BY DEF ReservationInv, TasksExist, Truthful, Free, Readable
  <2>3. ~overtaken
    BY DEF Next, CallReserves, CallReturns, CallRefused, CallRecovers, CallJudges, NotRecovered,
           Refuses, LooksInto, GivesUp, Confirmed, NotConfirmed, StartLands, StartLost, NameLands,
           Completes, Fails, NotStarted, CrashReserving, Recovered, ThreadCreated, Crash,
           ReservationInv, TypeOK
  <2>4. \A c \in Begun : c = file.thread
    BY <2>2, <2>3 DEF ReservationInv, OnceBegun, Begun
  <2>5. ASSUME NEW c \in Callers, pc[c] = "confirming", file = snap[c] PROVE FALSE
    BY <2>2, <2>5 DEF ReservationInv, SnapsHold
  <2>6. ASSUME NEW c \in Callers, CallReserves(c) \/ CallJudges(c) PROVE file' = file
    BY <2>2, <2>6 DEF CallReserves, CallJudges, Refuses, LooksInto, GivesUp, Stale
  <2>7. ASSUME NEW c \in Callers, NotRecovered(c) PROVE file' = file
    BY <2>2, <2>7 DEF NotRecovered, Refuses, GivesUp, Stale
  <2>8. ASSUME NEW c \in Callers, Confirmed(c) \/ NotConfirmed(c) \/ CrashReserving(c) PROVE FALSE
    BY <2>2, <2>5, <2>8 DEF Confirmed, NotConfirmed, CrashReserving, OvertakesTask, Overtakes
  <2>9. ASSUME NEW c \in Callers, NotStarted(c) PROVE FALSE
    BY <2>2, <2>4, <2>9 DEF NotStarted, Begun, Sent, Tasks
  <2>10. ASSUME NEW c \in Callers, NEW t \in Callers, Recovered(c, t) \/ ThreadCreated(c, t)
         PROVE  file' \in Reservation /\ file'.thread = file.thread
    <3>1. t = file.thread
      BY <2>4, <2>10 DEF Recovered, ThreadCreated, Begun, Tasks
    <3>2. pc[c] = "recovering" => snap[c] \in Reservation
      BY DEF ReservationInv, SnapsHold, TypeOK
    <3>3. CASE Recovered(c, t)
      <4>1. snap[c] \in Reservation /\ file' = [snap[c] EXCEPT !.state = "completed", !.thread = t]
        BY <3>2, <3>3 DEF Recovered
      <4> QED BY <3>1, <4>1 DEF Reservation
    <3>4. CASE ThreadCreated(c, t)
      <4>1. file' = [state |-> "thread_created", thread |-> t, by |-> c]
        BY <3>4 DEF ThreadCreated
      <4> QED BY <3>1, <4>1 DEF Reservation
    <3> QED BY <2>10, <3>3, <3>4
  <2>11. ASSUME NEW c \in Callers, Completes(c) PROVE file' \in Reservation /\ file'.thread = file.thread
    <3>1. cur[c] \in Tasks /\ cur[c] \in Callers
      BY <2>11 DEF Completes, ReservationInv, TasksExist, Tasks
    <3> QED BY <2>4, <2>11, <3>1 DEF Completes, Begun, Reservation
  <2>12. ASSUME NEW c \in Callers, Fails(c)
         PROVE  /\ file' \in Reservation
                /\ \/ file'.thread = file.thread
                   \/ /\ kind = "remote" /\ file.state = "completed"
                      /\ file'.thread = None /\ pc[file'.by] = "creating"
    <3>1. /\ file' = [state |-> "uncertain", thread |-> cur[c], by |-> c]
          /\ pc[c] \in {"creating", "created"} /\ cur[c] \in Callers \cup {None}
      BY <2>12 DEF Fails, ReservationInv, TypeOK
    <3>2. file' \in Reservation /\ file'.thread = cur[c] /\ file'.by = c
      BY <3>1 DEF Reservation
    <3>3. CASE cur[c] # None
      BY <2>4, <3>2, <3>3 DEF ReservationInv, TasksExist, Begun
    <3>4. CASE cur[c] = None
      <4>1. pc[c] = "creating"
        BY <3>1, <3>4 DEF ReservationInv, TasksExist
      <4> QED BY <2>2, <2>3, <3>2, <3>4, <4>1 DEF ReservationInv, CreatorHolds, Creators
    <3> QED BY <3>3, <3>4
  <2>13. file' \in Reservation => Readable'
    BY ReservationsAssumption DEF Readable
  <2>14. ASSUME NEW c \in Callers,
                \/ CallReturns(c) \/ CallRefused(c) \/ CallRecovers(c)
                \/ StartLands(c) \/ StartLost(c) \/ NameLands(c)
         PROVE  file' = file
    BY <2>14 DEF CallReturns, CallRefused, CallRecovers, StartLands, StartLost, NameLands
  <2>15. CASE Crash
    BY <2>1, <2>15 DEF Crash
  <2> QED BY <2>1, <2>6, <2>7, <2>8, <2>9, <2>10, <2>11, <2>12, <2>13, <2>14, <2>15 DEF Next
<1> QED BY <1>1, ReservationInvariant, PTL DEF Spec, TaskIdKept
=============================================================================
