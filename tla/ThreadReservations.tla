------------------------- MODULE ThreadReservations -------------------------
(***************************************************************************)
(* The reservation that makes the creation of an Agent task idempotent:    *)
(* createCodexThreadWithReservation of                                     *)
(* src/codexThreadCreationReservations.ts, around the file of ONE key.     *)
(*                                                                         *)
(* A caller is one call.  The calls run in one Manager, so what the code   *)
(* does between two awaits is one step; a crash of the Manager ends every  *)
(* call, and the calls after it belong to the next Manager.  The program   *)
(* that owns the tasks is outside: it gets thread/start and then           *)
(* thread/name/set, and answers questions about tasks truthfully.          *)
(***************************************************************************)
EXTENDS Naturals, FiniteSets

CONSTANTS
    Callers,        \* calls for one key; a task is named by the call that started it
    None,
    NoFile,         \* no reservation file
    Damaged,        \* a file that parseReservation cannot read
    Kinds,          \* the kinds of key to consider
    MaxCrashes      \* bound: crashes of the Manager

\* What a key stands for: a title in a workspace, a replacement of a lost task,
\* the intent of a caller, or such an intent executed by another host that
\* keeps a reservation of its own and can be asked about it (recoverCreated).
AllKinds == {"title", "replacement", "caller", "remote"}

\* CodexThreadCreationReservation.  thread_created stands for naming and
\* initial_turn too: calls treat them alike, but for the recovery of a remote
\* creation, which has no initial turn.
Reservation == [state : {"reserved", "creating", "thread_created", "completed",
                         "uncertain", "failed_before_create"},
                thread : Callers \cup {None}, by : Callers]

ASSUME ReservationsAssumption ==
    /\ None \notin Callers
    /\ NoFile \notin Reservation /\ Damaged \notin Reservation
    /\ Kinds \subseteq AllKinds
    /\ MaxCrashes \in Nat

VARIABLES
    file,       \* the reservation on disk
    kind,       \* the kind of the key, fixed
    pc,         \* where a call is
    snap,       \* the reservation a call read before it had to wait
    cur,        \* the task a creating call has recorded
    native,     \* what the owner of the tasks got of a call's requests
    result,     \* the task a call returned
    crashes,
    overtaken   \* history: see Overtakes

vars == <<file, kind, pc, snap, cur, native, result, crashes, overtaken>>

Running == {"recovering", "confirming", "creating", "created"}
Ended == {"returned", "blocked", "failed", "dead"}

\* The calls whose task exists, and those whose task has the title.
Sent == {c \in Callers : native[c] = "net"}
Tasks == {c \in Callers : native[c] \in {"started", "naming", "named"}}
Titled == {c \in Callers : native[c] = "named"}

TypeOK ==
    /\ file \in Reservation \cup {NoFile, Damaged}
    /\ kind \in Kinds
    /\ pc \in [Callers -> {"idle"} \cup Running \cup Ended]
    /\ snap \in [Callers -> Reservation \cup {NoFile}]
    /\ cur \in [Callers -> Callers \cup {None}]
    /\ native \in [Callers -> {"none", "net", "refused", "started", "naming", "named"}]
    /\ result \in [Callers -> Callers \cup {None}]
    /\ crashes \in 0 .. MaxCrashes
    /\ overtaken \in BOOLEAN
    /\ \A c \in Callers : (pc[c] = "returned") = (result[c] # None)

Init ==
    /\ file = NoFile
    /\ kind \in Kinds
    /\ pc = [c \in Callers |-> "idle"]
    /\ snap = [c \in Callers |-> NoFile]
    /\ cur = [c \in Callers |-> None]
    /\ native = [c \in Callers |-> "none"]
    /\ result = [c \in Callers |-> None]
    /\ crashes = 0
    /\ overtaken = FALSE

-----------------------------------------------------------------------------
Readable == file \notin {NoFile, Damaged}

(* Mutant: an uncertain creation may be tried again. *)
FreeAlsoUncertain == file = NoFile \/ (Readable /\ file.state \in {"failed_before_create", "uncertain"})

\* reserveCreation finds nothing, or a creation that provably never began.
Free == file = NoFile \/ (Readable /\ file.state = "failed_before_create")

\* The Manager writes what it read, or what follows from it, although the file
\* has changed meanwhile; or it takes a key over whose task is already there or
\* on its way.
Overtakes(c) == file # snap[c]
OvertakesTask(c) == Overtakes(c) \/ Tasks # {} \/ Sent # {}

\* The reservation becomes reserved and at once creating, and create sends
\* thread/start.
StartCreating(c) ==
    /\ file' = [state |-> "creating", thread |-> None, by |-> c]
    /\ pc' = [pc EXCEPT ![c] = "creating"]
    /\ native' = [native EXCEPT ![c] = "net"]

Return(c, t) ==
    /\ pc' = [pc EXCEPT ![c] = "returned"]
    /\ result' = [result EXCEPT ![c] = t]

\* An error for the caller: CodexThreadCreationBlockedError, or another one.
End(c, outcome) ==
    /\ pc' = [pc EXCEPT ![c] = outcome]
    /\ UNCHANGED result

-----------------------------------------------------------------------------
(* A call until its first wait.                                            *)

CallReserves(c) ==
    /\ pc[c] = "idle"
    /\ Free
    /\ StartCreating(c)
    /\ UNCHANGED <<kind, snap, cur, result, crashes, overtaken>>

\* A completed creation is returned again.
CallReturns(c) ==
    /\ pc[c] = "idle"
    /\ Readable
    /\ file.state = "completed"
    /\ Return(c, file.thread)
    /\ UNCHANGED <<file, kind, snap, cur, native, crashes, overtaken>>

\* A damaged file cannot be created and cannot be read.
CallRefused(c) ==
    /\ pc[c] = "idle"
    /\ file = Damaged
    /\ End(c, "failed")
    /\ UNCHANGED <<file, kind, snap, cur, native, crashes, overtaken>>

\* With recoverCreated the original creator is asked first.
CallRecovers(c) ==
    /\ pc[c] = "idle"
    /\ kind = "remote"
    /\ Readable
    /\ file.state \in {"creating", "thread_created", "uncertain"}
    /\ snap' = [snap EXCEPT ![c] = file]
    /\ pc' = [pc EXCEPT ![c] = "recovering"]
    /\ UNCHANGED <<file, kind, cur, native, result, crashes, overtaken>>

\* A creating reservation is stale after five minutes.  Its creator is gone by
\* then: thread/start is given up after three.
Stale(s) == s.state = "creating" /\ pc[s.by] # "creating"

(* Mutant: every kind of key may be found missing and created again. *)
MayConfirmAny == TRUE

\* Only without a caller's intent may the task be looked for by its title.
MayConfirm == kind \in {"title", "replacement"}

\* What a call does about the reservation s of somebody else: it is refused, or
\* it first looks into a stale creation, or declares that uncertain.
Refuses(c) == End(c, "blocked") /\ UNCHANGED <<file, snap, overtaken>>

LooksInto(c, s) ==
    /\ Stale(s)
    /\ MayConfirm
    /\ snap' = [snap EXCEPT ![c] = s]
    /\ pc' = [pc EXCEPT ![c] = "confirming"]
    /\ UNCHANGED <<file, result, overtaken>>

GivesUp(c, s) ==
    /\ Stale(s)
    /\ ~MayConfirm
    /\ file' = [s EXCEPT !.state = "uncertain"]
    /\ overtaken' = (overtaken \/ file # s)
    /\ End(c, "blocked")
    /\ UNCHANGED snap

CallJudges(c) ==
    /\ pc[c] = "idle"
    /\ Readable
    /\ file.state \notin {"completed", "failed_before_create"}
    /\ ~(kind = "remote" /\ file.state \in {"creating", "thread_created", "uncertain"})
    /\ Refuses(c) \/ LooksInto(c, file) \/ GivesUp(c, file)
    /\ UNCHANGED <<kind, cur, native, crashes>>

-----------------------------------------------------------------------------
(* What the waits bring.                                                   *)

\* The original creator has a completed receipt.
Recovered(c, t) ==
    /\ pc[c] = "recovering"
    /\ t \in Tasks
    /\ snap[c].thread \in {None, t}
    /\ file' = [snap[c] EXCEPT !.state = "completed", !.thread = t]
    /\ Return(c, t)
    /\ UNCHANGED <<kind, snap, cur, native, crashes, overtaken>>

\* It has none, or cannot be asked.
NotRecovered(c) ==
    /\ pc[c] = "recovering"
    /\ \/ Refuses(c)
       \/ GivesUp(c, snap[c])
       \/ End(c, "failed") /\ UNCHANGED <<file, snap, overtaken>>
    /\ UNCHANGED <<kind, cur, native, crashes>>

\* confirmMissing: no task has the title.  A replacement is not looked for at
\* all, and a task that was started and not yet named is not found.
Missing == kind = "replacement" \/ Titled = {}

\* The stale creation is declared failed and reserved again in the same step.
Confirmed(c) ==
    /\ pc[c] = "confirming"
    /\ Missing
    /\ StartCreating(c)
    /\ overtaken' = (overtaken \/ OvertakesTask(c))
    /\ UNCHANGED <<kind, snap, cur, result, crashes>>

\* The task is there, or the answer failed.
NotConfirmed(c) ==
    /\ pc[c] = "confirming"
    /\ file' = [snap[c] EXCEPT !.state = "uncertain"]
    /\ overtaken' = (overtaken \/ Overtakes(c))
    /\ End(c, "blocked")
    /\ UNCHANGED <<kind, snap, cur, native, crashes>>

-----------------------------------------------------------------------------
(* Creating.                                                               *)

\* The owner gets thread/start, maybe after its sender died, or never; another
\* host that already has this creation starts no second one.
StartLands(c) ==
    /\ native[c] = "net"
    /\ native' = [native EXCEPT ![c] = IF kind = "remote" /\ Tasks # {} THEN "refused" ELSE "started"]
    /\ UNCHANGED <<file, kind, pc, snap, cur, result, crashes, overtaken>>

StartLost(c) ==
    /\ native[c] = "net"
    /\ native' = [native EXCEPT ![c] = "none"]
    /\ UNCHANGED <<file, kind, pc, snap, cur, result, crashes, overtaken>>

NameLands(c) ==
    /\ native[c] = "naming"
    /\ native' = [native EXCEPT ![c] = "named"]
    /\ UNCHANGED <<file, kind, pc, snap, cur, result, crashes, overtaken>>

\* onStage: the task is known, recorded, and asked to take its title.
ThreadCreated(c, t) ==
    /\ pc[c] = "creating"
    /\ IF kind = "remote" THEN native[c] # "net" /\ t \in Tasks
       ELSE native[c] = "started" /\ t = c
    /\ file' = [state |-> "thread_created", thread |-> t, by |-> c]
    /\ cur' = [cur EXCEPT ![c] = t]
    /\ pc' = [pc EXCEPT ![c] = "created"]
    /\ native' = IF kind = "remote" THEN native ELSE [native EXCEPT ![c] = "naming"]
    /\ UNCHANGED <<kind, snap, result, crashes, overtaken>>

Completes(c) ==
    /\ pc[c] = "created"
    /\ kind # "remote" => native[c] = "named"
    /\ file' = [state |-> "completed", thread |-> cur[c], by |-> c]
    /\ Return(c, cur[c])
    /\ UNCHANGED <<kind, snap, cur, native, crashes, overtaken>>

(* Mutant: a failed creation forgets the task it had recorded. *)
FailsForgetting(c) ==
    /\ pc[c] \in {"creating", "created"}
    /\ file' = [state |-> "uncertain", thread |-> None, by |-> c]
    /\ End(c, "blocked")
    /\ UNCHANGED <<kind, snap, cur, native, crashes, overtaken>>

\* A lost or failed request, whatever became of it: uncertain.
Fails(c) ==
    /\ pc[c] \in {"creating", "created"}
    /\ file' = [state |-> "uncertain", thread |-> cur[c], by |-> c]
    /\ End(c, "blocked")
    /\ UNCHANGED <<kind, snap, cur, native, crashes, overtaken>>

\* CodexMetadataNotStartedError: create reports that nothing was sent.
NotStarted(c) ==
    /\ kind = "remote"
    /\ pc[c] = "creating"
    /\ native[c] = "net"
    /\ native' = [native EXCEPT ![c] = "none"]
    /\ file' = [state |-> "failed_before_create", thread |-> None, by |-> c]
    /\ End(c, "failed")
    /\ UNCHANGED <<kind, snap, cur, crashes, overtaken>>

-----------------------------------------------------------------------------
AllDie == pc' = [c \in Callers |-> IF pc[c] \in Running THEN "dead" ELSE pc[c]]

Crash ==
    /\ crashes < MaxCrashes
    /\ \E c \in Callers : pc[c] \in Running
    /\ crashes' = crashes + 1
    /\ AllDie
    /\ UNCHANGED <<file, kind, snap, cur, native, result, overtaken>>

\* The Manager dies while c reserves: it leaves an empty file, a stale creation
\* just declared failed, or a reservation that never became creating.
CrashReserving(c) ==
    /\ crashes < MaxCrashes
    /\ \/ pc[c] = "idle" /\ Free /\ UNCHANGED overtaken
       \/ pc[c] = "confirming" /\ Missing /\ overtaken' = (overtaken \/ OvertakesTask(c))
    /\ \/ pc[c] = "idle" /\ file = NoFile /\ file' = Damaged
       \/ pc[c] = "confirming" /\ file' = [snap[c] EXCEPT !.state = "failed_before_create"]
       \/ file' = [state |-> "reserved", thread |-> None, by |-> c]
    /\ crashes' = crashes + 1
    /\ pc' = [d \in Callers |-> IF d = c \/ pc[d] \in Running THEN "dead" ELSE pc[d]]
    /\ UNCHANGED <<kind, snap, cur, native, result>>

Next ==
    \/ \E c \in Callers :
          \/ CallReserves(c) \/ CallReturns(c) \/ CallRefused(c) \/ CallRecovers(c) \/ CallJudges(c)
          \/ NotRecovered(c) \/ Confirmed(c) \/ NotConfirmed(c)
          \/ StartLands(c) \/ StartLost(c) \/ NameLands(c) \/ Completes(c) \/ Fails(c) \/ NotStarted(c)
          \/ CrashReserving(c)
          \/ \E t \in Callers : Recovered(c, t) \/ ThreadCreated(c, t)
    \/ Crash

Spec == Init /\ [][Next]_vars

-----------------------------------------------------------------------------
\* A caller's intent starts one task, whatever fails, waits or crashes: no
\* stale reservation of such a key is ever taken over.
IntentStartsOnce ==
    kind \in {"caller", "remote"} => Cardinality(Tasks) <= 1

\* A second task of one key has one cause: a call took over a stale reservation
\* that had changed since it was read, or whose task existed without its title
\* or was still on its way.
ExtraTaskHasCause == Cardinality(Tasks) > 1 => overtaken

\* All calls that return agree on the task, and it exists.
CallersAgree ==
    ~overtaken => \A c, d \in Callers :
        pc[c] = "returned" /\ pc[d] = "returned" => result[c] = result[d] /\ result[c] \in Tasks

\* An intent is one task: started once, and the same for everyone who asks.
OneTaskPerIntent == TypeOK /\ IntentStartsOnce /\ CallersAgree

\* A recorded task is never forgotten or replaced: the reservation keeps its id
\* through failures, recoveries and restarts.  Only the creator of a remote task
\* that fails after another call recovered the task leaves no id, and none
\* leaves a different one.
TaskIdKept ==
    [][Readable /\ file.thread # None /\ ~overtaken'
          => /\ Readable'
             /\ \/ file'.thread = file.thread
                \/ /\ kind = "remote" /\ file.state = "completed"
                   /\ file'.thread = None /\ pc[file'.by] = "creating"]_vars
=============================================================================
