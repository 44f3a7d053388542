---------------------------- MODULE RouteCatalog ----------------------------
(***************************************************************************)
(* The Manager's route catalog: the queue, attempts, deadlines, retries    *)
(* and applications of RouteCatalogStartupLifecycle                        *)
(* (src/manager/routeCatalogStartupLifecycle.ts) around the child of       *)
(* RouteCatalogFiles, the saves of the role configuration owner, which do  *)
(* not go through that queue, and crashes of the Manager.                  *)
(***************************************************************************)
EXTENDS RouteCatalogFiles, Sequences

CONSTANTS
    MaxAttempts,   \* options.maxAttempts
    MaxPending,    \* options.maxPending
    MaxEvents      \* bound on what may happen beside the requests: failures, kills,
                   \* deadlines, crashes, stops and role saves

VARIABLES
    queue,      \* this.queue
    active,     \* this.activeEntry, or None
    tries,      \* attempts of the active entry
    attempt,    \* this.currentAttempt: none, running, cancelling (its cancel() is
                \* awaited by cleanupFlight or stop) or blocked (hardBlocked)
    timer,      \* the entry this.retryTimer will start, or None
    leaked,     \* entries of armed timers that this.retryTimer no longer names
    astray,     \* history: the operationIds such timers were armed for
    applying,   \* applications of snapshots that have not settled
    phase,      \* live, stopping, stopped
    outcome,    \* what the caller of each request knows
    fenced,     \* history: resolutions whose operation nobody has submitted since
    events,     \* such events so far
    saved       \* the configuration each role's owner saved last, or None

lifecycleVars == <<queue, active, tries, attempt, timer, leaked, astray, applying, phase, outcome, fenced>>
envVars == <<events, saved>>
vars == <<filesVars, lifecycleVars, envVars>>

Attempts == {"none", "running", "cancelling", "blocked"}

Verdicts == {"new", "queued", "ok", "absent", "conflict", "failed", "busy", "blocked", "stopped", "lost"}

Application == [entry : Requests, try : Nat, snapshot : Catalog,
                state : {"committed", "not_committed", None}]

(* Types, and: there is a child exactly when there is an attempt, its entry *)
(* is the attempt's, and a child in recovery handles an existing journal.   *)
TypeOK ==
    /\ disk \in [Targets -> Content \cup {Torn}]
    /\ pending \in [OpIds -> Journal \cup {None}]
    /\ receipt \in [OpIds -> {Operation[r] : r \in Requests} \cup {None}]
    /\ job \in Requests \cup {None} /\ pc \in PCs
    /\ todo \subseteq Targets /\ undo \in OpIds \cup {None}
    /\ \A i \in 1..Len(queue) : queue[i] \in Requests /\ outcome[queue[i]] = "queued"
    /\ active \in Requests \cup {None} /\ timer \in Requests \cup {None}
    /\ leaked \subseteq Requests
    /\ attempt \in Attempts /\ applying \subseteq Application
    /\ outcome \in [Requests -> Verdicts]
    /\ attempt = "none" <=> job = None
    /\ attempt = "none" <=> pc = "off"
    /\ pc \in {"restore", "drop"} => undo # None /\ pending[undo] # None
    /\ pc \in {"mutate", "cleanup", "rollback"} => pending[OpId[job]] # None

Init ==
    /\ FilesInit
    /\ queue = <<>> /\ active = None /\ timer = None /\ leaked = {} /\ astray = {}
    /\ tries = 0
    /\ attempt = "none"
    /\ applying = {}
    /\ phase = "live"
    /\ outcome = [r \in Requests |-> "new"]
    /\ fenced = {}
    /\ events = 0
    /\ saved = [x \in Roles |-> None]

Event == events < MaxEvents /\ events' = events + 1

PlainCapture(r) == Kind(r) = "capture" /\ Operation[r].resolve = None

NoChild ==
    /\ job' = None /\ pc' = "off" /\ todo' = {} /\ undo' = None /\ answer' = NoAnswer
    /\ UNCHANGED <<disk, pending, receipt>>

(* A promise settles once: only a queued request takes a verdict. *)
Settle(v) == outcome' = [r \in Requests |-> IF r \in DOMAIN v /\ outcome[r] = "queued"
                                             THEN v[r] ELSE outcome[r]]

-----------------------------------------------------------------------------
(* pump and startAttempt.  Start and Pump stand at the end of the actions   *)
(* whose code calls them, with the queue and the active entry so far.       *)

Start(e) ==
    /\ Fork(e)
    /\ attempt' = "running"
    /\ tries' = IF active' # e THEN tries ELSE IF active = e THEN tries + 1 ELSE 1

Rest(q, a) ==
    /\ queue' = q /\ active' = a
    /\ tries' = (IF a = active THEN tries ELSE 0)
    /\ attempt' = "none" /\ NoChild

(* With no attempt, cleanup or retry timer: the active entry, or the next. *)
Pump(q, a) ==
    IF a = None /\ q = <<>> THEN Rest(q, a)
    ELSE /\ queue' = IF a = None THEN Tail(q) ELSE q
         /\ active' = IF a = None THEN Head(q) ELSE a
         /\ Start(IF a = None THEN Head(q) ELSE a)

PumpUnlessTimer(q, a) == IF timer # None THEN Rest(q, a) ELSE Pump(q, a)

(* enqueue, with the pump that follows. *)
SubmittedAs(r, q) ==
    /\ outcome' = [outcome EXCEPT ![r] = "queued"]
    /\ fenced' = IF r \in Mutations THEN {s \in fenced : Operation[s].resolve # OpId[r]}
                 ELSE fenced \cup {r}
    /\ IF attempt = "none" /\ timer = None THEN Pump(q, active)
       ELSE /\ queue' = q /\ active' = active
            /\ UNCHANGED <<tries, attempt, job, pc, todo, undo, answer, disk, pending, receipt>>
    /\ UNCHANGED <<timer, leaked, astray, applying, phase, events, saved>>

(* Mutant: A submission that overtakes the queue. *)
SubmittedAhead(r) == SubmittedAs(r, <<r>> \o queue)

Submitted(r) == SubmittedAs(r, Append(queue, r))

Refused(r, v) ==
    /\ outcome' = [outcome EXCEPT ![r] = v]
    /\ UNCHANGED <<disk, pending, receipt, job, pc, todo, undo, answer>>
    /\ UNCHANGED <<queue, active, tries, attempt, timer, leaked, astray, applying, phase, fenced>>
    /\ UNCHANGED envVars

PendingCount == Len(queue) + (IF active # None THEN 1 ELSE 0)

Enqueue(r) ==
    /\ outcome[r] = "new" /\ phase = "live" /\ attempt # "blocked"
    /\ PendingCount < MaxPending
    /\ Submitted(r)

EnqueueBusy(r) ==
    /\ outcome[r] = "new" /\ phase = "live" /\ attempt # "blocked"
    /\ PendingCount >= MaxPending
    /\ Refused(r, "busy")

EnqueueStopped(r) ==
    /\ outcome[r] = "new" /\ phase # "live"
    /\ Refused(r, "stopped")

(* hardBlocked: the caller waits for a cancel() of the blocked attempt.     *)
(* The one of a mutation returns the promise that was rejected before.      *)
EnqueueBlocked(r) ==
    /\ outcome[r] = "new" /\ phase = "live" /\ attempt = "blocked"
    /\ ~(PlainCapture(job) /\ Closed)
    /\ Refused(r, "blocked")

-----------------------------------------------------------------------------
(* Results of the attempt *)

MayRetry(e) == PlainCapture(e) \/ tries < MaxAttempts

(* The handle in this.retryTimer is overwritten; a timer it named stays armed. *)
Leak(others) ==
    /\ leaked' = others \cup ({timer} \ {None})
    /\ astray' = astray \cup {OpId[e] : e \in leaked' \cap Mutations}

ArmTimer(e) == timer' = e /\ Leak(leaked)

KeepTimers == UNCHANGED <<timer, leaked, astray>>

(* failEntry, with the pump that follows it. *)
FailEntry(e, kind) ==
    IF active # e
      THEN outcome' = outcome /\ KeepTimers /\ PumpUnlessTimer(queue, active)
    ELSE IF kind = "conflict"
      THEN Settle([r \in {e} |-> "conflict"]) /\ KeepTimers /\ PumpUnlessTimer(queue, None)
    ELSE IF MayRetry(e)
      THEN outcome' = outcome /\ ArmTimer(e) /\ Rest(queue, active)
    ELSE Settle([r \in {e} |-> "failed"]) /\ KeepTimers /\ PumpUnlessTimer(queue, None)

(* The child exited with a snapshot: its application begins. *)
ResultOk ==
    /\ attempt = "running" /\ phase = "live"
    /\ pc = "exit" /\ answer.kind = "ok"
    /\ applying' = applying \cup {[entry |-> job, try |-> tries,
                                   snapshot |-> answer.snapshot, state |-> answer.state]}
    /\ attempt' = "none" /\ NoChild
    /\ UNCHANGED <<queue, active, tries, timer, leaked, astray, phase, outcome, fenced>>
    /\ UNCHANGED envVars

(* The child exited with an error or without an answer.  cancel() finds it  *)
(* closed at once.                                                          *)
ResultFailed ==
    /\ attempt = "running" /\ phase = "live"
    /\ \/ pc = "exit" /\ answer.kind # "ok"
       \/ pc = "dead"
    /\ FailEntry(job, answer.kind)
    /\ UNCHANGED <<applying, phase, fenced, events, saved>>

(* The attempt's deadline: cancel() starts to terminate the child. *)
Deadline ==
    /\ attempt = "running" /\ phase = "live" /\ ~Closed
    /\ Event
    /\ attempt' = "cancelling"
    /\ UNCHANGED <<disk, pending, receipt, job, pc, todo, undo, answer>>
    /\ UNCHANGED <<queue, active, tries, timer, leaked, astray, applying, phase, outcome, fenced, saved>>

(* A confirmed exit: the entry fails, whatever the child answered late. *)
CancelConfirmed ==
    /\ attempt = "cancelling" /\ phase = "live" /\ Closed
    /\ FailEntry(job, "timeout")
    /\ UNCHANGED <<applying, phase, fenced, events, saved>>

(* The child survives SIGKILL: blockAfterUnconfirmedTermination. *)
CancelUnconfirmed ==
    /\ attempt = "cancelling" /\ phase = "live" /\ ~Closed
    /\ attempt' = "blocked"
    /\ Settle([r \in {job} \cup {queue[i] : i \in 1..Len(queue)} |-> "failed"])
    /\ queue' = <<>> /\ active' = None /\ tries' = 0
    /\ UNCHANGED <<disk, pending, receipt, job, pc, todo, undo, answer>>
    /\ UNCHANGED <<timer, leaked, astray, applying, phase, fenced, events, saved>>

(* observeLateAttemptExit, or the cancel() of a later enqueue: only the     *)
(* attempts of plain captures look again whether the child has closed.      *)
LateExit ==
    /\ attempt = "blocked" /\ Closed /\ PlainCapture(job)
    /\ attempt' = "none" /\ NoChild
    /\ UNCHANGED <<queue, active, tries, timer, leaked, astray, applying, phase, outcome, fenced>>
    /\ UNCHANGED envVars

StartUnlessBusy(e) ==
    IF attempt = "none" THEN Start(e)
    ELSE UNCHANGED <<tries, attempt, job, pc, todo, undo, answer, disk, pending, receipt>>

(* retryTimer: startAttempt refuses while an attempt is there. *)
RetryTimer ==
    /\ timer # None /\ phase = "live"
    /\ timer' = None /\ UNCHANGED <<leaked, astray>>
    /\ active' = active /\ StartUnlessBusy(timer)
    /\ UNCHANGED <<queue, applying, phase, outcome, fenced>>
    /\ UNCHANGED envVars

(* A timer whose handle was overwritten fires all the same, and clears the  *)
(* handle of the one that replaced it.                                      *)
LeakedTimer(e) ==
    /\ e \in leaked /\ phase = "live"
    /\ timer' = None
    /\ Leak(leaked \ {e})
    /\ active' = active /\ StartUnlessBusy(e)
    /\ UNCHANGED <<queue, applying, phase, outcome, fenced>>
    /\ UNCHANGED envVars

-----------------------------------------------------------------------------
(* Applications: options.apply has settled *)

(* What a caller learns: "absent" is ok with resolvedMutation not_committed. *)
Verdict(a) == IF a.state = "not_committed" THEN "absent" ELSE "ok"

(* completeEntry.  An entry that is no longer active ends without a pump. *)
Applied(a) ==
    /\ a \in applying /\ phase = "live"
    /\ applying' = applying \ {a}
    /\ IF active # a.entry
         THEN UNCHANGED <<outcome, queue, active, tries, attempt, job, pc, todo, undo,
                          answer, disk, pending, receipt>>
         ELSE /\ Settle([r \in {a.entry} |-> Verdict(a)])
              /\ IF attempt = "none" /\ timer = None THEN Pump(queue, None)
                 ELSE /\ active' = None /\ tries' = 0
                      /\ UNCHANGED <<queue, attempt, job, pc, todo, undo, answer,
                                     disk, pending, receipt>>
    /\ UNCHANGED <<timer, leaked, astray, phase, fenced, events, saved>>

(* apply threw: failEntry, which arms the timer even while the same entry   *)
(* is being attempted again.                                                *)
ApplyFails(a) ==
    /\ a \in applying /\ phase = "live"
    /\ Event
    /\ applying' = applying \ {a}
    /\ IF active = a.entry /\ attempt = "none" /\ timer = None
         THEN FailEntry(a.entry, "apply")
       ELSE /\ IF active = a.entry /\ MayRetry(a.entry)
                 THEN ArmTimer(a.entry) /\ UNCHANGED <<outcome, active, tries>>
               ELSE IF active = a.entry
                 THEN /\ Settle([r \in {a.entry} |-> "failed"]) /\ active' = None /\ tries' = 0
                      /\ KeepTimers
               ELSE KeepTimers /\ UNCHANGED <<outcome, active, tries>>
            /\ UNCHANGED <<queue, attempt, job, pc, todo, undo, answer,
                           disk, pending, receipt>>
    /\ UNCHANGED <<phase, fenced, saved>>

-----------------------------------------------------------------------------
(* stop, crash, restart *)

(* stopOnce up to its first await. *)
Stop ==
    /\ phase = "live" /\ Event
    /\ phase' = "stopping"
    /\ timer' = None /\ queue' = <<>> /\ active' = None /\ tries' = 0
    /\ Settle([r \in {active} \cup {queue[i] : i \in 1..Len(queue)} |-> "stopped"])
    /\ attempt' = IF attempt = "running" THEN "cancelling" ELSE attempt
    /\ UNCHANGED <<disk, pending, receipt, job, pc, todo, undo, answer>>
    /\ UNCHANGED <<leaked, astray, applying, fenced, saved>>

(* The rest: the child has closed, and the last application has settled. *)
StopDone ==
    /\ phase = "stopping"
    /\ attempt = "none" \/ (attempt = "cancelling" /\ Closed)
    /\ applying' = {}
    /\ phase' = "stopped"
    /\ attempt' = "none" /\ NoChild
    /\ UNCHANGED <<queue, active, tries, timer, leaked, astray, outcome, fenced>> /\ UNCHANGED envVars

(* The Manager process dies and takes the child with it; its successor      *)
(* starts with an empty queue.  Callers do not learn what became of their   *)
(* requests.                                                                *)
Restart ==
    /\ Event
    /\ queue' = <<>> /\ active' = None /\ timer' = None /\ leaked' = {}
    /\ attempt' = "none" /\ NoChild
    /\ applying' = {} /\ phase' = "live"
    /\ outcome' = [r \in Requests |-> IF outcome[r] = "queued" THEN "lost" ELSE outcome[r]]
    /\ tries' = 0
    /\ UNCHANGED <<astray, fenced, saved>>

-----------------------------------------------------------------------------
(* The child and the role owner *)

Child ==
    /\ ChildStep
    /\ UNCHANGED lifecycleVars
    /\ UNCHANGED envVars

ChildFails ==
    /\ Event
    /\ Throws
    /\ UNCHANGED lifecycleVars
    /\ UNCHANGED saved

(* A signal of cancel() takes effect, or the child dies by itself. *)
ChildDies ==
    /\ IF attempt \in {"cancelling", "blocked"} THEN events' = events
       ELSE Event
    /\ Killed
    /\ UNCHANGED lifecycleVars
    /\ UNCHANGED saved

(* The role configuration owner's atomic write of personaConfig.json, for a *)
(* role no submitted mutation has locked.                                   *)
RoleSave(x, v) ==
    /\ Event
    /\ \A r \in Requests : outcome[r] \in {"queued", "lost"} => x \notin Operation[r].locks
    /\ disk' = [disk EXCEPT ![x] = v]
    /\ saved' = [saved EXCEPT ![x] = v]
    /\ UNCHANGED <<pending, receipt, job, pc, todo, undo, answer>>
    /\ UNCHANGED lifecycleVars

Next ==
    \/ \E r \in Requests : Enqueue(r) \/ EnqueueBusy(r) \/ EnqueueStopped(r) \/ EnqueueBlocked(r)
    \/ ResultOk \/ ResultFailed \/ Deadline \/ CancelConfirmed \/ CancelUnconfirmed \/ LateExit
    \/ RetryTimer \/ \E e \in leaked : LeakedTimer(e)
    \/ \E a \in applying : Applied(a) \/ ApplyFails(a)
    \/ Stop \/ StopDone \/ Restart
    \/ Child \/ ChildFails \/ ChildDies
    \/ \E x \in Roles, v \in RoleContents : RoleSave(x, v)

Spec == Init /\ [][Next]_vars

-----------------------------------------------------------------------------
(* Properties *)

(* The catalog as its callers may rely on it: what a recovery would leave. *)
Uncommitted == {o \in OpIds : pending[o] # None /\ receipt[o] # pending[o].digest}

CatalogBar ==
    IF Uncommitted = {} THEN Routes
    ELSE LET j == pending[CHOOSE o \in Uncommitted : TRUE]
         IN  [f \in Files |-> IF f \in j.scope THEN j.backup[f] ELSE disk[f]]

Atomic == INSTANCE AtomicCatalog WITH
    Requests <- Mutations, Digest <- Operation, InitCatalogs <- {[f \in Files |-> d[f]] : d \in InitialDisks}, NoDigest <- None,
    catalog <- CatalogBar, committed <- receipt

(* Route operations are atomic and idempotent across every failure: however *)
(* the child is killed, fails or times out between two file-system calls    *)
(* and however often the lifecycle starts it again, the catalog changes by  *)
(* whole operations, each operationId once, on the catalog it expected.     *)
CatalogIsAtomic == Atomic!Spec

(* Callers are told the truth: a mutation reported saved has its receipt,   *)
(* although the child that wrote it may have been killed before it could    *)
(* answer and another one have answered for it ...                          *)
SavedIsCommitted ==
    \A r \in Mutations : outcome[r] = "ok" => receipt[OpId[r]] = Operation[r]

(* ... and one rejected with a revision conflict has changed nothing, even  *)
(* after attempts that were killed.                                         *)
ConflictChangedNothing ==
    [][ \A r \in Mutations : outcome[r] # "conflict" /\ outcome'[r] = "conflict"
          => receipt[OpId[r]] = None ]_vars

(* Every snapshot a child reports is a committed catalog: never torn, never *)
(* in the middle of somebody's mutation.                                    *)
SnapshotIsCommitted ==
    pc = "exit" /\ answer.kind = "ok" => answer.snapshot = CatalogBar

(* controlPlaneRoutes.ts:2033, "A queue barrier finishes/recover-fences     *)
(* earlier writes before absence is reported": an operationId reported      *)
(* not_committed is not committed later by a request made before.           *)
AbsenceReportedIsFinal ==
    \A r \in fenced : outcome[r] = "absent" => receipt[Operation[r].resolve] = None

(* What holds of it: unless a retry timer of the operation went astray.     *)
AbsenceIsFinal ==
    \A r \in fenced : outcome[r] = "absent" /\ Operation[r].resolve \notin astray
        => receipt[Operation[r].resolve] = None

(* Whatever a caller or a capture is told is true of the disk, however many *)
(* attempts were killed, retried or overtaken on the way to the answer.     *)
AnswersAreTrue == TypeOK /\ SavedIsCommitted /\ SnapshotIsCommitted /\ AbsenceIsFinal

(* Two promises of the documents that the code does not keep: TLC refutes   *)
(* both on the instance of catalog_absence.                                 *)

(* docs/role-centric-architecture_en.md:220, "Route saves no longer write   *)
(* role configuration": a configuration the role's owner has saved stays.   *)
(* A rollback writes the roles of its journal back.                         *)
RoleSaveKept == \A x \in Roles : saved[x] # None => disk[x] = saved[x]

(* docs/rabi-maintenance_en.md:9, "Replacement writes remain blocked until  *)
(* closure is confirmed, after which the current request may proceed": a    *)
(* request is refused as blocked only while the child has not closed.  The  *)
(* attempt of a mutation keeps the rejected promise of its first cancel().  *)
BlockedOnlyWhileOpen ==
    [][ \A r \in Requests : outcome[r] # "blocked" /\ outcome'[r] = "blocked" => ~Closed ]_vars
=============================================================================
