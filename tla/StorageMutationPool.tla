------------------------- MODULE StorageMutationPool -------------------------
(***************************************************************************)
(* ManagerStorageMutationPool (src/manager/managerStorageMutationPool.ts)  *)
(* with its child processes (managerStorageMutationChild.ts) and the       *)
(* commit admission between them (managerStorageMutationAdmission.ts).     *)
(*                                                                         *)
(* The pool runs one mutation at a time in one child and replaces a child  *)
(* only after its close event.  A step of the pool is one callback with    *)
(* the promise continuations it triggers; drain() calls that are queued as *)
(* microtasks are steps of their own, enabled by due.  Each direction of   *)
(* the IPC channel holds at most one message, as the protocol alternates.  *)
(* The domain write of a mutation is the one step Commit; the receipt that *)
(* makes it idempotent is DurableDelivery's.                               *)
(***************************************************************************)
EXTENDS Naturals, Sequences, FiniteSets

CONSTANTS
    Mutations,   \* calls of execute()
    Authorized,  \* those with an authorize callback
    Children,    \* the child processes there may be
    MaxQueue,    \* maxQueue
    None         \* undefined

ASSUME StorageMutationPoolAssumption ==
    /\ Authorized \subseteq Mutations
    /\ MaxQueue \in Nat
    /\ None \notin Mutations \cup Children

VARIABLES
    (* the pool *)
    queue,       \* PendingMutations in order
    active,      \* activeMutation
    cause,       \* the error it is being terminated with: active.terminating
    admission,   \* active.admission
    child,       \* childSlot, which is not closed
    flight,      \* its terminationFlight
    blocked,     \* blockedSlot is set, to childSlot
    accepting, stopped,
    stopping,    \* a stopOnce() awaits the end of the child
    due,         \* a drain() is queued as a microtask
    outcome,     \* what execute()'s promise is settled with
    native,      \* mutations whose native storage work is not released
    admitted,    \* history: mutations that were allowed
    revoked,     \* mutations whose authority is gone
    (* the children *)
    alive,       \* processes that exist
    job,         \* the mutation each one executes
    step,        \* how far it is
    inbox, outbox,  \* the IPC channel to and from each one
    committed    \* mutations whose domain write was made

poolVars == <<queue, active, cause, admission, child, flight, blocked, accepting, stopped,
              stopping, due, outcome, native, admitted>>
childVars == <<alive, job, step, committed>>
vars == <<poolVars, revoked, childVars, inbox, outbox>>

Causes == {"timeout", "aborted", "worker_failed", "fence_mismatch", "stopped"}

Settled == Causes \cup {"ok", "failed", "busy", "authorization_revoked", "termination_unconfirmed"}

Down == [kind : {"run", "allow", "deny"}, of : Mutations]
Up == [kind : {"ask", "ok", "error", "revoked"}, of : Mutations]

(* Types, and: a mutation is active, and a termination under way, only in   *)
(* a child that has not closed, and the pool is blocked exactly when that   *)
(* termination has failed.                                                  *)
TypeOK ==
    /\ queue \in Seq(Mutations)
    /\ active \in Mutations \cup {None}
    /\ cause \in Causes \cup {"none"}
    /\ admission \in {"none", "allowed", "denied"}
    /\ child \in Children \cup {None}
    /\ flight \in {"none", "term", "kill", "unconfirmed"}
    /\ blocked \in BOOLEAN /\ accepting \in BOOLEAN /\ stopped \in BOOLEAN
    /\ stopping \in BOOLEAN /\ due \in BOOLEAN
    /\ outcome \in [Mutations -> Settled \cup {"new", "pending"}]
    /\ native \subseteq Mutations /\ admitted \subseteq Mutations
    /\ revoked \subseteq Mutations /\ committed \subseteq Mutations
    /\ alive \subseteq Children
    /\ job \in [Children -> Mutations \cup {None}]
    /\ step \in [Children -> {"unborn", "idle", "asking", "admitted", "done"}]
    /\ inbox \in [Children -> Down \cup {None}]
    /\ outbox \in [Children -> Up \cup {None}]
    /\ active # None \/ flight # "none" => child # None
    /\ cause # "none" => active # None /\ flight \in {"term", "kill"}
    /\ blocked <=> flight = "unconfirmed"

Init ==
    /\ queue = <<>> /\ active = None /\ cause = "none" /\ admission = "none"
    /\ child = None /\ flight = "none" /\ blocked = FALSE
    /\ accepting = TRUE /\ stopped = FALSE /\ stopping = FALSE /\ due = FALSE
    /\ outcome = [m \in Mutations |-> "new"]
    /\ native = {} /\ admitted = {} /\ revoked = {} /\ alive = {} /\ committed = {}
    /\ job = [c \in Children |-> None]
    /\ step = [c \in Children |-> "unborn"]
    /\ inbox = [c \in Children |-> None]
    /\ outbox = [c \in Children |-> None]

-----------------------------------------------------------------------------
(* drain(), for the queue q, the outcomes out and the native work nat that  *)
(* its caller has left.                                                     *)

CanStart(q) == accepting /\ active = None /\ ~blocked /\ q # <<>>

DrainSkips(q, out, nat) ==
    /\ ~CanStart(q)
    /\ due' = FALSE /\ queue' = q /\ outcome' = out /\ native' = nat
    /\ UNCHANGED <<active, cause, admission, child, flight, alive, step, inbox>>

(* The head is rejected before dispatch: its authority was revoked while it *)
(* waited, or no child could be started.  The next drain() is queued.       *)
DrainRejects(q, out, nat) ==
    /\ CanStart(q)
    /\ \E code \in {"authorization_revoked", "worker_failed"} :
          /\ (code = "authorization_revoked") <=> (Head(q) \in Authorized \cap revoked)
          /\ code = "worker_failed" => child = None
          /\ outcome' = [out EXCEPT ![Head(q)] = code]
    /\ due' = TRUE /\ queue' = Tail(q) /\ native' = nat \ {Head(q)}
    /\ UNCHANGED <<active, cause, admission, child, flight, alive, step, inbox>>

DrainStartsReplacing(q, out, nat) ==
    /\ CanStart(q)
    /\ Head(q) \notin Authorized \cap revoked
    /\ due' = FALSE /\ queue' = Tail(q) /\ outcome' = out /\ native' = nat
    /\ active' = Head(q)
    /\ \E c \in Children :
          /\ \/ child = c /\ flight = "none" /\ UNCHANGED <<alive, step, flight>>
             \/ /\ flight # "none" \/ child = None
                /\ step[c] = "unborn"
                /\ alive' = alive \cup {c}
                /\ step' = [step EXCEPT ![c] = "idle"]
                /\ flight' = "none"
          /\ child' = c
          /\ inbox' = [inbox EXCEPT ![c] = [kind |-> "run", of |-> Head(q)]]
    /\ UNCHANGED <<cause, admission>>

(* The head becomes active, in the child at hand (even one that is being    *)
(* terminated) or in a new one.                                             *)
DrainStarts(q, out, nat) ==
    /\ CanStart(q)
    /\ Head(q) \notin Authorized \cap revoked
    /\ due' = FALSE /\ queue' = Tail(q) /\ outcome' = out /\ native' = nat
    /\ active' = Head(q)
    /\ \E c \in Children :
          /\ \/ child = c /\ UNCHANGED <<alive, step, flight>>
             \/ /\ child = None /\ step[c] = "unborn"
                /\ alive' = alive \cup {c}
                /\ step' = [step EXCEPT ![c] = "idle"]
                /\ flight' = "none"
          /\ child' = c
          /\ inbox' = [inbox EXCEPT ![c] = [kind |-> "run", of |-> Head(q)]]
    /\ UNCHANGED <<cause, admission>>

Drain(q, out, nat) ==
    /\ DrainSkips(q, out, nat) \/ DrainRejects(q, out, nat) \/ DrainStarts(q, out, nat)
    /\ UNCHANGED <<blocked, accepting, stopped, stopping, admitted, revoked, job, committed,
                   outbox>>

-----------------------------------------------------------------------------
(* execute() *)

Refusal(m) ==
    IF ~accepting THEN "stopped"
    ELSE IF blocked THEN "termination_unconfirmed"
    ELSE IF m \in Authorized \cap revoked THEN "authorization_revoked"
    ELSE "busy"

Full == (active # None \/ queue # <<>>) /\ Len(queue) >= MaxQueue

ExecuteRefused(m) ==
    /\ outcome[m] = "new"
    /\ ~accepting \/ blocked \/ m \in Authorized \cap revoked \/ Full
    /\ outcome' = [outcome EXCEPT ![m] = Refusal(m)]
    /\ UNCHANGED <<queue, active, cause, admission, child, flight, blocked, accepting, stopped,
                   stopping, due, native, admitted, revoked, childVars, inbox, outbox>>

ExecuteQueued(m) ==
    /\ outcome[m] = "new"
    /\ accepting /\ ~blocked /\ m \notin Authorized \cap revoked /\ ~Full
    /\ Drain(Append(queue, m), [outcome EXCEPT ![m] = "pending"], native \cup {m})

QueuedDrain == due /\ Drain(queue, outcome, native)

(* The caller's signal aborts a queued mutation. *)
AbortQueued(m) ==
    \E i \in 1..Len(queue) :
        /\ queue[i] = m
        /\ queue' = SubSeq(queue, 1, i - 1) \o SubSeq(queue, i + 1, Len(queue))
        /\ outcome' = [outcome EXCEPT ![m] = "aborted"]
        /\ native' = native \ {m}
        /\ UNCHANGED <<active, cause, admission, child, flight, blocked, accepting, stopped,
                       stopping, due, admitted, revoked, childVars, inbox, outbox>>

Revoke(m) ==
    /\ m \in Authorized \ revoked
    /\ revoked' = revoked \cup {m}
    /\ UNCHANGED <<poolVars, childVars, inbox, outbox>>

-----------------------------------------------------------------------------
(* Terminating the child *)

Queued == {queue[i] : i \in 1..Len(queue)}

NoActive == active' = None /\ cause' = "none" /\ admission' = "none"

(* The end of the child was not confirmed: what follows in terminateActive, *)
(* terminateIdleChild and stopOnce, whichever awaited it.  S is the active  *)
(* mutation if that was terminating.  Its native work is released when the  *)
(* child closes.                                                            *)
GiveUp(S) ==
    /\ outcome' = [m \in Mutations |-> IF m \in S \cup Queued THEN "termination_unconfirmed"
                                                            ELSE outcome[m]]
    /\ queue' = <<>> /\ native' = native \ Queued
    /\ blocked' = TRUE /\ flight' = "unconfirmed" /\ stopping' = FALSE
    /\ IF S = {} THEN UNCHANGED <<active, cause, admission>> ELSE NoActive
    /\ UNCHANGED <<child, accepting, stopped, due, admitted>>

(* terminateActive: a terminationFlight that failed before fails at once. *)
TerminateActive(code) ==
    IF flight = "unconfirmed"
      THEN GiveUp({active})
      ELSE /\ cause' = code
           /\ flight' = IF flight = "none" THEN "term" ELSE flight
           /\ UNCHANGED <<queue, active, admission, child, blocked, accepting, stopped,
                          stopping, due, outcome, native, admitted>>

Running(m) == active = m /\ active # None /\ cause = "none"

Timeout ==
    /\ Running(active)
    /\ TerminateActive("timeout")
    /\ UNCHANGED <<revoked, childVars, inbox, outbox>>

AbortActiveAlways ==
    /\ Running(active)
    /\ TerminateActive("aborted")
    /\ UNCHANGED <<revoked, childVars, inbox, outbox>>

(* The abort listener is removed when the commit is admitted. *)
AbortActive ==
    /\ Running(active) /\ admission # "allowed"
    /\ TerminateActive("aborted")
    /\ UNCHANGED <<revoked, childVars, inbox, outbox>>

(* The request or the admission decision could not be sent, or the child    *)
(* reports an error: handleChildError's first half.                         *)
WorkerFails ==
    /\ Running(active)
    /\ TerminateActive("worker_failed")
    /\ \/ inbox' = inbox
       \/ inbox' = [inbox EXCEPT ![child] = None]
    /\ UNCHANGED <<revoked, childVars, outbox>>

(* handleChildError of an idle child: terminateIdleChild. *)
IdleChildError ==
    /\ child # None /\ flight = "none" /\ active = None
    /\ flight' = "term"
    /\ UNCHANGED <<queue, active, cause, admission, child, blocked, accepting, stopped,
                   stopping, due, outcome, native, admitted, revoked, childVars, inbox, outbox>>

(* terminateAndConfirm: the child did not close on SIGTERM, ... *)
ForceKill ==
    /\ flight = "term"
    /\ flight' = "kill"
    /\ UNCHANGED <<queue, active, cause, admission, child, blocked, accepting, stopped,
                   stopping, due, outcome, native, admitted, revoked, childVars, inbox, outbox>>

(* ... nor on SIGKILL. *)
FlightFails ==
    /\ flight = "kill"
    /\ GiveUp(IF cause # "none" THEN {active} ELSE {})
    /\ UNCHANGED <<revoked, childVars, inbox, outbox>>

CloseUnconfirmed(c) ==
    /\ c = child
    /\ child' = None /\ flight' = "none" /\ blocked' = FALSE
    /\ outcome' = IF active = None THEN outcome
                  ELSE [outcome EXCEPT ![active] = IF cause # "none" THEN cause ELSE "worker_failed"]
    /\ NoActive
    /\ native' = Queued
    /\ due' = (due \/ accepting)
    /\ stopped' = (stopped \/ stopping) /\ stopping' = FALSE
    /\ UNCHANGED <<queue, accepting, admitted, revoked, childVars, inbox, outbox>>

(* handleChildClose, after the last message of the child was handled: the   *)
(* slots are free; an active mutation ends with the cause of its            *)
(* termination, or worker_failed; all native work but that of the queue is  *)
(* released; an awaiting stopOnce is through.                               *)
Close(c) ==
    /\ c = child /\ c \notin alive /\ outbox[c] = None
    /\ child' = None /\ flight' = "none" /\ blocked' = FALSE
    /\ outcome' = IF active = None THEN outcome
                  ELSE [outcome EXCEPT ![active] = IF cause # "none" THEN cause ELSE "worker_failed"]
    /\ NoActive
    /\ native' = Queued
    /\ due' = (due \/ accepting)
    /\ stopped' = (stopped \/ stopping) /\ stopping' = FALSE
    /\ UNCHANGED <<queue, accepting, admitted, revoked, childVars, inbox, outbox>>

(* stop(): no new work, the queue is rejected, the child is terminated.     *)
(* It fails at once where the child's termination has failed before, and is *)
(* through at once where there is no child.                                 *)
Stop ==
    /\ ~stopped /\ ~stopping
    /\ accepting' = FALSE
    /\ queue' = <<>> /\ native' = native \ Queued
    /\ LET rejected == [m \in Mutations |-> IF m \in Queued THEN "stopped" ELSE outcome[m]]
           unconfirmed == flight = "unconfirmed"
       IN  /\ outcome' = IF unconfirmed /\ active # None
                           THEN [rejected EXCEPT ![active] = "termination_unconfirmed"]
                           ELSE rejected
           /\ IF unconfirmed THEN NoActive
              ELSE /\ cause' = IF Running(active) THEN "stopped" ELSE cause
                   /\ UNCHANGED <<active, admission>>
           /\ stopping' = (child # None /\ ~unconfirmed)
           /\ stopped' = (child = None)
    /\ flight' = IF child # None /\ flight = "none" THEN "term" ELSE flight
    /\ UNCHANGED <<child, blocked, due, admitted, revoked, childVars, inbox, outbox>>

-----------------------------------------------------------------------------
(* handleMessage *)

SettleActiveWithoutDrain(code) ==
    /\ outcome' = [outcome EXCEPT ![active] = code]
    /\ native' = native \ {active}
    /\ NoActive
    /\ UNCHANGED <<queue, child, flight, blocked, accepting, stopped, stopping, due, admitted>>

SettleActive(code) ==
    /\ outcome' = [outcome EXCEPT ![active] = code]
    /\ native' = native \ {active}
    /\ NoActive
    /\ due' = (due \/ (accepting /\ ~blocked))
    /\ UNCHANGED <<queue, child, flight, blocked, accepting, stopped, stopping, admitted>>

(* The commit admission: the authority is asked once more, for good. *)
Admit(c) ==
    /\ IF active \in revoked
         THEN admission' = "denied" /\ admitted' = admitted
         ELSE admission' = "allowed" /\ admitted' = admitted \cup {active}
    /\ inbox' = [inbox EXCEPT ![c] = [kind |-> IF active \in revoked THEN "deny" ELSE "allow",
                                      of |-> active]]
    /\ UNCHANGED <<queue, active, cause, child, flight, blocked, accepting, stopped,
                   stopping, due, outcome, native>>

(* A result is believed after an allowed admission, where one is due; a     *)
(* refusal after a denied one; anything else is a protocol violation.       *)
HandleMessage(c) ==
    /\ c = child /\ outbox[c] # None
    /\ outbox' = [outbox EXCEPT ![c] = None]
    /\ LET msg == outbox[c]
           trusted == active \in Authorized => admission = "allowed"
       IN  IF ~Running(active) THEN UNCHANGED <<poolVars, inbox>>
           ELSE IF msg.of = active /\ msg.kind = "ask" /\ active \in Authorized /\ admission = "none"
             THEN Admit(c)
           ELSE /\ inbox' = inbox
                /\ IF msg.of = active /\ msg.kind \in {"ok", "error"} /\ trusted
                     THEN SettleActive(IF msg.kind = "ok" THEN "ok" ELSE "failed")
                   ELSE IF msg.of = active /\ msg.kind = "revoked" /\ admission = "denied"
                     THEN SettleActive("authorization_revoked")
                   ELSE TerminateActive("fence_mismatch")
    /\ UNCHANGED <<revoked, childVars>>

-----------------------------------------------------------------------------
(* The child *)

(* A request arrives: acquireStorageMutationCommitAdmission. *)
Receive(c) ==
    /\ c \in alive /\ step[c] = "idle" /\ inbox[c] # None
    /\ inbox' = [inbox EXCEPT ![c] = None]
    /\ job' = [job EXCEPT ![c] = inbox[c].of]
    /\ IF inbox[c].of \in Authorized
         THEN /\ step' = [step EXCEPT ![c] = "asking"]
              /\ outbox' = [outbox EXCEPT ![c] = [kind |-> "ask", of |-> inbox[c].of]]
         ELSE /\ step' = [step EXCEPT ![c] = "admitted"]
              /\ outbox' = outbox
    /\ UNCHANGED <<poolVars, revoked, alive, committed>>

Finish(c, kind) ==
    /\ outbox' = [outbox EXCEPT ![c] = [kind |-> kind, of |-> job[c]]]
    /\ job' = [job EXCEPT ![c] = None]
    /\ step' = [step EXCEPT ![c] = "idle"]

(* The decision arrives. *)
Decided(c) ==
    /\ c \in alive /\ step[c] = "asking" /\ inbox[c] # None
    /\ inbox' = [inbox EXCEPT ![c] = None]
    /\ \/ /\ inbox[c] = [kind |-> "allow", of |-> job[c]]
          /\ step' = [step EXCEPT ![c] = "admitted"]
          /\ UNCHANGED <<job, outbox>>
       \/ /\ inbox[c] # [kind |-> "allow", of |-> job[c]]
          /\ Finish(c, "revoked")
    /\ UNCHANGED <<poolVars, revoked, alive, committed>>

(* validateManagerStorageMutationRequest throws before the admission. *)
Invalid(c) ==
    /\ c \in alive /\ step[c] = "idle" /\ inbox[c] # None
    /\ inbox' = [inbox EXCEPT ![c] = None]
    /\ outbox' = [outbox EXCEPT ![c] = [kind |-> "error", of |-> inbox[c].of]]
    /\ UNCHANGED <<poolVars, revoked, childVars>>

Commit(c) ==
    /\ c \in alive /\ step[c] = "admitted"
    /\ committed' = committed \cup {job[c]}
    /\ step' = [step EXCEPT ![c] = "done"]
    /\ UNCHANGED <<poolVars, revoked, alive, job, inbox, outbox>>

(* The response: success after the write, or an error: a conflict or a      *)
(* rejection before it, an uncertain receipt also after it.                 *)
Respond(c) ==
    /\ c \in alive /\ step[c] \in {"admitted", "done"}
    /\ \E kind \in {"ok", "error"} : (kind = "ok" => step[c] = "done") /\ Finish(c, kind)
    /\ UNCHANGED <<poolVars, revoked, alive, committed, inbox>>

(* The process ends: killed, crashed, or because its channel was closed. *)
Die(c) ==
    /\ c \in alive
    /\ alive' = alive \ {c}
    /\ UNCHANGED <<poolVars, revoked, job, step, committed, inbox, outbox>>

-----------------------------------------------------------------------------
ChildStep(c) == Receive(c) \/ Decided(c) \/ Invalid(c) \/ Commit(c) \/ Respond(c)

Next ==
    \/ \E m \in Mutations : ExecuteRefused(m) \/ ExecuteQueued(m) \/ AbortQueued(m) \/ Revoke(m)
    \/ QueuedDrain \/ Timeout \/ AbortActive \/ WorkerFails \/ IdleChildError
    \/ ForceKill \/ FlightFails \/ Stop
    \/ \E c \in Children : Close(c) \/ HandleMessage(c) \/ ChildStep(c) \/ Die(c)

Spec == Init /\ [][Next]_vars

(* Microtasks and timers run; a child that was sent SIGKILL or whose        *)
(* channel was closed ends, its last message is read and its close event    *)
(* fires.  Nothing is assumed of a child's work.                            *)
FairSpec ==
    /\ Spec
    /\ WF_vars(QueuedDrain) /\ WF_vars(Timeout) /\ WF_vars(ForceKill \/ FlightFails)
    /\ \A c \in Children : /\ WF_vars(Close(c)) /\ WF_vars(HandleMessage(c))
                           /\ WF_vars(c = child /\ flight = "unconfirmed" /\ Die(c))

-----------------------------------------------------------------------------
(* Properties *)

(* At most one child that could write to the role storage exists at any     *)
(* time, whatever was terminated, crashed or replaced (createChildSlot,     *)
(* blockTermination).                                                       *)
OneWriter == Cardinality(alive) <= 1

(* Only an unconfirmed termination leaves it open whether a rejected        *)
(* mutation will still be written: after any other answer nothing changes,  *)
(* and after that one nothing once its native work is released ("Release at *)
(* actual worker job completion or confirmed process close, never just      *)
(* rejection", nativeStorageWork.ts).                                       *)
AnswerIsFinal ==
    [][\A m \in Mutations :
          \/ outcome[m] \in Settled \ {"termination_unconfirmed"}
          \/ outcome[m] # "new" /\ m \notin native
          => (m \in committed' <=> m \in committed)]_vars

(* A mutation with an original authority is written only if the authority   *)
(* was asked, and still there, at the commit admission.                     *)
CommitWasAdmitted == committed \cap Authorized \subseteq admitted

(* A caller that is told its mutation was aborted or revoked can rely on    *)
(* it: this dispatch wrote nothing.                                         *)
RefusedWritesNothing ==
    \A m \in Authorized : outcome[m] \in {"aborted", "authorization_revoked"} => m \notin committed

(* "stop cannot masquerade as stopped": a stopped pool has no child, no     *)
(* work and nobody waiting.                                                 *)
StoppedIsQuiet ==
    stopped => alive = {} /\ native = {} /\ \A m \in Mutations : outcome[m] # "pending"

(* The role storage has one writer, and none once the pool says it stopped, *)
(* whatever was terminated, crashed, hung or was replaced.                  *)
SingleWriter == TypeOK /\ OneWriter /\ StoppedIsQuiet

(* The commit admission decides: what it did not let through is not         *)
(* written, in whatever order abort, revocation and the child's question    *)
(* arrive, and the caller's answer says so.                                 *)
AdmissionDecides == CommitWasAdmitted /\ RefusedWritesNothing

(* Every execute() is answered: no child behaviour, crash or failed         *)
(* termination leaves a caller waiting; and a pool that is blocked by an    *)
(* unconfirmed termination works again once the child is gone.              *)
Answered ==
    /\ \A m \in Mutations : outcome[m] = "pending" ~> outcome[m] # "pending"
    /\ blocked ~> ~blocked
=============================================================================
