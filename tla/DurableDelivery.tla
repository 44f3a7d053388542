--------------------------- MODULE DurableDelivery ---------------------------
(***************************************************************************)
(* Durable idempotent delivery, src/manager/durableDeliveryIdempotency.ts: *)
(* executeDurableDelivery and reconcileDurableDelivery around the receipt  *)
(* of ONE deliveryId.                                                      *)
(*                                                                         *)
(* An execution is one call of executeDurableDelivery, a reconciler one    *)
(* call of reconcileDurableDelivery; each is made by a process.  An action *)
(* is what the code does between two awaits, or inside one section of      *)
(* withReceiptMutationLock (FileLock says when those sections exclude each *)
(* other).  The file's creation and its first write are two steps.         *)
(*                                                                         *)
(* The side effect itself is outside: deliver() puts a request on the wire *)
(* that lands or is lost, recover() and verify() are oracles that answer   *)
(* truthfully about the request they are asked about, or not at all.       *)
(***************************************************************************)
EXTENDS Naturals, FiniteSets

CONSTANTS
    Executions,   \* calls of executeDurableDelivery with this deliveryId
    Reconcilers,  \* calls of reconcileDurableDelivery with this deliveryId
    Procs,        \* Manager and worker processes
    ProcOf,       \* the process that makes a call
    HostOf,       \* the host a process runs on
    Digests,      \* digests of the payloads callers use
    NoReceipt,    \* no file at the receipt path
    Blank,        \* a file that parseReceipt cannot read
    NoOwner       \* executionId, ownerHost and ownerPid undefined

(* What a caller passes: its payload's digest, whether it has a recover     *)
(* callback, and recoverExistingUncertain, which is void without one.       *)
Option == {o \in [digest : Digests, recover : BOOLEAN, optIn : BOOLEAN] :
             o.optIn => o.recover}

Receipt == [state : {"sending", "completed", "uncertain"},
            digest : Digests, owner : Executions \cup {NoOwner}]

ASSUME DurableDeliveryAssumption ==
    /\ ProcOf \in [Executions \cup Reconcilers -> Procs]
    /\ DOMAIN HostOf = Procs
    /\ NoReceipt # Blank
    /\ {NoReceipt, Blank} \cap Receipt = {}
    /\ NoOwner \notin Executions

VARIABLES
    receipt,    \* the receipt file: NoReceipt, Blank or a Receipt
    expired,    \* the lease recorded in the receipt has run out
    pc,         \* where each execution is; terminal values are its outcome
    opt,        \* the options of each execution
    mode,       \* "first": direct send, "recovering", "once": deliverOnce
    wire,       \* the last request of each execution on its way to the target
    effects,    \* how often the side effect happened, per payload
    rpc,        \* where each reconciler is; terminal values are its outcome
    rdigest,    \* the payload digest a reconciler was called with
    current,    \* reconcilers whose snapshot revision is still the file's
    alive,      \* processes that have not crashed
    preempted   \* history: executions claimed away while they were running

vars == <<receipt, expired, pc, opt, mode, wire, effects, rpc, rdigest, current,
          alive, preempted>>

execVars == <<pc, opt, mode>>
recVars == <<rpc, rdigest>>
receiptVars == <<receipt, expired, current>>

Outcomes == {"completed", "rejected", "in_progress", "uncertain", "conflict", "threw"}

Busy == {"reserve", "fill", "read", "wait", "claim", "claimUncertain", "heartbeat",
         "deliver", "sending", "recover", "settle", "settleRejected", "mark", "release"}

(* Types, and: one execution at a time is between creating the receipt file *)
(* and filling it, and what it fills is the empty file it created.          *)
TypeOK ==
    /\ receipt \in Receipt \cup {NoReceipt, Blank}
    /\ expired \in BOOLEAN
    /\ pc \in [Executions -> Busy \cup Outcomes \cup {"idle"}]
    /\ opt \in [Executions -> Option]
    /\ mode \in [Executions -> {"first", "recovering", "once"}]
    /\ wire \in [Executions -> {"none", "net", "landed", "lost"}]
    /\ effects \in [Digests -> Nat]
    /\ rpc \in [Reconcilers -> {"idle", "verify", "commit"} \cup Outcomes]
    /\ rdigest \in [Reconcilers -> Digests]
    /\ current \subseteq Reconcilers
    /\ alive \subseteq Procs
    /\ preempted \subseteq Executions
    /\ \A e, f \in Executions : pc[e] = "fill" /\ pc[f] = "fill" => e = f
    /\ \A e \in Executions : pc[e] = "fill" => receipt = Blank

Init ==
    /\ receipt = NoReceipt /\ expired = FALSE
    /\ pc = [e \in Executions |-> "idle"]
    /\ opt \in [Executions -> Option]
    /\ mode = [e \in Executions |-> "first"]
    /\ wire = [e \in Executions |-> "none"]
    /\ effects = [d \in Digests |-> 0]
    /\ rpc = [r \in Reconcilers |-> "idle"]
    /\ rdigest \in [Reconcilers -> Digests]
    /\ current = {} /\ alive = Procs /\ preempted = {}

Live(e) == ProcOf[e] \in alive

Goto(e, l) == pc' = [pc EXCEPT ![e] = l]

(* readDurableDeliveryReceipt returned a receipt rather than null. *)
Readable == receipt \notin {NoReceipt, Blank}

(* writeReceipt replaces the file: every snapshot revision is out of date. *)
WriteReceipt(r) ==
    /\ receipt' = r
    /\ expired' = FALSE
    /\ current' = {}

-----------------------------------------------------------------------------
LeaseOnly(p, r) == r.state = "sending" /\ r.owner # NoOwner /\ ~expired

(* receiptExecutionActive, evaluated by a caller on process p: a local owner *)
(* is judged by its pid, a remote one by its lease.                         *)
ReceiptExecutionActive(p, r) ==
    /\ r.state = "sending" /\ r.owner # NoOwner
    /\ IF HostOf[ProcOf[r.owner]] = HostOf[p]
         THEN ProcOf[r.owner] \in alive
         ELSE ~expired

(* mutateOwnedReceipt's condition. *)
Owned(e) ==
    /\ Readable
    /\ receipt.state = "sending" /\ receipt.owner = e /\ receipt.digest = opt[e].digest

-----------------------------------------------------------------------------
(* executeDurableDelivery: reserve, or find the earlier receipt. *)

Begin(e) ==
    /\ pc[e] = "idle" /\ Live(e)
    /\ Goto(e, "reserve")
    /\ UNCHANGED <<receiptVars, opt, mode, wire, effects, recVars, alive, preempted>>

ReserveNotExclusive(e) ==
    /\ pc[e] = "reserve" /\ Live(e)
    /\ receipt' = Blank
    /\ Goto(e, "fill")
    /\ UNCHANGED <<expired, current, opt, mode, wire, effects, recVars, alive, preempted>>

(* openSync(filePath, "wx") creates an empty file ... *)
ReserveCreates(e) ==
    /\ pc[e] = "reserve" /\ Live(e)
    /\ receipt = NoReceipt
    /\ receipt' = Blank
    /\ Goto(e, "fill")
    /\ UNCHANGED <<expired, current, opt, mode, wire, effects, recVars, alive, preempted>>

(* ... which the write through the descriptor turns into a receipt. *)
Fill(e) ==
    /\ pc[e] = "fill" /\ Live(e)
    /\ WriteReceipt([state |-> "sending", digest |-> opt[e].digest, owner |-> e])
    /\ Goto(e, "heartbeat")
    /\ UNCHANGED <<opt, mode, wire, effects, recVars, alive, preempted>>

(* The write or fsync throws; the unreadable file stays. *)
FillFails(e) ==
    /\ pc[e] = "fill" /\ Live(e)
    /\ Goto(e, "threw")
    /\ UNCHANGED <<receiptVars, opt, mode, wire, effects, recVars, alive, preempted>>

(* EEXIST. *)
ReserveExists(e) ==
    /\ pc[e] = "reserve" /\ Live(e)
    /\ receipt # NoReceipt
    /\ Goto(e, "read")
    /\ UNCHANGED <<receiptVars, opt, mode, wire, effects, recVars, alive, preempted>>

DecideIgnoringDigest(e, state, digest) ==
    IF state = "completed" THEN "completed"
    ELSE IF state = "uncertain"
           THEN IF opt[e].optIn THEN "claimUncertain" ELSE "uncertain"
           ELSE IF opt[e].recover THEN "claim" ELSE "in_progress"

(* Where a call goes on an earlier receipt that is not to be waited for. *)
Decide(e, state, digest) ==
    IF digest # opt[e].digest THEN "conflict"
    ELSE IF state = "completed" THEN "completed"
    ELSE IF state = "uncertain"
           THEN IF opt[e].optIn THEN "claimUncertain" ELSE "uncertain"
           ELSE IF opt[e].recover THEN "claim" ELSE "in_progress"

ReadExisting(e) ==
    /\ pc[e] = "read" /\ Live(e)
    /\ Goto(e, IF ~Readable THEN "uncertain"
               ELSE IF receipt.digest = opt[e].digest /\ receipt.state = "sending" THEN "wait"
               ELSE Decide(e, receipt.state, receipt.digest))
    /\ UNCHANGED <<receiptVars, opt, mode, wire, effects, recVars, alive, preempted>>

(* waitForTerminal returns: on a terminal receipt, on an unreadable one (the *)
(* earlier "sending" receipt is kept then) or at its timeout.               *)
WaitForTerminal(e) ==
    /\ pc[e] = "wait" /\ Live(e)
    /\ Goto(e, IF Readable THEN Decide(e, receipt.state, receipt.digest)
                           ELSE Decide(e, "sending", opt[e].digest))
    /\ UNCHANGED <<receiptVars, opt, mode, wire, effects, recVars, alive, preempted>>

-----------------------------------------------------------------------------
(* claimReceipt, under the mutation lock. *)

ClaimRefused(e) ==
    /\ pc[e] \in {"claim", "claimUncertain"} /\ Live(e)
    /\ \/ ~Readable /\ Goto(e, "uncertain")
       \/ /\ Readable
          /\ \/ receipt.digest # opt[e].digest /\ Goto(e, "conflict")
             \/ /\ receipt.digest = opt[e].digest
                /\ \/ receipt.state = "completed" /\ Goto(e, "completed")
                   \/ receipt.state = "uncertain" /\ pc[e] = "claim" /\ Goto(e, "uncertain")
                   \/ /\ ReceiptExecutionActive(ProcOf[e], receipt)
                      /\ Goto(e, "in_progress")
    /\ UNCHANGED <<receiptVars, opt, mode, wire, effects, recVars, alive, preempted>>

ClaimIgnoringState(e) ==
    /\ pc[e] \in {"claim", "claimUncertain"} /\ Live(e)
    /\ Readable /\ receipt.digest = opt[e].digest
    /\ ~ReceiptExecutionActive(ProcOf[e], receipt)
    /\ WriteReceipt([state |-> "sending", digest |-> receipt.digest, owner |-> e])
    /\ mode' = [mode EXCEPT ![e] = "recovering"]
    /\ Goto(e, "heartbeat")
    /\ UNCHANGED <<opt, wire, effects, recVars, alive, preempted>>

ClaimSucceeds(e) ==
    /\ pc[e] \in {"claim", "claimUncertain"} /\ Live(e)
    /\ Readable /\ receipt.digest = opt[e].digest
    /\ receipt.state = "sending" \/ (receipt.state = "uncertain" /\ pc[e] = "claimUncertain")
    /\ ~ReceiptExecutionActive(ProcOf[e], receipt)
    /\ preempted' = IF receipt.owner # NoOwner /\ Live(receipt.owner)
                                           /\ pc[receipt.owner] \in Busy
                      THEN preempted \cup {receipt.owner} ELSE preempted
    /\ WriteReceipt([state |-> "sending", digest |-> receipt.digest, owner |-> e])
    /\ mode' = [mode EXCEPT ![e] = "recovering"]
    /\ Goto(e, "heartbeat")
    /\ UNCHANGED <<opt, wire, effects, recVars, alive>>

(* The mutation lock times out, or the receipt cannot be written. *)
ClaimFails(e) ==
    /\ pc[e] \in {"claim", "claimUncertain"} /\ Live(e)
    /\ Goto(e, "threw")
    /\ UNCHANGED <<receiptVars, opt, mode, wire, effects, recVars, alive, preempted>>

-----------------------------------------------------------------------------
(* executeClaimedDelivery *)

(* startReceiptHeartbeat: the worker proves ownership of an unexpired lease *)
(* and renews it once (a new mtime) before anything is sent.                *)
HeartbeatStarts(e) ==
    /\ pc[e] = "heartbeat" /\ Live(e)
    /\ Owned(e) /\ ~expired
    /\ current' = {}
    /\ Goto(e, IF mode[e] = "first" THEN "deliver" ELSE "recover")
    /\ UNCHANGED <<receipt, expired, opt, mode, wire, effects, recVars, alive, preempted>>

HeartbeatFails(e) ==
    /\ pc[e] = "heartbeat" /\ Live(e)
    /\ Goto(e, "mark")
    /\ UNCHANGED <<receiptVars, opt, mode, wire, effects, recVars, alive, preempted>>

(* deliver() is called: a request is on its way. *)
Send(e) ==
    /\ pc[e] = "deliver" /\ Live(e)
    /\ wire' = [wire EXCEPT ![e] = "net"]
    /\ Goto(e, "sending")
    /\ UNCHANGED <<receiptVars, opt, mode, effects, recVars, alive, preempted>>

DeliverReturns(e) ==
    /\ pc[e] = "sending" /\ Live(e)
    /\ wire[e] = "landed"
    /\ Goto(e, "settle")
    /\ UNCHANGED <<receiptVars, opt, mode, wire, effects, recVars, alive, preempted>>

(* retryableRejection(result): the target proves it did not commit. *)
DeliverRejected(e) ==
    /\ pc[e] = "sending" /\ Live(e)
    /\ wire[e] = "lost"
    /\ Goto(e, "settleRejected")
    /\ UNCHANGED <<receiptVars, opt, mode, wire, effects, recVars, alive, preempted>>

(* A throw, of deliver() or of the settlement of its result, leads to      *)
(* recover() if this was the direct send of a caller that can, and to an    *)
(* uncertain receipt otherwise.                                             *)
AfterThrow(e) ==
    IF mode[e] = "first" /\ opt[e].recover
      THEN Goto(e, "recover") /\ mode' = [mode EXCEPT ![e] = "recovering"]
      ELSE Goto(e, "mark") /\ mode' = mode

DeliverThrows(e) ==
    /\ pc[e] = "sending" /\ Live(e)
    /\ AfterThrow(e)
    /\ UNCHANGED <<receiptVars, opt, wire, effects, recVars, alive, preempted>>

(* recover() answers "completed" with the result it found, ... *)
RecoverProves(e) ==
    /\ pc[e] = "recover" /\ Live(e)
    /\ effects[opt[e].digest] > 0
    /\ Goto(e, "settle")
    /\ UNCHANGED <<receiptVars, opt, mode, wire, effects, recVars, alive, preempted>>

(* ... "retry" when no request for this payload took effect or still may, ... *)
RecoverRetries(e) ==
    /\ pc[e] = "recover" /\ Live(e)
    /\ effects[opt[e].digest] = 0
    /\ \A f \in Executions : opt[f].digest = opt[e].digest => wire[f] # "net"
    /\ mode' = [mode EXCEPT ![e] = "once"]
    /\ Goto(e, "deliver")
    /\ UNCHANGED <<receiptVars, opt, wire, effects, recVars, alive, preempted>>

(* ... "in_progress", or "uncertain", which a throw counts as. *)
RecoverCannotTell(e) ==
    /\ pc[e] = "recover" /\ Live(e)
    /\ Goto(e, "release") \/ Goto(e, "mark")
    /\ UNCHANGED <<receiptVars, opt, mode, wire, effects, recVars, alive, preempted>>

(* settleOwnedResult writes the completed receipt, if still the owner. *)
Settle(e) ==
    /\ pc[e] = "settle" /\ Live(e)
    /\ IF Owned(e)
         THEN /\ WriteReceipt([receipt EXCEPT !.state = "completed", !.owner = NoOwner])
              /\ Goto(e, "completed")
         ELSE UNCHANGED receiptVars /\ Goto(e, "uncertain")
    /\ UNCHANGED <<opt, mode, wire, effects, recVars, alive, preempted>>

(* ... or removes the receipt of a proven non-committing rejection. *)
SettleRejected(e) ==
    /\ pc[e] = "settleRejected" /\ Live(e)
    /\ IF Owned(e) THEN WriteReceipt(NoReceipt) /\ Goto(e, "rejected")
                   ELSE UNCHANGED receiptVars /\ Goto(e, "uncertain")
    /\ UNCHANGED <<opt, mode, wire, effects, recVars, alive, preempted>>

(* The mutation lock times out or the write throws. *)
SettleFails(e) ==
    /\ pc[e] \in {"settle", "settleRejected"} /\ Live(e)
    /\ AfterThrow(e)
    /\ UNCHANGED <<receiptVars, opt, wire, effects, recVars, alive, preempted>>

(* Mutant: the outcome is uncertain and the receipt is left as it is. *)
MarkNotWritten(e) ==
    /\ pc[e] = "mark" /\ Live(e)
    /\ Goto(e, "uncertain")
    /\ UNCHANGED <<receiptVars, opt, mode, wire, effects, recVars, alive, preempted>>

(* markOwnedUncertain; the outcome is uncertain whether or not it owned. *)
Mark(e) ==
    /\ pc[e] = "mark" /\ Live(e)
    /\ IF Owned(e) THEN WriteReceipt([receipt EXCEPT !.state = "uncertain", !.owner = NoOwner])
                   ELSE UNCHANGED receiptVars
    /\ Goto(e, "uncertain")
    /\ UNCHANGED <<opt, mode, wire, effects, recVars, alive, preempted>>

(* Every attempt to mark failed: the call throws, the receipt stays. *)
MarkFails(e) ==
    /\ pc[e] = "mark" /\ Live(e)
    /\ Goto(e, "threw")
    /\ UNCHANGED <<receiptVars, opt, mode, wire, effects, recVars, alive, preempted>>

(* releaseOwnedSending: the receipt keeps "sending" without an owner. *)
Release(e) ==
    /\ pc[e] = "release" /\ Live(e)
    /\ IF Owned(e) THEN WriteReceipt([receipt EXCEPT !.owner = NoOwner])
                   ELSE UNCHANGED receiptVars
    /\ Goto(e, "in_progress")
    /\ UNCHANGED <<opt, mode, wire, effects, recVars, alive, preempted>>

ReleaseFails(e) ==
    /\ pc[e] = "release" /\ Live(e)
    /\ Goto(e, "mark")
    /\ UNCHANGED <<receiptVars, opt, mode, wire, effects, recVars, alive, preempted>>

(* requestAuthority(), asked before and after every step, throws: so does   *)
(* every handler of the call that asks again, and the call throws.          *)
AuthorityThrows(e) ==
    /\ pc[e] \in Busy \ {"fill"} /\ Live(e)
    /\ Goto(e, "threw")
    /\ UNCHANGED <<receiptVars, opt, mode, wire, effects, recVars, alive, preempted>>

-----------------------------------------------------------------------------
(* reconcileDurableDelivery *)

RGoto(r, l) == rpc' = [rpc EXCEPT ![r] = l]

(* The outcome of reading the receipt, before verification and under the   *)
(* mutation lock; "go" if neither read settles the question.                *)
ReconcileView(r) ==
    IF ~Readable THEN "uncertain"
    ELSE IF receipt.digest # rdigest[r] THEN "conflict"
    ELSE IF receipt.state = "completed" THEN "completed"
    ELSE IF ReceiptExecutionActive(ProcOf[r], receipt) THEN "in_progress"
    ELSE "go"

ReconcileSnapshot(r) ==
    /\ rpc[r] = "idle" /\ Live(r)
    /\ IF ReconcileView(r) = "go"
         THEN RGoto(r, "verify") /\ current' = current \cup {r}
         ELSE RGoto(r, ReconcileView(r)) /\ current' = current
    /\ UNCHANGED <<receipt, expired, execVars, wire, effects, rdigest, alive, preempted>>

(* verify() proves the delivery from authoritative evidence, or does not;   *)
(* a revoked authority and every exception count as uncertain.              *)
ReconcileVerifies(r) ==
    /\ rpc[r] = "verify" /\ Live(r)
    /\ effects[rdigest[r]] > 0
    /\ RGoto(r, "commit")
    /\ UNCHANGED <<receiptVars, execVars, wire, effects, rdigest, alive, preempted>>

ReconcileGivesUp(r) ==
    /\ rpc[r] \in {"verify", "commit"} /\ Live(r)
    /\ RGoto(r, "uncertain")
    /\ UNCHANGED <<receiptVars, execVars, wire, effects, rdigest, alive, preempted>>

(* The compare-and-swap under the mutation lock. *)
ReconcileCommit(r) ==
    /\ rpc[r] = "commit" /\ Live(r)
    /\ IF ReconcileView(r) = "go" /\ r \in current
         THEN /\ WriteReceipt([receipt EXCEPT !.state = "completed", !.owner = NoOwner])
              /\ RGoto(r, "completed")
         ELSE /\ RGoto(r, IF ReconcileView(r) = "go" THEN "uncertain" ELSE ReconcileView(r))
              /\ UNCHANGED receiptVars
    /\ UNCHANGED <<execVars, wire, effects, rdigest, alive, preempted>>

-----------------------------------------------------------------------------
(* The environment: the target, time, crashes. *)

Lands(e) ==
    /\ wire[e] = "net"
    /\ wire' = [wire EXCEPT ![e] = "landed"]
    /\ effects' = [effects EXCEPT ![opt[e].digest] = @ + 1]
    /\ UNCHANGED <<receiptVars, execVars, recVars, alive, preempted>>

IsLost(e) ==
    /\ wire[e] = "net"
    /\ wire' = [wire EXCEPT ![e] = "lost"]
    /\ UNCHANGED <<receiptVars, execVars, effects, recVars, alive, preempted>>

(* The heartbeat worker did not renew in time: its process is paused, the   *)
(* mutation lock stays busy, or an earlier renewal failed and stopped it.   *)
(* The execution is not told.                                               *)
LeaseExpires ==
    /\ Readable /\ receipt.state = "sending" /\ receipt.owner # NoOwner /\ ~expired
    /\ expired' = TRUE
    /\ UNCHANGED <<receipt, current, execVars, wire, effects, recVars, alive, preempted>>

Crash(p) ==
    /\ p \in alive
    /\ alive' = alive \ {p}
    /\ UNCHANGED <<receiptVars, execVars, wire, effects, recVars, preempted>>

ExecStep(e) ==
    \/ ReserveCreates(e) \/ Fill(e) \/ FillFails(e) \/ ReserveExists(e)
    \/ ReadExisting(e) \/ WaitForTerminal(e)
    \/ ClaimRefused(e) \/ ClaimSucceeds(e) \/ ClaimFails(e)
    \/ HeartbeatStarts(e) \/ HeartbeatFails(e)
    \/ Send(e) \/ DeliverReturns(e) \/ DeliverRejected(e) \/ DeliverThrows(e)
    \/ RecoverProves(e) \/ RecoverRetries(e) \/ RecoverCannotTell(e)
    \/ Settle(e) \/ SettleRejected(e) \/ SettleFails(e)
    \/ Mark(e) \/ MarkFails(e) \/ Release(e) \/ ReleaseFails(e) \/ AuthorityThrows(e)

RecStep(r) ==
    \/ ReconcileSnapshot(r) \/ ReconcileVerifies(r) \/ ReconcileGivesUp(r) \/ ReconcileCommit(r)

Next ==
    \/ \E e \in Executions : \/ Begin(e) \/ ExecStep(e) \/ Lands(e) \/ IsLost(e)
    \/ \E r \in Reconcilers : RecStep(r)
    \/ \E p \in Procs : Crash(p)
    \/ LeaseExpires

Spec == Init /\ [][Next]_vars

-----------------------------------------------------------------------------
(* Properties *)

OneHost == \A p, q \in Procs : HostOf[p] = HostOf[q]

(* The side effect happens at most once under one deliveryId, for at most   *)
(* one payload, whatever crashes, retries and recoveries the callers on one *)
(* host go through (executeDurableDelivery, claimReceipt).                  *)
AtMostOnce ==
    OneHost => \A d, f \in Digests :
                  /\ effects[d] <= 1
                  /\ effects[d] > 0 /\ effects[f] > 0 => d = f

(* Across hosts an additional effect needs an execution that lost its       *)
(* expired lease to another host while it was still running.                *)
ExtraEffectNeedsPreemption ==
    preempted = {} => \A d, f \in Digests :
                         /\ effects[d] <= 1
                         /\ effects[d] > 0 /\ effects[f] > 0 => d = f

(* A completed receipt, and a completed outcome of either operation, tell   *)
(* the truth: the side effect of that very payload happened.                *)
CompletedIsTrue ==
    /\ Readable /\ receipt.state = "completed" => effects[receipt.digest] > 0
    /\ \A e \in Executions : pc[e] = "completed" => effects[opt[e].digest] > 0
    /\ \A r \in Reconcilers : rpc[r] = "completed" => effects[rdigest[r]] > 0

(* "Completed receipts are replayed, never overwritten": no late owner,     *)
(* reclaimer or reconciler changes a completed receipt.                     *)
CompletedIsFinal ==
    [][Readable /\ receipt.state = "completed" => receipt' = receipt]_vars

(* Once the effect happened the deliveryId never looks unused again, so no  *)
(* later call can reserve it and send a second time, unless a running       *)
(* execution lost its receipt to another host.                              *)
EvidenceKept ==
    preempted = {} /\ (\E d \in Digests : effects[d] > 0) => receipt # NoReceipt

(* On one host a running execution is never claimed away. *)
NoLocalPreemption == OneHost => preempted = {}

(* Why AtMostOnce, ExtraEffectNeedsPreemption and EvidenceKept hold.  While *)
(* nobody was preempted, a live execution past its reservation or claim     *)
(* owns the receipt, unless a reconciler on another host has completed it;  *)
(* whoever is about to send, or to remove the receipt, does so while        *)
(* nothing has been or is being sent; and everything sent carries the       *)
(* digest of the receipt.                                                   *)
OwnerPCs == {"heartbeat", "deliver", "sending", "recover", "settle", "settleRejected",
             "mark", "release"}

Quiet ==
    /\ \A d \in Digests : effects[d] = 0
    /\ \A f \in Executions : wire[f] # "net"

LiveOwners ==
    \A e \in Executions : Live(e) /\ pc[e] \in OwnerPCs =>
        /\ Readable /\ receipt.digest = opt[e].digest
        /\ Owned(e) \/ receipt.state = "completed"

QuietBeforeSend ==
    /\ ~Readable => Quiet
    /\ \A e \in Executions :
          Live(e) /\ \/ pc[e] \in {"deliver", "settleRejected"}
                     \/ pc[e] = "heartbeat" /\ mode[e] = "first"
                     \/ pc[e] = "sending" /\ wire[e] = "lost"
          => Quiet

SentUnderReceipt ==
    /\ \A e \in Executions : wire[e] = "net" =>
          /\ receipt.digest = opt[e].digest
          /\ \A d \in Digests : effects[d] = 0
          /\ \A f \in Executions \ {e} : wire[f] # "net"
    /\ \A d \in Digests : effects[d] > 0 => effects[d] = 1 /\ receipt.digest = d

OnceInv == preempted = {} => LiveOwners /\ QuietBeforeSend /\ SentUnderReceipt

(* What makes CompletedIsTrue inductive: whoever is about to write a        *)
(* completed receipt has its proof.                                         *)
ProofBeforeCompletion ==
    /\ \A e \in Executions :
          wire[e] = "landed" \/ pc[e] = "settle" => effects[opt[e].digest] > 0
    /\ \A r \in Reconcilers : rpc[r] = "commit" => effects[rdigest[r]] > 0

(* agentSendReceiptResponse's answer for a readable receipt, on process p. *)
QueryState(p) ==
    IF receipt.state # "sending" THEN receipt.state
    ELSE IF ReceiptExecutionActive(p, receipt) THEN "in_progress" ELSE "uncertain"

(* A query answers in_progress for one of four causes.  The execution runs  *)
(* under its lease, as docs/rabi-agent-interfaces_en.md:1015 says: the      *)
(* "execution lease remains active".  Or it runs on this host although its  *)
(* lease has expired, or it threw in a process of this host that is still   *)
(* alive: receiptExecutionActive asks for the pid only, where the same line *)
(* says "When the original execution has ended or its lease expired without *)
(* a terminal result, read-only queries return `uncertain`".  Or it threw   *)
(* or died on another host, and its lease, all that can be seen of it here, *)
(* has not expired.                                                         *)
InProgressHasCause ==
    Readable => \A p \in alive : QueryState(p) = "in_progress" =>
        LET owner == receipt.owner
            runs  == pc[owner] \in Busy /\ Live(owner)
            threw == pc[owner] = "threw" /\ Live(owner)
            local == HostOf[ProcOf[owner]] = HostOf[p]
        IN  \/ runs /\ ~expired
            \/ runs /\ local
            \/ threw /\ local
            \/ ~runs /\ ~local /\ ~expired

(* Why InProgressHasCause holds: the owner a receipt names executes, or its *)
(* call has thrown.                                                         *)
ExecutingOwner ==
    Readable /\ receipt.owner # NoOwner => /\ receipt.state = "sending"
                                           /\ pc[receipt.owner] \in OwnerPCs \cup {"threw"}
                                           /\ receipt.digest = opt[receipt.owner].digest
=============================================================================
