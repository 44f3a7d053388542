---------------------------- MODULE AgentRequests ----------------------------
(***************************************************************************)
(* Tracked requests between Agents and their exact delivery: the durable   *)
(* request store (src/agentRequests/state.ts behind store.ts), the send    *)
(* workflow, the reconciliation and the recovery of                        *)
(* src/agentRequests/endpointDelivery.ts, composed with the execution      *)
(* owner of EndpointLedger.                                                *)
(*                                                                         *)
(* The store is one file written by one serialized worker: a mutation is   *)
(* one step, which either replaces the file or leaves it alone.  The       *)
(* Manager's copy is only ever what the worker committed, so one pair of   *)
(* variables stands for the file and for both copies.  A workflow is many  *)
(* mutations with awaits between them; everything it remembers from one to *)
(* the next is in prep, disp and recon and is lost when the Manager stops. *)
(* A commit of unknown outcome (AGENT_REQUEST_COMMIT_UNKNOWN) fences the   *)
(* store until a restart: the mutation, or its absence, followed by Stop.  *)
(***************************************************************************)
EXTENDS EndpointLedger

CONSTANTS
    Requests,       \* request ids
    Asks,           \* the request a delivery creates (responsePolicy required), or None
    Answers,        \* the request a delivery replies to, or None
    None,
    Settings,       \* the surroundings to consider
    MaxStops        \* bound: stops of the Manager

\* The requests whose source is a connection and not an endpoint; whether the
\* EndpointDeliveryRecovery that the Manager builds was started; whether the
\* transport may hand a dispatch over more than once; and, as a bound, how
\* many bindings and how many tokens each delivery id may use.
Setting == [connections : SUBSET Requests, recovery : BOOLEAN, redelivery : BOOLEAN,
            limit : [Deliveries -> {n \in Nat : n <= MaxGenerations /\ n <= MaxAttempts}]]

ASSUME RequestsAssumption ==
    /\ None \notin Requests \cup Deliveries
    /\ Asks \in [Deliveries -> Requests \cup {None}]
    /\ Answers \in [Deliveries -> Requests \cup {None}]
    /\ \A d \in Deliveries : Asks[d] = None \/ Asks[d] # Answers[d]
    /\ \A d, e \in Deliveries : Asks[d] = Asks[e] => Asks[d] = None \/ d = e
    /\ Settings \subseteq Setting
    /\ MaxStops \in Nat

VARIABLES
    requests,       \* the tracked requests, durable
    deliveries,     \* the prepared deliveries, durable
    setting,        \* what the surroundings are like, fixed
    generations,    \* how many generations a delivery id has used
    attempts,       \* how many dispatch tokens a delivery id has used
    wire,           \* the dispatches on their way to the execution owner
    prep,           \* the preparing flight of a delivery (prepareSingleDelivery)
    disp,           \* the dispatching flight of a delivery (inflightDispatches)
    recon,          \* the reconciling flight of a delivery
    up,             \* the Manager runs and its store answers
    stops

storeVars == <<requests, deliveries>>
flightVars == <<prep, disp, recon>>
vars == <<requests, deliveries, setting, generations, attempts, wire,
          prep, disp, recon, up, stops, ledgerVars>>

\* AgentRequestRecord; the delivery that created it is the d with Asks[d] = r.
Request == [status : {"pending_delivery", "awaiting_response", "responded", "cancelled"},
            pending : Deliveries \cup {None},
            response : Deliveries \cup {None}]
NoRequest == [status |-> "none"]

\* PreparedEndpointDelivery; attempt 0 was never marked as dispatching.
Delivery == [state : {"prepared", "dispatching", "committed", "cancelled"},
             generation : Generations, attempt : Attempts \cup {0}]
NoDelivery == [state |-> "none"]

\* A dispatching flight remembers the snapshot it was started with.
Flight == [pc : {"verify", "cross", "wait", "receipt", "notsent", "unsent"},
           generation : Generations, attempt : Attempts \cup {0}]
Recon == [pc : {"query", "receipt", "notsent"}, generation : Generations,
          attempt : Attempts, receiptOnly : BOOLEAN]
Idle == [pc |-> "idle"]


TypeOK ==
    /\ LedgerTypeOK
    /\ requests \in [Requests -> Request \cup {NoRequest}]
    /\ deliveries \in [Deliveries -> Delivery \cup {NoDelivery}]
    /\ setting \in Settings
    /\ generations \in [Deliveries -> 0 .. MaxGenerations]
    /\ attempts \in [Deliveries -> 0 .. MaxAttempts]
    /\ wire \in [Deliveries -> SUBSET (Generations \X Attempts)]
    /\ prep \in [Deliveries -> {"idle", "bind", "abort"}]
    /\ disp \in [Deliveries -> Flight \cup {Idle}]
    /\ recon \in [Deliveries -> Recon \cup {Idle}]
    /\ up \in BOOLEAN
    /\ stops \in 0 .. MaxStops
    /\ ~up => \A d \in Deliveries : prep[d] = "idle" /\ disp[d] = Idle /\ recon[d] = Idle

Init ==
    /\ LedgerInit
    /\ requests = [r \in Requests |-> NoRequest]
    /\ deliveries = [d \in Deliveries |-> NoDelivery]
    /\ setting \in Settings
    /\ generations = [d \in Deliveries |-> 0]
    /\ attempts = [d \in Deliveries |-> 0]
    /\ wire = [d \in Deliveries |-> {}]
    /\ prep = [d \in Deliveries |-> "idle"]
    /\ disp = [d \in Deliveries |-> Idle]
    /\ recon = [d \in Deliveries |-> Idle]
    /\ up = TRUE
    /\ stops = 0

-----------------------------------------------------------------------------
(* Reads of the store.                                                     *)

Bound(d) == deliveries[d] # NoDelivery
Tracked(r) == r # None /\ requests[r] # NoRequest
Open(r) == requests[r].status \in {"pending_delivery", "awaiting_response"}

(* Mutant: only a bound body reserves its id. *)
ReservedByBody(d) == Bound(d)

\* hasEndpointDeliveryReservation: any trace of the id, a cancelled one too.
Reserved(d) ==
    \/ Bound(d)
    \/ Tracked(Asks[d])
    \/ \E r \in Requests : Tracked(r) /\ d \in {requests[r].pending, requests[r].response}

\* The request that a delivery created, and the one it answers, still stand and
\* are still reserved for it.
RequestsAllow(d) ==
    /\ Asks[d] # None =>
          Tracked(Asks[d]) /\ requests[Asks[d]].status # "cancelled"
    /\ Answers[d] # None =>
          /\ Tracked(Answers[d])
          /\ requests[Answers[d]].status # "cancelled"
          /\ d \in {requests[Answers[d]].pending, requests[Answers[d]].response}

\* assertEndpointDeliveryActive.
Active(d) ==
    /\ Bound(d)
    /\ deliveries[d].state # "cancelled"
    /\ RequestsAllow(d)

-----------------------------------------------------------------------------
(* Sending.                                                                *)

\* prepare: reserves the delivery id, creates the request, and reserves the one
\* answer of the request it replies to.  An id with any earlier trace, or a
\* request that is not waiting or has an answer under way, is refused.
Prepare(d) ==
    /\ up
    /\ prep[d] = "idle"
    /\ ~Reserved(d)
    /\ Answers[d] # None =>
          /\ Answers[d] \notin setting.connections
          /\ Tracked(Answers[d])
          /\ requests[Answers[d]].status = "awaiting_response"
          /\ requests[Answers[d]].pending = None
    /\ generations[d] < setting.limit[d]
    /\ requests' = [r \in Requests |->
           IF r = Asks[d] THEN [status |-> "pending_delivery", pending |-> None, response |-> None]
           ELSE IF r = Answers[d] THEN [requests[r] EXCEPT !.pending = d]
           ELSE requests[r]]
    /\ prep' = [prep EXCEPT ![d] = "bind"]
    /\ UNCHANGED <<deliveries, setting, generations, attempts, wire, disp, recon, up, stops, ledgerVars>>

\* A new dispatching flight over this snapshot (dispatchPreparedDelivery).  One
\* that is under way is shared, whatever snapshot it was started with.
Launch(d, delivery) ==
    disp' = IF disp[d] = Idle
            THEN [disp EXCEPT ![d] = [pc |-> "verify", generation |-> delivery.generation, attempt |-> 0]]
            ELSE disp

\* bindEndpointDelivery makes the prepared body durable, under a generation of
\* its own.  The guard runs before anything else in the Manager can: either the
\* delivery goes on to its dispatch, or what was reserved has to be released.
Bind(d) ==
    LET delivery == [state |-> "prepared", generation |-> generations[d] + 1, attempt |-> 0]
    IN /\ prep[d] = "bind"
       /\ ~Bound(d)
       /\ generations' = [generations EXCEPT ![d] = @ + 1]
       /\ deliveries' = [deliveries EXCEPT ![d] = delivery]
       /\ \/ /\ RequestsAllow(d)
             /\ Launch(d, delivery)
             /\ prep' = [prep EXCEPT ![d] = "idle"]
          \/ /\ prep' = [prep EXCEPT ![d] = "abort"]
             /\ UNCHANGED disp
       /\ UNCHANGED <<requests, setting, attempts, wire, recon, up, stops, ledgerVars>>

\* Rendering, the caller's authority or the bind itself fails.
PreparationFails(d) ==
    /\ prep[d] = "bind"
    /\ prep' = [prep EXCEPT ![d] = "abort"]
    /\ UNCHANGED <<storeVars, setting, generations, attempts, wire, disp, recon, up, stops, ledgerVars>>

\* abort: releases what prepare and bind reserved, unless the delivery was
\* dispatched meanwhile.
Abort(d) ==
    /\ prep[d] = "abort"
    /\ Bound(d) => deliveries[d].state = "prepared"
    /\ deliveries' = [deliveries EXCEPT ![d] = NoDelivery]
    /\ requests' = [r \in Requests |->
           IF r = Asks[d] /\ Tracked(r) /\ requests[r].status = "pending_delivery" THEN NoRequest
           ELSE IF r = Answers[d] /\ Tracked(r) /\ requests[r].pending = d THEN [requests[r] EXCEPT !.pending = None]
           ELSE requests[r]]
    /\ prep' = [prep EXCEPT ![d] = "idle"]
    /\ UNCHANGED <<setting, generations, attempts, wire, disp, recon, up, stops, ledgerVars>>

\* abort is refused or cannot be written: the reservation stays.
AbortFails(d) ==
    /\ prep[d] = "abort"
    /\ prep' = [prep EXCEPT ![d] = "idle"]
    /\ UNCHANGED <<storeVars, setting, generations, attempts, wire, disp, recon, up, stops, ledgerVars>>

(* Mutant: a retry does not wait for the preparation under way. *)
ResumeUnshared(d) ==
    /\ up
    /\ disp[d] = Idle
    /\ Active(d)
    /\ deliveries[d].state = "prepared"
    /\ Launch(d, deliveries[d])
    /\ UNCHANGED <<storeVars, setting, generations, attempts, wire, prep, recon, up, stops, ledgerVars>>

\* A retry of the same caller (resumeReservedDelivery), which waits for a
\* preparation under way, or the recovery's recover, which does not, dispatches
\* a delivery it finds prepared.
ResumePrepared(d) ==
    /\ up
    /\ prep[d] = "idle" \/ setting.recovery
    /\ disp[d] = Idle
    /\ Active(d)
    /\ deliveries[d].state = "prepared"
    /\ Launch(d, deliveries[d])
    /\ UNCHANGED <<storeVars, setting, generations, attempts, wire, prep, recon, up, stops, ledgerVars>>

\* verifyThenDispatch: the owner is verified and markEndpointDispatching makes
\* a fresh token durable before anything may cross.
MarkDispatching(d) ==
    /\ disp[d].pc = "verify"
    /\ Active(d)
    /\ deliveries[d].state = "prepared"
    /\ attempts[d] < setting.limit[d]
    /\ attempts' = [attempts EXCEPT ![d] = @ + 1]
    /\ deliveries' = [deliveries EXCEPT ![d].state = "dispatching", ![d].attempt = attempts'[d]]
    /\ disp' = [disp EXCEPT ![d].pc = "cross", ![d].attempt = attempts'[d]]
    /\ UNCHANGED <<requests, setting, generations, wire, prep, recon, up, stops, ledgerVars>>

\* The execution boundary: the dispatch leaves for the execution owner.
Dispatch(d) ==
    /\ disp[d].pc = "cross"
    /\ Active(d)
    /\ wire' = [wire EXCEPT ![d] = @ \cup {<<disp[d].generation, disp[d].attempt>>}]
    /\ disp' = [disp EXCEPT ![d].pc = "wait"]
    /\ UNCHANGED <<storeVars, setting, generations, attempts, prep, recon, up, stops, ledgerVars>>

\* The management frame itself could not leave this host
\* (LAN_AGENT_MANAGEMENT_NOT_SENT): no proof of the owner is needed.
DispatchNotSent(d) ==
    /\ disp[d].pc = "cross"
    /\ Active(d)
    /\ disp' = [disp EXCEPT ![d].pc = "unsent"]
    /\ UNCHANGED <<storeVars, setting, generations, attempts, wire, prep, recon, up, stops, ledgerVars>>

\* The dispatch reaches the execution owner.
Arrive(d) ==
    \E m \in wire[d] :
        /\ BeginAttempt(d, m[1], m[2])
        /\ wire' = IF setting.redelivery THEN wire ELSE [wire EXCEPT ![d] = @ \ {m}]
        /\ UNCHANGED <<storeVars, setting, generations, attempts, flightVars, up, stops>>

\* The owner's answer comes back, a receipt or a durable no-frame proof for
\* this very token.
DispatchAnswered(d) ==
    /\ disp[d].pc = "wait"
    /\ \/ /\ HasReceipt(d, disp[d].generation)
          /\ disp' = [disp EXCEPT ![d].pc = "receipt"]
       \/ /\ HasProof(d, disp[d].generation, disp[d].attempt)
          /\ disp' = [disp EXCEPT ![d].pc = "notsent"]
    /\ UNCHANGED <<storeVars, setting, generations, attempts, wire, prep, recon, up, stops, ledgerVars>>

\* Verification, authority, a write or the dispatch fails, or its answer is
\* lost: the flight ends where it is and only notes the failure.
DispatchEnds(d) ==
    /\ disp[d] # Idle
    /\ disp' = [disp EXCEPT ![d] = Idle]
    /\ UNCHANGED <<storeVars, setting, generations, attempts, wire, prep, recon, up, stops, ledgerVars>>

(* Mutant: the answered request is left as it was. *)
CommitUnanswered(d, g) ==
    /\ Active(d)
    /\ deliveries[d].generation = g
    /\ deliveries[d].state \in {"dispatching", "committed"}
    /\ deliveries' = [deliveries EXCEPT ![d].state = "committed"]
    /\ requests' = [r \in Requests |->
           IF r = Asks[d] THEN [requests[r] EXCEPT !.status = "awaiting_response"] ELSE requests[r]]

\* commit, with commitEndpointReceipt around it: one replacement of the file
\* commits the delivery, answers the request it replies to and makes the
\* request it created wait for its answer.
CommitEndpointReceipt(d, g) ==
    /\ Active(d)
    /\ deliveries[d].generation = g
    /\ IF deliveries[d].state = "committed" THEN UNCHANGED storeVars
       ELSE /\ deliveries[d].state = "dispatching"
            /\ Answers[d] # None => requests[Answers[d]].pending = d
            /\ deliveries' = [deliveries EXCEPT ![d].state = "committed"]
            /\ requests' = [r \in Requests |->
                   IF r = Answers[d] THEN [status |-> "responded", pending |-> None, response |-> d]
                   ELSE IF r = Asks[d] /\ requests[r].status = "pending_delivery"
                        THEN [requests[r] EXCEPT !.status = "awaiting_response"]
                   ELSE requests[r]]

\* markEndpointNotSent: the proof must be of the current generation and of the
\* current dispatch token.
MarkNotSent(d, g, a) ==
    /\ Bound(d)
    /\ deliveries[d].state = "dispatching"
    /\ deliveries[d].generation = g
    /\ deliveries[d].attempt = a
    /\ deliveries' = [deliveries EXCEPT ![d].state = "prepared"]
    /\ UNCHANGED requests

DispatchCommits(d) ==
    /\ disp[d].pc = "receipt"
    /\ CommitEndpointReceipt(d, disp[d].generation)
    /\ disp' = [disp EXCEPT ![d] = Idle]
    /\ UNCHANGED <<setting, generations, attempts, wire, prep, recon, up, stops, ledgerVars>>

DispatchReturns(d) ==
    /\ \/ disp[d].pc = "notsent" /\ MarkNotSent(d, disp[d].generation, disp[d].attempt)
       \/ disp[d].pc = "unsent" /\ MarkNotSent(d, deliveries[d].generation, deliveries[d].attempt)
    /\ disp' = [disp EXCEPT ![d] = Idle]
    /\ UNCHANGED <<setting, generations, attempts, wire, prep, recon, up, stops, ledgerVars>>

-----------------------------------------------------------------------------
(* Reconciling.                                                            *)

\* reconcileEndpointDelivery of a delivery found dispatching.  A retry of the
\* caller, and a reply to a request whose delivery is still unconfirmed, let a
\* no-frame proof return it to prepared; recovery events, the delivery page
\* and reconcile_delivery only look for a receipt.
ReconcileStart(d, receiptOnly) ==
    /\ up
    /\ recon[d] = Idle
    /\ Active(d)
    /\ deliveries[d].state = "dispatching"
    /\ recon' = [recon EXCEPT ![d] = [pc |-> "query", generation |-> deliveries[d].generation,
                                     attempt |-> deliveries[d].attempt, receiptOnly |-> receiptOnly]]
    /\ UNCHANGED <<storeVars, setting, generations, attempts, wire, prep, disp, up, stops, ledgerVars>>

\* The owner answers from its ledger, or from the target's own log.
ReconcileAnswered(d) ==
    /\ recon[d].pc = "query"
    /\ \/ /\ HasReceipt(d, recon[d].generation)
          /\ recon' = [recon EXCEPT ![d].pc = "receipt"]
          /\ UNCHANGED ledgerVars
       \/ /\ HasProof(d, recon[d].generation, recon[d].attempt)
          /\ recon' = [recon EXCEPT ![d].pc = "notsent"]
          /\ UNCHANGED ledgerVars
       \/ /\ RecoverReceipt(d, recon[d].generation)
          /\ recon' = [recon EXCEPT ![d].pc = "receipt"]
    /\ UNCHANGED <<storeVars, setting, generations, attempts, wire, prep, disp, up, stops>>

\* No evidence, an identity mismatch, authority lost, or a failed write.
ReconcileEnds(d) ==
    /\ recon[d] # Idle
    /\ recon' = [recon EXCEPT ![d] = Idle]
    /\ UNCHANGED <<storeVars, setting, generations, attempts, wire, prep, disp, up, stops, ledgerVars>>

ReconcileCommits(d) ==
    /\ recon[d].pc = "receipt"
    /\ CommitEndpointReceipt(d, recon[d].generation)
    /\ recon' = [recon EXCEPT ![d] = Idle]
    /\ UNCHANGED <<setting, generations, attempts, wire, prep, disp, up, stops, ledgerVars>>

ReconcileReturns(d) ==
    /\ recon[d].pc = "notsent"
    /\ ~recon[d].receiptOnly
    /\ MarkNotSent(d, recon[d].generation, recon[d].attempt)
    /\ recon' = [recon EXCEPT ![d] = Idle]
    /\ UNCHANGED <<setting, generations, attempts, wire, prep, disp, up, stops, ledgerVars>>

-----------------------------------------------------------------------------
(* Answers without a delivery, cancellation, stops.                        *)

\* recordConnectionResponse: a request whose source is a connection keeps its
\* answer on the record.
RecordResponse(d) ==
    LET r == Answers[d] IN
    /\ up
    /\ r \in setting.connections
    /\ Tracked(r)
    /\ requests[r].status = "awaiting_response"
    /\ requests[r].pending = None
    /\ ~Reserved(d)
    /\ requests' = [requests EXCEPT ![r].status = "responded", ![r].response = d]
    /\ UNCHANGED <<deliveries, setting, generations, attempts, wire, flightVars, up, stops, ledgerVars>>

\* cancel: the request and every unconfirmed delivery linked to it.
CancelOpen(r) ==
    /\ requests' = [requests EXCEPT ![r].status = "cancelled", ![r].pending = None]
    /\ deliveries' = [d \in Deliveries |->
           IF r \in {Asks[d], Answers[d]} /\ deliveries[d].state \in {"prepared", "dispatching"}
           THEN [deliveries[d] EXCEPT !.state = "cancelled"] ELSE deliveries[d]]

Cancel(r) ==
    /\ up
    /\ Tracked(r)
    /\ Open(r)
    /\ CancelOpen(r)
    /\ UNCHANGED <<setting, generations, attempts, wire, flightVars, up, stops, ledgerVars>>

(* Mutant: only a request that the delivery created is cancelled with it. *)
CancelDeliveryOrAsked(d) ==
    /\ up
    /\ deliveries[d].state \in {"prepared", "dispatching"}
    /\ IF Tracked(Asks[d]) /\ Open(Asks[d]) THEN CancelOpen(Asks[d])
       ELSE /\ deliveries' = [deliveries EXCEPT ![d].state = "cancelled"]
            /\ UNCHANGED requests
    /\ UNCHANGED <<setting, generations, attempts, wire, flightVars, up, stops, ledgerVars>>

\* cancelEndpointDelivery: through the open request the delivery created or,
\* without one, through the open request it answers; otherwise alone.
CancelDelivery(d) ==
    LET linked == IF Tracked(Asks[d]) THEN Asks[d]
                  ELSE IF Tracked(Answers[d]) /\ requests[Answers[d]].pending = d THEN Answers[d]
                  ELSE None
    IN /\ up
       /\ deliveries[d].state \in {"prepared", "dispatching"}
       /\ IF linked # None /\ Open(linked) THEN CancelOpen(linked)
          ELSE /\ deliveries' = [deliveries EXCEPT ![d].state = "cancelled"]
               /\ UNCHANGED requests
       /\ UNCHANGED <<setting, generations, attempts, wire, flightVars, up, stops, ledgerVars>>

\* The Manager dies, or its store is fenced by a commit of unknown outcome:
\* every flight is lost, what was dispatched is not.
Stop ==
    /\ up
    /\ stops < MaxStops
    /\ up' = FALSE
    /\ stops' = stops + 1
    /\ prep' = [d \in Deliveries |-> "idle"]
    /\ disp' = [d \in Deliveries |-> Idle]
    /\ recon' = [d \in Deliveries |-> Idle]
    /\ UNCHANGED <<storeVars, setting, generations, attempts, wire, ledgerVars>>

\* A new Manager reads the file.
Start ==
    /\ ~up
    /\ up' = TRUE
    /\ UNCHANGED <<storeVars, setting, generations, attempts, wire, flightVars, stops, ledgerVars>>

OwnerStep(d) ==
    /\ LedgerStep(d)
    /\ UNCHANGED <<storeVars, setting, generations, attempts, wire, flightVars, up, stops>>

Next ==
    \/ \E d \in Deliveries :
          \/ Prepare(d) \/ Bind(d) \/ PreparationFails(d)
          \/ Abort(d) \/ AbortFails(d)
          \/ ResumePrepared(d) \/ MarkDispatching(d) \/ Dispatch(d) \/ DispatchNotSent(d)
          \/ DispatchAnswered(d) \/ DispatchEnds(d) \/ DispatchCommits(d) \/ DispatchReturns(d)
          \/ \E receiptOnly \in BOOLEAN : ReconcileStart(d, receiptOnly)
          \/ ReconcileAnswered(d) \/ ReconcileEnds(d) \/ ReconcileCommits(d) \/ ReconcileReturns(d)
          \/ RecordResponse(d) \/ CancelDelivery(d)
          \/ Arrive(d) \/ OwnerStep(d)
    \/ \E r \in Requests : Cancel(r)
    \/ Stop
    \/ Start

Spec == Init /\ [][Next]_vars

-----------------------------------------------------------------------------
\* A delivery is committed, and the request it carried counts as delivered,
\* only after the target has the prompt: no timeout, restart, late proof or
\* reconciliation of another attempt makes it so.
CommittedWasAccepted ==
    \A d \in Deliveries :
        deliveries[d].state = "committed" => accepted[d]

\* A request has one answer.  It is the committed delivery (or the recorded
\* response) that reserved it, it is final, and no other reply to the request
\* is ever committed, although replies overlap and crash anywhere.
OneAnswer ==
    \A r \in Requests, d \in Deliveries :
        /\ Answers[d] = r /\ deliveries[d].state = "committed"
              => requests[r].status = "responded" /\ requests[r].response = d
        /\ Tracked(r) /\ requests[r].response = d
              => \/ r \in setting.connections
                 \/ deliveries[d].state = "committed"

\* The request's own delivery: a request waits for an answer, or has one, only
\* when the delivery that carried it was accepted.
DeliveredBeforeAnswered ==
    \A d \in Deliveries :
        LET r == Asks[d] IN
        Tracked(r) /\ requests[r].status \in {"awaiting_response", "responded"} => accepted[d]

\* A delivery in prepared may be sent again with the same id: nothing of it
\* has crossed, although late proofs of earlier tokens arrive at any time
\* ("Only positive transport-owner proof that no prompt frame was sent permits
\* returning to prepared").  It needs a transport that hands a dispatch over
\* once: a duplicate of an older token opens an attempt over the proof of a
\* newer one.
PreparedIsUnsent ==
    \A d \in Deliveries :
        ~setting.redelivery /\ deliveries[d].state = "prepared" => frames[d] = 0

\* A crash between prepare and bind leaves a request without a delivery body.
\* It is never replayed: nothing but a cancellation of the request changes it.
OrphanReservation(d) ==
    /\ prep[d] = "idle"
    /\ ~Bound(d)
    /\ Tracked(Asks[d])
    /\ requests[Asks[d]].status = "pending_delivery"

OrphanIsOnlyCancelled ==
    [][\A d \in Deliveries : OrphanReservation(d) =>
           /\ ~setting.redelivery => frames'[d] = 0
           /\ OrphanReservation(d)' \/ requests'[Asks[d]].status = "cancelled"]_vars

\* What is confirmed, answered or cancelled stays so, whatever answers and
\* flights arrive late.
OutcomesAreFinal ==
    [][/\ \A d \in Deliveries :
             deliveries[d].state \in {"committed", "cancelled"} => deliveries'[d] = deliveries[d]
       /\ \A r \in Requests :
             requests[r].status \in {"responded", "cancelled"} => requests'[r] = requests[r]]_vars

\* A dispatch whose owner holds evidence can be settled by it: the evidence
\* is of the generation that the store accepts.  It needs that nothing
\* dispatches a delivery which its preparation is about to release; the
\* recovery does.
EvidenceCanSettle ==
    \A d \in Deliveries :
        ~setting.recovery /\ deliveries[d].state = "dispatching" /\ Known(d)
            => ledger[d].generation = deliveries[d].generation

\* The store and the execution owner agree on what a delivery may still do: one
\* that may be sent again has not been sent, and what the owner knows of one
\* that is out can settle it.
StoreAgreesWithOwner == PreparedIsUnsent /\ EvidenceCanSettle

\* Cancelling the delivery of a reply cancels the request that it answers, or
\* at least gives its one answer free ("cancelling an unconfirmed delegate
\* reply cancels its original linked request"), with one exception: a reply
\* that asks back is cancelled through the request it created, and the one it
\* answers stays reserved for it.
CancelledReplyReleases ==
    \A d \in Deliveries :
        deliveries[d].state = "cancelled" /\ Tracked(Answers[d]) /\ Asks[d] = None
            => requests[Answers[d]].pending # d
=============================================================================
