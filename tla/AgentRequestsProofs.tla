------------------------- MODULE AgentRequestsProofs -------------------------
(***************************************************************************)
(* The execution owner on its own: it sends a prompt at most once and      *)
(* keeps only true evidence, whatever dispatches reach it.  AtMostOneFrame *)
(* is not inductive: a second frame is prevented because an attempt is     *)
(* opened only where no frame can have crossed, which OneAttempt says of   *)
(* every state of a delivery's file and of its execution.                  *)
(*                                                                         *)
(* Then the request store and its workflows, composed with the owner: the  *)
(* composition only ever takes steps of the owner, commits only what the   *)
(* target accepted, gives a request one answer, never changes a settled    *)
(* outcome, and agrees with the owner about each delivery: its attempts,   *)
(* a cancelled reply and a delivery nobody waits for.                      *)
(***************************************************************************)
EXTENDS AgentRequests, TLAPS

(* The execution owner. *)

\* What the file of a delivery and its running execution say of its frames.
OneAttempt(d) ==
    /\ ~Known(d) => exec[d] = "idle" /\ frames[d] = 0
    /\ Known(d) /\ ledger[d].state = "not_sent" => exec[d] = "idle" /\ frames[d] = 0
    /\ exec[d] = "send" => frames[d] = 0
    /\ frames[d] <= 1
    /\ accepted[d] => frames[d] > 0
    /\ Known(d) /\ ledger[d].receipt => accepted[d]

LedgerInv == LedgerTypeOK /\ \A d \in Deliveries : OneAttempt(d)

-----------------------------------------------------------------------------
\* A file that exists is an entry, and an entry is a file that exists (read).
LEMMA EntryIsKnown ==
    /\ NoEntry \notin Entry
    /\ LedgerTypeOK => \A d \in Deliveries : Known(d) => ledger[d] \in Entry
BY DEF NoEntry, Entry, Generations, LedgerTypeOK, Known

\* The owner starts with no evidence and no frame.
LEMMA LedgerInitInv == LedgerInit => LedgerInv
BY DEF LedgerInit, LedgerInv, LedgerTypeOK, OneAttempt, Known, ExecStates

\* A step about one delivery leaves the others as they were.
LEMMA OthersKeepOneAttempt ==
    ASSUME NEW d \in Deliveries, NEW e \in Deliveries, e # d, OneAttempt(e),
           ledger'[e] = ledger[e], exec'[e] = exec[e],
           frames'[e] = frames[e], accepted'[e] = accepted[e]
    PROVE  OneAttempt(e)'
BY DEF OneAttempt, Known

\* beginAttempt opens an attempt only where no frame has crossed.
LEMMA BeginAttemptInv ==
    ASSUME LedgerInv, NEW d \in Deliveries, NEW g \in Generations, NEW a \in Attempts,
           BeginAttempt(d, g, a)
    PROVE  LedgerInv'
<1> DEFINE opened == [generation |-> g, attempt |-> a, state |-> "attempting", receipt |-> FALSE]
<1>1. opened \in Entry
  BY DEF Entry
<1>2. ledger'[d] = opened /\ exec'[d] = "send" /\ frames' = frames /\ accepted' = accepted
  BY DEF BeginAttempt, LedgerInv, LedgerTypeOK
<1>3. LedgerTypeOK'
  BY <1>1 DEF BeginAttempt, LedgerInv, LedgerTypeOK, ExecStates
<1>4. frames[d] = 0
  BY DEF BeginAttempt, OpensAttempt, SameIdentity, LedgerInv, OneAttempt
<1>5. opened.state = "attempting" /\ opened.receipt = FALSE
  OBVIOUS
<1>6. OneAttempt(d)'
  BY <1>1, <1>2, <1>4, <1>5, EntryIsKnown DEF OneAttempt, Known, LedgerInv
<1>7. ASSUME NEW e \in Deliveries, e # d PROVE OneAttempt(e)'
  BY <1>7, OthersKeepOneAttempt DEF BeginAttempt, LedgerInv, LedgerTypeOK
<1> QED
  BY <1>3, <1>6, <1>7 DEF LedgerInv

\* Every other step of the owner and of the target about one delivery.
LEMMA LedgerStepInv ==
    ASSUME LedgerInv, NEW d \in Deliveries,
           LedgerStep(d) \/ \E g \in Generations : RecoverReceipt(d, g)
    PROVE  LedgerInv'
<1> USE DEF LedgerInv
<1>1. OneAttempt(d)
  OBVIOUS
<1>2. exec[d] # "idle" => Known(d) /\ ledger[d] \in Entry /\ ledger[d].state # "not_sent"
  BY <1>1, EntryIsKnown DEF OneAttempt
<1>3. LedgerTypeOK' /\ OneAttempt(d)'
  <2>1. CASE SendFrame(d)
    BY <2>1, <1>1, <1>2 DEF SendFrame, LedgerTypeOK, OneAttempt, Known, ExecStates
  <2>2. CASE WriteNotSent(d)
    <3>1. ledger[d] \in Entry /\ Known(d)
      BY <2>2, <1>2 DEF WriteNotSent
    <3>2. ledger'[d] = [ledger[d] EXCEPT !.state = "not_sent"]
      BY <2>2 DEF WriteNotSent, LedgerTypeOK
    <3>3. ledger'[d] \in Entry /\ ledger'[d].receipt = ledger[d].receipt
      BY <3>1, <3>2 DEF Entry
    <3> QED
      BY <2>2, <1>1, <3>1, <3>3, EntryIsKnown DEF WriteNotSent, LedgerTypeOK, OneAttempt, Known, ExecStates
  <2>3. CASE TargetAccepts(d)
    BY <2>3, <1>1 DEF TargetAccepts, LedgerTypeOK, OneAttempt, Known
  <2>4. CASE WriteReceipt(d) \/ \E g \in Generations : RecoverReceipt(d, g)
    <3>1. ledger[d] \in Entry /\ Known(d) /\ accepted[d] /\ ledger[d].state # "not_sent"
      BY <2>4, <1>2, EntryIsKnown DEF WriteReceipt, RecoverReceipt, SameIdentity
    <3>2. ledger'[d] = [ledger[d] EXCEPT !.receipt = TRUE]
      BY <2>4 DEF WriteReceipt, RecoverReceipt, LedgerTypeOK
    <3>3. ledger'[d] \in Entry /\ ledger'[d].state = ledger[d].state
      BY <3>1, <3>2, ZenonT(40) DEF Entry
    <3>4. /\ frames' = frames /\ accepted' = accepted /\ torn' = torn
          /\ exec'[d] \in {"idle", exec[d]}
          /\ exec' \in [Deliveries -> ExecStates]
          /\ ledger' \in [Deliveries -> Entry \cup {NoEntry}]
      BY <2>4, <3>2, <3>3 DEF WriteReceipt, RecoverReceipt, LedgerTypeOK, ExecStates
    <3> QED
      BY <1>1, <3>1, <3>3, <3>4, EntryIsKnown DEF LedgerTypeOK, OneAttempt, Known
  <2>5. CASE TearReceipt(d) \/ ExecutionLost(d)
    BY <2>5, <1>1, ZenonT(40) DEF TearReceipt, ExecutionLost, LedgerTypeOK, OneAttempt, Known, ExecStates
  <2> QED
    BY <2>1, <2>2, <2>3, <2>4, <2>5 DEF LedgerStep
<1>4. ASSUME NEW e \in Deliveries, e # d PROVE OneAttempt(e)'
  <2>1. /\ ledger'[e] = ledger[e] /\ exec'[e] = exec[e]
        /\ frames'[e] = frames[e] /\ accepted'[e] = accepted[e]
    BY <1>4 DEF LedgerStep, SendFrame, WriteNotSent, TargetAccepts, WriteReceipt, TearReceipt,
                ExecutionLost, RecoverReceipt, LedgerTypeOK
  <2> QED
    BY <1>4, <2>1, OthersKeepOneAttempt
<1> QED
  BY <1>3, <1>4

\* One step of the owner, asked anything, keeps the invariant.
LEMMA LedgerNextInv == LedgerInv /\ [LedgerNext]_ledgerVars => LedgerInv'
<1>1. ASSUME LedgerInv, LedgerNext PROVE LedgerInv'
  BY <1>1, BeginAttemptInv, LedgerStepInv DEF LedgerNext
<1>2. ASSUME LedgerInv, UNCHANGED ledgerVars PROVE LedgerInv'
  BY <1>2 DEF LedgerInv, LedgerTypeOK, OneAttempt, Known, ledgerVars
<1> QED
  BY <1>1, <1>2

\* What the invariant says of the promises.
LEMMA LedgerInvPromises == LedgerInv => AtMostOneFrame /\ EvidenceIsTrue
BY DEF LedgerInv, OneAttempt, AtMostOneFrame, EvidenceIsTrue

\* The owner's evidence keeps its form (TransportEvidence).
THEOREM LedgerTypeCorrect == LedgerSpec => []LedgerTypeOK
<1>1. LedgerInv => LedgerTypeOK
  BY DEF LedgerInv
<1> QED
  BY <1>1, LedgerInitInv, LedgerNextInv, PTL DEF LedgerSpec

\* Whatever dispatches of whatever generation reach the owner, in any order
\* and any number, and wherever it stops, one prompt frame crosses at most.
THEOREM LedgerSendsOnce == LedgerSpec => []AtMostOneFrame
BY LedgerInitInv, LedgerNextInv, LedgerInvPromises, PTL DEF LedgerSpec

\* Receipts and no-frame proofs on file are true.
THEOREM LedgerIsTruthful == LedgerSpec => []EvidenceIsTrue
BY LedgerInitInv, LedgerNextInv, LedgerInvPromises, PTL DEF LedgerSpec

-----------------------------------------------------------------------------
(* The request store and its workflows. *)

\* What a flight remembers is still true when it uses it.
FlightsInv ==
    \A d \in Deliveries :
        /\ prep[d] = "bind" => generations[d] < setting.limit[d]
        /\ disp[d].pc \in {"cross", "wait"} => disp[d].attempt # 0
        /\ deliveries[d].state = "dispatching" => deliveries[d].attempt # 0
        /\ disp[d].pc = "receipt" => accepted[d]
        /\ recon[d].pc = "receipt" => accepted[d]

\* An answer is under way only to a request that waits for one.
PendingWaits ==
    \A r \in Requests :
        Tracked(r) /\ requests[r].pending # None => requests[r].status = "awaiting_response"

StoreInv == CommittedWasAccepted /\ OneAnswer /\ DeliveredBeforeAnswered /\ PendingWaits

RequestsInv == TypeOK /\ LedgerInv /\ FlightsInv /\ StoreInv

\* One step of OutcomesAreFinal.
OutcomesKept ==
    /\ \A d \in Deliveries :
          deliveries[d].state \in {"committed", "cancelled"} => deliveries'[d] = deliveries[d]
    /\ \A r \in Requests :
          requests[r].status \in {"responded", "cancelled"} => requests'[r] = requests[r]

-----------------------------------------------------------------------------
\* The absent values are told from the present ones by their tag.
LEMMA Absent ==
    /\ \A r \in Request : r # NoRequest
    /\ \A d \in Delivery : d # NoDelivery
    /\ \A f \in Flight : f # Idle /\ f.pc # "idle"
    /\ \A f \in Recon : f # Idle /\ f.pc # "idle"
    /\ NoRequest.status = "none" /\ NoDelivery.state = "none" /\ Idle.pc = "idle"
BY DEF Request, NoRequest, Delivery, NoDelivery, Flight, Recon, Idle

\* The bounds of a setting stay within the bounds of the model.
LEMMA Limits ==
    ASSUME TypeOK, NEW d \in Deliveries
    PROVE  setting.limit[d] \in Nat /\ setting.limit[d] <= MaxGenerations /\ setting.limit[d] <= MaxAttempts
BY RequestsAssumption DEF TypeOK, Setting

LEMMA InitInv == Init => RequestsInv
<1> SUFFICES ASSUME Init PROVE RequestsInv
  OBVIOUS
<1>1. LedgerInv
  BY LedgerInitInv DEF Init
<1>2. TypeOK
  BY <1>1, RequestsAssumption, LedgerAssumption DEF Init, TypeOK, LedgerInv
<1>3. FlightsInv
  BY Absent DEF Init, FlightsInv
<1>4. StoreInv
  <2>1. /\ \A r \in Requests : ~Tracked(r)
        /\ \A d \in Deliveries : ~Tracked(Asks[d]) /\ deliveries[d].state = "none"
    BY Absent, RequestsAssumption DEF Init, Tracked
  <2> QED
    BY <2>1 DEF StoreInv, CommittedWasAccepted, OneAnswer, DeliveredBeforeAnswered, PendingWaits
<1> QED
  BY <1>1, <1>2, <1>3, <1>4 DEF RequestsInv

\* Every step of the composition is a step of the owner, asked something it may
\* be asked, or none of its business.
LEMMA StepIsLedgerStep == TypeOK /\ Next => [LedgerNext]_ledgerVars
<1> SUFFICES ASSUME TypeOK, Next PROVE [LedgerNext]_ledgerVars
  OBVIOUS
<1>1. ASSUME NEW d \in Deliveries, Arrive(d) PROVE LedgerNext
  <2>1. PICK m \in wire[d] : BeginAttempt(d, m[1], m[2])
    BY <1>1 DEF Arrive
  <2>2. m[1] \in Generations /\ m[2] \in Attempts
    BY <2>1 DEF TypeOK
  <2> QED
    BY <2>1, <2>2 DEF LedgerNext
<1>2. ASSUME NEW d \in Deliveries, ReconcileAnswered(d) PROVE [LedgerNext]_ledgerVars
  <2>1. CASE RecoverReceipt(d, recon[d].generation)
    <3>1. recon[d].generation \in Generations
      BY <1>2, Absent DEF ReconcileAnswered, TypeOK, Recon
    <3> QED
      BY <2>1, <3>1 DEF LedgerNext
  <2>2. CASE ~RecoverReceipt(d, recon[d].generation)
    BY <1>2, <2>2 DEF ReconcileAnswered
  <2> QED
    BY <2>1, <2>2
<1>3. ASSUME NEW d \in Deliveries, OwnerStep(d) PROVE LedgerNext
  BY <1>3 DEF OwnerStep, LedgerNext
<1> QED
  BY <1>1, <1>2, <1>3, ZenonT(40)
  DEF Next, Prepare, Bind, PreparationFails, Abort, AbortFails, ResumePrepared, MarkDispatching,
      Dispatch, DispatchNotSent, DispatchAnswered, DispatchEnds, DispatchCommits, DispatchReturns,
      ReconcileStart, ReconcileEnds, ReconcileCommits, ReconcileReturns, RecordResponse,
      CancelDelivery, Cancel, Stop, Start

\* Acceptance is for good.
LEMMA AcceptedStays ==
    ASSUME LedgerTypeOK, [LedgerNext]_ledgerVars, NEW d \in Deliveries, accepted[d]
    PROVE  accepted'[d]
BY DEF LedgerTypeOK, LedgerNext, LedgerStep, ledgerVars, BeginAttempt, SendFrame, WriteNotSent,
       TargetAccepts, WriteReceipt, TearReceipt, ExecutionLost, RecoverReceipt

\* The steps that write the store, each for what it does to the types.
LEMMA TypeStep == RequestsInv /\ Next /\ LedgerTypeOK' => TypeOK'
<1> SUFFICES ASSUME TypeOK, FlightsInv, Next, LedgerTypeOK' PROVE TypeOK'
  BY DEF RequestsInv
<1> USE RequestsAssumption, LedgerAssumption
<1>1. ASSUME NEW d \in Deliveries, Prepare(d) PROVE TypeOK'
  <2>1. requests' \in [Requests -> Request \cup {NoRequest}]
    BY <1>1, SMTT(40) DEF Prepare, TypeOK, Request, Tracked
  <2> QED
    BY <1>1, <2>1 DEF Prepare, TypeOK
<1>2. ASSUME NEW d \in Deliveries, Bind(d) PROVE TypeOK'
  <2>1. generations[d] + 1 \in Generations
    BY <1>2, Limits DEF Bind, FlightsInv, TypeOK, Generations
  <2>2. [state |-> "prepared", generation |-> generations[d] + 1, attempt |-> 0] \in Delivery
    BY <2>1 DEF Delivery
  <2>3. [pc |-> "verify", generation |-> generations[d] + 1, attempt |-> 0] \in Flight
    BY <2>1 DEF Flight
  <2>4. deliveries' \in [Deliveries -> Delivery \cup {NoDelivery}] /\ generations' \in [Deliveries -> 0 .. MaxGenerations]
    BY <1>2, <2>1, <2>2 DEF Bind, TypeOK, Generations
  <2>5. disp' \in [Deliveries -> Flight \cup {Idle}] /\ prep' \in [Deliveries -> {"idle", "bind", "abort"}]
    BY <1>2, <2>3, SMTT(40) DEF Bind, Launch, TypeOK
  <2> QED
    BY <1>2, <2>4, <2>5 DEF Bind, TypeOK
<1>3. ASSUME NEW d \in Deliveries, Abort(d) PROVE TypeOK'
  <2>1. requests' \in [Requests -> Request \cup {NoRequest}]
    BY <1>3 DEF Abort, TypeOK, Request, Tracked
  <2> QED
    BY <1>3, <2>1 DEF Abort, TypeOK
<1>4. ASSUME NEW d \in Deliveries, PreparationFails(d) \/ AbortFails(d) PROVE TypeOK'
  BY <1>4 DEF PreparationFails, AbortFails, TypeOK, storeVars
<1>5. ASSUME NEW d \in Deliveries, ResumePrepared(d) PROVE TypeOK'
  <2>1. [pc |-> "verify", generation |-> deliveries[d].generation, attempt |-> 0] \in Flight
    BY <1>5 DEF ResumePrepared, Active, Bound, TypeOK, Flight, Delivery
  <2> QED
    BY <1>5, <2>1 DEF ResumePrepared, Launch, storeVars, TypeOK
<1>6. ASSUME NEW d \in Deliveries, MarkDispatching(d) PROVE TypeOK'
  <2>1. attempts'[d] = attempts[d] + 1 /\ attempts'[d] \in Attempts
    BY <1>6, Limits DEF MarkDispatching, TypeOK, Attempts
  <2>2. deliveries[d] \in Delivery /\ disp[d] \in Flight
    BY <1>6, Absent DEF MarkDispatching, Active, Bound, TypeOK
  <2>3. [deliveries[d] EXCEPT !.state = "dispatching", !.attempt = attempts'[d]] \in Delivery
    BY <2>1, <2>2 DEF Delivery
  <2>4. [disp[d] EXCEPT !.pc = "cross", !.attempt = attempts'[d]] \in Flight
    BY <2>1, <2>2 DEF Flight
  <2>5. attempts' \in [Deliveries -> 0 .. MaxAttempts]
    BY <1>6, <2>1 DEF MarkDispatching, TypeOK, Attempts
  <2>6. deliveries' = [deliveries EXCEPT ![d] = [deliveries[d] EXCEPT !.state = "dispatching", !.attempt = attempts'[d]]]
    BY <1>6, ZenonT(40) DEF MarkDispatching, TypeOK
  <2>7. disp' = [disp EXCEPT ![d] = [disp[d] EXCEPT !.pc = "cross", !.attempt = attempts'[d]]]
    BY <1>6, ZenonT(40) DEF MarkDispatching, TypeOK
  <2>8. /\ deliveries' \in [Deliveries -> Delivery \cup {NoDelivery}]
        /\ disp' \in [Deliveries -> Flight \cup {Idle}]
    BY <2>3, <2>4, <2>6, <2>7 DEF TypeOK
  <2>9. disp[d] # Idle
    BY <2>2, Absent
  <2> QED
    BY <1>6, <2>5, <2>8, <2>9 DEF MarkDispatching, TypeOK
<1>7. ASSUME NEW d \in Deliveries, Dispatch(d) \/ DispatchNotSent(d) \/ DispatchAnswered(d) \/ DispatchEnds(d)
      PROVE TypeOK'
  <2>1. disp[d] # Idle => disp[d] \in Flight
    BY DEF TypeOK
  <2>2. disp[d] # Idle
    BY <1>7, Absent DEF Dispatch, DispatchNotSent, DispatchAnswered, DispatchEnds
  <2>3. disp' \in [Deliveries -> Flight \cup {Idle}]
    BY <1>7, <2>1, <2>2, SMTT(40) DEF Dispatch, DispatchNotSent, DispatchAnswered, DispatchEnds, TypeOK, Flight
  <2>4. wire' \in [Deliveries -> SUBSET (Generations \X Attempts)]
    <3>1. CASE Dispatch(d)
      <4>1. disp[d].generation \in Generations /\ disp[d].attempt \in Attempts
        BY <3>1, <2>1, <2>2 DEF Dispatch, Flight, FlightsInv
      <4> QED
        BY <3>1, <4>1 DEF Dispatch, TypeOK
    <3> QED
      BY <1>7, <3>1 DEF DispatchNotSent, DispatchAnswered, DispatchEnds, TypeOK
  <2> QED
    BY <1>7, <2>2, <2>3, <2>4 DEF Dispatch, DispatchNotSent, DispatchAnswered, DispatchEnds, storeVars, TypeOK
<1>8. ASSUME NEW d \in Deliveries, NEW g \in Generations, CommitEndpointReceipt(d, g)
      PROVE  /\ requests' \in [Requests -> Request \cup {NoRequest}]
             /\ deliveries' \in [Deliveries -> Delivery \cup {NoDelivery}]
  <2>1. deliveries[d] \in Delivery
    BY <1>8 DEF CommitEndpointReceipt, Active, Bound, TypeOK
  <2>2. CASE deliveries[d].state = "committed"
    BY <1>8, <2>2 DEF CommitEndpointReceipt, storeVars, TypeOK
  <2>3. CASE deliveries[d].state # "committed"
    <3>1. deliveries' \in [Deliveries -> Delivery \cup {NoDelivery}]
      BY <1>8, <2>1, <2>3 DEF CommitEndpointReceipt, TypeOK, Delivery
    <3>2. ASSUME NEW r \in Requests, requests[r].status = "pending_delivery"
          PROVE  [requests[r] EXCEPT !.status = "awaiting_response"] \in Request
      BY <3>2, Absent DEF TypeOK, Request
    <3>3. [status |-> "responded", pending |-> None, response |-> d] \in Request
      BY DEF Request
    <3> QED
      BY <1>8, <2>3, <3>1, <3>2, <3>3, SMTT(40) DEF CommitEndpointReceipt, TypeOK
  <2> QED
    BY <2>2, <2>3
<1>9. ASSUME NEW d \in Deliveries, NEW g, NEW a, MarkNotSent(d, g, a)
      PROVE  /\ requests' \in [Requests -> Request \cup {NoRequest}]
             /\ deliveries' \in [Deliveries -> Delivery \cup {NoDelivery}]
  BY <1>9, SMTT(40) DEF MarkNotSent, Bound, TypeOK, Delivery
<1>10. ASSUME NEW d \in Deliveries, DispatchCommits(d) \/ DispatchReturns(d) PROVE TypeOK'
  <2>1. disp[d] # Idle /\ disp[d].generation \in Generations
    BY <1>10, Absent DEF DispatchCommits, DispatchReturns, TypeOK, Flight
  <2>2. disp' \in [Deliveries -> Flight \cup {Idle}]
    BY <1>10 DEF DispatchCommits, DispatchReturns, TypeOK
  <2>3. /\ requests' \in [Requests -> Request \cup {NoRequest}]
        /\ deliveries' \in [Deliveries -> Delivery \cup {NoDelivery}]
    BY <1>8, <1>9, <1>10, <2>1 DEF DispatchCommits, DispatchReturns
  <2> QED
    BY <1>10, <2>1, <2>2, <2>3 DEF DispatchCommits, DispatchReturns, TypeOK
<1>11. ASSUME NEW d \in Deliveries, NEW receiptOnly \in BOOLEAN, ReconcileStart(d, receiptOnly) PROVE TypeOK'
  <2>1. deliveries[d] \in Delivery /\ deliveries[d].attempt \in Attempts
    BY <1>11 DEF ReconcileStart, Active, Bound, TypeOK, Delivery, FlightsInv
  <2>2. [pc |-> "query", generation |-> deliveries[d].generation, attempt |-> deliveries[d].attempt,
         receiptOnly |-> receiptOnly] \in Recon
    BY <2>1 DEF Delivery, Recon
  <2> QED
    BY <1>11, <2>2 DEF ReconcileStart, storeVars, TypeOK
<1>12. ASSUME NEW d \in Deliveries, ReconcileAnswered(d) \/ ReconcileEnds(d) PROVE TypeOK'
  <2>1. recon[d] # Idle /\ recon[d] \in Recon
    BY <1>12, Absent DEF ReconcileAnswered, ReconcileEnds, TypeOK
  <2>2. recon' \in [Deliveries -> Recon \cup {Idle}]
    BY <1>12, <2>1 DEF ReconcileAnswered, ReconcileEnds, TypeOK, Recon
  <2> QED
    BY <1>12, <2>1, <2>2 DEF ReconcileAnswered, ReconcileEnds, storeVars, TypeOK
<1>13. ASSUME NEW d \in Deliveries, ReconcileCommits(d) \/ ReconcileReturns(d) PROVE TypeOK'
  <2>1. recon[d] # Idle /\ recon[d].generation \in Generations
    BY <1>13, Absent DEF ReconcileCommits, ReconcileReturns, TypeOK, Recon
  <2>2. recon' \in [Deliveries -> Recon \cup {Idle}]
    BY <1>13 DEF ReconcileCommits, ReconcileReturns, TypeOK
  <2>3. /\ requests' \in [Requests -> Request \cup {NoRequest}]
        /\ deliveries' \in [Deliveries -> Delivery \cup {NoDelivery}]
    BY <1>8, <1>9, <1>13, <2>1 DEF ReconcileCommits, ReconcileReturns
  <2> QED
    BY <1>13, <2>1, <2>2, <2>3 DEF ReconcileCommits, ReconcileReturns, TypeOK
<1>14. ASSUME NEW d \in Deliveries, RecordResponse(d) PROVE TypeOK'
  <2>1. Answers[d] \in Requests /\ requests[Answers[d]] \in Request
    BY <1>14 DEF RecordResponse, Tracked, TypeOK
  <2>2. [requests[Answers[d]] EXCEPT !.status = "responded", !.response = d] \in Request
    BY <2>1 DEF Request
  <2> QED
    BY <1>14, <2>1, <2>2 DEF RecordResponse, flightVars, TypeOK
<1>15. ASSUME NEW r \in Requests, Tracked(r), CancelOpen(r)
       PROVE  /\ requests' \in [Requests -> Request \cup {NoRequest}]
              /\ deliveries' \in [Deliveries -> Delivery \cup {NoDelivery}]
  <2>0. requests[r] \in Request
    BY <1>15 DEF Tracked, TypeOK
  <2>1. [requests[r] EXCEPT !.status = "cancelled", !.pending = None] \in Request
    BY <2>0 DEF Request
  <2>2. ASSUME NEW d \in Deliveries, deliveries[d].state \in {"prepared", "dispatching"}
        PROVE  [deliveries[d] EXCEPT !.state = "cancelled"] \in Delivery
    BY <2>2, Absent DEF TypeOK, Delivery
  <2> QED
    BY <1>15, <2>1, <2>2 DEF CancelOpen, TypeOK
<1>16. ASSUME NEW r \in Requests, Cancel(r) PROVE TypeOK'
  BY <1>15, <1>16 DEF Cancel, flightVars, TypeOK
<1>17. ASSUME NEW d \in Deliveries, CancelDelivery(d) PROVE TypeOK'
  <2>1. [deliveries[d] EXCEPT !.state = "cancelled"] \in Delivery
    BY <1>17, Absent, SMTT(40) DEF CancelDelivery, TypeOK, Delivery
  <2>2. /\ requests' \in [Requests -> Request \cup {NoRequest}]
        /\ deliveries' \in [Deliveries -> Delivery \cup {NoDelivery}]
    BY <1>15, <1>17, <2>1, SMTT(40) DEF CancelDelivery, Tracked, TypeOK
  <2> QED
    BY <1>17, <2>2 DEF CancelDelivery, flightVars, TypeOK
<1>18. ASSUME NEW d \in Deliveries, Arrive(d) \/ OwnerStep(d) PROVE TypeOK'
  BY <1>18 DEF Arrive, OwnerStep, storeVars, flightVars, TypeOK
<1>19. CASE Stop
  <2>1. stops' \in 0 .. MaxStops
    BY <1>19 DEF Stop, TypeOK
  <2>2. /\ prep' \in [Deliveries -> {"idle", "bind", "abort"}]
        /\ disp' \in [Deliveries -> Flight \cup {Idle}]
        /\ recon' \in [Deliveries -> Recon \cup {Idle}]
        /\ \A d \in Deliveries : prep'[d] = "idle" /\ disp'[d] = Idle /\ recon'[d] = Idle
    BY <1>19 DEF Stop
  <2>3. up' \in BOOLEAN
    BY <1>19 DEF Stop
  <2> QED
    BY <1>19, <2>1, <2>2, <2>3 DEF Stop, storeVars, TypeOK
<1>20. CASE Start
  BY <1>20 DEF Start, storeVars, flightVars, TypeOK
<1> QED
  BY <1>1, <1>2, <1>3, <1>4, <1>5, <1>6, <1>7, <1>10, <1>11, <1>12, <1>13, <1>14, <1>16, <1>17, <1>18, <1>19, <1>20
  DEF Next

\* The mutations of the store, freed from the flights that ask for them.
NotSent(d) == MarkNotSent(d, deliveries[d].generation, deliveries[d].attempt)
Commit(d) == CommitEndpointReceipt(d, deliveries[d].generation) /\ accepted[d]
CancelAlone(d) ==
    /\ deliveries[d].state \in {"prepared", "dispatching"}
    /\ (Asks[d] = None /\ Tracked(Answers[d]) /\ requests[Answers[d]].pending = d) => ~Open(Answers[d])
    /\ deliveries' = [deliveries EXCEPT ![d].state = "cancelled"]
    /\ UNCHANGED requests

\* Every step leaves the store alone or is one of its mutations; a commit has
\* the target's acceptance behind it.
LEMMA StoreOperation ==
    ASSUME TypeOK, FlightsInv, Next
    PROVE  \/ UNCHANGED storeVars
           \/ \E d \in Deliveries :
                 \/ Prepare(d) \/ Bind(d) \/ Abort(d) \/ MarkDispatching(d)
                 \/ NotSent(d) \/ Commit(d) \/ RecordResponse(d) \/ CancelAlone(d)
           \/ \E r \in Requests : Tracked(r) /\ Open(r) /\ CancelOpen(r)
<1>1. ASSUME NEW d \in Deliveries, DispatchReturns(d) \/ ReconcileReturns(d) PROVE NotSent(d)
  BY <1>1 DEF DispatchReturns, ReconcileReturns, NotSent, MarkNotSent
<1>2. ASSUME NEW d \in Deliveries, DispatchCommits(d) \/ ReconcileCommits(d) PROVE Commit(d)
  BY <1>2 DEF DispatchCommits, ReconcileCommits, Commit, CommitEndpointReceipt, FlightsInv
<1>3. ASSUME NEW d \in Deliveries, CancelDelivery(d)
      PROVE  CancelAlone(d) \/ \E r \in Requests : Tracked(r) /\ Open(r) /\ CancelOpen(r)
  BY <1>3, RequestsAssumption DEF CancelDelivery, CancelAlone, Tracked
<1>4. ASSUME NEW r \in Requests, Cancel(r) PROVE Tracked(r) /\ Open(r) /\ CancelOpen(r)
  BY <1>4 DEF Cancel
<1> QED
  BY <1>1, <1>2, <1>3, <1>4
  DEF Next, PreparationFails, AbortFails, ResumePrepared, Dispatch, DispatchNotSent, DispatchAnswered,
      DispatchEnds, ReconcileStart, ReconcileAnswered, ReconcileEnds, Arrive, OwnerStep, Stop, Start, storeVars

\* What the surroundings are like never changes.
LEMMA SettingIsFixed == Next => setting' = setting
<1>1. ASSUME NEW d \in Deliveries,
             \/ Prepare(d) \/ Bind(d) \/ PreparationFails(d) \/ Abort(d) \/ AbortFails(d)
             \/ ResumePrepared(d) \/ MarkDispatching(d) \/ Dispatch(d) \/ DispatchNotSent(d)
      PROVE  setting' = setting
  BY <1>1 DEF Prepare, Bind, PreparationFails, Abort, AbortFails, ResumePrepared, MarkDispatching,
      Dispatch, DispatchNotSent
<1>2. ASSUME NEW d \in Deliveries,
             \/ DispatchAnswered(d) \/ DispatchEnds(d) \/ DispatchCommits(d) \/ DispatchReturns(d)
             \/ \E receiptOnly \in BOOLEAN : ReconcileStart(d, receiptOnly)
             \/ ReconcileAnswered(d) \/ ReconcileEnds(d) \/ ReconcileCommits(d) \/ ReconcileReturns(d)
      PROVE  setting' = setting
  BY <1>2 DEF DispatchAnswered, DispatchEnds, DispatchCommits, DispatchReturns,
      ReconcileStart, ReconcileAnswered, ReconcileEnds, ReconcileCommits, ReconcileReturns
<1>3. ASSUME NEW d \in Deliveries,
             RecordResponse(d) \/ CancelDelivery(d) \/ Arrive(d) \/ OwnerStep(d)
      PROVE  setting' = setting
  BY <1>3 DEF RecordResponse, CancelDelivery, Arrive, OwnerStep
<1>4. ASSUME (\E r \in Requests : Cancel(r)) \/ Stop \/ Start PROVE setting' = setting
  BY <1>4 DEF Cancel, Stop, Start
<1> QED
  BY <1>1, <1>2, <1>3, <1>4 DEF Next

\* What the flights remember stays true: limits are fixed, tokens are fresh,
\* and an answer that was a receipt was a true one.
LEMMA FlightsStep == RequestsInv /\ Next /\ TypeOK' => FlightsInv'
<1> SUFFICES ASSUME RequestsInv, Next, TypeOK', NEW e \in Deliveries
             PROVE  /\ prep'[e] = "bind" => generations'[e] < setting'.limit[e]
                    /\ disp'[e].pc \in {"cross", "wait"} => disp'[e].attempt # 0
                    /\ deliveries'[e].state = "dispatching" => deliveries'[e].attempt # 0
                    /\ disp'[e].pc = "receipt" => accepted'[e]
                    /\ recon'[e].pc = "receipt" => accepted'[e]
  BY DEF FlightsInv
<1>1. /\ prep[e] = "bind" => generations[e] < setting.limit[e]
      /\ disp[e].pc \in {"cross", "wait"} => disp[e].attempt # 0
      /\ deliveries[e].state = "dispatching" => deliveries[e].attempt # 0
      /\ disp[e].pc = "receipt" => accepted[e]
      /\ recon[e].pc = "receipt" => accepted[e]
      /\ TypeOK
  BY DEF RequestsInv, FlightsInv
<1>2. accepted[e] => accepted'[e]
  BY AcceptedStays, StepIsLedgerStep DEF RequestsInv, TypeOK
<1>3. setting' = setting
  BY SettingIsFixed
<1>4. prep'[e] = "bind" => generations'[e] < setting'.limit[e]
  <2>1. CASE prep' = prep /\ generations' = generations
    BY <2>1, <1>1, <1>3
  <2>2. ASSUME NEW d \in Deliveries, Prepare(d) PROVE prep'[e] = "bind" => generations'[e] < setting'.limit[e]
    BY <2>2, <1>1, <1>3 DEF Prepare, TypeOK
  <2>3. ASSUME NEW d \in Deliveries, Bind(d) PROVE prep'[e] = "bind" => generations'[e] < setting'.limit[e]
    BY <2>3, <1>1, <1>3 DEF Bind, TypeOK
  <2>4. ASSUME NEW d \in Deliveries, PreparationFails(d) \/ Abort(d) \/ AbortFails(d)
        PROVE prep'[e] = "bind" => generations'[e] < setting'.limit[e]
    BY <2>4, <1>1, <1>3 DEF PreparationFails, Abort, AbortFails, TypeOK
  <2>5. CASE Stop
    BY <2>5 DEF Stop
  <2> QED
    BY <2>1, <2>2, <2>3, <2>4, <2>5, ZenonT(40)
    DEF Next, ResumePrepared, MarkDispatching,
      Dispatch, DispatchNotSent, DispatchAnswered, DispatchEnds, DispatchCommits, DispatchReturns,
      ReconcileStart, ReconcileAnswered, ReconcileEnds, ReconcileCommits, ReconcileReturns, RecordResponse,
      CancelDelivery, Cancel, Arrive, OwnerStep, Start, flightVars
<1>5. /\ disp'[e].pc \in {"cross", "wait"} => disp'[e].attempt # 0
      /\ disp'[e].pc = "receipt" => accepted'[e]
  <2> DEFINE Kept == /\ disp'[e].pc \in {"cross", "wait"} => disp'[e].attempt # 0
                     /\ disp'[e].pc = "receipt" => accepted'[e]
  <2>1. CASE disp'[e] = disp[e]
    BY <2>1, <1>1, <1>2
  <2>2. CASE disp'[e] = Idle
    BY <2>2, Absent
  <2>3. ASSUME NEW d \in Deliveries, NEW x \in {deliveries[d], deliveries'[d]}, Launch(d, x) PROVE Kept
    <3>1. CASE disp'[e] = [pc |-> "verify", generation |-> x.generation, attempt |-> 0]
      BY <3>1
    <3> QED
      BY <2>1, <2>3, <3>1, <1>1 DEF Launch, TypeOK
  <2>4. ASSUME NEW d \in Deliveries, MarkDispatching(d) PROVE Kept
    <3>1. d # e => disp'[e] = disp[e]
      BY <2>4, <1>1 DEF MarkDispatching, TypeOK
    <3>2. CASE d = e
      <4>1. disp[d] \in Flight /\ attempts'[d] # 0
        BY <2>4, <1>1, Absent DEF MarkDispatching, TypeOK
      <4>2. disp'[d] = [disp[d] EXCEPT !.pc = "cross", !.attempt = attempts'[d]]
        BY <2>4, <1>1 DEF MarkDispatching, TypeOK
      <4> QED
        BY <4>1, <4>2, <3>2 DEF Flight
    <3> QED
      BY <3>1, <3>2, <2>1
  <2>5. ASSUME NEW d \in Deliveries, Dispatch(d) \/ DispatchNotSent(d) \/ DispatchAnswered(d) PROVE Kept
    <3>1. d # e => disp'[e] = disp[e]
      BY <2>5, <1>1 DEF Dispatch, DispatchNotSent, DispatchAnswered, TypeOK
    <3>2. CASE d = e
      <4>1. disp[d] \in Flight
        BY <2>5, <1>1, Absent DEF Dispatch, DispatchNotSent, DispatchAnswered, TypeOK
      <4>2. HasReceipt(d, disp[d].generation) => accepted[d]
        BY DEF HasReceipt, SameIdentity, RequestsInv, LedgerInv, OneAttempt
      <4> QED
        BY <4>1, <4>2, <3>2, <2>5, <1>1, <1>2 DEF Dispatch, DispatchNotSent, DispatchAnswered, TypeOK, Flight
    <3> QED
      BY <3>1, <3>2, <2>1
  <2>6. ASSUME NEW d \in Deliveries, DispatchEnds(d) \/ DispatchCommits(d) \/ DispatchReturns(d) PROVE Kept
    BY <2>6, <2>1, <2>2, <1>1 DEF DispatchEnds, DispatchCommits, DispatchReturns, TypeOK
  <2>7. CASE Stop
    BY <2>7, <2>2 DEF Stop
  <2>8. ASSUME NEW d \in Deliveries, Bind(d) PROVE Kept
    <3> DEFINE x == [state |-> "prepared", generation |-> generations[d] + 1, attempt |-> 0]
    <3>1. deliveries'[d] = x
      BY <2>8, <1>1 DEF Bind, TypeOK
    <3> QED
      BY <2>8, <3>1, <2>1, <2>3 DEF Bind
  <2>9. ASSUME NEW d \in Deliveries, ResumePrepared(d) PROVE Kept
    BY <2>9, <2>3 DEF ResumePrepared
  <2> QED
    BY <2>1, <2>4, <2>5, <2>6, <2>7, <2>8, <2>9, ZenonT(40)
    DEF Next, Prepare, PreparationFails, Abort, AbortFails,
      ReconcileStart, ReconcileAnswered, ReconcileEnds, ReconcileCommits, ReconcileReturns, RecordResponse,
      CancelDelivery, Cancel, Arrive, OwnerStep, Start, flightVars
<1>6. deliveries'[e].state = "dispatching" => deliveries'[e].attempt # 0
  <2> DEFINE Kept == deliveries'[e].state = "dispatching" => deliveries'[e].attempt # 0
  <2>1. CASE deliveries'[e] = deliveries[e]
    BY <2>1, <1>1
  <2>2. ASSUME NEW d \in Deliveries, MarkDispatching(d) PROVE Kept
    <3>1. d # e => deliveries'[e] = deliveries[e]
      BY <2>2, <1>1 DEF MarkDispatching, TypeOK
    <3>2. CASE d = e
      <4>1. deliveries[d] \in Delivery /\ attempts'[d] # 0
        BY <2>2, <1>1 DEF MarkDispatching, Active, Bound, TypeOK
      <4>2. deliveries'[d] = [deliveries[d] EXCEPT !.state = "dispatching", !.attempt = attempts'[d]]
        BY <2>2, <1>1 DEF MarkDispatching, TypeOK
      <4> QED
        BY <4>1, <4>2, <3>2 DEF Delivery
    <3> QED
      BY <3>1, <3>2, <2>1
  <2>3. ASSUME NEW d \in Deliveries, Bind(d) \/ Abort(d) PROVE Kept
    BY <2>3, <2>1, <1>1, Absent DEF Bind, Abort, TypeOK
  <2>4. ASSUME NEW d \in Deliveries, NotSent(d) \/ Commit(d) PROVE Kept
    <3>1. deliveries[d] \in Delivery
      BY <2>4, <1>1 DEF NotSent, Commit, CommitEndpointReceipt, Active, MarkNotSent, Bound, TypeOK
    <3> QED
      BY <2>4, <2>1, <3>1, <1>1 DEF NotSent, Commit, CommitEndpointReceipt, MarkNotSent, TypeOK, Delivery, storeVars
  <2>5. ASSUME NEW r \in Requests, CancelOpen(r) PROVE Kept
    <3>1. CASE deliveries[e].state \in {"prepared", "dispatching"}
      <4>1. deliveries[e] \in Delivery
        BY <3>1, <1>1, Absent DEF TypeOK
      <4> QED
        BY <2>5, <2>1, <4>1 DEF CancelOpen, Delivery
    <3> QED
      BY <2>5, <2>1, <3>1 DEF CancelOpen
  <2>6. ASSUME NEW d \in Deliveries, CancelAlone(d) PROVE Kept
    <3>1. deliveries[d] \in Delivery
      BY <2>6, <1>1, Absent DEF CancelAlone, TypeOK
    <3> QED
      BY <2>6, <2>1, <3>1, <1>1 DEF CancelAlone, TypeOK, Delivery
  <2>7. ASSUME NEW d \in Deliveries, Prepare(d) \/ RecordResponse(d) PROVE Kept
    BY <2>7, <2>1 DEF Prepare, RecordResponse
  <2>8. CASE UNCHANGED storeVars
    BY <2>8, <2>1 DEF storeVars
  <2> QED
    BY <2>2, <2>3, <2>4, <2>5, <2>6, <2>7, <2>8, <1>1, StoreOperation DEF RequestsInv, FlightsInv
<1>7. recon'[e].pc = "receipt" => accepted'[e]
  <2> DEFINE Kept == recon'[e].pc = "receipt" => accepted'[e]
  <2>1. CASE recon'[e] = recon[e]
    BY <2>1, <1>1, <1>2
  <2>2. CASE recon'[e] = Idle
    BY <2>2, Absent
  <2>3. ASSUME NEW d \in Deliveries, NEW receiptOnly \in BOOLEAN, ReconcileStart(d, receiptOnly) PROVE Kept
    BY <2>3, <2>1, <1>1 DEF ReconcileStart, TypeOK
  <2>4. ASSUME NEW d \in Deliveries, ReconcileAnswered(d) PROVE Kept
    <3>1. d # e => recon'[e] = recon[e]
      BY <2>4, <1>1 DEF ReconcileAnswered, TypeOK
    <3>2. CASE d = e
      <4>1. recon[d] \in Recon
        BY <2>4, <1>1, Absent DEF ReconcileAnswered, TypeOK
      <4>2. HasReceipt(d, recon[d].generation) => accepted[d]
        BY DEF HasReceipt, SameIdentity, RequestsInv, LedgerInv, OneAttempt
      <4>3. RecoverReceipt(d, recon[d].generation) => accepted[d]
        BY DEF RecoverReceipt
      <4> QED
        BY <4>1, <4>2, <4>3, <3>2, <2>4, <1>1, <1>2 DEF ReconcileAnswered, TypeOK, Recon
    <3> QED
      BY <3>1, <3>2, <2>1
  <2>5. ASSUME NEW d \in Deliveries, ReconcileEnds(d) \/ ReconcileCommits(d) \/ ReconcileReturns(d) PROVE Kept
    BY <2>5, <2>1, <2>2, <1>1 DEF ReconcileEnds, ReconcileCommits, ReconcileReturns, TypeOK
  <2>6. CASE Stop
    BY <2>6, <2>2 DEF Stop
  <2> QED
    BY <2>1, <2>3, <2>4, <2>5, <2>6, ZenonT(40)
    DEF Next, Prepare, Bind, PreparationFails, Abort, AbortFails, ResumePrepared, MarkDispatching,
      Dispatch, DispatchNotSent, DispatchAnswered, DispatchEnds, DispatchCommits, DispatchReturns,
      RecordResponse, CancelDelivery, Cancel, Arrive, OwnerStep, Start, flightVars
<1> QED
  BY <1>4, <1>5, <1>6, <1>7

-----------------------------------------------------------------------------
\* All that a mutation may do to one request ...
RequestMove(r) ==
    \/ requests'[r] = requests[r]
    \/ /\ requests[r] = NoRequest
       /\ requests'[r] = [status |-> "pending_delivery", pending |-> None, response |-> None]
    \/ /\ requests[r].status = "pending_delivery"
       /\ requests'[r] = NoRequest
    \/ /\ requests[r].status = "awaiting_response" /\ requests'[r].status = "awaiting_response"
       /\ requests'[r].response = requests[r].response
    \/ /\ requests[r].status = "pending_delivery" /\ requests'[r].status = "awaiting_response"
       /\ requests'[r].response = requests[r].response
       /\ \A d \in Deliveries : Asks[d] = r => accepted[d]
    \/ /\ requests[r].status = "awaiting_response" /\ requests'[r].status = "responded"
       /\ requests'[r].pending = None
       /\ \/ r \in setting.connections
          \/ \E d \in Deliveries : requests'[r].response = d /\ deliveries'[d].state = "committed"
    \/ /\ Open(r) /\ requests'[r].status = "cancelled"
       /\ requests'[r].pending = None
       /\ requests'[r].response = requests[r].response

\* ... and to one delivery.
DeliveryMove(d) ==
    \/ deliveries'[d] = deliveries[d]
    \/ deliveries[d].state \notin {"committed", "cancelled"} /\ deliveries'[d].state # "committed"
    \/ /\ deliveries[d].state = "dispatching" /\ deliveries'[d].state = "committed"
       /\ accepted[d]
       /\ Answers[d] # None => /\ requests'[Answers[d]].status = "responded"
                               /\ requests'[Answers[d]].response = d

StoreMoves ==
    /\ \A r \in Requests : RequestMove(r)
    /\ \A d \in Deliveries : DeliveryMove(d)

\* Every mutation makes only such moves.
LEMMA StepMoves == RequestsInv /\ Next => StoreMoves
<1> SUFFICES ASSUME RequestsInv, Next PROVE StoreMoves
  OBVIOUS
<1>0. TypeOK /\ FlightsInv /\ PendingWaits
  BY DEF RequestsInv, StoreInv
<1> USE RequestsAssumption
<1>1. CASE UNCHANGED storeVars
  BY <1>1 DEF StoreMoves, RequestMove, DeliveryMove, storeVars
<1>2. ASSUME NEW d \in Deliveries, Prepare(d) PROVE StoreMoves
  <2>1. \A x \in Deliveries : DeliveryMove(x)
    BY <1>2 DEF Prepare, DeliveryMove
  <2>2. ASSUME NEW r \in Requests PROVE RequestMove(r)
    <3>1. CASE r = Asks[d]
      BY <1>0, <1>2, <3>1 DEF Prepare, Reserved, Tracked, RequestMove
    <3>2. CASE r # Asks[d] /\ r = Answers[d]
      <4>1. requests[r] \in Request
        BY <1>0, <1>2, <3>2 DEF Prepare, Tracked, TypeOK
      <4> QED
        BY <1>2, <3>2, <4>1 DEF Prepare, RequestMove, Request
    <3>3. CASE r # Asks[d] /\ r # Answers[d]
      BY <1>2, <3>3 DEF Prepare, RequestMove
    <3> QED
      BY <3>1, <3>2, <3>3
  <2> QED
    BY <2>1, <2>2 DEF StoreMoves
<1>3. ASSUME NEW d \in Deliveries, Bind(d) PROVE StoreMoves
  <2>1. ASSUME NEW x \in Deliveries PROVE DeliveryMove(x)
    BY <1>0, <1>3, Absent DEF Bind, Bound, DeliveryMove, TypeOK
  <2> QED
    BY <1>3, <2>1 DEF StoreMoves, Bind, RequestMove
<1>4. ASSUME NEW d \in Deliveries, Abort(d) PROVE StoreMoves
  <2>1. ASSUME NEW x \in Deliveries PROVE DeliveryMove(x)
    BY <1>0, <1>4, Absent DEF Abort, Bound, DeliveryMove, TypeOK
  <2>2. ASSUME NEW r \in Requests PROVE RequestMove(r)
    <3>1. CASE r = Answers[d] /\ Tracked(r) /\ requests[r].pending = d
      <4>1. requests[r] \in Request /\ requests[r].status = "awaiting_response"
        BY <1>0, <3>1 DEF PendingWaits, Tracked, TypeOK
      <4> QED
        BY <1>4, <3>1, <4>1 DEF Abort, RequestMove, Request
    <3> QED
      BY <1>4, <3>1 DEF Abort, RequestMove
  <2> QED
    BY <2>1, <2>2 DEF StoreMoves
<1>5. ASSUME NEW d \in Deliveries, MarkDispatching(d) \/ NotSent(d) \/ CancelAlone(d) PROVE StoreMoves
  <2>1. deliveries[d] \in Delivery /\ deliveries[d].state \notin {"committed", "cancelled"}
    BY <1>0, <1>5, Absent DEF MarkDispatching, NotSent, MarkNotSent, CancelAlone, Active, Bound, TypeOK
  <2>2. deliveries'[d].state # "committed" /\ requests' = requests
        /\ \A x \in Deliveries : x # d => deliveries'[x] = deliveries[x]
    BY <1>0, <1>5, <2>1 DEF MarkDispatching, NotSent, MarkNotSent, CancelAlone, TypeOK, Delivery
  <2> QED
    BY <2>1, <2>2 DEF StoreMoves, RequestMove, DeliveryMove
<1>6. ASSUME NEW d \in Deliveries, Commit(d), deliveries[d].state # "committed" PROVE StoreMoves
  <2>1. /\ deliveries[d] \in Delivery /\ deliveries[d].state = "dispatching" /\ accepted[d]
        /\ Answers[d] # None => /\ requests[Answers[d]] \in Request
                                /\ requests[Answers[d]].status = "awaiting_response"
    BY <1>0, <1>6 DEF Commit, CommitEndpointReceipt, Active, RequestsAllow, Bound, Tracked, PendingWaits, TypeOK
  <2>2. /\ deliveries'[d].state = "committed"
        /\ \A x \in Deliveries : x # d => deliveries'[x] = deliveries[x]
    BY <1>0, <1>6, <2>1 DEF Commit, CommitEndpointReceipt, TypeOK, Delivery
  <2>3. ASSUME NEW r \in Requests PROVE RequestMove(r)
    <3>1. CASE r = Answers[d]
      BY <1>6, <2>1, <2>2, <3>1 DEF Commit, CommitEndpointReceipt, RequestMove
    <3>2. CASE r # Answers[d] /\ r = Asks[d] /\ requests[r].status = "pending_delivery"
      <4>1. requests[r] \in Request
        BY <1>0, <3>2, Absent DEF TypeOK
      <4>2. requests'[r] = [requests[r] EXCEPT !.status = "awaiting_response"]
        BY <1>6, <3>2 DEF Commit, CommitEndpointReceipt
      <4>3. requests'[r].status = "awaiting_response" /\ requests'[r].response = requests[r].response
        BY <4>1, <4>2 DEF Request
      <4>4. \A x \in Deliveries : Asks[x] = r => accepted[x]
        BY <2>1, <3>2
      <4> QED
        BY <3>2, <4>3, <4>4 DEF RequestMove
    <3>3. CASE r # Answers[d] /\ ~(r = Asks[d] /\ requests[r].status = "pending_delivery")
      BY <1>6, <3>3 DEF Commit, CommitEndpointReceipt, RequestMove
    <3> QED
      BY <3>1, <3>2, <3>3
  <2>4. Answers[d] # None => /\ requests'[Answers[d]].status = "responded"
                             /\ requests'[Answers[d]].response = d
    BY <1>6 DEF Commit, CommitEndpointReceipt
  <2> QED
    BY <2>1, <2>2, <2>3, <2>4 DEF StoreMoves, DeliveryMove
<1>7. ASSUME NEW d \in Deliveries, Commit(d), deliveries[d].state = "committed" PROVE StoreMoves
  BY <1>7, <1>1 DEF Commit, CommitEndpointReceipt
<1>8. ASSUME NEW d \in Deliveries, RecordResponse(d) PROVE StoreMoves
  <2>1. Answers[d] \in Requests /\ requests[Answers[d]] \in Request
    BY <1>0, <1>8 DEF RecordResponse, Tracked, TypeOK
  <2>2. requests'[Answers[d]].status = "responded" /\ requests'[Answers[d]].pending = None
    BY <1>0, <1>8, <2>1 DEF RecordResponse, TypeOK, Request
  <2>3. ASSUME NEW r \in Requests PROVE RequestMove(r)
    BY <1>0, <1>8, <2>1, <2>2 DEF RecordResponse, RequestMove, TypeOK
  <2> QED
    BY <1>8, <2>3 DEF StoreMoves, RecordResponse, DeliveryMove
<1>9. ASSUME NEW r \in Requests, Tracked(r), Open(r), CancelOpen(r) PROVE StoreMoves
  <2>1. requests[r] \in Request
    BY <1>0, <1>9 DEF Tracked, TypeOK
  <2>2. /\ requests'[r].status = "cancelled" /\ requests'[r].pending = None
        /\ requests'[r].response = requests[r].response
    BY <1>0, <1>9, <2>1 DEF CancelOpen, TypeOK, Request
  <2>3. ASSUME NEW q \in Requests PROVE RequestMove(q)
    BY <1>0, <1>9, <2>2 DEF CancelOpen, RequestMove, TypeOK
  <2>4. ASSUME NEW d \in Deliveries PROVE DeliveryMove(d)
    <3>1. CASE deliveries[d].state \in {"prepared", "dispatching"}
      <4>1. deliveries[d] \in Delivery
        BY <1>0, <3>1, Absent DEF TypeOK
      <4> QED
        BY <1>9, <3>1, <4>1 DEF CancelOpen, DeliveryMove, Delivery
    <3> QED
      BY <1>9, <3>1 DEF CancelOpen, DeliveryMove
  <2> QED
    BY <2>3, <2>4 DEF StoreMoves
<1> QED
  BY <1>0, <1>1, <1>2, <1>3, <1>4, <1>5, <1>6, <1>7, <1>8, <1>9, StoreOperation

\* Such moves never touch a settled outcome.
LEMMA MovesKeepOutcomes == StoreMoves => OutcomesKept
<1> SUFFICES ASSUME StoreMoves PROVE OutcomesKept
  OBVIOUS
<1>1. ASSUME NEW r \in Requests, requests[r].status \in {"responded", "cancelled"} PROVE requests'[r] = requests[r]
  BY <1>1, Absent DEF StoreMoves, RequestMove, Open
<1>2. ASSUME NEW d \in Deliveries, deliveries[d].state \in {"committed", "cancelled"} PROVE deliveries'[d] = deliveries[d]
  BY <1>2 DEF StoreMoves, DeliveryMove
<1> QED
  BY <1>1, <1>2 DEF OutcomesKept

\* Such moves keep what the store says true.
LEMMA StoreStep == RequestsInv /\ Next /\ TypeOK' => StoreInv'
<1> SUFFICES ASSUME RequestsInv, Next, TypeOK' PROVE StoreInv'
  OBVIOUS
<1>1. StoreMoves /\ OutcomesKept
  BY StepMoves, MovesKeepOutcomes
<1>2. \A d \in Deliveries : accepted[d] => accepted'[d]
  BY AcceptedStays, StepIsLedgerStep DEF RequestsInv, TypeOK
<1>3. setting' = setting
  BY SettingIsFixed
<1>4. CommittedWasAccepted /\ OneAnswer /\ DeliveredBeforeAnswered /\ PendingWaits
  BY DEF RequestsInv, StoreInv
<1>5. CommittedWasAccepted'
  BY <1>1, <1>2, <1>4 DEF StoreMoves, DeliveryMove, CommittedWasAccepted
<1>6. PendingWaits'
  <2> SUFFICES ASSUME NEW r \in Requests, Tracked(r)', requests'[r].pending # None
               PROVE  requests'[r].status = "awaiting_response"
    BY DEF PendingWaits
  <2>1. RequestMove(r)
    BY <1>1 DEF StoreMoves
  <2> QED
    BY <2>1, <1>4 DEF RequestMove, PendingWaits, Tracked
<1>7. DeliveredBeforeAnswered'
  <2> SUFFICES ASSUME NEW d \in Deliveries, Tracked(Asks[d])',
                      requests'[Asks[d]].status \in {"awaiting_response", "responded"}
               PROVE  accepted'[d]
    BY DEF DeliveredBeforeAnswered
  <2>1. Asks[d] \in Requests /\ RequestMove(Asks[d])
    BY <1>1, RequestsAssumption DEF StoreMoves, Tracked
  <2>2. requests[Asks[d]].status \in {"awaiting_response", "responded"} => Tracked(Asks[d])
    BY <2>1, RequestsAssumption, Absent DEF Tracked
  <2> QED
    BY <2>1, <2>2, <1>2, <1>4, Absent DEF RequestMove, DeliveredBeforeAnswered
<1>8. OneAnswer'
  <2> SUFFICES ASSUME NEW r \in Requests, NEW d \in Deliveries
               PROVE  /\ Answers[d] = r /\ deliveries'[d].state = "committed"
                            => requests'[r].status = "responded" /\ requests'[r].response = d
                      /\ Tracked(r)' /\ requests'[r].response = d
                            => r \in setting'.connections \/ deliveries'[d].state = "committed"
    BY DEF OneAnswer
  <2>1. /\ Answers[d] = r /\ deliveries[d].state = "committed"
              => requests[r].status = "responded" /\ requests[r].response = d
        /\ Tracked(r) /\ requests[r].response = d
              => r \in setting.connections \/ deliveries[d].state = "committed"
    BY <1>4 DEF OneAnswer
  <2>2. RequestMove(r) /\ DeliveryMove(d)
    BY <1>1 DEF StoreMoves
  <2>3. deliveries[d].state = "committed" => deliveries'[d] = deliveries[d]
    BY <1>1 DEF OutcomesKept
  <2>4. requests[r].status = "responded" => requests'[r] = requests[r]
    BY <1>1 DEF OutcomesKept
  <2>5. ASSUME Answers[d] = r, deliveries'[d].state = "committed"
        PROVE  requests'[r].status = "responded" /\ requests'[r].response = d
    BY <2>1, <2>2, <2>4, <2>5, RequestsAssumption DEF DeliveryMove
  <2>6. ASSUME Tracked(r)', requests'[r].response = d
        PROVE  r \in setting'.connections \/ deliveries'[d].state = "committed"
    <3>1. requests[r].status \in {"pending_delivery", "awaiting_response"} => Tracked(r)
      BY Absent, RequestsAssumption DEF Tracked
    <3>2. CASE Tracked(r) /\ requests[r].response = d
      BY <3>2, <2>1, <2>3, <1>3
    <3>3. CASE ~(Tracked(r) /\ requests[r].response = d)
      <4>1. requests'[r] # requests[r]
        BY <3>3, <2>6 DEF Tracked
      <4>2. requests'[r] # NoRequest /\ d # None
        BY <2>6, RequestsAssumption DEF Tracked
      <4> QED
        BY <4>1, <4>2, <3>1, <3>3, <2>2, <2>6, <1>3 DEF RequestMove, Open
    <3> QED
      BY <3>2, <3>3
  <2> QED
    BY <2>5, <2>6
<1> QED
  BY <1>5, <1>6, <1>7, <1>8 DEF StoreInv

-----------------------------------------------------------------------------
(* The store against the execution owner.                                  *)

\* Tokens only grow: nobody remembers one that was not given out yet.
TokensKnown(d) ==
    /\ Bound(d) => deliveries[d].attempt <= attempts[d]
    /\ disp[d] # Idle => disp[d].attempt <= attempts[d]
    /\ recon[d] # Idle => recon[d].attempt <= attempts[d]
    /\ Known(d) => ledger[d].attempt <= attempts[d]
    /\ \A m \in wire[d] : m[2] <= attempts[d]

\* Nothing of a delivery is out, and nothing of it ever was sent.
Quiet(d) == wire[d] = {} /\ exec[d] = "idle" /\ frames[d] = 0

\* Where a dispatch token is, when the transport hands a dispatch over once: on
\* the flight, on its way or in the owner's file, but never in two places; and
\* a proof on its way back is the one on file.
TokenPlace(d) ==
    /\ deliveries[d].state \in {"none", "prepared"} =>
          Quiet(d) /\ disp[d].pc \notin {"cross", "unsent"}
    /\ deliveries[d].state = "dispatching" =>
          /\ disp[d].pc \in {"cross", "unsent"} =>
                /\ Quiet(d)
                /\ disp[d].attempt = deliveries[d].attempt
                /\ Known(d) => ledger[d].attempt # deliveries[d].attempt
          /\ \A m, n \in wire[d] : m = n /\ m[2] = deliveries[d].attempt
          /\ Known(d) /\ ledger[d].attempt = deliveries[d].attempt => wire[d] = {}
          /\ disp[d].pc = "notsent" /\ disp[d].attempt = deliveries[d].attempt =>
                HasProof(d, disp[d].generation, disp[d].attempt)
          /\ recon[d].pc = "notsent" /\ recon[d].attempt = deliveries[d].attempt =>
                HasProof(d, recon[d].generation, recon[d].attempt)

\* Without the recovery, whatever was sent of a delivery was sent under the
\* generation it has now, and nothing was before its preparation ended.
OneGeneration(d) ==
    /\ ~Bound(d) \/ prep[d] # "idle" => disp[d] = Idle /\ wire[d] = {} /\ ~Known(d)
    /\ disp[d] # Idle => disp[d].generation = deliveries[d].generation
    /\ \A m \in wire[d] : m[1] = deliveries[d].generation
    /\ Known(d) => ledger[d].generation = deliveries[d].generation

OwnerInv ==
    \A d \in Deliveries :
        /\ TokensKnown(d)
        /\ ~setting.redelivery => TokenPlace(d)
        /\ ~setting.recovery => OneGeneration(d)

\* Nothing of a delivery moves but perhaps a cancellation.
Elsewhere(e) ==
    /\ prep'[e] = prep[e] /\ disp'[e] = disp[e] /\ recon'[e] = recon[e]
    /\ wire'[e] = wire[e] /\ attempts'[e] = attempts[e]
    /\ ledger'[e] = ledger[e] /\ exec'[e] = exec[e] /\ frames'[e] = frames[e]
    /\ \/ deliveries'[e] = deliveries[e]
       \/ /\ deliveries[e].state \in {"prepared", "dispatching"}
          /\ deliveries'[e] = [deliveries[e] EXCEPT !.state = "cancelled"]

\* A step that moves more of a delivery is one of its own, or the Manager stops.
OwnStep(e) ==
    \/ Prepare(e) \/ Bind(e) \/ PreparationFails(e)
    \/ Abort(e) \/ AbortFails(e)
    \/ ResumePrepared(e) \/ MarkDispatching(e) \/ Dispatch(e) \/ DispatchNotSent(e)
    \/ DispatchAnswered(e) \/ DispatchEnds(e) \/ DispatchCommits(e) \/ DispatchReturns(e)
    \/ \E receiptOnly \in BOOLEAN : ReconcileStart(e, receiptOnly)
    \/ ReconcileAnswered(e) \/ ReconcileEnds(e) \/ ReconcileCommits(e) \/ ReconcileReturns(e)
    \/ Arrive(e) \/ OwnerStep(e)

\* The steps of other deliveries, and the answers and cancellations of
\* requests, reach a delivery only to cancel it.
LEMMA OthersStayElsewhere ==
    ASSUME TypeOK, Next, NEW e \in Deliveries
    PROVE  OwnStep(e) \/ Stop \/ Elsewhere(e)
<1> USE DEF TypeOK, LedgerTypeOK
<1>1. ASSUME NEW d \in Deliveries, d # e,
             Prepare(d) \/ Bind(d) \/ PreparationFails(d) \/ Abort(d) \/ AbortFails(d)
      PROVE  Elsewhere(e)
  BY <1>1 DEF Prepare, Bind, Launch, PreparationFails, Abort, AbortFails, Elsewhere, storeVars, ledgerVars
<1>2. ASSUME NEW d \in Deliveries, d # e,
             ResumePrepared(d) \/ MarkDispatching(d) \/ Dispatch(d) \/ DispatchNotSent(d)
             \/ DispatchAnswered(d) \/ DispatchEnds(d)
      PROVE  Elsewhere(e)
  BY <1>2 DEF ResumePrepared, Launch, MarkDispatching, Dispatch, DispatchNotSent, DispatchAnswered,
              DispatchEnds, Elsewhere, storeVars, ledgerVars
<1>3. ASSUME NEW d \in Deliveries, d # e,
             DispatchCommits(d) \/ DispatchReturns(d) \/ ReconcileCommits(d) \/ ReconcileReturns(d)
      PROVE  Elsewhere(e)
  BY <1>3 DEF DispatchCommits, DispatchReturns, ReconcileCommits, ReconcileReturns, CommitEndpointReceipt,
              MarkNotSent, Elsewhere, storeVars, ledgerVars
<1>4. ASSUME NEW d \in Deliveries, d # e, NEW receiptOnly \in BOOLEAN,
             ReconcileStart(d, receiptOnly) \/ ReconcileAnswered(d) \/ ReconcileEnds(d)
      PROVE  Elsewhere(e)
  BY <1>4 DEF ReconcileStart, ReconcileAnswered, RecoverReceipt, ReconcileEnds, Elsewhere, storeVars, ledgerVars
<1>5. ASSUME NEW d \in Deliveries, d # e, Arrive(d) \/ OwnerStep(d) PROVE Elsewhere(e)
  BY <1>5 DEF Arrive, BeginAttempt, OwnerStep, LedgerStep, SendFrame, WriteNotSent, TargetAccepts, WriteReceipt,
              TearReceipt, ExecutionLost, Elsewhere, storeVars, flightVars
<1>6. ASSUME NEW d \in Deliveries, RecordResponse(d) PROVE Elsewhere(e)
  BY <1>6 DEF RecordResponse, Elsewhere, flightVars, ledgerVars
<1>7. ASSUME NEW d \in Deliveries, CancelDelivery(d) PROVE Elsewhere(e)
  <2>1. UNCHANGED <<attempts, wire, flightVars, ledgerVars>>
    BY <1>7 DEF CancelDelivery
  <2>2. ASSUME NEW r, CancelOpen(r) PROVE Elsewhere(e)
    BY <2>1, <2>2 DEF CancelOpen, Elsewhere, flightVars, ledgerVars
  <2>3. ASSUME deliveries[d].state \in {"prepared", "dispatching"},
               deliveries' = [deliveries EXCEPT ![d].state = "cancelled"]
        PROVE  Elsewhere(e)
    BY <2>1, <2>3 DEF Elsewhere, flightVars, ledgerVars
  <2> QED BY <1>7, <2>2, <2>3 DEF CancelDelivery
<1>8. ASSUME NEW r \in Requests, Cancel(r) PROVE Elsewhere(e)
  BY <1>8 DEF Cancel, CancelOpen, Elsewhere, flightVars, ledgerVars
<1>9. CASE Start
  BY <1>9 DEF Start, Elsewhere, storeVars, flightVars, ledgerVars
<1> HIDE DEF TypeOK, LedgerTypeOK
<1> QED
  BY <1>1, <1>2, <1>3, <1>4, <1>5, <1>6, <1>7, <1>8, <1>9 DEF Next, OwnStep

\* What is known of one delivery when a step of it begins.
Settled(e) ==
    /\ TokensKnown(e)
    /\ ~setting.redelivery => TokenPlace(e)
    /\ ~setting.recovery => OneGeneration(e)

\* A cancellation, and what happens elsewhere, disturb nothing of it.
LEMMA ElsewhereKeeps ==
    ASSUME TypeOK, setting' = setting, NEW e \in Deliveries, Settled(e), Elsewhere(e)
    PROVE  Settled(e)'
<1>1. CASE deliveries'[e] = deliveries[e]
  BY <1>1 DEF Settled, Elsewhere, TokensKnown, TokenPlace, OneGeneration, Quiet, Bound, Known, HasProof, SameIdentity
<1>2. CASE /\ deliveries[e].state \in {"prepared", "dispatching"}
           /\ deliveries'[e] = [deliveries[e] EXCEPT !.state = "cancelled"]
  <2>1. deliveries[e] \in Delivery
    BY <1>2, Absent DEF TypeOK
  <2>2. /\ deliveries'[e].state = "cancelled" /\ deliveries'[e].generation = deliveries[e].generation
        /\ deliveries'[e].attempt = deliveries[e].attempt /\ Bound(e) /\ Bound(e)'
    BY <1>2, <2>1, Absent DEF Delivery, Bound
  <2> QED
    BY <2>2 DEF Settled, Elsewhere, TokensKnown, TokenPlace, OneGeneration, Known
<1> QED
  BY <1>1, <1>2 DEF Elsewhere

\* Preparing, binding and releasing: nothing of the delivery is out yet.
LEMMA PreparationKeeps ==
    ASSUME TypeOK, setting' = setting, NEW e \in Deliveries, Settled(e),
           Prepare(e) \/ Bind(e) \/ PreparationFails(e) \/ Abort(e) \/ AbortFails(e)
    PROVE  Settled(e)'
<1>0. /\ wire'[e] = wire[e] /\ attempts'[e] = attempts[e] /\ recon'[e] = recon[e]
      /\ ledger' = ledger /\ exec' = exec /\ frames' = frames
  BY DEF Prepare, Bind, PreparationFails, Abort, AbortFails, ledgerVars
<1>1. CASE Prepare(e)
  <2>1. ~Bound(e) /\ prep'[e] = "bind" /\ disp' = disp /\ deliveries' = deliveries
    BY <1>1 DEF Prepare, Reserved, TypeOK
  <2> QED
    BY <1>0, <2>1 DEF Settled, TokensKnown, TokenPlace, OneGeneration, Quiet, Bound, Known, HasProof, SameIdentity
<1>2. CASE Bind(e)
  <2> DEFINE x == [state |-> "prepared", generation |-> generations[e] + 1, attempt |-> 0]
  <2>1. deliveries'[e] = x /\ ~Bound(e)
    BY <1>2 DEF Bind, TypeOK
  <2>2. x # NoDelivery /\ x.state = "prepared" /\ x.attempt = 0
    BY Absent DEF NoDelivery
  <2>3. deliveries[e].state = "none" /\ attempts[e] >= 0
    BY <2>1, Absent DEF Bound, TypeOK
  <2>4. \/ disp'[e] = disp[e] /\ prep'[e] = "abort"
        \/ disp'[e] = disp[e] /\ disp[e] # Idle
        \/ disp'[e] = [pc |-> "verify", generation |-> x.generation, attempt |-> 0] /\ prep'[e] = "idle"
    BY <1>2 DEF Bind, Launch, TypeOK
  <2> HIDE DEF x
  <2>5. CASE disp'[e] = disp[e] /\ prep'[e] = "abort"
    BY <1>0, <2>1, <2>2, <2>3, <2>5 DEF Settled, TokensKnown, TokenPlace, OneGeneration, Quiet, Bound, Known
  <2>6. CASE disp'[e] = disp[e] /\ disp[e] # Idle
    BY <1>0, <2>1, <2>2, <2>3, <2>6 DEF Settled, TokensKnown, TokenPlace, OneGeneration, Quiet, Bound, Known
  <2>7. CASE disp'[e] = [pc |-> "verify", generation |-> x.generation, attempt |-> 0] /\ prep'[e] = "idle"
    <3>1. disp'[e].pc = "verify" /\ disp'[e].generation = x.generation /\ disp'[e].attempt = 0
      BY <2>7
    <3> QED
      BY <1>0, <2>1, <2>2, <2>3, <2>7, <3>1 DEF Settled, TokensKnown, TokenPlace, OneGeneration, Quiet, Bound, Known
  <2> QED
    BY <2>4, <2>5, <2>6, <2>7
<1>3. CASE Abort(e)
  <2>1. deliveries'[e] = NoDelivery /\ deliveries[e].state \in {"none", "prepared"} /\ disp' = disp
        /\ prep[e] # "idle"
    BY <1>3, Absent DEF Abort, Bound, TypeOK
  <2> QED
    BY <1>0, <2>1, Absent DEF Settled, TokensKnown, TokenPlace, OneGeneration, Quiet, Bound, Known
<1>4. CASE PreparationFails(e) \/ AbortFails(e)
  <2>1. deliveries' = deliveries /\ disp' = disp /\ prep[e] # "idle"
    BY <1>4 DEF PreparationFails, AbortFails, storeVars
  <2> QED
    BY <1>0, <2>1 DEF Settled, TokensKnown, TokenPlace, OneGeneration, Quiet, Bound, Known, HasProof, SameIdentity
<1> QED
  BY <1>1, <1>2, <1>3, <1>4

\* Launching, marking and dispatching: the token moves from the flight to the
\* wire, and the proof that comes back is the one on file.
LEMMA DispatchKeeps ==
    ASSUME TypeOK, setting' = setting, NEW e \in Deliveries, Settled(e),
           ResumePrepared(e) \/ MarkDispatching(e) \/ Dispatch(e) \/ DispatchNotSent(e)
           \/ DispatchAnswered(e) \/ DispatchEnds(e)
    PROVE  Settled(e)'
<1>0. prep' = prep /\ recon' = recon /\ ledger' = ledger /\ exec' = exec /\ frames' = frames
  BY DEF ResumePrepared, MarkDispatching, Dispatch, DispatchNotSent, DispatchAnswered, DispatchEnds, ledgerVars
<1>1. CASE ResumePrepared(e)
  <2>1. /\ Bound(e) /\ deliveries[e].state = "prepared" /\ attempts[e] \in Nat
        /\ deliveries' = deliveries /\ attempts' = attempts /\ wire' = wire
        /\ prep[e] = "idle" \/ setting.recovery
        /\ disp'[e] = [pc |-> "verify", generation |-> deliveries[e].generation, attempt |-> 0]
    BY <1>1 DEF ResumePrepared, Active, Launch, storeVars, TypeOK
  <2>2. disp'[e].pc = "verify" /\ disp'[e].generation = deliveries[e].generation /\ disp'[e].attempt = 0
    BY <2>1
  <2> QED
    BY <1>0, <2>1, <2>2 DEF Settled, TokensKnown, TokenPlace, OneGeneration, Quiet, Bound, Known
<1>2. CASE MarkDispatching(e)
  <2>1. /\ disp[e] \in Flight /\ deliveries[e] \in Delivery /\ attempts[e] \in Nat
        /\ deliveries[e].state = "prepared" /\ disp[e].pc = "verify" /\ wire' = wire
    BY <1>2, Absent DEF MarkDispatching, Active, Bound, TypeOK
  <2>2. attempts'[e] = attempts[e] + 1
    BY <1>2 DEF MarkDispatching, TypeOK
  <2>3. /\ deliveries'[e] = [deliveries[e] EXCEPT !.state = "dispatching", !.attempt = attempts'[e]]
        /\ disp'[e] = [disp[e] EXCEPT !.pc = "cross", !.attempt = attempts'[e]]
    BY <1>2 DEF MarkDispatching, TypeOK
  <2>4. /\ deliveries'[e].state = "dispatching" /\ deliveries'[e].attempt = attempts'[e]
        /\ deliveries'[e].generation = deliveries[e].generation
        /\ disp'[e].pc = "cross" /\ disp'[e].attempt = attempts'[e] /\ disp'[e].generation = disp[e].generation
    BY <2>1, <2>3 DEF Flight, Delivery
  <2>5. disp[e] # Idle /\ Bound(e) /\ Bound(e)'
    BY <2>1, <2>4, Absent DEF Bound
  <2>6. /\ \A m \in wire[e] : m[2] \in Nat
        /\ Known(e) => ledger[e].attempt \in Nat
        /\ recon[e] # Idle => recon[e].attempt \in Nat
    BY LedgerAssumption DEF TypeOK, LedgerTypeOK, Entry, Known, Attempts, Recon
  <2>7. TokensKnown(e)'
    BY <1>0, <2>1, <2>2, <2>4, <2>5, <2>6 DEF Settled, TokensKnown, Known, Bound
  <2>8. ~setting.redelivery => TokenPlace(e)'
    BY <1>0, <2>1, <2>2, <2>4, <2>5, <2>6, Absent DEF Settled, TokensKnown, TokenPlace, Quiet, Known
  <2>9. ~setting.recovery => OneGeneration(e)'
    BY <1>0, <2>1, <2>4, <2>5 DEF Settled, OneGeneration, Known
  <2> QED
    BY <2>7, <2>8, <2>9 DEF Settled
<1>3. CASE Dispatch(e)
  <2> DEFINE m == <<disp[e].generation, disp[e].attempt>>
  <2>1. /\ disp[e] \in Flight /\ Bound(e) /\ deliveries[e].state # "cancelled" /\ disp[e].pc = "cross"
        /\ deliveries' = deliveries /\ attempts' = attempts
    BY <1>3, Absent DEF Dispatch, Active, TypeOK, storeVars
  <2>2. disp'[e] = [disp[e] EXCEPT !.pc = "wait"] /\ wire'[e] = wire[e] \cup {m}
    BY <1>3 DEF Dispatch, TypeOK
  <2>3. disp'[e].pc = "wait" /\ disp'[e].generation = disp[e].generation /\ disp'[e].attempt = disp[e].attempt
    BY <2>1, <2>2 DEF Flight
  <2>4. disp[e] # Idle /\ disp'[e] # Idle /\ m[1] = disp[e].generation /\ m[2] = disp[e].attempt
    BY <2>1, <2>3, Absent
  <2> HIDE DEF m
  <2>5. TokensKnown(e)'
    BY <1>0, <2>1, <2>2, <2>3, <2>4 DEF Settled, TokensKnown, Known, Bound
  <2>6. ~setting.redelivery => TokenPlace(e)'
    <3> SUFFICES ASSUME TokenPlace(e) PROVE TokenPlace(e)'
      BY DEF Settled
    <3>1. deliveries[e].state = "dispatching" => wire'[e] = {m} /\ frames[e] = 0
      BY <2>1, <2>2 DEF TokenPlace, Quiet
    <3> QED
      BY <1>0, <2>1, <2>3, <2>4, <3>1 DEF TokenPlace, Quiet, Known, HasProof, SameIdentity
  <2>7. ~setting.recovery => OneGeneration(e)'
    BY <1>0, <2>1, <2>2, <2>3, <2>4 DEF Settled, OneGeneration, Known, Bound
  <2> QED
    BY <2>5, <2>6, <2>7 DEF Settled
<1>4. CASE DispatchNotSent(e) \/ DispatchAnswered(e)
  <2>1. /\ disp[e] \in Flight /\ deliveries' = deliveries /\ attempts' = attempts /\ wire' = wire
        /\ disp[e].pc \in {"cross", "wait"}
    BY <1>4, Absent DEF DispatchNotSent, DispatchAnswered, TypeOK, storeVars
  <2>2. PICK pc \in {"unsent", "receipt", "notsent"} :
            /\ disp'[e] = [disp[e] EXCEPT !.pc = pc]
            /\ pc = "notsent" => HasProof(e, disp[e].generation, disp[e].attempt)
            /\ pc = "unsent" => disp[e].pc = "cross"
    BY <1>4 DEF DispatchNotSent, DispatchAnswered, TypeOK
  <2>3. disp'[e].pc = pc /\ disp'[e].generation = disp[e].generation /\ disp'[e].attempt = disp[e].attempt
    BY <2>1, <2>2 DEF Flight
  <2>4. disp[e] # Idle /\ disp'[e] # Idle
    BY <2>1, <2>3, Absent
  <2>5. TokensKnown(e)'
    BY <1>0, <2>1, <2>3, <2>4 DEF Settled, TokensKnown, Known, Bound
  <2>6. ~setting.redelivery => TokenPlace(e)'
    BY <1>0, <2>1, <2>2, <2>3 DEF Settled, TokenPlace, Quiet, Known, HasProof, SameIdentity
  <2>7. ~setting.recovery => OneGeneration(e)'
    BY <1>0, <2>1, <2>3, <2>4 DEF Settled, OneGeneration, Known, Bound
  <2> QED
    BY <2>5, <2>6, <2>7 DEF Settled
<1>5. CASE DispatchEnds(e)
  <2>1. disp'[e] = Idle /\ deliveries' = deliveries /\ attempts' = attempts /\ wire' = wire
    BY <1>5 DEF DispatchEnds, storeVars, TypeOK
  <2> QED
    BY <1>0, <2>1, Absent DEF Settled, TokensKnown, TokenPlace, OneGeneration, Quiet, Bound, Known, HasProof, SameIdentity
<1> QED
  BY <1>1, <1>2, <1>3, <1>4, <1>5

\* A receipt or a proof ends the flight that brought it: a delivery returns to
\* prepared only when its token is nowhere and nothing was sent.
LEMMA SettlingKeeps ==
    ASSUME TypeOK, setting' = setting, NEW e \in Deliveries, Settled(e), OneAttempt(e),
           DispatchCommits(e) \/ DispatchReturns(e) \/ ReconcileCommits(e) \/ ReconcileReturns(e)
    PROVE  Settled(e)'
<1>0. /\ prep' = prep /\ attempts' = attempts /\ wire' = wire
      /\ ledger' = ledger /\ exec' = exec /\ frames' = frames
      /\ disp'[e] \in {disp[e], Idle} /\ recon'[e] \in {recon[e], Idle}
  BY DEF DispatchCommits, DispatchReturns, ReconcileCommits, ReconcileReturns, ledgerVars, TypeOK
<1>1. Bound(e) /\ deliveries[e] \in Delivery
  BY DEF DispatchCommits, DispatchReturns, ReconcileCommits, ReconcileReturns, CommitEndpointReceipt, MarkNotSent,
         Active, Bound, TypeOK
<1>2. CASE DispatchCommits(e) \/ ReconcileCommits(e)
  <2>1. \/ deliveries'[e] = deliveries[e]
        \/ deliveries'[e] = [deliveries[e] EXCEPT !.state = "committed"]
    BY <1>2 DEF DispatchCommits, ReconcileCommits, CommitEndpointReceipt, storeVars, TypeOK
  <2>2. CASE deliveries'[e] = deliveries[e]
    BY <1>0, <1>1, <2>2, Absent
       DEF Settled, TokensKnown, TokenPlace, OneGeneration, Quiet, Bound, Known, HasProof, SameIdentity
  <2>3. CASE deliveries'[e] = [deliveries[e] EXCEPT !.state = "committed"]
    <3>1. /\ deliveries'[e].state = "committed" /\ deliveries'[e].generation = deliveries[e].generation
          /\ deliveries'[e].attempt = deliveries[e].attempt /\ Bound(e)'
      BY <1>1, <2>3, Absent DEF Delivery, Bound
    <3> QED
      BY <1>0, <1>1, <3>1 DEF Settled, TokensKnown, TokenPlace, OneGeneration, Known
  <2> QED
    BY <2>1, <2>2, <2>3
<1>3. CASE DispatchReturns(e) \/ ReconcileReturns(e)
  <2>1. deliveries'[e] = [deliveries[e] EXCEPT !.state = "prepared"] /\ deliveries[e].state = "dispatching"
    BY <1>3 DEF DispatchReturns, ReconcileReturns, MarkNotSent, TypeOK
  <2>2. /\ deliveries'[e].state = "prepared" /\ deliveries'[e].generation = deliveries[e].generation
        /\ deliveries'[e].attempt = deliveries[e].attempt /\ Bound(e)'
    BY <1>1, <2>1, Absent DEF Delivery, Bound
  <2>3. ASSUME TokenPlace(e) PROVE Quiet(e) /\ disp'[e].pc \notin {"cross", "unsent"}
    <3>1. CASE DispatchReturns(e) /\ disp[e].pc = "unsent"
      BY <2>1, <2>3, <3>1, Absent DEF TokenPlace, DispatchReturns, TypeOK
    <3>2. CASE ~(DispatchReturns(e) /\ disp[e].pc = "unsent")
      <4>1. Known(e) /\ ledger[e].state = "not_sent" /\ ledger[e].attempt = deliveries[e].attempt
        BY <1>3, <2>1, <2>3, <3>2
           DEF DispatchReturns, ReconcileReturns, MarkNotSent, TokenPlace, HasProof, SameIdentity
      <4> QED
        BY <1>0, <2>1, <2>3, <4>1, Absent DEF TokenPlace, OneAttempt, Quiet
    <3> QED
      BY <3>1, <3>2
  <2>4. TokensKnown(e)' /\ (~setting.recovery => OneGeneration(e)')
    BY <1>0, <1>1, <2>2 DEF Settled, TokensKnown, OneGeneration, Known
  <2>5. ~setting.redelivery => TokenPlace(e)'
    BY <1>0, <2>2, <2>3 DEF Settled, TokenPlace, Quiet
  <2> QED
    BY <2>4, <2>5 DEF Settled
<1> QED
  BY <1>2, <1>3

\* A reconciliation carries the token and the generation of the dispatch that
\* it was started for, and brings back what is on file.
LEMMA ReconcileKeeps ==
    ASSUME TypeOK, setting' = setting, NEW e \in Deliveries, Settled(e),
           (\E receiptOnly \in BOOLEAN : ReconcileStart(e, receiptOnly)) \/ ReconcileAnswered(e) \/ ReconcileEnds(e)
    PROVE  Settled(e)'
<1>0. /\ prep' = prep /\ attempts' = attempts /\ wire' = wire /\ disp' = disp /\ deliveries' = deliveries
      /\ exec' = exec /\ frames' = frames
  BY DEF ReconcileStart, ReconcileAnswered, RecoverReceipt, ReconcileEnds, storeVars, ledgerVars
<1>1. ASSUME NEW receiptOnly \in BOOLEAN, ReconcileStart(e, receiptOnly) PROVE Settled(e)'
  <2> DEFINE x == [pc |-> "query", generation |-> deliveries[e].generation,
                   attempt |-> deliveries[e].attempt, receiptOnly |-> receiptOnly]
  <2>1. recon'[e] = x /\ ledger' = ledger /\ Bound(e)
    BY <1>1 DEF ReconcileStart, Active, ledgerVars, TypeOK
  <2>2. x.pc = "query" /\ x.attempt = deliveries[e].attempt
    OBVIOUS
  <2> HIDE DEF x
  <2> QED
    BY <1>0, <2>1, <2>2 DEF Settled, TokensKnown, TokenPlace, OneGeneration, Quiet, Bound, Known, HasProof, SameIdentity
<1>2. CASE ReconcileEnds(e)
  <2>1. recon'[e] = Idle /\ ledger' = ledger
    BY <1>2 DEF ReconcileEnds, ledgerVars, TypeOK
  <2> QED
    BY <1>0, <2>1, Absent
       DEF Settled, TokensKnown, TokenPlace, OneGeneration, Quiet, Bound, Known, HasProof, SameIdentity
<1>3. CASE ReconcileAnswered(e)
  <2>1. recon[e] \in Recon /\ recon[e].pc = "query"
    BY <1>3, Absent DEF ReconcileAnswered, TypeOK
  <2>2. PICK pc \in {"receipt", "notsent"} :
            /\ recon'[e] = [recon[e] EXCEPT !.pc = pc]
            /\ pc = "notsent" => HasProof(e, recon[e].generation, recon[e].attempt) /\ ledger' = ledger
    BY <1>3 DEF ReconcileAnswered, ledgerVars, TypeOK
  <2>3. recon'[e].pc = pc /\ recon'[e].generation = recon[e].generation /\ recon'[e].attempt = recon[e].attempt
        /\ recon[e] # Idle
    BY <2>1, <2>2, Absent DEF Recon
  <2>4. CASE ledger' = ledger
    BY <1>0, <2>2, <2>3, <2>4
       DEF Settled, TokensKnown, TokenPlace, OneGeneration, Quiet, Bound, Known, HasProof, SameIdentity
  <2>5. CASE ledger' # ledger
    <3>1. RecoverReceipt(e, recon[e].generation) /\ ledger[e] \in Entry
      BY <1>3, <2>5, EntryIsKnown DEF ReconcileAnswered, RecoverReceipt, SameIdentity, ledgerVars, TypeOK
    <3>2. ledger'[e] = [ledger[e] EXCEPT !.receipt = TRUE] /\ Known(e) /\ ledger[e].state = "attempting"
      BY <3>1 DEF RecoverReceipt, SameIdentity, TypeOK, LedgerTypeOK
    <3>3. ledger'[e].generation = ledger[e].generation /\ ledger'[e].attempt = ledger[e].attempt
      BY <3>1, <3>2 DEF Entry
    <3> QED
      BY <1>0, <2>2, <2>3, <2>5, <3>2, <3>3
         DEF Settled, TokensKnown, TokenPlace, OneGeneration, Quiet, Bound, Known, HasProof
  <2> QED
    BY <2>4, <2>5
<1> QED
  BY <1>1, <1>2, <1>3

\* The dispatch leaves the wire for the owner's file, which then holds its token.
LEMMA ArrivalKeeps ==
    ASSUME TypeOK, setting' = setting, NEW e \in Deliveries, Settled(e), Arrive(e)
    PROVE  Settled(e)'
<1>1. PICK m \in wire[e] :
          /\ BeginAttempt(e, m[1], m[2])
          /\ wire' = IF setting.redelivery THEN wire ELSE [wire EXCEPT ![e] = @ \ {m}]
  BY DEF Arrive
<1> DEFINE x == [generation |-> m[1], attempt |-> m[2], state |-> "attempting", receipt |-> FALSE]
<1>2. /\ prep' = prep /\ attempts' = attempts /\ disp' = disp /\ recon' = recon /\ deliveries' = deliveries
      /\ ledger'[e] = x /\ frames' = frames
  BY <1>1 DEF Arrive, BeginAttempt, storeVars, flightVars, TypeOK, LedgerTypeOK
<1>3. x.generation = m[1] /\ x.attempt = m[2] /\ x.state = "attempting"
  OBVIOUS
<1>4. wire'[e] \subseteq wire[e] /\ (~setting.redelivery => wire'[e] = wire[e] \ {m})
  BY <1>1 DEF TypeOK
<1>5. TokensKnown(e)'
  BY <1>2, <1>3, <1>4 DEF Settled, TokensKnown, Bound
<1>6. ASSUME TokenPlace(e), ~setting.redelivery PROVE TokenPlace(e)'
  <2>1. wire[e] # {}
    BY <1>1
  <2>2. /\ deliveries[e].state \notin {"none", "prepared"}
        /\ deliveries[e].state = "dispatching" =>
              /\ disp[e].pc \notin {"cross", "unsent"}
              /\ wire'[e] = {} /\ m[2] = deliveries[e].attempt
              /\ ~(disp[e].pc = "notsent" /\ disp[e].attempt = deliveries[e].attempt)
              /\ ~(recon[e].pc = "notsent" /\ recon[e].attempt = deliveries[e].attempt)
    BY <1>4, <1>6, <2>1 DEF TokenPlace, Quiet, HasProof, SameIdentity
  <2> HIDE DEF x
  <2> QED
    BY <1>2, <2>2 DEF TokenPlace
<1>7. ~setting.recovery => OneGeneration(e)'
  <2>1. ~setting.recovery => m[1] = deliveries[e].generation /\ Bound(e) /\ prep[e] = "idle"
    BY <1>1 DEF Settled, OneGeneration
  <2> QED
    BY <1>2, <1>3, <1>4, <2>1 DEF Settled, OneGeneration, Bound
<1> QED
  BY <1>5, <1>6, <1>7 DEF Settled

\* The owner's own steps need an execution under way, which excludes what a
\* proof or an uncrossed token would say.
LEMMA OwnerKeeps ==
    ASSUME TypeOK, setting' = setting, NEW e \in Deliveries, Settled(e), OneAttempt(e), OwnerStep(e)
    PROVE  Settled(e)'
<1>0. prep' = prep /\ attempts' = attempts /\ wire' = wire /\ disp' = disp /\ recon' = recon /\ deliveries' = deliveries
  BY DEF OwnerStep, storeVars, flightVars
<1>1. exec[e] # "idle" => Known(e) /\ ledger[e] \in Entry /\ ledger[e].state # "not_sent"
  BY EntryIsKnown DEF OneAttempt, TypeOK
<1>2. ASSUME exec[e] # "idle",
             \/ ledger'[e] = [ledger[e] EXCEPT !.state = "not_sent"]
             \/ ledger'[e] = [ledger[e] EXCEPT !.receipt = TRUE]
      PROVE  ledger'[e].generation = ledger[e].generation /\ ledger'[e].attempt = ledger[e].attempt
  BY <1>1, <1>2 DEF Entry
<1>3. CASE WriteNotSent(e) \/ WriteReceipt(e)
  <2>1. /\ exec[e] # "idle" /\ frames' = frames
        /\ \/ ledger'[e] = [ledger[e] EXCEPT !.state = "not_sent"]
           \/ ledger'[e] = [ledger[e] EXCEPT !.receipt = TRUE]
    BY <1>3 DEF WriteNotSent, WriteReceipt, TypeOK, LedgerTypeOK
  <2>2. ledger'[e].generation = ledger[e].generation /\ ledger'[e].attempt = ledger[e].attempt
    BY <1>2, <2>1
  <2> QED
    BY <1>0, <1>1, <2>1, <2>2 DEF Settled, TokensKnown, TokenPlace, OneGeneration, Quiet, Bound, Known, HasProof
<1>4. CASE SendFrame(e) \/ TargetAccepts(e) \/ TearReceipt(e) \/ ExecutionLost(e)
  <2>1. /\ ledger' = ledger
        /\ exec'[e] = "idle" \/ exec'[e] = exec[e] \/ exec[e] # "idle"
        /\ frames'[e] = frames[e] \/ exec[e] # "idle"
    BY <1>4 DEF SendFrame, TargetAccepts, TearReceipt, ExecutionLost, TypeOK, LedgerTypeOK
  <2> QED
    BY <1>0, <2>1 DEF Settled, TokensKnown, TokenPlace, OneGeneration, Quiet, Bound, Known, HasProof, SameIdentity
<1> QED
  BY <1>3, <1>4 DEF OwnerStep, LedgerStep

\* A stop forgets the flights and nothing else.
LEMMA StopKeeps ==
    ASSUME TypeOK, setting' = setting, NEW e \in Deliveries, Settled(e), Stop
    PROVE  Settled(e)'
<1>1. /\ prep'[e] = "idle" /\ disp'[e] = Idle /\ recon'[e] = Idle /\ deliveries' = deliveries
      /\ attempts' = attempts /\ wire' = wire /\ ledger' = ledger /\ exec' = exec /\ frames' = frames
  BY DEF Stop, storeVars, ledgerVars
<1> QED
  BY <1>1, Absent DEF Settled, TokensKnown, TokenPlace, OneGeneration, Quiet, Bound, Known

\* Every step keeps what the store and the owner know of each other.
LEMMA OwnerInvStep == RequestsInv /\ OwnerInv /\ [Next]_vars => OwnerInv'
<1> SUFFICES ASSUME RequestsInv, OwnerInv, [Next]_vars, NEW e \in Deliveries PROVE Settled(e)'
  BY DEF OwnerInv, Settled
<1>1. TypeOK /\ Settled(e) /\ OneAttempt(e)
  BY DEF RequestsInv, LedgerInv, OwnerInv, Settled
<1>2. setting' = setting
  BY SettingIsFixed DEF vars
<1>3. CASE Next
  BY <1>1, <1>2, <1>3, OthersStayElsewhere, ElsewhereKeeps, PreparationKeeps, DispatchKeeps, SettlingKeeps,
     ReconcileKeeps, ArrivalKeeps, OwnerKeeps, StopKeeps DEF OwnStep
<1>4. CASE UNCHANGED vars
  BY <1>1, <1>2, <1>4, ElsewhereKeeps DEF vars, ledgerVars, Elsewhere
<1> QED
  BY <1>3, <1>4

\* Nothing is known of any delivery at first.
LEMMA OwnerInvInit == Init => OwnerInv
<1> SUFFICES ASSUME Init, NEW d \in Deliveries PROVE TokensKnown(d) /\ TokenPlace(d) /\ OneGeneration(d)
  BY DEF OwnerInv
<1>1. /\ ~Bound(d) /\ deliveries[d].state = "none" /\ disp[d] = Idle /\ disp[d].pc = "idle" /\ recon[d] = Idle
      /\ wire[d] = {} /\ ~Known(d) /\ exec[d] = "idle" /\ frames[d] = 0
  BY Absent DEF Init, LedgerInit, Bound, Known
<1> QED
  BY <1>1 DEF TokensKnown, TokenPlace, OneGeneration, Quiet

\* A cancelled reply that asks nothing back holds no request: its cancellation
\* went through the request that was reserved for it (cancelEndpointDelivery).
LEMMA ReleasesStep == RequestsInv /\ CancelledReplyReleases /\ [Next]_vars => CancelledReplyReleases'
<1> SUFFICES ASSUME RequestsInv, CancelledReplyReleases, [Next]_vars, NEW e \in Deliveries,
                    deliveries'[e].state = "cancelled", Tracked(Answers[e])', Asks[e] = None,
                    requests'[Answers[e]].pending = e
             PROVE  FALSE
  BY DEF CancelledReplyReleases
<1>0. TypeOK /\ FlightsInv /\ PendingWaits
  BY DEF RequestsInv, StoreInv
<1> DEFINE r == Answers[e]
<1>1. r \in Requests /\ e # None /\ r # None
  BY RequestsAssumption DEF Tracked
<1>2. deliveries[e].state = "cancelled" => ~(Tracked(r) /\ requests[r].pending = e)
  BY DEF CancelledReplyReleases
<1>3. CASE UNCHANGED storeVars
  BY <1>2, <1>3 DEF storeVars, Tracked
<1>4. ASSUME NEW d \in Deliveries, Prepare(d) PROVE FALSE
  <2>1. d = e => deliveries[e].state = "none"
    BY <1>4, Absent DEF Prepare, Reserved, Bound
  <2>2. CASE r = Asks[d]
    <3>1. requests'[r].pending = None
      BY <1>1, <1>4, <2>2 DEF Prepare
    <3> QED
      BY <1>1, <3>1
  <2>3. CASE r # Asks[d] /\ r = Answers[d]
    <3>1. requests[r] \in Request
      BY <1>0, <1>1, <1>4, <2>3 DEF Prepare, Tracked, TypeOK
    <3>2. requests'[r].pending = d
      BY <1>1, <1>4, <2>3, <3>1 DEF Prepare, Request
    <3> QED
      BY <1>4, <2>1, <3>2 DEF Prepare
  <2>4. CASE r # Asks[d] /\ r # Answers[d]
    BY <1>1, <1>2, <1>4, <2>4 DEF Prepare, Tracked
  <2> QED
    BY <2>2, <2>3, <2>4
<1>5. ASSUME NEW d \in Deliveries, Bind(d) PROVE FALSE
  BY <1>0, <1>2, <1>5 DEF Bind, TypeOK, Tracked
<1>6. ASSUME NEW d \in Deliveries, Abort(d) PROVE FALSE
  <2>1. d # e /\ deliveries'[e] = deliveries[e]
    BY <1>0, <1>6, Absent DEF Abort, TypeOK
  <2>2. CASE r = Answers[d] /\ Tracked(r) /\ requests[r].pending = d
    BY <1>2, <2>1, <2>2, <1>1, <1>6 DEF Abort, Tracked, TypeOK
  <2> QED
    BY <1>1, <1>2, <1>6, <2>1, <2>2 DEF Abort, Tracked
<1>7. ASSUME NEW d \in Deliveries, MarkDispatching(d) \/ NotSent(d) PROVE FALSE
  <2>1. deliveries[d] \in Delivery
    BY <1>0, <1>7 DEF MarkDispatching, NotSent, MarkNotSent, Active, Bound, TypeOK
  <2>2. d # e /\ deliveries'[e] = deliveries[e] /\ requests' = requests
    BY <1>0, <1>7, <2>1 DEF MarkDispatching, NotSent, MarkNotSent, TypeOK, Delivery
  <2> QED
    BY <1>2, <2>2 DEF Tracked
<1>8. ASSUME NEW d \in Deliveries, Commit(d), deliveries[d].state # "committed" PROVE FALSE
  <2>1. deliveries[d] \in Delivery
    BY <1>0, <1>8 DEF Commit, CommitEndpointReceipt, Active, Bound, TypeOK
  <2>2. d # e /\ deliveries'[e] = deliveries[e]
    BY <1>0, <1>8, <2>1 DEF Commit, CommitEndpointReceipt, TypeOK, Delivery
  <2>3. CASE r = Answers[d]
    <3>1. requests'[r].pending = None
      BY <1>1, <1>8, <2>3 DEF Commit, CommitEndpointReceipt
    <3> QED
      BY <1>1, <3>1
  <2>4. CASE r # Answers[d] /\ r = Asks[d] /\ requests[r].status = "pending_delivery"
    <3>1. requests[r] \in Request
      BY <1>0, <1>1, <2>4, Absent DEF TypeOK
    <3>2. requests'[r] = [requests[r] EXCEPT !.status = "awaiting_response"]
      BY <1>1, <1>8, <2>4 DEF Commit, CommitEndpointReceipt
    <3>3. requests'[r].pending = requests[r].pending
      BY <3>1, <3>2 DEF Request
    <3> QED
      BY <1>1, <1>2, <2>2, <3>1, <3>3, Absent DEF Tracked
  <2>5. CASE r # Answers[d] /\ ~(r = Asks[d] /\ requests[r].status = "pending_delivery")
    BY <1>1, <1>2, <1>8, <2>2, <2>5 DEF Commit, CommitEndpointReceipt, Tracked
  <2> QED
    BY <2>3, <2>4, <2>5
<1>9. ASSUME NEW d \in Deliveries, Commit(d), deliveries[d].state = "committed" PROVE FALSE
  BY <1>3, <1>9 DEF Commit, CommitEndpointReceipt
<1>10. ASSUME NEW d \in Deliveries, RecordResponse(d) PROVE FALSE
  <2>1. Answers[d] \in Requests /\ requests[Answers[d]] \in Request /\ deliveries' = deliveries
    BY <1>0, <1>10, RequestsAssumption DEF RecordResponse, Tracked, TypeOK
  <2>2. requests'[Answers[d]].pending = None
    BY <1>0, <1>10, <2>1 DEF RecordResponse, TypeOK, Request
  <2> QED
    BY <1>0, <1>1, <1>2, <1>10, <2>1, <2>2 DEF RecordResponse, TypeOK, Tracked
<1>11. ASSUME NEW d \in Deliveries, CancelAlone(d) PROVE FALSE
  <2>1. CASE d = e
    BY <1>0, <1>1, <1>11, <2>1 DEF CancelAlone, PendingWaits, Open, Tracked
  <2>2. CASE d # e
    BY <1>0, <1>2, <1>11, <2>2 DEF CancelAlone, TypeOK, Tracked
  <2> QED
    BY <2>1, <2>2
<1>12. ASSUME NEW q \in Requests, Tracked(q), CancelOpen(q) PROVE FALSE
  <2>1. CASE q = r
    <3>1. requests[q] \in Request
      BY <1>0, <1>12 DEF Tracked, TypeOK
    <3>2. requests'[q].pending = None
      BY <1>0, <1>12, <3>1 DEF CancelOpen, TypeOK, Request
    <3> QED
      BY <1>1, <2>1, <3>2
  <2>2. CASE q # r
    BY <1>0, <1>1, <1>2, <1>12, <2>2, RequestsAssumption DEF CancelOpen, TypeOK, Tracked
  <2> QED
    BY <2>1, <2>2
<1>13. CASE UNCHANGED vars
  BY <1>3, <1>13 DEF vars, storeVars
<1> QED
  BY <1>0, <1>3, <1>4, <1>5, <1>6, <1>7, <1>8, <1>9, <1>10, <1>11, <1>12, <1>13, StoreOperation

\* One step of OrphanIsOnlyCancelled for one delivery.
OrphanKept(d) ==
    OrphanReservation(d) =>
        /\ ~setting.redelivery => frames'[d] = 0
        /\ OrphanReservation(d)' \/ requests'[Asks[d]].status = "cancelled"

\* A request without a body is out of reach of every step but a cancellation:
\* its id is taken, no flight has it, and nobody may answer it.
LEMMA OrphanStep ==
    ASSUME RequestsInv, OwnerInv, Next, NEW e \in Deliveries
    PROVE  OrphanKept(e)
<1> SUFFICES ASSUME OrphanReservation(e)
             PROVE  /\ ~setting.redelivery => frames'[e] = 0
                    /\ OrphanReservation(e)' \/ requests'[Asks[e]].status = "cancelled"
  BY DEF OrphanKept
<1>0. TypeOK /\ FlightsInv /\ PendingWaits
  BY DEF RequestsInv, StoreInv
<1> DEFINE r == Asks[e]
<1>1. /\ prep[e] = "idle" /\ ~Bound(e) /\ deliveries[e] = NoDelivery /\ deliveries[e].state = "none"
      /\ Tracked(r) /\ r \in Requests /\ r # None /\ requests[r].status = "pending_delivery"
      /\ requests[r] \in Request
  BY <1>0, RequestsAssumption, Absent DEF OrphanReservation, Bound, Tracked, TypeOK
<1>2. requests[r].pending = None
  BY <1>0, <1>1 DEF PendingWaits
<1>3. ~setting.redelivery => frames'[e] = 0
  <2>1. ~setting.redelivery => Quiet(e)
    BY <1>1 DEF OwnerInv, TokenPlace
  <2>2. frames'[e] = frames[e] \/ exec[e] # "idle"
    BY <1>0, StepIsLedgerStep
       DEF TypeOK, LedgerTypeOK, LedgerNext, LedgerStep, ledgerVars, BeginAttempt, SendFrame, WriteNotSent,
           TargetAccepts, WriteReceipt, TearReceipt, ExecutionLost, RecoverReceipt
  <2> QED
    BY <2>1, <2>2 DEF Quiet
<1>4. prep'[e] = "idle"
  <2>1. ~Prepare(e)
    BY <1>1 DEF Prepare, Reserved
  <2>2. \A d \in Deliveries :
            /\ d # e
            /\ Prepare(d) \/ Bind(d) \/ PreparationFails(d) \/ Abort(d) \/ AbortFails(d)
            => prep'[e] = prep[e]
    BY <1>0 DEF Prepare, Bind, PreparationFails, Abort, AbortFails, TypeOK
  <2>3. ~Bind(e) /\ ~PreparationFails(e) /\ ~Abort(e) /\ ~AbortFails(e)
    BY <1>1 DEF Bind, PreparationFails, Abort, AbortFails
  <2>4. Stop => prep'[e] = "idle"
    BY DEF Stop
  <2> QED
    BY <1>1, <2>1, <2>2, <2>3, <2>4, ZenonT(40)
    DEF Next, ResumePrepared, MarkDispatching,
      Dispatch, DispatchNotSent, DispatchAnswered, DispatchEnds, DispatchCommits, DispatchReturns,
      ReconcileStart, ReconcileAnswered, ReconcileEnds, ReconcileCommits, ReconcileReturns, RecordResponse,
      CancelDelivery, Cancel, Arrive, OwnerStep, Start, flightVars
<1> DEFINE Kept == \/ deliveries'[e] = deliveries[e] /\ requests'[r] = requests[r]
                   \/ requests'[r].status = "cancelled"
<1>5. Kept
  <2>1. CASE UNCHANGED storeVars
    BY <2>1 DEF storeVars
  <2>2. ASSUME NEW d \in Deliveries, Prepare(d) PROVE Kept
    <3>1. d # e /\ r # Asks[d] /\ r # Answers[d]
      BY <1>1, <2>2, RequestsAssumption DEF Prepare, Reserved
    <3> QED
      BY <1>1, <2>2, <3>1 DEF Prepare
  <2>3. ASSUME NEW d \in Deliveries, Bind(d) \/ Abort(d) PROVE Kept
    <3>1. d # e /\ r # Asks[d]
      BY <1>1, <2>3, RequestsAssumption DEF Bind, Abort
    <3> QED
      BY <1>0, <1>1, <1>2, <2>3, <3>1, RequestsAssumption DEF Bind, Abort, TypeOK
  <2>4. ASSUME NEW d \in Deliveries, MarkDispatching(d) \/ NotSent(d) \/ CancelAlone(d) PROVE Kept
    <3>1. d # e
      BY <1>1, <2>4 DEF MarkDispatching, NotSent, MarkNotSent, CancelAlone
    <3> QED
      BY <1>0, <2>4, <3>1 DEF MarkDispatching, NotSent, MarkNotSent, CancelAlone, TypeOK
  <2>5. ASSUME NEW d \in Deliveries, Commit(d) PROVE Kept
    <3>1. d # e /\ r # Asks[d]
      BY <1>1, <2>5, RequestsAssumption DEF Commit, CommitEndpointReceipt, Active
    <3>2. deliveries[d].state # "committed" => r # Answers[d]
      BY <1>1, <1>2, <2>5, RequestsAssumption DEF Commit, CommitEndpointReceipt
    <3> QED
      BY <1>0, <1>1, <2>5, <3>1, <3>2 DEF Commit, CommitEndpointReceipt, TypeOK, storeVars
  <2>6. ASSUME NEW d \in Deliveries, RecordResponse(d) PROVE Kept
    BY <1>0, <1>1, <2>6 DEF RecordResponse, TypeOK
  <2>7. ASSUME NEW q \in Requests, CancelOpen(q) PROVE Kept
    <3>1. CASE q = r
      BY <1>0, <1>1, <2>7, <3>1 DEF CancelOpen, TypeOK, Request
    <3>2. CASE q # r
      BY <1>0, <1>1, <2>7, <3>2 DEF CancelOpen, TypeOK
    <3> QED
      BY <3>1, <3>2
  <2> QED
    BY <1>0, <2>1, <2>2, <2>3, <2>4, <2>5, <2>6, <2>7, StoreOperation
<1> QED
  BY <1>1, <1>3, <1>4, <1>5 DEF OrphanReservation, Bound, Tracked

-----------------------------------------------------------------------------
\* The composed invariant is inductive.
LEMMA NextInv == RequestsInv /\ [Next]_vars => RequestsInv'
<1>1. ASSUME RequestsInv, Next PROVE RequestsInv'
  <2>1. LedgerInv'
    BY <1>1, StepIsLedgerStep, LedgerNextInv DEF RequestsInv
  <2>2. TypeOK'
    BY <1>1, <2>1, TypeStep DEF LedgerInv
  <2> QED
    BY <1>1, <2>1, <2>2, FlightsStep, StoreStep DEF RequestsInv
<1>2. ASSUME RequestsInv, UNCHANGED vars PROVE RequestsInv'
  <2>1. LedgerInv'
    BY <1>2, LedgerNextInv DEF vars, RequestsInv
  <2>2. TypeOK'
    BY <1>2, <2>1 DEF vars, RequestsInv, TypeOK, LedgerInv
  <2>3. FlightsInv'
    BY <1>2 DEF vars, ledgerVars, RequestsInv, FlightsInv
  <2>4. StoreInv'
    BY <1>2 DEF vars, ledgerVars, RequestsInv, StoreInv, CommittedWasAccepted, OneAnswer,
                DeliveredBeforeAnswered, PendingWaits, Tracked
  <2> QED
    BY <2>1, <2>2, <2>3, <2>4 DEF RequestsInv
<1> QED
  BY <1>1, <1>2

\* The store, the flights and the ledger keep their form.
THEOREM RequestsTypeCorrect == Spec => []TypeOK
<1>1. RequestsInv => TypeOK
  BY DEF RequestsInv
<1> QED
  BY <1>1, InitInv, NextInv, PTL DEF Spec

\* The Manager with its workflows, retries and recovery is one of the callers
\* that EndpointLedger allows: the composition implements the owner alone.
THEOREM RequestsImplementLedger == Spec => LedgerSpec
<1>1. Init => LedgerInit
  BY DEF Init
<1>2. RequestsInv /\ [Next]_vars => [LedgerNext]_ledgerVars
  BY StepIsLedgerStep DEF RequestsInv, vars
<1> QED
  BY <1>1, <1>2, InitInv, NextInv, PTL DEF Spec, LedgerSpec

\* Across the store's retries, reconciliations, cancellations and restarts,
\* the prompt of a delivery crosses at most once (beginAttempt).
THEOREM RequestsSendOnce == Spec => []AtMostOneFrame
BY RequestsImplementLedger, LedgerSendsOnce, PTL

\* The owner's receipts and proofs are true whatever the Manager does.
THEOREM RequestsEvidenceTrue == Spec => []EvidenceIsTrue
BY RequestsImplementLedger, LedgerIsTruthful, PTL

\* commitEndpointReceipt commits only what the target accepted.
THEOREM RequestsCommitAccepted == Spec => []CommittedWasAccepted
<1>1. RequestsInv => CommittedWasAccepted
  BY DEF RequestsInv, StoreInv
<1> QED
  BY <1>1, InitInv, NextInv, PTL DEF Spec

\* A request has at most one answer, the one that reserved it.
THEOREM RequestsOneAnswer == Spec => []OneAnswer
<1>1. RequestsInv => OneAnswer
  BY DEF RequestsInv, StoreInv
<1> QED
  BY <1>1, InitInv, NextInv, PTL DEF Spec

\* A request waits for an answer, or has one, only after its own delivery.
THEOREM RequestsDelivered == Spec => []DeliveredBeforeAnswered
<1>1. RequestsInv => DeliveredBeforeAnswered
  BY DEF RequestsInv, StoreInv
<1> QED
  BY <1>1, InitInv, NextInv, PTL DEF Spec

\* The store and the owner agree, in every state.
LEMMA RequestsOwnerInvariant == Spec => [](RequestsInv /\ OwnerInv)
BY InitInv, NextInv, OwnerInvInit, OwnerInvStep, PTL DEF Spec

\* A delivery that markEndpointNotSent returned to prepared has not been sent
\* when the transport hands a dispatch over once, and what the owner knows of a
\* dispatch can settle it when nothing dispatches behind its preparation.
THEOREM RequestsAgreeWithOwner == Spec => []StoreAgreesWithOwner
<1>1. OwnerInv => StoreAgreesWithOwner
  BY DEF OwnerInv, StoreAgreesWithOwner, PreparedIsUnsent, EvidenceCanSettle, TokenPlace, Quiet, OneGeneration
<1> QED
  BY <1>1, RequestsOwnerInvariant, PTL

\* cancelEndpointDelivery of a reply gives the answer it had reserved free.
THEOREM RequestsReplyReleases == Spec => []CancelledReplyReleases
<1>1. Init => CancelledReplyReleases
  BY Absent DEF Init, CancelledReplyReleases
<1> QED
  BY <1>1, InitInv, NextInv, ReleasesStep, PTL DEF Spec

\* A request whose preparation was lost between prepare and bind is sent by
\* nobody, and only its cancellation changes it.
THEOREM RequestsOrphanCancelled == Spec => OrphanIsOnlyCancelled
<1>1. RequestsInv /\ OwnerInv /\ [Next]_vars => [\A d \in Deliveries : OrphanKept(d)]_vars
  BY OrphanStep
<1>2. Spec => [][\A d \in Deliveries : OrphanKept(d)]_vars
  BY <1>1, RequestsOwnerInvariant, PTL DEF Spec
<1> QED
  BY <1>2 DEF OrphanIsOnlyCancelled, OrphanKept

\* Committed, cancelled and responded are final.
THEOREM RequestsOutcomesFinal == Spec => OutcomesAreFinal
<1>1. RequestsInv /\ [Next]_vars => [OutcomesKept]_vars
  BY StepMoves, MovesKeepOutcomes
<1>2. Spec => [][OutcomesKept]_vars
  BY <1>1, InitInv, NextInv, PTL DEF Spec
<1> QED
  BY <1>2 DEF OutcomesAreFinal, OutcomesKept
=============================================================================
