----------------------- MODULE DurableDeliveryProofs -----------------------
(***************************************************************************)
(* Proofs about DurableDelivery, for every number of executions,           *)
(* reconcilers, processes, hosts and payloads.                             *)
(***************************************************************************)
EXTENDS DurableDelivery, TLAPS

(* A settlement keeps the digest of the receipt it settles. *)
LEMMA SettledDigest ==
  ASSUME TypeOK, Readable, NEW s \in {"completed", "uncertain"}
  PROVE  /\ [receipt EXCEPT !.state = s, !.owner = NoOwner] \in Receipt
         /\ [receipt EXCEPT !.state = s, !.owner = NoOwner].state = s
         /\ [receipt EXCEPT !.state = s, !.owner = NoOwner].digest = receipt.digest
BY DEF TypeOK, Readable, Receipt

(* Every step keeps the types, and the receipt file a call is filling is    *)
(* the empty one it created.                                                *)
LEMMA TypeStep == TypeOK /\ [Next]_vars => TypeOK'
<1> SUFFICES ASSUME TypeOK, [Next]_vars PROVE TypeOK'
  OBVIOUS
<1> USE DurableDeliveryAssumption
    DEF TypeOK, Busy, Outcomes, Receipt, Readable, Owned, execVars, recVars, receiptVars, Goto, RGoto, WriteReceipt
<1>1. ASSUME NEW e \in Executions, Begin(e) PROVE TypeOK'
  BY <1>1 DEF Begin
<1>2. ASSUME NEW e \in Executions, ReserveCreates(e) PROVE TypeOK'
  BY <1>2 DEF ReserveCreates
<1>3. ASSUME NEW e \in Executions, Fill(e) PROVE TypeOK'
  <2> DEFINE new == [state |-> "sending", digest |-> opt[e].digest, owner |-> e]
  <2>1. opt[e].digest \in Digests
    BY DEF Option
  <2>2. new \in Receipt
    BY <2>1
  <2>3. receipt' = new /\ expired' = FALSE /\ current' = {}
    BY <1>3 DEF Fill
  <2> HIDE DEF new
  <2> QED BY <1>3, <2>2, <2>3 DEF Fill
<1>4. ASSUME NEW e \in Executions, FillFails(e) PROVE TypeOK'
  BY <1>4 DEF FillFails
<1>5. ASSUME NEW e \in Executions, ReserveExists(e) PROVE TypeOK'
  BY <1>5 DEF ReserveExists
<1>6. ASSUME NEW e \in Executions, ReadExisting(e) PROVE TypeOK'
  BY <1>6 DEF ReadExisting, Decide
<1>7. ASSUME NEW e \in Executions, WaitForTerminal(e) PROVE TypeOK'
  BY <1>7 DEF WaitForTerminal, Decide
<1>8. ASSUME NEW e \in Executions, ClaimRefused(e) PROVE TypeOK'
  BY <1>8 DEF ClaimRefused
<1>9. ASSUME NEW e \in Executions, ClaimSucceeds(e) PROVE TypeOK'
  BY <1>9, ZenonT(40) DEF ClaimSucceeds
<1>10. ASSUME NEW e \in Executions, ClaimFails(e) PROVE TypeOK'
  BY <1>10 DEF ClaimFails
<1>11. ASSUME NEW e \in Executions, HeartbeatStarts(e) PROVE TypeOK'
  BY <1>11 DEF HeartbeatStarts
<1>12. ASSUME NEW e \in Executions, HeartbeatFails(e) PROVE TypeOK'
  BY <1>12 DEF HeartbeatFails
<1>13. ASSUME NEW e \in Executions, Send(e) PROVE TypeOK'
  BY <1>13 DEF Send
<1>14. ASSUME NEW e \in Executions, DeliverReturns(e) PROVE TypeOK'
  BY <1>14 DEF DeliverReturns
<1>15. ASSUME NEW e \in Executions, DeliverRejected(e) PROVE TypeOK'
  BY <1>15 DEF DeliverRejected
<1>16. ASSUME NEW e \in Executions, DeliverThrows(e) PROVE TypeOK'
  BY <1>16 DEF DeliverThrows, AfterThrow
<1>17. ASSUME NEW e \in Executions, RecoverProves(e) PROVE TypeOK'
  BY <1>17 DEF RecoverProves
<1>18. ASSUME NEW e \in Executions, RecoverRetries(e) PROVE TypeOK'
  BY <1>18 DEF RecoverRetries
<1>19. ASSUME NEW e \in Executions, RecoverCannotTell(e) PROVE TypeOK'
  BY <1>19 DEF RecoverCannotTell
<1>20. ASSUME NEW e \in Executions, Settle(e) PROVE TypeOK'
  <2>1. CASE Owned(e)
    <3>1. receipt' \in Receipt
      BY <1>20, <2>1, SettledDigest DEF Settle
    <3>2. pc' = [pc EXCEPT ![e] = "completed"] /\ \A f \in Executions : pc[f] # "fill"
      BY <1>20, <2>1 DEF Settle
    <3>3. expired' = FALSE /\ current' = {}
      BY <1>20, <2>1 DEF Settle
    <3>4. UNCHANGED <<opt, mode, wire, effects, recVars, alive, preempted>>
      BY <1>20 DEF Settle
    <3> QED BY <3>1, <3>2, <3>3, <3>4
  <2>2. CASE ~Owned(e)
    BY <1>20, <2>2 DEF Settle
  <2> QED BY <2>1, <2>2
<1>21. ASSUME NEW e \in Executions, SettleRejected(e) PROVE TypeOK'
  <2>1. CASE Owned(e)
    <3>1. pc' = [pc EXCEPT ![e] = "rejected"] /\ \A f \in Executions : pc[f] # "fill"
      BY <1>21, <2>1 DEF SettleRejected
    <3>2. receipt' = NoReceipt /\ expired' = FALSE /\ current' = {}
      BY <1>21, <2>1 DEF SettleRejected
    <3> QED BY <1>21, <3>1, <3>2 DEF SettleRejected
  <2>2. CASE ~Owned(e)
    BY <1>21, <2>2 DEF SettleRejected
  <2> QED BY <2>1, <2>2
<1>22. ASSUME NEW e \in Executions, SettleFails(e) PROVE TypeOK'
  BY <1>22 DEF SettleFails, AfterThrow
<1>23. ASSUME NEW e \in Executions, Mark(e) PROVE TypeOK'
  <2>1. CASE Owned(e)
    <3>1. receipt' \in Receipt
      BY <1>23, <2>1, SettledDigest DEF Mark
    <3>2. pc' = [pc EXCEPT ![e] = "uncertain"] /\ \A f \in Executions : pc[f] # "fill"
      BY <1>23, <2>1 DEF Mark
    <3>3. expired' = FALSE /\ current' = {}
      BY <1>23, <2>1 DEF Mark
    <3>4. UNCHANGED <<opt, mode, wire, effects, recVars, alive, preempted>>
      BY <1>23 DEF Mark
    <3> QED BY <3>1, <3>2, <3>3, <3>4
  <2>2. CASE ~Owned(e)
    BY <1>23, <2>2 DEF Mark
  <2> QED BY <2>1, <2>2
<1>24. ASSUME NEW e \in Executions, MarkFails(e) PROVE TypeOK'
  BY <1>24 DEF MarkFails
<1>25. ASSUME NEW e \in Executions, Release(e) PROVE TypeOK'
  <2>1. CASE Owned(e)
    <3>1. receipt' \in Receipt /\ \A f \in Executions : pc[f] # "fill"
      BY <1>25, <2>1 DEF Release
    <3>2. pc' = [pc EXCEPT ![e] = "in_progress"] /\ expired' = FALSE /\ current' = {}
      BY <1>25, <2>1 DEF Release
    <3>3. UNCHANGED <<opt, mode, wire, effects, recVars, alive, preempted>>
      BY <1>25 DEF Release
    <3> QED BY <3>1, <3>2, <3>3
  <2>2. CASE ~Owned(e)
    BY <1>25, <2>2 DEF Release
  <2> QED BY <2>1, <2>2
<1>26. ASSUME NEW e \in Executions, ReleaseFails(e) PROVE TypeOK'
  BY <1>26 DEF ReleaseFails
<1>27. ASSUME NEW e \in Executions, AuthorityThrows(e) PROVE TypeOK'
  BY <1>27 DEF AuthorityThrows
<1>28. ASSUME NEW e \in Executions, Lands(e) PROVE TypeOK'
  <2>1. opt[e].digest \in Digests
    BY DEF Option
  <2>2. effects' \in [Digests -> Nat]
    BY <1>28, <2>1 DEF Lands
  <2> QED BY <1>28, <2>2 DEF Lands
<1>29. ASSUME NEW e \in Executions, IsLost(e) PROVE TypeOK'
  BY <1>29 DEF IsLost
<1>30. ASSUME NEW r \in Reconcilers, ReconcileSnapshot(r) PROVE TypeOK'
  BY <1>30 DEF ReconcileSnapshot, ReconcileView
<1>31. ASSUME NEW r \in Reconcilers, ReconcileVerifies(r) PROVE TypeOK'
  BY <1>31 DEF ReconcileVerifies
<1>32. ASSUME NEW r \in Reconcilers, ReconcileGivesUp(r) PROVE TypeOK'
  BY <1>32 DEF ReconcileGivesUp
<1>33. ASSUME NEW r \in Reconcilers, ReconcileCommit(r) PROVE TypeOK'
  <2>1. CASE ReconcileView(r) = "go" /\ r \in current
    <3>1. Readable
      BY <2>1 DEF ReconcileView
    <3>2. receipt' \in Receipt /\ \A f \in Executions : pc[f] # "fill"
      BY <1>33, <2>1, <3>1, SettledDigest DEF ReconcileCommit
    <3>3. rpc' = [rpc EXCEPT ![r] = "completed"] /\ expired' = FALSE /\ current' = {}
      BY <1>33, <2>1 DEF ReconcileCommit
    <3>4. UNCHANGED <<execVars, wire, effects, rdigest, alive, preempted>>
      BY <1>33 DEF ReconcileCommit
    <3> QED BY <3>2, <3>3, <3>4
  <2>2. CASE ~(ReconcileView(r) = "go" /\ r \in current)
    BY <1>33, <2>2 DEF ReconcileCommit, ReconcileView
  <2> QED BY <2>1, <2>2
<1>34. ASSUME NEW p \in Procs, Crash(p) PROVE TypeOK'
  BY <1>34 DEF Crash
<1>35. CASE LeaseExpires
  BY <1>35 DEF LeaseExpires
<1>36. CASE UNCHANGED vars
  BY <1>36 DEF vars
<1> HIDE DEF TypeOK, Busy, Outcomes, Receipt, Readable, Owned, execVars, recVars, receiptVars,
             Goto, RGoto, WriteReceipt
<1>37. ASSUME NEW e \in Executions, ExecStep(e) PROVE TypeOK'
  BY <1>37, <1>2, <1>3, <1>4, <1>5, <1>6, <1>7, <1>8, <1>9, <1>10, <1>11, <1>12, <1>13, <1>14,
     <1>15, <1>16, <1>17, <1>18, <1>19, <1>20, <1>21, <1>22, <1>23, <1>24, <1>25, <1>26, <1>27
     DEF ExecStep
<1>38. ASSUME NEW r \in Reconcilers, RecStep(r) PROVE TypeOK'
  BY <1>38, <1>30, <1>31, <1>32, <1>33 DEF RecStep
<1> QED
  BY <1>37, <1>38, <1>1, <1>28, <1>29, <1>34, <1>35, <1>36 DEF Next

(* Type correctness of every state of a delivery. *)
THEOREM DeliveryTypeCorrect == Spec => []TypeOK
<1>1. Init => TypeOK
  <2> SUFFICES ASSUME Init PROVE TypeOK
    OBVIOUS
  <2>1. effects \in [Digests -> Nat] /\ pc \in [Executions -> Busy \cup Outcomes \cup {"idle"}]
    BY DEF Init
  <2>2. rpc \in [Reconcilers -> {"idle", "verify", "commit"} \cup Outcomes]
    BY DEF Init
  <2> QED BY <2>1, <2>2 DEF Init, TypeOK
<1> QED
  BY <1>1, TypeStep, PTL DEF Spec

(* No step changes a completed receipt. *)
LEMMA CompletedStep ==
  TypeOK /\ [Next]_vars => (Readable /\ receipt.state = "completed" => receipt' = receipt)
<1> SUFFICES ASSUME TypeOK, [Next]_vars, Readable, receipt.state = "completed"
             PROVE  receipt' = receipt
  OBVIOUS
<1> USE DEF Readable, Owned, receiptVars, WriteReceipt
<1>1. ASSUME NEW e \in Executions, Begin(e) PROVE receipt' = receipt
  BY <1>1 DEF Begin
<1>2. ASSUME NEW e \in Executions, ReserveCreates(e) PROVE receipt' = receipt
  BY <1>2 DEF ReserveCreates
<1>3. ASSUME NEW e \in Executions, Fill(e) PROVE receipt' = receipt
  BY <1>3 DEF Fill, TypeOK
<1>4. ASSUME NEW e \in Executions, FillFails(e) PROVE receipt' = receipt
  BY <1>4 DEF FillFails
<1>5. ASSUME NEW e \in Executions, ReserveExists(e) PROVE receipt' = receipt
  BY <1>5 DEF ReserveExists
<1>6. ASSUME NEW e \in Executions, ReadExisting(e) PROVE receipt' = receipt
  BY <1>6 DEF ReadExisting, Decide
<1>7. ASSUME NEW e \in Executions, WaitForTerminal(e) PROVE receipt' = receipt
  BY <1>7 DEF WaitForTerminal, Decide
<1>8. ASSUME NEW e \in Executions, ClaimRefused(e) PROVE receipt' = receipt
  BY <1>8 DEF ClaimRefused
<1>9. ASSUME NEW e \in Executions, ClaimSucceeds(e) PROVE receipt' = receipt
  BY <1>9 DEF ClaimSucceeds
<1>10. ASSUME NEW e \in Executions, ClaimFails(e) PROVE receipt' = receipt
  BY <1>10 DEF ClaimFails
<1>11. ASSUME NEW e \in Executions, HeartbeatStarts(e) PROVE receipt' = receipt
  BY <1>11 DEF HeartbeatStarts
<1>12. ASSUME NEW e \in Executions, HeartbeatFails(e) PROVE receipt' = receipt
  BY <1>12 DEF HeartbeatFails
<1>13. ASSUME NEW e \in Executions, Send(e) PROVE receipt' = receipt
  BY <1>13 DEF Send
<1>14. ASSUME NEW e \in Executions, DeliverReturns(e) PROVE receipt' = receipt
  BY <1>14 DEF DeliverReturns
<1>15. ASSUME NEW e \in Executions, DeliverRejected(e) PROVE receipt' = receipt
  BY <1>15 DEF DeliverRejected
<1>16. ASSUME NEW e \in Executions, DeliverThrows(e) PROVE receipt' = receipt
  BY <1>16 DEF DeliverThrows, AfterThrow
<1>17. ASSUME NEW e \in Executions, RecoverProves(e) PROVE receipt' = receipt
  BY <1>17 DEF RecoverProves
<1>18. ASSUME NEW e \in Executions, RecoverRetries(e) PROVE receipt' = receipt
  BY <1>18 DEF RecoverRetries
<1>19. ASSUME NEW e \in Executions, RecoverCannotTell(e) PROVE receipt' = receipt
  BY <1>19 DEF RecoverCannotTell
<1>20. ASSUME NEW e \in Executions, Settle(e) PROVE receipt' = receipt
  BY <1>20 DEF Settle
<1>21. ASSUME NEW e \in Executions, SettleRejected(e) PROVE receipt' = receipt
  BY <1>21 DEF SettleRejected
<1>22. ASSUME NEW e \in Executions, SettleFails(e) PROVE receipt' = receipt
  BY <1>22 DEF SettleFails, AfterThrow
<1>23. ASSUME NEW e \in Executions, Mark(e) PROVE receipt' = receipt
  BY <1>23 DEF Mark
<1>24. ASSUME NEW e \in Executions, MarkFails(e) PROVE receipt' = receipt
  BY <1>24 DEF MarkFails
<1>25. ASSUME NEW e \in Executions, Release(e) PROVE receipt' = receipt
  BY <1>25 DEF Release
<1>26. ASSUME NEW e \in Executions, ReleaseFails(e) PROVE receipt' = receipt
  BY <1>26 DEF ReleaseFails
<1>27. ASSUME NEW e \in Executions, AuthorityThrows(e) PROVE receipt' = receipt
  BY <1>27 DEF AuthorityThrows
<1>28. ASSUME NEW e \in Executions, Lands(e) PROVE receipt' = receipt
  BY <1>28 DEF Lands
<1>29. ASSUME NEW e \in Executions, IsLost(e) PROVE receipt' = receipt
  BY <1>29 DEF IsLost
<1>30. ASSUME NEW r \in Reconcilers, ReconcileSnapshot(r) PROVE receipt' = receipt
  BY <1>30 DEF ReconcileSnapshot, ReconcileView
<1>31. ASSUME NEW r \in Reconcilers, ReconcileVerifies(r) PROVE receipt' = receipt
  BY <1>31 DEF ReconcileVerifies
<1>32. ASSUME NEW r \in Reconcilers, ReconcileGivesUp(r) PROVE receipt' = receipt
  BY <1>32 DEF ReconcileGivesUp
<1>33. ASSUME NEW r \in Reconcilers, ReconcileCommit(r) PROVE receipt' = receipt
  BY <1>33 DEF ReconcileCommit, ReconcileView
<1>34. ASSUME NEW p \in Procs, Crash(p) PROVE receipt' = receipt
  BY <1>34 DEF Crash
<1>35. CASE LeaseExpires
  BY <1>35 DEF LeaseExpires
<1>36. CASE UNCHANGED vars
  BY <1>36 DEF vars
<1> HIDE DEF Readable, Owned, receiptVars, WriteReceipt
<1>37. ASSUME NEW e \in Executions, ExecStep(e) PROVE receipt' = receipt
  BY <1>37, <1>2, <1>3, <1>4, <1>5, <1>6, <1>7, <1>8, <1>9, <1>10, <1>11, <1>12, <1>13, <1>14,
     <1>15, <1>16, <1>17, <1>18, <1>19, <1>20, <1>21, <1>22, <1>23, <1>24, <1>25, <1>26, <1>27
     DEF ExecStep
<1>38. ASSUME NEW r \in Reconcilers, RecStep(r) PROVE receipt' = receipt
  BY <1>38, <1>30, <1>31, <1>32, <1>33 DEF RecStep
<1> QED
  BY <1>37, <1>38, <1>1, <1>28, <1>29, <1>34, <1>35, <1>36 DEF Next

(* A completed receipt is replayed and never overwritten or removed, by any *)
(* late owner, claimer or reconciler on any number of hosts.                *)
THEOREM CompletedNeverOverwritten == Spec => CompletedIsFinal
<1>1. TypeOK /\ [Next]_vars => [Readable /\ receipt.state = "completed" => receipt' = receipt]_vars
  BY CompletedStep
<1> QED
  BY <1>1, DeliveryTypeCorrect, PTL DEF Spec, CompletedIsFinal

(* The proof every completed receipt and outcome rests on is never lost. *)
TruthInv == ProofBeforeCompletion /\ CompletedIsTrue

LEMMA TruthStep == TypeOK /\ TruthInv /\ [Next]_vars => TruthInv'
<1> SUFFICES ASSUME TypeOK, TruthInv, [Next]_vars PROVE TruthInv'
  OBVIOUS
<1> USE DurableDeliveryAssumption
    DEF TruthInv, ProofBeforeCompletion, CompletedIsTrue, TypeOK, Receipt, Option, Readable,
        Owned, Busy, Outcomes, execVars, recVars, receiptVars, Goto, RGoto, WriteReceipt
<1>1. ASSUME NEW e \in Executions, Begin(e) PROVE TruthInv'
  BY <1>1 DEF Begin
<1>2. ASSUME NEW e \in Executions, ReserveCreates(e) PROVE TruthInv'
  BY <1>2 DEF ReserveCreates
<1>3. ASSUME NEW e \in Executions, Fill(e) PROVE TruthInv'
  BY <1>3 DEF Fill
<1>4. ASSUME NEW e \in Executions, FillFails(e) PROVE TruthInv'
  BY <1>4 DEF FillFails
<1>5. ASSUME NEW e \in Executions, ReserveExists(e) PROVE TruthInv'
  BY <1>5 DEF ReserveExists
<1>6. ASSUME NEW e \in Executions, ReadExisting(e) PROVE TruthInv'
  BY <1>6 DEF ReadExisting, Decide
<1>7. ASSUME NEW e \in Executions, WaitForTerminal(e) PROVE TruthInv'
  BY <1>7 DEF WaitForTerminal, Decide
<1>8. ASSUME NEW e \in Executions, ClaimRefused(e) PROVE TruthInv'
  BY <1>8 DEF ClaimRefused
<1>9. ASSUME NEW e \in Executions, ClaimSucceeds(e) PROVE TruthInv'
  BY <1>9 DEF ClaimSucceeds
<1>10. ASSUME NEW e \in Executions, ClaimFails(e) PROVE TruthInv'
  BY <1>10 DEF ClaimFails
<1>11. ASSUME NEW e \in Executions, HeartbeatStarts(e) PROVE TruthInv'
  BY <1>11 DEF HeartbeatStarts
<1>12. ASSUME NEW e \in Executions, HeartbeatFails(e) PROVE TruthInv'
  BY <1>12 DEF HeartbeatFails
<1>13. ASSUME NEW e \in Executions, Send(e) PROVE TruthInv'
  BY <1>13 DEF Send
<1>14. ASSUME NEW e \in Executions, DeliverReturns(e) PROVE TruthInv'
  BY <1>14 DEF DeliverReturns
<1>15. ASSUME NEW e \in Executions, DeliverRejected(e) PROVE TruthInv'
  BY <1>15 DEF DeliverRejected
<1>16. ASSUME NEW e \in Executions, DeliverThrows(e) PROVE TruthInv'
  BY <1>16 DEF DeliverThrows, AfterThrow
<1>17. ASSUME NEW e \in Executions, RecoverProves(e) PROVE TruthInv'
  BY <1>17 DEF RecoverProves
<1>18. ASSUME NEW e \in Executions, RecoverRetries(e) PROVE TruthInv'
  BY <1>18 DEF RecoverRetries
<1>19. ASSUME NEW e \in Executions, RecoverCannotTell(e) PROVE TruthInv'
  BY <1>19 DEF RecoverCannotTell
<1>20. ASSUME NEW e \in Executions, Settle(e) PROVE TruthInv'
  <2>1. CASE Owned(e)
    <3>1. receipt'.digest = opt[e].digest /\ effects[opt[e].digest] > 0
      BY <1>20, <2>1, SettledDigest DEF Settle
    <3>2. pc' = [pc EXCEPT ![e] = "completed"]
      BY <1>20, <2>1 DEF Settle
    <3>3. UNCHANGED <<opt, wire, effects, rpc, rdigest>>
      BY <1>20 DEF Settle
    <3> QED BY <3>1, <3>2, <3>3
  <2>2. CASE ~Owned(e)
    BY <1>20, <2>2 DEF Settle
  <2> QED BY <2>1, <2>2
<1>21. ASSUME NEW e \in Executions, SettleRejected(e) PROVE TruthInv'
  BY <1>21 DEF SettleRejected
<1>22. ASSUME NEW e \in Executions, SettleFails(e) PROVE TruthInv'
  BY <1>22 DEF SettleFails, AfterThrow
<1>23. ASSUME NEW e \in Executions, Mark(e) PROVE TruthInv'
  <2>1. pc' = [pc EXCEPT ![e] = "uncertain"] /\ UNCHANGED <<opt, wire, effects, rpc, rdigest>>
    BY <1>23 DEF Mark
  <2>2. CASE Owned(e)
    <3>1. receipt'.state = "uncertain"
      BY <1>23, <2>2, SettledDigest DEF Mark
    <3> QED BY <2>1, <3>1
  <2>3. CASE ~Owned(e)
    <3>1. receipt' = receipt
      BY <1>23, <2>3 DEF Mark
    <3> QED BY <2>1, <3>1
  <2> QED BY <2>2, <2>3
<1>24. ASSUME NEW e \in Executions, MarkFails(e) PROVE TruthInv'
  BY <1>24 DEF MarkFails
<1>25. ASSUME NEW e \in Executions, Release(e) PROVE TruthInv'
  BY <1>25 DEF Release
<1>26. ASSUME NEW e \in Executions, ReleaseFails(e) PROVE TruthInv'
  BY <1>26 DEF ReleaseFails
<1>27. ASSUME NEW e \in Executions, AuthorityThrows(e) PROVE TruthInv'
  BY <1>27 DEF AuthorityThrows
<1>28. ASSUME NEW e \in Executions, Lands(e) PROVE TruthInv'
  BY <1>28 DEF Lands
<1>29. ASSUME NEW e \in Executions, IsLost(e) PROVE TruthInv'
  BY <1>29 DEF IsLost
<1>30. ASSUME NEW r \in Reconcilers, ReconcileSnapshot(r) PROVE TruthInv'
  BY <1>30 DEF ReconcileSnapshot, ReconcileView
<1>31. ASSUME NEW r \in Reconcilers, ReconcileVerifies(r) PROVE TruthInv'
  BY <1>31 DEF ReconcileVerifies
<1>32. ASSUME NEW r \in Reconcilers, ReconcileGivesUp(r) PROVE TruthInv'
  BY <1>32 DEF ReconcileGivesUp
<1>33. ASSUME NEW r \in Reconcilers, ReconcileCommit(r) PROVE TruthInv'
  <2>1. CASE ReconcileView(r) = "go" /\ r \in current
    <3>1. Readable /\ receipt.digest = rdigest[r] /\ effects[rdigest[r]] > 0
      BY <1>33, <2>1 DEF ReconcileCommit, ReconcileView
    <3>2. receipt'.digest = rdigest[r] /\ rpc' = [rpc EXCEPT ![r] = "completed"]
      BY <1>33, <2>1, <3>1, SettledDigest DEF ReconcileCommit
    <3>3. UNCHANGED <<pc, opt, wire, effects, rdigest>>
      BY <1>33 DEF ReconcileCommit
    <3> QED BY <3>1, <3>2, <3>3
  <2>2. CASE ~(ReconcileView(r) = "go" /\ r \in current)
    <3>1. rpc'[r] = "completed" => Readable /\ receipt.digest = rdigest[r]
                                             /\ receipt.state = "completed"
      BY <1>33, <2>2 DEF ReconcileCommit, ReconcileView
    <3>2. /\ \A x \in Reconcilers \ {r} : rpc'[x] = rpc[x]
          /\ rpc'[r] # "commit"
          /\ receipt' = receipt
          /\ UNCHANGED <<execVars, wire, effects, rdigest>>
      BY <1>33, <2>2 DEF ReconcileCommit, ReconcileView
    <3> QED BY <3>1, <3>2
  <2> QED BY <2>1, <2>2
<1>34. ASSUME NEW p \in Procs, Crash(p) PROVE TruthInv'
  BY <1>34 DEF Crash
<1>35. CASE LeaseExpires
  BY <1>35 DEF LeaseExpires
<1>36. CASE UNCHANGED vars
  BY <1>36 DEF vars
<1> HIDE DEF TruthInv, ProofBeforeCompletion, CompletedIsTrue, TypeOK, Receipt, Option, Readable,
             Owned, Busy, Outcomes, execVars, recVars, receiptVars, Goto, RGoto, WriteReceipt
<1>37. ASSUME NEW e \in Executions, ExecStep(e) PROVE TruthInv'
  BY <1>37, <1>2, <1>3, <1>4, <1>5, <1>6, <1>7, <1>8, <1>9, <1>10, <1>11, <1>12, <1>13, <1>14,
     <1>15, <1>16, <1>17, <1>18, <1>19, <1>20, <1>21, <1>22, <1>23, <1>24, <1>25, <1>26, <1>27
     DEF ExecStep
<1>38. ASSUME NEW r \in Reconcilers, RecStep(r) PROVE TruthInv'
  BY <1>38, <1>30, <1>31, <1>32, <1>33 DEF RecStep
<1> QED
  BY <1>37, <1>38, <1>1, <1>28, <1>29, <1>34, <1>35, <1>36 DEF Next

(* A completed receipt, and every completed outcome, means that the side   *)
(* effect of that payload happened.                                        *)
THEOREM CompletedTruth == Spec => []CompletedIsTrue
<1>1. Init => TruthInv
  BY DEF Init, TruthInv, ProofBeforeCompletion, CompletedIsTrue, Readable
<1>2. TruthInv => CompletedIsTrue
  BY DEF TruthInv
<1> QED
  BY <1>1, <1>2, TruthStep, DeliveryTypeCorrect, PTL DEF Spec

(* On one host an owner that lives is active for every caller. *)
LEMMA LocalOwnerActive ==
  ASSUME TypeOK, OneHost, NEW p \in Procs, Readable, receipt.state = "sending",
         receipt.owner # NoOwner, Live(receipt.owner)
  PROVE  ReceiptExecutionActive(p, receipt)
BY DurableDeliveryAssumption
   DEF ReceiptExecutionActive, OneHost, Live, TypeOK, Readable, Receipt

(* So do the steps that settle. *)
LEMMA SettlementKeepsDigest ==
  ASSUME TypeOK, NEW e \in Executions, Settle(e) \/ Mark(e), receipt' # receipt
  PROVE  receipt' \in Receipt /\ receipt'.digest = receipt.digest /\ Readable
<1>1. Readable
  BY DEF Settle, Mark, Owned, receiptVars
<1> QED
  BY <1>1, SettledDigest DEF Settle, Mark, WriteReceipt, receiptVars

(* A live execution past its reservation or claim keeps the receipt, unless *)
(* it is claimed away or reconciled.                                        *)
LEMMA LiveOwnersStep ==
  TypeOK /\ preempted' = {} /\ LiveOwners /\ [Next]_vars => LiveOwners'
<1> SUFFICES ASSUME TypeOK, preempted' = {}, LiveOwners, [Next]_vars PROVE LiveOwners'
  OBVIOUS
<1> USE DurableDeliveryAssumption
    DEF LiveOwners, OwnerPCs, Live, TypeOK, Receipt, Readable, Owned, Busy, Outcomes,
        execVars, recVars, receiptVars, Goto, RGoto, WriteReceipt
<1>1. ASSUME NEW e \in Executions, Begin(e) PROVE LiveOwners'
  BY <1>1 DEF Begin
<1>2. ASSUME NEW e \in Executions, ReserveCreates(e) PROVE LiveOwners'
  BY <1>2 DEF ReserveCreates
<1>3. ASSUME NEW e \in Executions, Fill(e) PROVE LiveOwners'
  <2> DEFINE new == [state |-> "sending", digest |-> opt[e].digest, owner |-> e]
  <2>1. opt[e].digest \in Digests
    BY DEF Option
  <2>2. new \in Receipt
    BY <2>1
  <2>3. new.state = "sending" /\ new.digest = opt[e].digest /\ new.owner = e
    OBVIOUS
  <2>4. receipt' = new /\ pc' = [pc EXCEPT ![e] = "heartbeat"] /\ ~Readable
    BY <1>3 DEF Fill
  <2> HIDE DEF new
  <2> QED BY <1>3, <2>2, <2>3, <2>4 DEF Fill
<1>4. ASSUME NEW e \in Executions, FillFails(e) PROVE LiveOwners'
  BY <1>4 DEF FillFails
<1>5. ASSUME NEW e \in Executions, ReserveExists(e) PROVE LiveOwners'
  BY <1>5 DEF ReserveExists
<1>6. ASSUME NEW e \in Executions, ReadExisting(e) PROVE LiveOwners'
  BY <1>6 DEF ReadExisting, Decide
<1>7. ASSUME NEW e \in Executions, WaitForTerminal(e) PROVE LiveOwners'
  BY <1>7 DEF WaitForTerminal, Decide
<1>8. ASSUME NEW e \in Executions, ClaimRefused(e) PROVE LiveOwners'
  BY <1>8 DEF ClaimRefused
<1>9. ASSUME NEW e \in Executions, ClaimSucceeds(e) PROVE LiveOwners'
  <2> DEFINE new == [state |-> "sending", digest |-> receipt.digest, owner |-> e]
  <2>1. Readable /\ receipt.digest = opt[e].digest /\ receipt.state # "completed"
    BY <1>9 DEF ClaimSucceeds
  <2>2. new \in Receipt /\ new.state = "sending" /\ new.digest = receipt.digest /\ new.owner = e
    BY <2>1
  <2>3. receipt' = new /\ pc' = [pc EXCEPT ![e] = "heartbeat"] /\ UNCHANGED <<opt, alive>>
    BY <1>9 DEF ClaimSucceeds
  <2>4. ~(receipt.owner # NoOwner /\ Live(receipt.owner) /\ pc[receipt.owner] \in Busy)
    BY <1>9, <2>1 DEF ClaimSucceeds
  <2>5. \A f \in Executions \ {e} : ~(Live(f) /\ pc[f] \in OwnerPCs)
    BY <2>1, <2>4
  <2> HIDE DEF new
  <2> QED BY <2>1, <2>2, <2>3, <2>5
<1>10. ASSUME NEW e \in Executions, ClaimFails(e) PROVE LiveOwners'
  BY <1>10 DEF ClaimFails
<1>11. ASSUME NEW e \in Executions, HeartbeatStarts(e) PROVE LiveOwners'
  BY <1>11 DEF HeartbeatStarts
<1>12. ASSUME NEW e \in Executions, HeartbeatFails(e) PROVE LiveOwners'
  BY <1>12 DEF HeartbeatFails
<1>13. ASSUME NEW e \in Executions, Send(e) PROVE LiveOwners'
  BY <1>13 DEF Send
<1>14. ASSUME NEW e \in Executions, DeliverReturns(e) PROVE LiveOwners'
  BY <1>14 DEF DeliverReturns
<1>15. ASSUME NEW e \in Executions, DeliverRejected(e) PROVE LiveOwners'
  BY <1>15 DEF DeliverRejected
<1>16. ASSUME NEW e \in Executions, DeliverThrows(e) PROVE LiveOwners'
  BY <1>16 DEF DeliverThrows, AfterThrow
<1>17. ASSUME NEW e \in Executions, RecoverProves(e) PROVE LiveOwners'
  BY <1>17 DEF RecoverProves
<1>18. ASSUME NEW e \in Executions, RecoverRetries(e) PROVE LiveOwners'
  BY <1>18 DEF RecoverRetries
<1>19. ASSUME NEW e \in Executions, RecoverCannotTell(e) PROVE LiveOwners'
  BY <1>19 DEF RecoverCannotTell
<1>20. ASSUME NEW e \in Executions, Settle(e) PROVE LiveOwners'
  BY <1>20 DEF Settle
<1>21. ASSUME NEW e \in Executions, SettleRejected(e) PROVE LiveOwners'
  BY <1>21 DEF SettleRejected
<1>22. ASSUME NEW e \in Executions, SettleFails(e) PROVE LiveOwners'
  BY <1>22 DEF SettleFails, AfterThrow
<1>23. ASSUME NEW e \in Executions, Mark(e) PROVE LiveOwners'
  BY <1>23 DEF Mark
<1>24. ASSUME NEW e \in Executions, MarkFails(e) PROVE LiveOwners'
  BY <1>24 DEF MarkFails
<1>25. ASSUME NEW e \in Executions, Release(e) PROVE LiveOwners'
  BY <1>25 DEF Release
<1>26. ASSUME NEW e \in Executions, ReleaseFails(e) PROVE LiveOwners'
  BY <1>26 DEF ReleaseFails
<1>27. ASSUME NEW e \in Executions, AuthorityThrows(e) PROVE LiveOwners'
  BY <1>27 DEF AuthorityThrows
<1>28. ASSUME NEW e \in Executions, Lands(e) PROVE LiveOwners'
  BY <1>28 DEF Lands
<1>29. ASSUME NEW e \in Executions, IsLost(e) PROVE LiveOwners'
  BY <1>29 DEF IsLost
<1>30. ASSUME NEW r \in Reconcilers, ReconcileSnapshot(r) PROVE LiveOwners'
  BY <1>30 DEF ReconcileSnapshot, ReconcileView
<1>31. ASSUME NEW r \in Reconcilers, ReconcileVerifies(r) PROVE LiveOwners'
  BY <1>31 DEF ReconcileVerifies
<1>32. ASSUME NEW r \in Reconcilers, ReconcileGivesUp(r) PROVE LiveOwners'
  BY <1>32 DEF ReconcileGivesUp
<1>33. ASSUME NEW r \in Reconcilers, ReconcileCommit(r) PROVE LiveOwners'
  <2>1. CASE receipt' = receipt
    BY <1>33, <2>1 DEF ReconcileCommit
  <2>2. CASE receipt' # receipt
    <3>1. /\ receipt' \in Receipt /\ receipt'.digest = receipt.digest /\ receipt'.state = "completed"
          /\ Readable
      BY <1>33, <2>2, SettledDigest, ZenonT(40) DEF ReconcileCommit, ReconcileView
    <3>2. UNCHANGED <<opt, pc, alive>>
      BY <1>33 DEF ReconcileCommit
    <3> QED BY <3>1, <3>2
  <2> QED BY <2>1, <2>2
<1>34. ASSUME NEW p \in Procs, Crash(p) PROVE LiveOwners'
  BY <1>34 DEF Crash
<1>35. CASE LeaseExpires
  BY <1>35 DEF LeaseExpires
<1>36. CASE UNCHANGED vars
  BY <1>36 DEF vars
<1> HIDE DEF LiveOwners, OwnerPCs, Live, TypeOK, Receipt, Readable, Owned, Busy, Outcomes,
             execVars, recVars, receiptVars, Goto, RGoto, WriteReceipt
<1>37. ASSUME NEW e \in Executions, ExecStep(e) PROVE LiveOwners'
  BY <1>37, <1>2, <1>3, <1>4, <1>5, <1>6, <1>7, <1>8, <1>9, <1>10, <1>11, <1>12, <1>13, <1>14,
     <1>15, <1>16, <1>17, <1>18, <1>19, <1>20, <1>21, <1>22, <1>23, <1>24, <1>25, <1>26, <1>27
     DEF ExecStep
<1>38. ASSUME NEW r \in Reconcilers, RecStep(r) PROVE LiveOwners'
  BY <1>38, <1>30, <1>31, <1>32, <1>33 DEF RecStep
<1> QED
  BY <1>37, <1>38, <1>1, <1>28, <1>29, <1>34, <1>35, <1>36 DEF Next

(* Nothing has been sent, and nothing is on its way, when an execution is   *)
(* about to send for the first time, to retry, or to remove the receipt.    *)
LEMMA QuietStep ==
  TypeOK /\ TypeOK' /\ CompletedIsTrue /\ LiveOwners /\ LiveOwners' /\ QuietBeforeSend
    /\ SentUnderReceipt /\ [Next]_vars => QuietBeforeSend'
<1> SUFFICES ASSUME TypeOK, TypeOK', CompletedIsTrue, LiveOwners, LiveOwners', QuietBeforeSend,
                    SentUnderReceipt, [Next]_vars
             PROVE  QuietBeforeSend'
  OBVIOUS
<1> USE DurableDeliveryAssumption
    DEF QuietBeforeSend, Quiet, LiveOwners, SentUnderReceipt, OwnerPCs, Live, TypeOK, Receipt,
        Option, Readable, Owned, Busy, Outcomes,
        execVars, recVars, receiptVars, Goto, RGoto, WriteReceipt
<1>1. ASSUME NEW e \in Executions, Begin(e) PROVE QuietBeforeSend'
  BY <1>1 DEF Begin
<1>2. ASSUME NEW e \in Executions, ReserveCreates(e) PROVE QuietBeforeSend'
  BY <1>2 DEF ReserveCreates
<1>3. ASSUME NEW e \in Executions, Fill(e) PROVE QuietBeforeSend'
  <2> DEFINE new == [state |-> "sending", digest |-> opt[e].digest, owner |-> e]
  <2>1. opt[e].digest \in Digests
    BY DEF Option
  <2>2. new \in Receipt
    BY <2>1
  <2>3. new.state = "sending" /\ new.digest = opt[e].digest /\ new.owner = e
    OBVIOUS
  <2>4. receipt' = new /\ pc' = [pc EXCEPT ![e] = "heartbeat"] /\ ~Readable
    BY <1>3 DEF Fill
  <2> HIDE DEF new
  <2> QED BY <1>3, <2>2, <2>3, <2>4 DEF Fill
<1>4. ASSUME NEW e \in Executions, FillFails(e) PROVE QuietBeforeSend'
  BY <1>4 DEF FillFails
<1>5. ASSUME NEW e \in Executions, ReserveExists(e) PROVE QuietBeforeSend'
  BY <1>5 DEF ReserveExists
<1>6. ASSUME NEW e \in Executions, ReadExisting(e) PROVE QuietBeforeSend'
  BY <1>6 DEF ReadExisting, Decide
<1>7. ASSUME NEW e \in Executions, WaitForTerminal(e) PROVE QuietBeforeSend'
  BY <1>7 DEF WaitForTerminal, Decide
<1>8. ASSUME NEW e \in Executions, ClaimRefused(e) PROVE QuietBeforeSend'
  BY <1>8 DEF ClaimRefused
<1>9. ASSUME NEW e \in Executions, ClaimSucceeds(e) PROVE QuietBeforeSend'
  BY <1>9 DEF ClaimSucceeds
<1>10. ASSUME NEW e \in Executions, ClaimFails(e) PROVE QuietBeforeSend'
  BY <1>10 DEF ClaimFails
<1>11. ASSUME NEW e \in Executions, HeartbeatStarts(e) PROVE QuietBeforeSend'
  BY <1>11 DEF HeartbeatStarts
<1>12. ASSUME NEW e \in Executions, HeartbeatFails(e) PROVE QuietBeforeSend'
  BY <1>12 DEF HeartbeatFails
<1>13. ASSUME NEW e \in Executions, Send(e) PROVE QuietBeforeSend'
  <2>1. Readable /\ receipt.state # "completed"
    <3>1. Quiet /\ Readable /\ receipt.digest \in Digests
      BY <1>13 DEF Send
    <3>2. effects[receipt.digest] = 0
      BY <3>1
    <3> QED BY <3>1, <3>2 DEF CompletedIsTrue
  <2>2. \A f \in Executions : Live(f) /\ pc[f] \in OwnerPCs => f = e
    BY <1>13, <2>1 DEF Send
  <2> QED BY <1>13, <2>2 DEF Send
<1>14. ASSUME NEW e \in Executions, DeliverReturns(e) PROVE QuietBeforeSend'
  BY <1>14 DEF DeliverReturns
<1>15. ASSUME NEW e \in Executions, DeliverRejected(e) PROVE QuietBeforeSend'
  BY <1>15 DEF DeliverRejected
<1>16. ASSUME NEW e \in Executions, DeliverThrows(e) PROVE QuietBeforeSend'
  BY <1>16 DEF DeliverThrows, AfterThrow
<1>17. ASSUME NEW e \in Executions, RecoverProves(e) PROVE QuietBeforeSend'
  BY <1>17 DEF RecoverProves
<1>18. ASSUME NEW e \in Executions, RecoverRetries(e) PROVE QuietBeforeSend'
  BY <1>18 DEF RecoverRetries
<1>19. ASSUME NEW e \in Executions, RecoverCannotTell(e) PROVE QuietBeforeSend'
  BY <1>19 DEF RecoverCannotTell
<1>20. ASSUME NEW e \in Executions, Settle(e) PROVE QuietBeforeSend'
  <2>1. CASE receipt' = receipt
    BY <1>20, <2>1 DEF Settle
  <2>2. CASE receipt' # receipt
    <3>1. receipt' \in Receipt /\ receipt'.digest = receipt.digest /\ Readable
      BY <1>20, <2>2, SettlementKeepsDigest
    <3>2. UNCHANGED <<wire, effects, opt, mode, alive>>
      BY <1>20 DEF Settle
    <3>3. pc' = [pc EXCEPT ![e] = "completed"]
      BY <1>20, <2>2 DEF Settle
    <3> QED BY <1>20, <3>1, <3>2, <3>3
  <2> QED BY <2>1, <2>2
<1>21. ASSUME NEW e \in Executions, SettleRejected(e) PROVE QuietBeforeSend'
  BY <1>21 DEF SettleRejected
<1>22. ASSUME NEW e \in Executions, SettleFails(e) PROVE QuietBeforeSend'
  BY <1>22 DEF SettleFails, AfterThrow
<1>23. ASSUME NEW e \in Executions, Mark(e) PROVE QuietBeforeSend'
  <2>1. CASE receipt' = receipt
    BY <1>23, <2>1 DEF Mark
  <2>2. CASE receipt' # receipt
    <3>1. receipt' \in Receipt /\ receipt'.digest = receipt.digest /\ Readable
      BY <1>23, <2>2, SettlementKeepsDigest
    <3>2. UNCHANGED <<wire, effects, opt, mode, alive>>
      BY <1>23 DEF Mark
    <3>3. pc' = [pc EXCEPT ![e] = "uncertain"]
      BY <1>23, <2>2 DEF Mark
    <3> QED BY <1>23, <3>1, <3>2, <3>3
  <2> QED BY <2>1, <2>2
<1>24. ASSUME NEW e \in Executions, MarkFails(e) PROVE QuietBeforeSend'
  BY <1>24 DEF MarkFails
<1>25. ASSUME NEW e \in Executions, Release(e) PROVE QuietBeforeSend'
  BY <1>25 DEF Release
<1>26. ASSUME NEW e \in Executions, ReleaseFails(e) PROVE QuietBeforeSend'
  BY <1>26 DEF ReleaseFails
<1>27. ASSUME NEW e \in Executions, AuthorityThrows(e) PROVE QuietBeforeSend'
  BY <1>27 DEF AuthorityThrows
<1>28. ASSUME NEW e \in Executions, Lands(e) PROVE QuietBeforeSend'
  BY <1>28 DEF Lands
<1>29. ASSUME NEW e \in Executions, IsLost(e) PROVE QuietBeforeSend'
  BY <1>29 DEF IsLost
<1>30. ASSUME NEW r \in Reconcilers, ReconcileSnapshot(r) PROVE QuietBeforeSend'
  BY <1>30 DEF ReconcileSnapshot, ReconcileView
<1>31. ASSUME NEW r \in Reconcilers, ReconcileVerifies(r) PROVE QuietBeforeSend'
  BY <1>31 DEF ReconcileVerifies
<1>32. ASSUME NEW r \in Reconcilers, ReconcileGivesUp(r) PROVE QuietBeforeSend'
  BY <1>32 DEF ReconcileGivesUp
<1>33. ASSUME NEW r \in Reconcilers, ReconcileCommit(r) PROVE QuietBeforeSend'
  <2>1. CASE receipt' = receipt
    BY <1>33, <2>1 DEF ReconcileCommit, ReconcileView
  <2>2. CASE receipt' # receipt
    <3>1. receipt' \in Receipt /\ receipt'.digest = receipt.digest /\ Readable
      <4>1. ReconcileView(r) = "go" /\ r \in current
        BY <1>33, <2>2 DEF ReconcileCommit
      <4>2. Readable
        BY <4>1 DEF ReconcileView
      <4>3. receipt' = [receipt EXCEPT !.state = "completed", !.owner = NoOwner]
        BY <1>33, <4>1 DEF ReconcileCommit
      <4> QED BY <4>2, <4>3, SettledDigest
    <3>2. UNCHANGED <<wire, effects, opt, mode, alive>>
      BY <1>33 DEF ReconcileCommit
    <3>3. pc' = pc
      BY <1>33, <2>2 DEF ReconcileCommit
    <3> QED BY <1>33, <3>1, <3>2, <3>3
  <2> QED BY <2>1, <2>2
<1>34. ASSUME NEW p \in Procs, Crash(p) PROVE QuietBeforeSend'
  BY <1>34 DEF Crash
<1>35. CASE LeaseExpires
  BY <1>35 DEF LeaseExpires
<1>36. CASE UNCHANGED vars
  BY <1>36 DEF vars
<1> HIDE DEF QuietBeforeSend, Quiet, LiveOwners, SentUnderReceipt, OwnerPCs, Live, TypeOK,
             Receipt, Option, Readable, Owned, Busy, Outcomes, execVars, recVars, receiptVars,
             Goto, RGoto, WriteReceipt
<1>37. ASSUME NEW e \in Executions, ExecStep(e) PROVE QuietBeforeSend'
  BY <1>37, <1>2, <1>3, <1>4, <1>5, <1>6, <1>7, <1>8, <1>9, <1>10, <1>11, <1>12, <1>13, <1>14,
     <1>15, <1>16, <1>17, <1>18, <1>19, <1>20, <1>21, <1>22, <1>23, <1>24, <1>25, <1>26, <1>27
     DEF ExecStep
<1>38. ASSUME NEW r \in Reconcilers, RecStep(r) PROVE QuietBeforeSend'
  BY <1>38, <1>30, <1>31, <1>32, <1>33 DEF RecStep
<1> QED
  BY <1>37, <1>38, <1>1, <1>28, <1>29, <1>34, <1>35, <1>36 DEF Next

(* Whatever was sent carries the digest of the receipt, and only once. *)
LEMMA SentStep ==
  TypeOK /\ LiveOwners /\ QuietBeforeSend /\ SentUnderReceipt /\ [Next]_vars
    => SentUnderReceipt'
<1> SUFFICES ASSUME TypeOK, LiveOwners, QuietBeforeSend, SentUnderReceipt, [Next]_vars
             PROVE  SentUnderReceipt'
  OBVIOUS
<1> USE DurableDeliveryAssumption
    DEF QuietBeforeSend, Quiet, LiveOwners, SentUnderReceipt, OwnerPCs, Live, TypeOK, Receipt,
        Option, Readable, Owned, Busy, Outcomes,
        execVars, recVars, receiptVars, Goto, RGoto, WriteReceipt
<1>1. ASSUME NEW e \in Executions, Begin(e) PROVE SentUnderReceipt'
  BY <1>1 DEF Begin
<1>2. ASSUME NEW e \in Executions, ReserveCreates(e) PROVE SentUnderReceipt'
  BY <1>2 DEF ReserveCreates
<1>3. ASSUME NEW e \in Executions, Fill(e) PROVE SentUnderReceipt'
  BY <1>3 DEF Fill
<1>4. ASSUME NEW e \in Executions, FillFails(e) PROVE SentUnderReceipt'
  BY <1>4 DEF FillFails
<1>5. ASSUME NEW e \in Executions, ReserveExists(e) PROVE SentUnderReceipt'
  BY <1>5 DEF ReserveExists
<1>6. ASSUME NEW e \in Executions, ReadExisting(e) PROVE SentUnderReceipt'
  BY <1>6 DEF ReadExisting, Decide
<1>7. ASSUME NEW e \in Executions, WaitForTerminal(e) PROVE SentUnderReceipt'
  BY <1>7 DEF WaitForTerminal, Decide
<1>8. ASSUME NEW e \in Executions, ClaimRefused(e) PROVE SentUnderReceipt'
  BY <1>8 DEF ClaimRefused
<1>9. ASSUME NEW e \in Executions, ClaimSucceeds(e) PROVE SentUnderReceipt'
  BY <1>9 DEF ClaimSucceeds
<1>10. ASSUME NEW e \in Executions, ClaimFails(e) PROVE SentUnderReceipt'
  BY <1>10 DEF ClaimFails
<1>11. ASSUME NEW e \in Executions, HeartbeatStarts(e) PROVE SentUnderReceipt'
  BY <1>11 DEF HeartbeatStarts
<1>12. ASSUME NEW e \in Executions, HeartbeatFails(e) PROVE SentUnderReceipt'
  BY <1>12 DEF HeartbeatFails
<1>13. ASSUME NEW e \in Executions, Send(e) PROVE SentUnderReceipt'
  BY <1>13 DEF Send
<1>14. ASSUME NEW e \in Executions, DeliverReturns(e) PROVE SentUnderReceipt'
  BY <1>14 DEF DeliverReturns
<1>15. ASSUME NEW e \in Executions, DeliverRejected(e) PROVE SentUnderReceipt'
  BY <1>15 DEF DeliverRejected
<1>16. ASSUME NEW e \in Executions, DeliverThrows(e) PROVE SentUnderReceipt'
  BY <1>16 DEF DeliverThrows, AfterThrow
<1>17. ASSUME NEW e \in Executions, RecoverProves(e) PROVE SentUnderReceipt'
  BY <1>17 DEF RecoverProves
<1>18. ASSUME NEW e \in Executions, RecoverRetries(e) PROVE SentUnderReceipt'
  BY <1>18 DEF RecoverRetries
<1>19. ASSUME NEW e \in Executions, RecoverCannotTell(e) PROVE SentUnderReceipt'
  BY <1>19 DEF RecoverCannotTell
<1>20. ASSUME NEW e \in Executions, Settle(e) PROVE SentUnderReceipt'
  <2>1. CASE receipt' = receipt
    BY <1>20, <2>1 DEF Settle
  <2>2. CASE receipt' # receipt
    <3>1. receipt' \in Receipt /\ receipt'.digest = receipt.digest /\ Readable
      BY <1>20, <2>2, SettlementKeepsDigest
    <3>2. UNCHANGED <<wire, effects, opt, mode, alive>>
      BY <1>20 DEF Settle
    <3>3. pc' = [pc EXCEPT ![e] = "completed"]
      BY <1>20, <2>2 DEF Settle
    <3> QED BY <1>20, <3>1, <3>2, <3>3
  <2> QED BY <2>1, <2>2
<1>21. ASSUME NEW e \in Executions, SettleRejected(e) PROVE SentUnderReceipt'
  BY <1>21 DEF SettleRejected
<1>22. ASSUME NEW e \in Executions, SettleFails(e) PROVE SentUnderReceipt'
  BY <1>22 DEF SettleFails, AfterThrow
<1>23. ASSUME NEW e \in Executions, Mark(e) PROVE SentUnderReceipt'
  <2>1. CASE receipt' = receipt
    BY <1>23, <2>1 DEF Mark
  <2>2. CASE receipt' # receipt
    <3>1. receipt' \in Receipt /\ receipt'.digest = receipt.digest /\ Readable
      BY <1>23, <2>2, SettlementKeepsDigest
    <3>2. UNCHANGED <<wire, effects, opt, mode, alive>>
      BY <1>23 DEF Mark
    <3>3. pc' = [pc EXCEPT ![e] = "uncertain"]
      BY <1>23, <2>2 DEF Mark
    <3> QED BY <1>23, <3>1, <3>2, <3>3
  <2> QED BY <2>1, <2>2
<1>24. ASSUME NEW e \in Executions, MarkFails(e) PROVE SentUnderReceipt'
  BY <1>24 DEF MarkFails
<1>25. ASSUME NEW e \in Executions, Release(e) PROVE SentUnderReceipt'
  BY <1>25 DEF Release
<1>26. ASSUME NEW e \in Executions, ReleaseFails(e) PROVE SentUnderReceipt'
  BY <1>26 DEF ReleaseFails
<1>27. ASSUME NEW e \in Executions, AuthorityThrows(e) PROVE SentUnderReceipt'
  BY <1>27 DEF AuthorityThrows
<1>28. ASSUME NEW e \in Executions, Lands(e) PROVE SentUnderReceipt'
  BY <1>28 DEF Lands
<1>29. ASSUME NEW e \in Executions, IsLost(e) PROVE SentUnderReceipt'
  BY <1>29 DEF IsLost
<1>30. ASSUME NEW r \in Reconcilers, ReconcileSnapshot(r) PROVE SentUnderReceipt'
  BY <1>30 DEF ReconcileSnapshot, ReconcileView
<1>31. ASSUME NEW r \in Reconcilers, ReconcileVerifies(r) PROVE SentUnderReceipt'
  BY <1>31 DEF ReconcileVerifies
<1>32. ASSUME NEW r \in Reconcilers, ReconcileGivesUp(r) PROVE SentUnderReceipt'
  BY <1>32 DEF ReconcileGivesUp
<1>33. ASSUME NEW r \in Reconcilers, ReconcileCommit(r) PROVE SentUnderReceipt'
  <2>1. CASE receipt' = receipt
    BY <1>33, <2>1 DEF ReconcileCommit, ReconcileView
  <2>2. CASE receipt' # receipt
    <3>1. receipt' \in Receipt /\ receipt'.digest = receipt.digest /\ Readable
      <4>1. ReconcileView(r) = "go" /\ r \in current
        BY <1>33, <2>2 DEF ReconcileCommit
      <4>2. Readable
        BY <4>1 DEF ReconcileView
      <4>3. receipt' = [receipt EXCEPT !.state = "completed", !.owner = NoOwner]
        BY <1>33, <4>1 DEF ReconcileCommit
      <4> QED BY <4>2, <4>3, SettledDigest
    <3>2. UNCHANGED <<wire, effects, opt, mode, alive>>
      BY <1>33 DEF ReconcileCommit
    <3>3. pc' = pc
      BY <1>33, <2>2 DEF ReconcileCommit
    <3> QED BY <1>33, <3>1, <3>2, <3>3
  <2> QED BY <2>1, <2>2
<1>34. ASSUME NEW p \in Procs, Crash(p) PROVE SentUnderReceipt'
  BY <1>34 DEF Crash
<1>35. CASE LeaseExpires
  BY <1>35 DEF LeaseExpires
<1>36. CASE UNCHANGED vars
  BY <1>36 DEF vars
<1> HIDE DEF QuietBeforeSend, Quiet, LiveOwners, SentUnderReceipt, OwnerPCs, Live, TypeOK,
             Receipt, Option, Readable, Owned, Busy, Outcomes, execVars, recVars, receiptVars,
             Goto, RGoto, WriteReceipt
<1>37. ASSUME NEW e \in Executions, ExecStep(e) PROVE SentUnderReceipt'
  BY <1>37, <1>2, <1>3, <1>4, <1>5, <1>6, <1>7, <1>8, <1>9, <1>10, <1>11, <1>12, <1>13, <1>14,
     <1>15, <1>16, <1>17, <1>18, <1>19, <1>20, <1>21, <1>22, <1>23, <1>24, <1>25, <1>26, <1>27
     DEF ExecStep
<1>38. ASSUME NEW r \in Reconcilers, RecStep(r) PROVE SentUnderReceipt'
  BY <1>38, <1>30, <1>31, <1>32, <1>33 DEF RecStep
<1> QED
  BY <1>37, <1>38, <1>1, <1>28, <1>29, <1>34, <1>35, <1>36 DEF Next

(* Only a claim adds to the preempted executions. *)
LEMMA PreemptedStep ==
  [Next]_vars => preempted' = preempted \/ \E e \in Executions : ClaimSucceeds(e)
<1>1. ASSUME NEW e \in Executions,
             \/ Begin(e) \/ ReserveCreates(e) \/ Fill(e) \/ FillFails(e) \/ ReserveExists(e)
             \/ ReadExisting(e) \/ WaitForTerminal(e) \/ ClaimRefused(e) \/ ClaimFails(e)
             \/ HeartbeatStarts(e) \/ HeartbeatFails(e) \/ Send(e) \/ DeliverReturns(e)
      PROVE  preempted' = preempted
  BY <1>1 DEF Begin, ReserveCreates, Fill, FillFails, ReserveExists, ReadExisting, WaitForTerminal,
              ClaimRefused, ClaimFails, HeartbeatStarts, HeartbeatFails, Send, DeliverReturns
<1>2. ASSUME NEW e \in Executions,
             \/ DeliverRejected(e) \/ DeliverThrows(e) \/ RecoverProves(e) \/ RecoverRetries(e)
             \/ RecoverCannotTell(e) \/ Settle(e) \/ SettleRejected(e) \/ SettleFails(e) \/ Mark(e)
             \/ MarkFails(e) \/ Release(e) \/ ReleaseFails(e) \/ AuthorityThrows(e) \/ Lands(e) \/ IsLost(e)
      PROVE  preempted' = preempted
  BY <1>2 DEF DeliverRejected, DeliverThrows, RecoverProves, RecoverRetries, RecoverCannotTell, Settle,
              SettleRejected, SettleFails, Mark, MarkFails, Release, ReleaseFails, AuthorityThrows, Lands, IsLost
<1>3. ASSUME NEW r \in Reconcilers, RecStep(r) PROVE preempted' = preempted
  BY <1>3 DEF RecStep, ReconcileSnapshot, ReconcileVerifies, ReconcileGivesUp, ReconcileCommit
<1>4. ASSUME NEW p \in Procs, Crash(p) PROVE preempted' = preempted
  BY <1>4 DEF Crash
<1>5. LeaseExpires \/ UNCHANGED vars => preempted' = preempted
  BY DEF LeaseExpires, vars
<1> QED
  BY <1>1, <1>2, <1>3, <1>4, <1>5 DEF Next, ExecStep

(* While nobody is preempted, ownership, silence before a send and the      *)
(* digest of what was sent are kept by every step.                          *)
LEMMA OnceStep ==
  TypeOK /\ TypeOK' /\ CompletedIsTrue /\ OnceInv /\ [Next]_vars => OnceInv'
<1> SUFFICES ASSUME TypeOK, TypeOK', CompletedIsTrue, OnceInv, [Next]_vars, preempted' = {}
             PROVE  (LiveOwners /\ QuietBeforeSend /\ SentUnderReceipt)'
  BY DEF OnceInv
<1>1. preempted = {}
  BY PreemptedStep DEF ClaimSucceeds
<1> QED BY <1>1, LiveOwnersStep, QuietStep, SentStep DEF OnceInv

(* Nothing is sent twice, and no receipt of something sent is removed,      *)
(* while nobody is preempted.                                               *)
LEMMA OnceInvariant == Spec => []OnceInv
<1>1. Init => OnceInv
  BY DEF Init, OnceInv, LiveOwners, QuietBeforeSend, SentUnderReceipt, Quiet, OwnerPCs
<1> QED
  BY <1>1, OnceStep, CompletedTruth, DeliveryTypeCorrect, PTL DEF Spec

(* A step that leaves the receipt alone leaves its owner executing, or      *)
(* throws.                                                                  *)
LEMMA OwnerGoesOn ==
  ASSUME TypeOK, ExecutingOwner, receipt' = receipt, opt' = opt, NEW e \in Executions,
         NEW l, pc' = [pc EXCEPT ![e] = l],
         pc[e] \in OwnerPCs \cup {"threw"} => l \in OwnerPCs \cup {"threw"} \/ ~Owned(e)
  PROVE  ExecutingOwner'
<1> SUFFICES ASSUME Readable, receipt.owner # NoOwner
             PROVE  /\ receipt.state = "sending" /\ pc'[receipt.owner] \in OwnerPCs \cup {"threw"}
                    /\ receipt.digest = opt[receipt.owner].digest
  BY DEF ExecutingOwner, Readable
<1>1. /\ receipt.state = "sending" /\ pc[receipt.owner] \in OwnerPCs \cup {"threw"}
      /\ receipt.digest = opt[receipt.owner].digest /\ receipt.owner \in Executions
  BY DEF ExecutingOwner, TypeOK, Receipt, Readable
<1>2. receipt.owner = e => Owned(e)
  BY <1>1 DEF Owned
<1> QED BY <1>1, <1>2 DEF TypeOK

(* A receipt that names no owner satisfies it. *)
LEMMA OwnerlessReceipt ==
  ASSUME TypeOK, Readable,
         \/ receipt' = NoReceipt \/ receipt' = Blank
         \/ receipt' = [receipt EXCEPT !.owner = NoOwner]
         \/ \E s \in {"completed", "uncertain"} :
               receipt' = [receipt EXCEPT !.state = s, !.owner = NoOwner]
  PROVE  ExecutingOwner'
BY DEF ExecutingOwner, Readable, TypeOK, Receipt

(* The owner a receipt names executes or has thrown, after every step. *)
LEMMA ExecutingOwnerStep ==
  TypeOK /\ ExecutingOwner /\ [Next]_vars => ExecutingOwner'
<1> SUFFICES ASSUME TypeOK, ExecutingOwner, [Next]_vars PROVE ExecutingOwner'
  OBVIOUS
<1> USE DEF Goto, WriteReceipt, receiptVars, execVars
<1>1. ASSUME NEW e \in Executions,
             \/ Begin(e) \/ ReserveExists(e) \/ ReadExisting(e) \/ WaitForTerminal(e)
             \/ ClaimRefused(e) \/ ClaimFails(e) \/ FillFails(e)
      PROVE  ExecutingOwner'
  <2>1. PICK l : pc' = [pc EXCEPT ![e] = l]
    BY <1>1 DEF Begin, ReserveExists, ReadExisting, WaitForTerminal, ClaimRefused, ClaimFails, FillFails
  <2>2. receipt' = receipt /\ opt' = opt /\ pc[e] \notin OwnerPCs \cup {"threw"}
    BY <1>1 DEF Begin, ReserveExists, ReadExisting, WaitForTerminal, ClaimRefused, ClaimFails, FillFails,
                OwnerPCs
  <2> QED BY <2>1, <2>2, OwnerGoesOn
<1>2. ASSUME NEW e \in Executions,
             \/ HeartbeatStarts(e) \/ HeartbeatFails(e) \/ Send(e) \/ DeliverReturns(e) \/ DeliverRejected(e)
             \/ DeliverThrows(e) \/ RecoverProves(e) \/ RecoverRetries(e) \/ RecoverCannotTell(e)
             \/ SettleFails(e) \/ MarkFails(e) \/ ReleaseFails(e) \/ AuthorityThrows(e)
      PROVE  ExecutingOwner'
  <2>1. PICK l \in OwnerPCs \cup {"threw"} : pc' = [pc EXCEPT ![e] = l]
    BY <1>2 DEF HeartbeatStarts, HeartbeatFails, Send, DeliverReturns, DeliverRejected, DeliverThrows,
                RecoverProves, RecoverRetries, RecoverCannotTell, SettleFails, MarkFails, ReleaseFails,
                AuthorityThrows, AfterThrow, OwnerPCs
  <2>2. receipt' = receipt /\ opt' = opt
    BY <1>2 DEF HeartbeatStarts, HeartbeatFails, Send, DeliverReturns, DeliverRejected, DeliverThrows,
                RecoverProves, RecoverRetries, RecoverCannotTell, SettleFails, MarkFails, ReleaseFails,
                AuthorityThrows
  <2> QED BY <2>1, <2>2, OwnerGoesOn
<1>3. ASSUME NEW e \in Executions, ReserveCreates(e) PROVE ExecutingOwner'
  BY <1>3 DEF ReserveCreates, ExecutingOwner, Readable
<1>4. ASSUME NEW e \in Executions, NEW d \in Digests, d = opt[e].digest, pc' = [pc EXCEPT ![e] = "heartbeat"],
             receipt' = [state |-> "sending", digest |-> d, owner |-> e], opt' = opt
      PROVE  ExecutingOwner'
  <2>1. receipt'.state = "sending" /\ receipt'.digest = opt'[e].digest /\ receipt'.owner = e
    BY <1>4
  <2>2. pc'[e] = "heartbeat"
    BY <1>4 DEF TypeOK
  <2> QED BY <2>1, <2>2 DEF ExecutingOwner, OwnerPCs
<1>5. ASSUME NEW e \in Executions, Fill(e) PROVE ExecutingOwner'
  BY <1>4, <1>5 DEF Fill, TypeOK, Option
<1>6. ASSUME NEW e \in Executions, ClaimSucceeds(e) PROVE ExecutingOwner'
  BY <1>4, <1>6 DEF ClaimSucceeds, TypeOK, Option
<1>7. ASSUME NEW e \in Executions, Settle(e) \/ SettleRejected(e) \/ Mark(e) \/ Release(e), Owned(e)
      PROVE  ExecutingOwner'
  BY <1>7, OwnerlessReceipt DEF Settle, SettleRejected, Mark, Release, Owned
<1>8. ASSUME NEW e \in Executions, Settle(e) \/ SettleRejected(e) \/ Mark(e) \/ Release(e), ~Owned(e)
      PROVE  ExecutingOwner'
  <2>1. PICK l : pc' = [pc EXCEPT ![e] = l]
    BY <1>8 DEF Settle, SettleRejected, Mark, Release
  <2>2. receipt' = receipt /\ opt' = opt
    BY <1>8 DEF Settle, SettleRejected, Mark, Release
  <2> QED BY <1>8, <2>1, <2>2, OwnerGoesOn
<1>9. ASSUME NEW r \in Reconcilers, ReconcileCommit(r), receipt' # receipt PROVE ExecutingOwner'
  BY <1>9, OwnerlessReceipt DEF ReconcileCommit, ReconcileView
<1>10. CASE UNCHANGED <<receipt, pc, opt>>
  BY <1>10 DEF ExecutingOwner, Readable
<1>11. ASSUME NEW r \in Reconcilers, RecStep(r), ~ReconcileCommit(r) \/ receipt' = receipt
       PROVE  ExecutingOwner'
  BY <1>10, <1>11 DEF RecStep, ReconcileSnapshot, ReconcileVerifies, ReconcileGivesUp, ReconcileCommit
<1>12. ASSUME NEW e \in Executions, Lands(e) \/ IsLost(e) PROVE ExecutingOwner'
  BY <1>10, <1>12 DEF Lands, IsLost
<1>13. CASE LeaseExpires \/ (\E p \in Procs : Crash(p)) \/ UNCHANGED vars
  BY <1>10, <1>13 DEF LeaseExpires, Crash, vars
<1> QED
  BY <1>1, <1>2, <1>3, <1>5, <1>6, <1>7, <1>8, <1>9, <1>11, <1>12, <1>13 DEF Next, ExecStep, RecStep

(* The owner a receipt names executes, or its call has thrown. *)
LEMMA OwnersExecute == Spec => []ExecutingOwner
<1>1. Init => ExecutingOwner
  BY DEF Init, ExecutingOwner, Readable
<1> QED
  BY <1>1, ExecutingOwnerStep, DeliveryTypeCorrect, PTL DEF Spec

(* A receipt is answered in_progress only while its execution runs, under   *)
(* its lease or in a live process of this host, or after it threw in such a *)
(* process, or while a lease of another host has not expired.               *)
THEOREM InProgressIsExplained == Spec => []InProgressHasCause
<1>1. TypeOK /\ ExecutingOwner => InProgressHasCause
  <2> SUFFICES ASSUME TypeOK, ExecutingOwner, Readable, NEW p \in alive, QueryState(p) = "in_progress"
               PROVE  \/ pc[receipt.owner] \in Busy /\ Live(receipt.owner) /\ ~expired
                      \/ /\ pc[receipt.owner] \in Busy /\ Live(receipt.owner)
                         /\ HostOf[ProcOf[receipt.owner]] = HostOf[p]
                      \/ /\ pc[receipt.owner] = "threw" /\ Live(receipt.owner)
                         /\ HostOf[ProcOf[receipt.owner]] = HostOf[p]
                      \/ /\ ~(pc[receipt.owner] \in Busy /\ Live(receipt.owner))
                         /\ HostOf[ProcOf[receipt.owner]] # HostOf[p] /\ ~expired
    BY Zenon DEF InProgressHasCause
  <2>1. receipt.state \in {"sending", "completed", "uncertain"}
    BY DEF TypeOK, Readable, Receipt
  <2>2. ReceiptExecutionActive(p, receipt)
    BY <2>1 DEF QueryState
  <2>3. receipt.owner # NoOwner
    BY <2>2 DEF ReceiptExecutionActive
  <2>4. pc[receipt.owner] \in Busy \cup {"threw"}
    BY <2>3 DEF ExecutingOwner, OwnerPCs, Busy
  <2>5. CASE HostOf[ProcOf[receipt.owner]] = HostOf[p]
    <3>1. Live(receipt.owner)
      BY <2>2, <2>5 DEF ReceiptExecutionActive, Live
    <3> QED BY <2>4, <2>5, <3>1
  <2>6. CASE HostOf[ProcOf[receipt.owner]] # HostOf[p]
    <3>1. ~expired
      BY <2>2, <2>6 DEF ReceiptExecutionActive
    <3> QED BY <2>4, <2>6, <3>1
  <2> QED BY <2>5, <2>6
<1> QED
  BY <1>1, OwnersExecute, DeliveryTypeCorrect, PTL

(* On one host the owner's process is looked up, so that a running          *)
(* execution is never claimed away.                                         *)
THEOREM LocalOwnersKeepReceipts == Spec => []NoLocalPreemption
<1>1. Init => NoLocalPreemption
  BY DEF Init, NoLocalPreemption
<1>2. TypeOK /\ ExecutingOwner /\ NoLocalPreemption /\ [Next]_vars => NoLocalPreemption'
  <2> SUFFICES ASSUME TypeOK, ExecutingOwner, NoLocalPreemption, [Next]_vars, OneHost PROVE preempted' = {}
    BY DEF NoLocalPreemption, OneHost
  <2>1. preempted = {}
    BY DEF NoLocalPreemption
  <2>2. ASSUME NEW e \in Executions, ClaimSucceeds(e) PROVE preempted' = preempted
    <3>1. ProcOf[e] \in Procs
      BY DurableDeliveryAssumption
    <3>2. CASE receipt.state = "sending"
      BY <2>2, <3>1, <3>2, LocalOwnerActive DEF ClaimSucceeds
    <3>3. CASE receipt.state = "uncertain"
      BY <2>2, <3>3 DEF ClaimSucceeds, ExecutingOwner
    <3> QED BY <2>2, <3>2, <3>3 DEF ClaimSucceeds
  <2> QED BY <2>1, <2>2, PreemptedStep
<1> QED
  BY <1>1, <1>2, OwnersExecute, DeliveryTypeCorrect, PTL DEF Spec

(* On any number of hosts an additional effect, or one of another payload,  *)
(* needs an execution that lost its receipt while it was running.           *)
THEOREM ExtraEffectWasPreempted == Spec => []ExtraEffectNeedsPreemption
<1>1. TypeOK /\ OnceInv => ExtraEffectNeedsPreemption
  BY DEF OnceInv, SentUnderReceipt, ExtraEffectNeedsPreemption, TypeOK
<1> QED
  BY <1>1, OnceInvariant, DeliveryTypeCorrect, PTL

(* On one host the side effect of a deliveryId happens at most once, for at *)
(* most one payload, through any crashes, claims, recoveries and retries.   *)
THEOREM DeliveredAtMostOnce == Spec => []AtMostOnce
<1>1. NoLocalPreemption /\ ExtraEffectNeedsPreemption => AtMostOnce
  BY DEF NoLocalPreemption, ExtraEffectNeedsPreemption, AtMostOnce
<1> QED
  BY <1>1, LocalOwnersKeepReceipts, ExtraEffectWasPreempted, PTL

(* Once the side effect happened the receipt is not removed, so that the    *)
(* deliveryId cannot be reserved for a second send, unless a running        *)
(* execution was preempted.                                                 *)
THEOREM EvidenceNeverLost == Spec => []EvidenceKept
<1>1. TypeOK /\ OnceInv => EvidenceKept
  BY DEF OnceInv, QuietBeforeSend, Quiet, Readable, EvidenceKept, TypeOK
<1> QED
  BY <1>1, OnceInvariant, DeliveryTypeCorrect, PTL
=============================================================================
