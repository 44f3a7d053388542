--------------------------- MODULE EndpointLedger ---------------------------
(***************************************************************************)
(* The execution owner of an endpoint delivery: the transport ledger of    *)
(* src/agentRequests/endpointTransportReceipts.ts and the transport        *)
(* algorithm of src/agentRequests/endpointExecution.ts.  The ledger keeps  *)
(* one durable file per delivery id.  A prompt may cross to the native     *)
(* target only in an attempt that the ledger opened, and a further attempt *)
(* is opened only over a durable proof that the one before wrote nothing.  *)
(*                                                                         *)
(* The module stands for whatever process executes: the Manager itself for *)
(* a local target, a connector or a peer Manager for a remote one.  Which  *)
(* dispatches reach it, how late and how often, is left open here (any     *)
(* generation, any attempt, at any time); AgentRequests composes it with   *)
(* the Manager that sends them.                                            *)
(***************************************************************************)
EXTENDS Naturals

CONSTANTS Deliveries,       \* delivery ids
          MaxGenerations,   \* bound: bindings of one delivery id
          MaxAttempts       \* bound: dispatch tokens of one delivery id

ASSUME LedgerAssumption == MaxGenerations \in Nat /\ MaxAttempts \in Nat

VARIABLES
    ledger,     \* the durable file of each delivery, or NoEntry
    exec,       \* the running execution of each delivery
    frames,     \* ghost: prompt frames that crossed to the native target
    accepted,   \* the native target has the prompt in its own log
    torn        \* a receipt's temporary file was left behind by a crash

ledgerVars == <<ledger, exec, frames, accepted, torn>>

Generations == 1 .. MaxGenerations
Attempts == 1 .. MaxAttempts

\* TransportEvidence: the frozen identity (generation), the Manager's dispatch
\* token, and what is known of the attempt.
Entry == [generation : Generations, attempt : Attempts,
          state : {"attempting", "not_sent"}, receipt : BOOLEAN]
NoEntry == [generation |-> 0]

ExecStates == {"idle", "send", "framed"}

LedgerTypeOK ==
    /\ ledger \in [Deliveries -> Entry \cup {NoEntry}]
    /\ exec \in [Deliveries -> ExecStates]
    /\ frames \in [Deliveries -> Nat]
    /\ accepted \in [Deliveries -> BOOLEAN]
    /\ torn \in [Deliveries -> BOOLEAN]

LedgerInit ==
    /\ ledger = [d \in Deliveries |-> NoEntry]
    /\ exec = [d \in Deliveries |-> "idle"]
    /\ frames = [d \in Deliveries |-> 0]
    /\ accepted = [d \in Deliveries |-> FALSE]
    /\ torn = [d \in Deliveries |-> FALSE]

-----------------------------------------------------------------------------
(* What the ledger answers.                                                *)

Known(d) == ledger[d] # NoEntry

\* read: a file of another generation is an identity mismatch and throws, so
\* everything below asks for the same generation first.
SameIdentity(d, g) == Known(d) /\ ledger[d].generation = g

\* readReceipt.
HasReceipt(d, g) == SameIdentity(d, g) /\ ledger[d].receipt

\* readNotSentProof: the proof counts only for the dispatch token that asks.
HasProof(d, g, a) ==
    /\ SameIdentity(d, g)
    /\ ledger[d].state = "not_sent"
    /\ ~ledger[d].receipt
    /\ ledger[d].attempt = a

(* Mutant: an unfinished attempt may be opened again. *)
OpensAttemptAgain(d, g, a) ==
    \/ ~Known(d)
    \/ /\ SameIdentity(d, g)
       /\ ~ledger[d].receipt
       /\ ledger[d].attempt # a

\* beginAttempt: whether this dispatch opens an attempt.  Without a file it
\* does; over a file only when that file proves that nothing was sent, and the
\* dispatch carries another token than the proven one.
OpensAttempt(d, g, a) ==
    \/ ~Known(d)
    \/ /\ SameIdentity(d, g)
       /\ ledger[d].state = "not_sent"
       /\ ~ledger[d].receipt
       /\ ledger[d].attempt # a

-----------------------------------------------------------------------------
(* Steps of the execution owner.                                           *)

\* executeNativeOwnerDelivery up to send: no receipt yet, the attempt is
\* durable before the prompt may cross.
BeginAttempt(d, g, a) ==
    /\ exec[d] = "idle"
    /\ ~HasReceipt(d, g)
    /\ OpensAttempt(d, g, a)
    /\ ledger' = [ledger EXCEPT ![d] = [generation |-> g, attempt |-> a,
                                        state |-> "attempting", receipt |-> FALSE]]
    /\ exec' = [exec EXCEPT ![d] = "send"]
    /\ UNCHANGED <<frames, accepted, torn>>

\* send writes the prompt frame.
SendFrame(d) ==
    /\ exec[d] = "send"
    /\ frames' = [frames EXCEPT ![d] = @ + 1]
    /\ exec' = [exec EXCEPT ![d] = "framed"]
    /\ UNCHANGED <<ledger, accepted, torn>>

\* send fails before a frame (EndpointDeliveryNotSentError): the proof is made
\* durable before anybody hears of it.
WriteNotSent(d) ==
    /\ exec[d] = "send"
    /\ ledger' = [ledger EXCEPT ![d].state = "not_sent"]
    /\ exec' = [exec EXCEPT ![d] = "idle"]
    /\ UNCHANGED <<frames, accepted, torn>>

\* The native target takes the prompt, now or long after its sender died.
TargetAccepts(d) ==
    /\ frames[d] > 0
    /\ ~accepted[d]
    /\ accepted' = [accepted EXCEPT ![d] = TRUE]
    /\ UNCHANGED <<ledger, exec, frames, torn>>

\* send returned the target's acceptance: writeReceipt.  The temporary file is
\* opened exclusively, so a leftover one refuses every later write.
WriteReceipt(d) ==
    /\ exec[d] = "framed"
    /\ accepted[d]
    /\ ~torn[d]
    /\ ledger' = [ledger EXCEPT ![d].receipt = TRUE]
    /\ exec' = [exec EXCEPT ![d] = "idle"]
    /\ UNCHANGED <<frames, accepted, torn>>

\* The process dies inside writeReceipt, between the exclusive open of the
\* temporary file and its rename: after a send, or in a reconciliation that
\* found the prompt in the target's log.
TearReceipt(d) ==
    /\ accepted[d]
    /\ ~ledger[d].receipt
    /\ ~torn[d]
    /\ torn' = [torn EXCEPT ![d] = TRUE]
    /\ exec' = [exec EXCEPT ![d] = "idle"]
    /\ UNCHANGED <<ledger, frames, accepted>>

\* The execution ends with nothing written: a crash, a timeout, an error of
\* unknown meaning, or authority lost at one of the checks between the steps.
ExecutionLost(d) ==
    /\ exec[d] # "idle"
    /\ exec' = [exec EXCEPT ![d] = "idle"]
    /\ UNCHANGED <<ledger, frames, accepted, torn>>

\* reconcileNativeOwnerDelivery without a receipt and without a proof: the
\* target's own log shows the prompt, and the receipt is recorded from it.
RecoverReceipt(d, g) ==
    /\ SameIdentity(d, g)
    /\ ~ledger[d].receipt
    /\ ledger[d].state = "attempting"
    /\ accepted[d]
    /\ ~torn[d]
    /\ ledger' = [ledger EXCEPT ![d].receipt = TRUE]
    /\ UNCHANGED <<exec, frames, accepted, torn>>

LedgerStep(d) ==
    \/ SendFrame(d)
    \/ WriteNotSent(d)
    \/ TargetAccepts(d)
    \/ WriteReceipt(d)
    \/ TearReceipt(d)
    \/ ExecutionLost(d)

\* The owner on its own, asked anything.
LedgerNext ==
    \E d \in Deliveries :
        \/ LedgerStep(d)
        \/ \E g \in Generations : RecoverReceipt(d, g)
        \/ \E g \in Generations, a \in Attempts : BeginAttempt(d, g, a)

LedgerSpec == LedgerInit /\ [][LedgerNext]_ledgerVars

-----------------------------------------------------------------------------
\* However often a delivery is dispatched, redispatched, duplicated in transit
\* or reconciled, and wherever its owner crashes, its prompt crosses to the
\* target at most once ("An attempted operation is never dispatched again
\* after a crash or timeout").
AtMostOneFrame == \A d \in Deliveries : frames[d] <= 1

\* A durable receipt means that the target has the prompt, and a durable
\* no-frame proof means that no frame of this delivery ever crossed.
EvidenceIsTrue ==
    \A d \in Deliveries : Known(d) =>
        /\ ledger[d].receipt => accepted[d]
        /\ (ledger[d].state = "not_sent" => frames[d] = 0)
=============================================================================
