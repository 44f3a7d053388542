------------------------- MODULE GatewayActivation -------------------------
(***************************************************************************)
(* How a saved Route reaches its Gateway, for one Route:                   *)
(*   - the runtime service that starts, restarts and stops the Gateway     *)
(*     child (src/manager/managerGatewayRuntimeService.ts and its          *)
(*     callbacks in src/manager/controlPlaneRoutes.ts);                    *)
(*   - the activation owner that decides between a live update and a       *)
(*     restart, and keeps a receipt per operation                          *)
(*     (src/manager/gatewayRouteActivationOwner.ts);                       *)
(*   - the supervisor of one child's pipes                                 *)
(*     (src/manager/gatewayRouteSnapshotSupervisor.ts);                    *)
(*   - the receiver in the Gateway                                         *)
(*     (src/runtime/gatewayRouteSnapshotReceiver.ts).                      *)
(* The Route stays enabled, and applications of the catalog come one after *)
(* the other, as the owner requires.  A definition is its own revision.    *)
(***************************************************************************)
EXTENDS Naturals, Sequences

CONSTANTS
    Definitions,    \* records [shared, endpoint] of the Route
    Mutations,      \* operations with a receipt
    Captures,       \* background operations, without one
    None,
    MaxStarts,      \* bound: children started
    MaxPrepares     \* bound: applications of the catalog

Operations == Mutations \cup Captures
Gens == 1 .. MaxStarts

OpStates == {"pending", "applied", "rejected", "uncertain", "unknown"}
Op == [id : Operations, seq : 1 .. MaxPrepares, base : Definitions, rev : Definitions]
Command == [kind : {"apply", "status"}, op : Op]
Ack == [op : Op, state : OpStates]
Last == [op : Op, state : {"pending", "applied", "rejected", "uncertain"}]
Supervisor == [open : BOOLEAN, applied : Definitions, op : Op \cup {None},
               ack : OpStates \cup {None}, waiting : BOOLEAN, seq : 0 .. MaxPrepares]
Receipt == [state : {"applied", "requested", "rejected", "uncertain"}, rev : Definitions]
Prepare == [pc : {"declaring", "inspecting", "applying", "resolving"}, op : Operations,
            resolve : BOOLEAN, gen : 0 .. MaxStarts]

ASSUME ActivationAssumption ==
    /\ Definitions \subseteq [shared : {d.shared : d \in Definitions}, endpoint : {d.endpoint : d \in Definitions}]
    /\ Mutations \cap Captures = {}
    /\ MaxStarts \in Nat \ {0}
    /\ MaxPrepares \in Nat
    /\ None \notin Definitions /\ None \notin Operations /\ None \notin OpStates
    /\ \A revs \in SUBSET Definitions : revs # None
    /\ None \notin Op /\ None \notin Last /\ None \notin Supervisor /\ None \notin Receipt /\ None \notin Prepare

VARIABLES
    desired,        \* runtime.definition
    needsRestart,   \* runtime.needsRestart
    proc,           \* runtime.process is set
    ready,          \* runtime.readiness is "ready"
    gen,            \* number of the current or last child
    announced,      \* the child has printed READY
    gw,             \* the receiver in the child: its revision and last operation
    toGw,           \* the child's stdin
    toManager,      \* the child's stdout
    sups,           \* the supervisor of each child
    prep,           \* the running application of the catalog
    prepares,
    receipts,       \* the owner's receipts
    served,         \* history: revisions in effect since an operation began
    restarting      \* history: a restart was asked for, or asked for and revoked

childVars == <<proc, ready, gen, announced, gw, toGw, toManager, needsRestart, restarting>>
vars == <<childVars, desired, sups, prep, prepares, receipts, served>>

-----------------------------------------------------------------------------
TypeOK ==
    /\ desired \in Definitions
    /\ needsRestart \in BOOLEAN /\ proc \in BOOLEAN /\ ready \in BOOLEAN /\ announced \in BOOLEAN
    /\ gen \in 0 .. MaxStarts
    /\ gw \in [rev : Definitions, last : Last \cup {None}]
    /\ toGw \in Seq(Command)
    /\ toManager \in Seq(Ack)
    /\ sups \in [Gens -> Supervisor \cup {None}]
    /\ prep \in Prepare \cup {None}
    /\ prepares \in 0 .. MaxPrepares
    /\ receipts \in [Mutations -> Receipt \cup {None}]
    /\ served \in [Mutations -> (SUBSET Definitions) \cup {None}]
    /\ restarting \in {"no", "asked", "revoked"}
    /\ \A g \in Gens : sups[g] # None /\ sups[g].open => proc /\ announced /\ g = gen

Init ==
    /\ desired \in Definitions
    /\ needsRestart = FALSE /\ proc = FALSE /\ ready = FALSE /\ announced = FALSE
    /\ gen = 0
    /\ gw = [rev |-> desired, last |-> None]
    /\ toGw = <<>> /\ toManager = <<>>
    /\ sups = [g \in Gens |-> None]
    /\ prep = None
    /\ prepares = 0
    /\ receipts = [o \in Mutations |-> None]
    /\ served = [o \in Mutations |-> None]
    /\ restarting = "no"

\* classifyRouteChange: other fields than those of endpoints differ.
Shared(old, new) == old.shared # new.shared

Serves(rev) == served' = [o \in Mutations |-> IF served[o] = None THEN None ELSE served[o] \cup {rev}]

-----------------------------------------------------------------------------
(* The child.                                                              *)

\* startGatewayRuntime, with the definition of the moment.
Start ==
    /\ gen < MaxStarts
    /\ gen' = gen + 1
    /\ proc' = TRUE /\ ready' = FALSE /\ announced' = FALSE
    /\ gw' = [rev |-> desired, last |-> None]
    /\ toGw' = <<>> /\ toManager' = <<>>
    /\ needsRestart' = FALSE
    /\ restarting' = "no"

\* What the flag now says about a restart the child was already told to make.
Flag(needed) ==
    /\ needsRestart' = needed
    /\ restarting' = IF restarting = "asked" /\ ~needed THEN "revoked" ELSE restarting

\* restartRuntime: the child is told to exit; its exit starts the next one.
Kill ==
    /\ needsRestart' = TRUE
    /\ restarting' = "asked"
    /\ UNCHANGED <<proc, ready, gen, announced, gw, toGw, toManager>>

\* reconcile, when the flag has become `needed`.
SyncRunningGateways(needed) ==
    IF ~proc THEN Start
    ELSE IF needed THEN Kill
    ELSE Flag(FALSE) /\ UNCHANGED <<proc, ready, gen, announced, gw, toGw, toManager>>

\* detached; only an application that holds the supervisor still sees it.
Closed(s) == IF s = None \/ prep = None \/ prep.gen # gen THEN None
             ELSE [s EXCEPT !.open = FALSE, !.waiting = FALSE]

\* READY: attach, and receipts that wait for exactly this boot revision.
Ready ==
    /\ proc /\ ~announced
    /\ announced' = TRUE /\ ready' = TRUE
    /\ sups' = [sups EXCEPT ![gen] = [open |-> TRUE, applied |-> gw.rev, op |-> None,
                                      ack |-> None, waiting |-> FALSE, seq |-> 0]]
    /\ receipts' = [o \in Mutations |->
          IF receipts[o] # None /\ receipts[o] = [state |-> "requested", rev |-> gw.rev]
          THEN [receipts[o] EXCEPT !.state = "applied"] ELSE receipts[o]]
    /\ Serves(gw.rev)
    /\ UNCHANGED <<proc, gen, gw, toGw, toManager, needsRestart, restarting, desired, prep, prepares>>

Gone ==
    /\ proc' = FALSE /\ ready' = FALSE /\ announced' = FALSE
    /\ gw' = [gw EXCEPT !.last = None]
    /\ toGw' = <<>> /\ toManager' = <<>>

(* Mutant: the exit leaves the restart to the next reconciliation. *)
ExitOnly ==
    /\ proc
    /\ Gone
    /\ sups' = [sups EXCEPT ![gen] = Closed(sups[gen])]
    /\ UNCHANGED <<gen, needsRestart, restarting,
                   desired, prep, prepares, receipts, served>>

\* The child exits, told or not; a requested restart follows at once.
Exit ==
    /\ proc
    /\ sups' = [sups EXCEPT ![gen] = Closed(sups[gen])]
    /\ \/ needsRestart /\ Start
       \/ /\ ~needsRestart
          /\ Gone
          /\ UNCHANGED <<gen, needsRestart, restarting>>
    /\ UNCHANGED <<desired, prep, prepares, receipts, served>>

\* stopGateway: no restart any more; the supervisor goes before the child.
StopGateway ==
    /\ needsRestart' = FALSE
    /\ restarting' = "no"
    /\ ready' = FALSE
    /\ sups' = IF proc THEN [sups EXCEPT ![gen] = Closed(sups[gen])] ELSE sups
    /\ UNCHANGED <<proc, gen, announced, gw, toGw, toManager, desired, prep, prepares, receipts, served>>

StartGateway ==
    /\ ~proc
    /\ Start
    /\ UNCHANGED <<desired, sups, prep, prepares, receipts, served>>

\* restartGateway, when it runs; otherwise it is a start.
RestartGateway ==
    /\ proc
    /\ Kill
    /\ UNCHANGED <<desired, sups, prep, prepares, receipts, served>>

-----------------------------------------------------------------------------
(* The supervisor of a child.                                              *)

(* Mutant: any answer settles an operation. *)
SettledByAnswer(s) == s.op = None \/ s.ack \in {"applied", "rejected", "uncertain", "unknown"}

\* apply is possible; inspect has nothing to ask.
Settled(s) == s.op = None \/ s.ack \in {"applied", "rejected"}

\* A command goes down the pipe and is waited for, or its write fails.
Send(g, s, kind) ==
    \/ /\ s.open
       /\ sups' = [sups EXCEPT ![g] = [s EXCEPT !.waiting = TRUE]]
       /\ toGw' = Append(toGw, [kind |-> kind, op |-> s.op])
    \/ /\ sups' = [sups EXCEPT ![g] = s]
       /\ UNCHANGED toGw

\* The deadline, or an error of the pipe: the operation stays as it is.
Deadline(g) ==
    /\ sups[g] # None /\ sups[g].waiting
    /\ sups' = [sups EXCEPT ![g].waiting = FALSE]
    /\ UNCHANGED <<childVars, desired, prep, prepares, receipts, served>>

Matches(s, a) == s # None /\ s.open /\ s.op = a.op

\* accept: a late answer counts, an answer about anything else does not.
Accept ==
    /\ proc /\ toManager # <<>>
    /\ LET a == Head(toManager)
           s == sups[gen]
       IN sups' = IF ~Matches(s, a) THEN sups
                  ELSE [sups EXCEPT ![gen] = [s EXCEPT !.ack = a.state, !.waiting = FALSE,
                           !.applied = IF a.state = "applied" THEN s.op.rev ELSE s.applied]]
    /\ toManager' = Tail(toManager)
    /\ UNCHANGED <<proc, ready, gen, announced, gw, toGw, needsRestart, restarting,
                   desired, prep, prepares, receipts, served>>

-----------------------------------------------------------------------------
(* The receiver in the Gateway.                                            *)

Busy == gw.last # None /\ gw.last.state \in {"pending", "uncertain"}

Known(op) == gw.last # None /\ gw.last.op.id = op.id

\* Why an apply of a new operation is refused before it is looked at.
OutOfOrder(op) ==
    \/ Busy
    \/ gw.last # None /\ op.seq <= gw.last.op.seq
    \/ op.base # gw.rev

\* Admission precedes the application.
Admit(c) ==
    /\ gw' = [gw EXCEPT !.last = [op |-> c.op, state |-> "pending"]]
    /\ UNCHANGED toManager

Reply(op, state) == toManager' = Append(toManager, [op |-> op, state |-> state])

Receive ==
    /\ proc /\ toGw # <<>>
    /\ LET c == Head(toGw)
       IN IF Known(c.op)
          THEN /\ Reply(c.op, IF gw.last.op = c.op THEN gw.last.state ELSE "rejected")
               /\ UNCHANGED gw
          ELSE IF c.kind = "status" THEN Reply(c.op, "unknown") /\ UNCHANGED gw
          ELSE IF OutOfOrder(c.op)
          THEN /\ Reply(c.op, "rejected")
               /\ gw' = IF Busy \/ (gw.last # None /\ c.op.seq <= gw.last.op.seq) THEN gw
                        ELSE [gw EXCEPT !.last = [op |-> c.op, state |-> "rejected"]]
          ELSE Admit(c)
    /\ toGw' = Tail(toGw)
    /\ UNCHANGED <<proc, ready, gen, announced, needsRestart, restarting,
                   desired, sups, prep, prepares, receipts, served>>

\* applySnapshot ends: applied, provably without effect, or neither.
ApplicationEnds(outcome) ==
    /\ proc /\ gw.last # None /\ gw.last.state = "pending"
    /\ gw' = [rev |-> IF outcome = "applied" THEN gw.last.op.rev ELSE gw.rev,
              last |-> [gw.last EXCEPT !.state = outcome]]
    /\ Reply(gw.last.op, outcome)
    /\ IF outcome = "applied" THEN Serves(gw.last.op.rev) ELSE UNCHANGED served
    /\ UNCHANGED <<proc, ready, gen, announced, toGw, needsRestart, restarting,
                   desired, sups, prep, prepares, receipts>>

-----------------------------------------------------------------------------
(* The activation owner: prepare, between loadDefinitions and the          *)
(* reconciliation of the running Gateways.                                 *)

\* applyRouteCatalogSnapshot up to the first wait of prepare.
BeginPrepare(o, resolve, definition) ==
    /\ prep = None
    /\ prepares < MaxPrepares
    /\ resolve => o \in Mutations
    /\ prepares' = prepares + 1
    /\ desired' = definition
    /\ needsRestart' = (needsRestart \/ definition # desired)
    /\ prep' = [pc |-> "declaring", op |-> o, resolve |-> resolve, gen |-> 0]
    /\ served' = IF o \in Mutations /\ served[o] = None
                 THEN [served EXCEPT ![o] = IF proc /\ announced THEN {gw.rev} ELSE {}]
                 ELSE served
    /\ UNCHANGED <<proc, ready, gen, announced, gw, toGw, toManager, restarting, sups, receipts>>

Remember(state, rev) ==
    receipts' = IF prep.op \in Mutations
                THEN [receipts EXCEPT ![prep.op] = [state |-> state, rev |-> rev]] ELSE receipts

\* appliedFromAck
FromAck(s, target) ==
    Remember(IF s.ack = "applied" THEN (IF s.op.rev = target THEN "applied" ELSE "requested")
             ELSE IF s.ack = "rejected" THEN "rejected" ELSE "uncertain", target)

Finish(needed) ==
    /\ prep' = None
    /\ SyncRunningGateways(needed)
    /\ UNCHANGED <<desired, sups, prepares, served>>

Await(pc) == prep' = [prep EXCEPT !.pc = pc, !.gen = gen]

Previous == IF prep.op \in Mutations THEN receipts[prep.op] ELSE None
Attached == proc /\ ready /\ sups[gen] # None

\* A resolution only asks about its own operation.
Resolvable == Previous # None /\ Attached /\ sups[gen].op # None /\ sups[gen].op.id = prep.op
StillNeeded == needsRestart /\ (Previous # None /\ Attached => Shared(sups[gen].applied, desired))

ResolveSkips ==
    /\ prep # None /\ prep.pc = "declaring" /\ prep.resolve
    /\ ~Resolvable
    /\ UNCHANGED receipts
    /\ Finish(StillNeeded)

ResolveAsks ==
    /\ prep # None /\ prep.pc = "declaring" /\ prep.resolve
    /\ Resolvable
    /\ Flag(StillNeeded)
    /\ Await("resolving")
    /\ IF Settled(sups[gen]) THEN UNCHANGED <<sups, toGw>> ELSE Send(gen, sups[gen], "status")
    /\ UNCHANGED <<proc, ready, gen, announced, gw, toManager, desired, prepares, receipts, served>>

Resolved ==
    /\ prep # None /\ prep.pc = "resolving" /\ ~sups[prep.gen].waiting
    /\ FromAck(sups[prep.gen], Previous.rev)
    /\ Finish(needsRestart)

\* Without a ready child, or for a change of shared fields, a restart brings it.
NeedsStart ==
    /\ prep # None /\ prep.pc = "declaring" /\ ~prep.resolve
    /\ ~Attached
    /\ Remember("requested", desired)
    /\ Finish(needsRestart)

NeedsRestart ==
    /\ prep # None /\ prep.pc = "declaring" /\ ~prep.resolve
    /\ Attached /\ Shared(sups[gen].applied, desired)
    /\ Remember("requested", desired)
    /\ prep' = None
    /\ Kill
    /\ UNCHANGED <<desired, sups, prepares, served>>

\* An earlier operation without an answer is asked about first.
AsksEarlier ==
    /\ prep # None /\ prep.pc = "declaring" /\ ~prep.resolve
    /\ Attached /\ ~Shared(sups[gen].applied, desired)
    /\ ~Settled(sups[gen])
    /\ Flag(FALSE)
    /\ Await("inspecting")
    /\ Send(gen, sups[gen], "status")
    /\ UNCHANGED <<proc, ready, gen, announced, gw, toManager, desired, prepares, receipts, served>>

\* The owner comes to its decision: at once, or when the answer is there.
Deciding(g) ==
    /\ prep # None /\ ~prep.resolve
    /\ \/ /\ prep.pc = "declaring" /\ Attached /\ g = gen
          /\ ~Shared(sups[gen].applied, desired) /\ Settled(sups[gen])
       \/ prep.pc = "inspecting" /\ g = prep.gen /\ ~sups[g].waiting

EarlierBlocks(g) ==
    /\ Deciding(g) /\ ~Settled(sups[g])
    /\ IF sups[g].op.id = prep.op THEN FromAck(sups[g], desired) ELSE Remember("rejected", desired)
    /\ Finish(needsRestart)

OwnOperation(s) == s.op # None /\ s.op.id = prep.op

(* Mutant: a definition that was already submitted counts as applied. *)
AlreadyServed(s) == s.applied = desired \/ (s.op # None /\ s.op.rev = desired)

AlreadyApplied(s) == s.applied = desired

(* Mutant: nobody tries a rejected definition again. *)
AnyRejection(s) == s.ack = "rejected" /\ s.op.rev = desired

\* A known rejection is not tried again by a capture, or by the same operation.
KnownRejection(s) ==
    \/ prep.op \in Captures /\ s.ack = "rejected" /\ s.op.rev = desired
    \/ Previous = [state |-> "rejected", rev |-> desired]

DecidesWithoutApply(g) ==
    /\ Deciding(g) /\ Settled(sups[g])
    /\ \/ OwnOperation(sups[g]) /\ FromAck(sups[g], desired)
       \/ ~OwnOperation(sups[g]) /\ AlreadyApplied(sups[g]) /\ Remember("applied", desired)
       \/ /\ ~OwnOperation(sups[g]) /\ ~AlreadyApplied(sups[g]) /\ KnownRejection(sups[g])
          /\ UNCHANGED receipts
    /\ Finish(needsRestart /\ prep.pc = "inspecting")

Applies(g) ==
    /\ Deciding(g) /\ Settled(sups[g])
    /\ ~OwnOperation(sups[g]) /\ ~AlreadyApplied(sups[g]) /\ ~KnownRejection(sups[g])
    /\ LET s == sups[g]
           op == [id |-> prep.op, seq |-> s.seq + 1, base |-> s.applied, rev |-> desired]
       IN Send(g, [s EXCEPT !.op = op, !.seq = s.seq + 1, !.ack = None], "apply")
    /\ prep' = [prep EXCEPT !.pc = "applying", !.gen = g]
    /\ Flag(needsRestart /\ prep.pc = "inspecting")
    /\ UNCHANGED <<proc, ready, gen, announced, gw, toManager, desired, prepares, receipts, served>>

ApplyAnswered ==
    /\ prep # None /\ prep.pc = "applying" /\ ~sups[prep.gen].waiting
    /\ FromAck(sups[prep.gen], desired)
    /\ Finish(needsRestart)

-----------------------------------------------------------------------------
Next ==
    \/ Ready \/ Exit \/ StopGateway \/ StartGateway \/ RestartGateway
    \/ \E g \in Gens : Deadline(g) \/ EarlierBlocks(g) \/ DecidesWithoutApply(g) \/ Applies(g)
    \/ Accept \/ Receive
    \/ \E outcome \in {"applied", "rejected", "uncertain"} : ApplicationEnds(outcome)
    \/ \E o \in Operations, resolve \in BOOLEAN, d \in Definitions : BeginPrepare(o, resolve, d)
    \/ ResolveSkips \/ ResolveAsks \/ Resolved
    \/ NeedsStart \/ NeedsRestart \/ AsksEarlier \/ ApplyAnswered

Spec == Init /\ [][Next]_vars

-----------------------------------------------------------------------------
\* While an operation is settled, the supervisor's revision is the one in
\* effect in its Gateway, and so the base of the next operation is right.
InSync ==
    \A g \in Gens : sups[g] # None /\ sups[g].open /\ Settled(sups[g])
        => /\ sups[g].applied = gw.rev
           /\ sups[g].op # None => gw.last = [op |-> sups[g].op, state |-> sups[g].ack]

\* The order of the Gateway is never violated: no apply reaches it while an
\* earlier one is open, with an old sequence or for another base.
NeverOutOfOrder ==
    proc /\ toGw # <<>> /\ Head(toGw).kind = "apply" => ~OutOfOrder(Head(toGw).op)

\* An operation the Gateway said it does not know is never applied later.
UnknownNeverApplies ==
    \A g \in Gens : sups[g] # None /\ sups[g].open /\ sups[g].ack = "unknown"
        => /\ gw.last = None \/ gw.last.op # sups[g].op
           /\ \A i \in 1 .. Len(toGw) : toGw[i].kind = "status"

\* Supervisor and Gateway agree on the order and the effect of operations over
\* pipes that lose, delay and outlive the child they belong to.
SupervisorFollowsGateway == TypeOK /\ InSync /\ NeverOutOfOrder /\ UnknownNeverApplies

\* A receipt says applied only if its revision really was in effect after the
\* operation began, whether it was sent, booted or already there.
ReceiptsAreTrue ==
    \A o \in Mutations : receipts[o] # None /\ receipts[o].state = "applied"
        => receipts[o].rev \in served[o]

\* An application of the catalog leaves a ready Gateway behind the saved Route
\* only for a reason, and never under a receipt that says applied: a restart is
\* due, the last update has no answer, it was just rejected, a capture does not
\* try it again, or the operation had submitted another revision or been
\* rejected before.
LagHasCause ==
    [][prep # None /\ prep' = None /\ ~prep.resolve /\ Attached' /\ sups'[gen'].applied # desired
          => /\ \/ needsRestart' \/ ~Settled(sups'[gen'])
                \/ sups'[gen'].ack = "rejected" /\ (prep.pc = "applying" \/ prep.op \in Captures)
                \/ /\ prep.pc # "applying" /\ OwnOperation(sups[gen])
                   /\ sups[gen].op.rev # desired \/ sups[gen].ack = "rejected"
                \/ Previous = [state |-> "rejected", rev |-> desired]
             /\ prep.op \in Mutations => receipts'[prep.op].state # "applied"]_vars

\* A Gateway told to exit for a restart comes back, unless it was stopped or a
\* later application found the restart unnecessary.
RestartIsKept == ~proc /\ prep = None => restarting # "asked"
=============================================================================
