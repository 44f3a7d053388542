---------------------- MODULE GatewayActivationProofs ----------------------
(***************************************************************************)
(* Proofs about GatewayActivation, for every set of definitions and        *)
(* operations and any number of children and applications: the supervisor  *)
(* of a Gateway agrees with it whatever the pipes do, receipts are true, a *)
(* restart that was asked for is kept, and an application leaves a Gateway *)
(* behind the saved Route only for a visible cause.                        *)
(***************************************************************************)
EXTENDS GatewayActivation, TLAPS

-----------------------------------------------------------------------------
(* The pipes and the receiver.                                             *)

\* At most one apply is on its way.  It is the next one in the order of the
\* Gateway, which does not know it yet, and nothing asks about it before it.
PipeInOrder ==
    \A i \in 1 .. Len(toGw) : toGw[i].kind = "apply" =>
        /\ ~OutOfOrder(toGw[i].op) /\ ~Known(toGw[i].op)
        /\ \A j \in 1 .. Len(toGw) : /\ j # i => toGw[j].kind # "apply"
                                     /\ j < i => toGw[j].op # toGw[i].op

\* The revision in effect is that of the last operation, or the one before it.
EffectIsLast ==
    gw.last # None => gw.rev = IF gw.last.state = "applied" THEN gw.last.op.rev ELSE gw.last.op.base

NoApply == \A i \in 1 .. Len(toGw) : toGw[i].kind # "apply"
Admitted(op) == gw.last # None /\ gw.last.op = op

\* A supervisor whose operation the Gateway has not admitted: nothing of it
\* happened, and only "unknown" can be said of it, once it will never come.
NotAdmittedYet(s) ==
    /\ ~Admitted(s.op)
    /\ s.applied = gw.rev /\ s.op.base = gw.rev
    /\ ~Busy
    /\ gw.last # None => gw.last.op.id # s.op.id
    /\ s.ack \in {None, "unknown"}
    /\ s.ack = "unknown" => NoApply
    /\ \A i \in 1 .. Len(toManager) :
          toManager[i].op = s.op => toManager[i].state = "unknown" /\ NoApply

\* One whose operation was admitted: what is said of its end is true.
AlreadyAdmitted(s) ==
    /\ Admitted(s.op)
    /\ s.applied = s.op.base \/ (gw.last.state = "applied" /\ s.applied = s.op.rev)
    /\ s.ack # "unknown"
    /\ s.ack \in {"applied", "rejected"} => s.ack = gw.last.state
    /\ \A i \in 1 .. Len(toManager) : toManager[i].op = s.op =>
          /\ toManager[i].state # "unknown"
          /\ toManager[i].state \in {"applied", "rejected"} => toManager[i].state = gw.last.state

\* Nothing has been said or asked with a later sequence number.
Numbered(s) ==
    /\ s.seq = s.op.seq
    /\ \A i \in 1 .. Len(toGw) : toGw[i].op.seq <= s.seq
    /\ \A i \in 1 .. Len(toManager) : toManager[i].op.seq <= s.seq
    /\ gw.last # None => gw.last.op.seq <= s.seq

\* The open supervisor against its Gateway.
Mirrors(s) ==
    /\ s.op = None => /\ gw.last = None /\ s.applied = gw.rev /\ s.seq = 0
                      /\ toGw = <<>> /\ toManager = <<>>
    /\ s.op # None => /\ Numbered(s)
                      /\ \A i \in 1 .. Len(toGw) : toGw[i].kind = "apply" => toGw[i].op = s.op
                      /\ NotAdmittedYet(s) \/ AlreadyAdmitted(s)

PipeInv ==
    /\ PipeInOrder
    /\ EffectIsLast
    /\ \A g \in Gens : sups[g] # None /\ sups[g].open => Mirrors(sups[g])
    /\ proc /\ ~announced => gw.last = None /\ toGw = <<>> /\ toManager = <<>>

(* Children, supervisors and the running application.                      *)

\* Supervisors belong to children that were started; one that the owner may
\* use is open; an answer that said applied moved its revision.
SupervisorsInv ==
    /\ proc => gen \in Gens
    /\ \A g \in Gens : g > gen => sups[g] = None
    /\ proc /\ ~announced => sups[gen] = None
    /\ Attached => sups[gen].open
    /\ \A g \in Gens : sups[g] # None =>
          /\ sups[g].ack # None => sups[g].op # None
          /\ sups[g].ack = "applied" => sups[g].applied = sups[g].op.rev
          /\ sups[g].seq <= prepares
          /\ prep # None /\ prep.pc # "applying" => sups[g].seq < prepares
    /\ restarting = "asked" => needsRestart /\ proc

\* What the application that is under way relies on when it goes on: the
\* supervisor that it asked, its own operation there, and that a child started
\* meanwhile has the definition that is being applied.
PrepareInv ==
    prep # None =>
        /\ prepares > 0
        /\ prep.resolve => prep.op \in Mutations
        /\ IF prep.pc = "declaring" THEN prep.gen = 0
           ELSE /\ prep.gen \in 1 .. gen /\ sups[prep.gen] # None
                /\ sups[prep.gen].op # None
                /\ prep.resolve <=> prep.pc = "resolving"
                /\ prep.pc \in {"resolving", "applying"} => sups[prep.gen].op.id = prep.op
                /\ prep.pc = "applying" => sups[prep.gen].op.rev = desired
                /\ prep.pc = "resolving" => receipts[prep.op] # None
                /\ prep.gen # gen /\ proc =>
                      /\ gw.rev = desired /\ gw.last = None /\ toGw = <<>>
                      /\ sups[gen] # None => sups[gen].applied = desired /\ sups[gen].op = None

(* What was in effect.                                                     *)

Began(o) == o \in Mutations => served[o] # None
WasServed(op) == op.id \in Mutations => served[op.id] # None /\ op.rev \in served[op.id]

\* Whatever is known of an operation began before, and what is said to be
\* applied was in effect since.
ServedInv ==
    /\ \A i \in 1 .. Len(toGw) : Began(toGw[i].op.id)
    /\ gw.last # None => Began(gw.last.op.id) /\ (gw.last.state = "applied" => WasServed(gw.last.op))
    /\ \A i \in 1 .. Len(toManager) : toManager[i].state = "applied" => WasServed(toManager[i].op)
    /\ \A g \in Gens : sups[g] # None /\ sups[g].op # None =>
          Began(sups[g].op.id) /\ (sups[g].ack = "applied" => WasServed(sups[g].op))
    /\ \A o \in Mutations : served[o] # None /\ proc /\ announced => gw.rev \in served[o]
    /\ \A o \in Mutations : receipts[o] # None => served[o] # None
    /\ prep # None => Began(prep.op)
    /\ prep # None /\ prep.gen # 0 /\ prep.op \in Mutations /\ Settled(sups[prep.gen])
          => sups[prep.gen].applied \in served[prep.op]

ActivationInv == TypeOK /\ PipeInv /\ SupervisorsInv /\ PrepareInv /\ ServedInv /\ ReceiptsAreTrue

-----------------------------------------------------------------------------
(* Pipes                                                                   *)

(* What is written to a pipe is behind everything that was there (Send,    *)
(* Reply).                                                                 *)
LEMMA AppendFacts ==
    ASSUME NEW S, NEW q \in Seq(S), NEW e \in S
    PROVE  /\ Append(q, e) \in Seq(S) /\ Len(q) \in Nat /\ Len(Append(q, e)) = Len(q) + 1
           /\ \A i \in 1..Len(q) : Append(q, e)[i] = q[i]
           /\ Append(q, e)[Len(q) + 1] = e
<1>1. Append(q, e) \in Seq(S) /\ Len(q) \in Nat /\ Len(Append(q, e)) = Len(q) + 1
  OBVIOUS
<1>2. \A i \in 1..Len(q) : Append(q, e)[i] = q[i]
  OBVIOUS
<1>3. Append(q, e)[Len(q) + 1] = e
  OBVIOUS
<1> QED BY <1>1, <1>2, <1>3

(* What is read from a pipe is its first element (Receive, Accept). *)
LEMMA TailFacts ==
    ASSUME NEW S, NEW q \in Seq(S), q # <<>>
    PROVE  /\ Head(q) \in S /\ Head(q) = q[1] /\ 1 \in 1..Len(q)
           /\ Tail(q) \in Seq(S) /\ Len(Tail(q)) \in Nat
           /\ \A i \in 1..Len(Tail(q)) : i + 1 \in 2..Len(q) /\ i + 1 \in 1..Len(q) /\ Tail(q)[i] = q[i + 1]
<1>1. /\ Head(q) \in S /\ Tail(q) \in Seq(S) /\ Len(q) \in Nat \ {0}
      /\ Len(Tail(q)) = Len(q) - 1 /\ Head(q) = q[1]
  OBVIOUS
<1>2. \A i \in 1..Len(Tail(q)) : Tail(q)[i] = q[i + 1]
  OBVIOUS
<1> QED BY <1>1, <1>2

(* The elements of a pipe have its type. *)
LEMMA ElementFacts ==
    ASSUME NEW S, NEW q \in Seq(S)
    PROVE  Len(q) \in Nat /\ \A i \in 1..Len(q) : q[i] \in S
OBVIOUS

(* An empty pipe holds nothing. *)
LEMMA EmptyFacts ==
    ASSUME NEW S
    PROVE  <<>> \in Seq(S) /\ \A i \in 1..Len(<<>>) : FALSE
OBVIOUS

-----------------------------------------------------------------------------
(* Types                                                                   *)

(* The assumption's facts about bounds and about None. *)
LEMMA Constants ==
    /\ MaxStarts \in Nat \ {0} /\ MaxPrepares \in Nat
    /\ None \notin Definitions /\ None \notin Operations /\ None \notin OpStates
    /\ None \notin Op /\ None \notin Last /\ None \notin Supervisor /\ None \notin Receipt /\ None \notin Prepare
    /\ \A revs \in SUBSET Definitions : revs # None
BY ActivationAssumption

(* A supervisor record after each way to change it. *)
LEMMA SupervisorUpdates ==
    ASSUME NEW s \in Supervisor
    PROVE  /\ [s EXCEPT !.open = FALSE, !.waiting = FALSE] \in Supervisor
           /\ \A b \in BOOLEAN : [s EXCEPT !.waiting = b] \in Supervisor
           /\ \A st \in OpStates, d \in Definitions :
                 [s EXCEPT !.ack = st, !.waiting = FALSE, !.applied = d] \in Supervisor
           /\ \A op \in Op, n \in 0..MaxPrepares : [s EXCEPT !.op = op, !.seq = n, !.ack = None] \in Supervisor
BY DEF Supervisor

(* The types of the child's part, after a child was started. *)
ChildTypes ==
    /\ needsRestart \in BOOLEAN /\ proc \in BOOLEAN /\ ready \in BOOLEAN /\ announced \in BOOLEAN
    /\ gen \in 0 .. MaxStarts
    /\ gw \in [rev : Definitions, last : Last \cup {None}]
    /\ toGw \in Seq(Command) /\ toManager \in Seq(Ack)
    /\ restarting \in {"no", "asked", "revoked"}

OpenIsCurrent == \A g \in Gens : sups[g] # None /\ sups[g].open => proc /\ announced /\ g = gen

(* What starting, killing or keeping the child leaves. *)
LEMMA ChildSteps ==
    ASSUME TypeOK
    PROVE  /\ Start => ChildTypes' /\ gen' \in Gens /\ gen < gen'
           /\ Kill => ChildTypes'
           /\ \A b \in BOOLEAN : Flag(b) /\ UNCHANGED <<proc, ready, gen, announced, gw, toGw, toManager>> => ChildTypes'
<1>1. ASSUME Start PROVE ChildTypes' /\ gen' \in Gens /\ gen < gen'
  <2>1. gw' \in [rev : Definitions, last : Last \cup {None}]
    BY <1>1 DEF Start, TypeOK
  <2>2. toGw' \in Seq(Command) /\ toManager' \in Seq(Ack)
    BY <1>1, EmptyFacts DEF Start
  <2>3. gen' \in 0 .. MaxStarts /\ gen' \in Gens /\ gen < gen'
    BY <1>1, Constants DEF Start, TypeOK, Gens
  <2> QED BY <1>1, <2>1, <2>2, <2>3 DEF Start, ChildTypes
<1>2. ASSUME Kill PROVE ChildTypes'
  BY <1>2 DEF Kill, TypeOK, ChildTypes
<1>3. ASSUME NEW b \in BOOLEAN, Flag(b), UNCHANGED <<proc, ready, gen, announced, gw, toGw, toManager>>
      PROVE  ChildTypes'
  BY <1>3 DEF Flag, TypeOK, ChildTypes
<1> QED BY <1>1, <1>2, <1>3

-----------------------------------------------------------------------------
(* Steps of the child's life                                               *)

NoneOpen == \A g \in Gens : sups[g] # None => ~sups[g].open

\* t is s, closed or no longer waited for.
SameAnswer(s, t) ==
    /\ t.op = s.op /\ t.applied = s.applied /\ t.ack = s.ack /\ t.seq = s.seq
    /\ t.open => s.open

\* What receipts say is true of `served`, and nothing has one that never began.
TrueReceipts ==
    \A o \in Mutations : receipts'[o] # None =>
        served[o] # None /\ (receipts'[o].state = "applied" => receipts'[o].rev \in served[o])

\* The child starts, goes or stays, supervisors are closed at most, and the
\* application goes on or ends with true receipts.
LifeStep ==
    /\ UNCHANGED <<desired, prepares, served>>
    /\ prep' = None \/ (prep' = prep /\ receipts' = receipts)
    /\ receipts' \in [Mutations -> Receipt \cup {None}]
    /\ TrueReceipts
    /\ sups' \in [Gens -> Supervisor \cup {None}]
    /\ \A g \in Gens : sups'[g] # None => sups[g] # None /\ SameAnswer(sups[g], sups'[g])
    /\ \A g \in Gens : sups'[g] = None => sups[g] = None \/ prep' = None \/ prep.gen # g
    /\ ChildTypes'
    /\ \/ Start /\ NoneOpen'
       \/ Gone /\ ~needsRestart /\ UNCHANGED <<gen, needsRestart, restarting>> /\ NoneOpen'
       \/ /\ UNCHANGED <<proc, gen, announced, gw, toGw, toManager>>
          /\ Attached' => Attached /\ sups'[gen].open
          /\ restarting' = "asked" => needsRestart' /\ proc

(* While pipes and receiver stay and no supervisor opens, they agree as    *)
(* before.                                                                 *)
LEMMA PipesKept ==
    ASSUME TypeOK, PipeInv, UNCHANGED <<gw, toGw, toManager, announced, proc>>,
           \A g \in Gens : sups'[g] # None => sups[g] # None /\ SameAnswer(sups[g], sups'[g])
    PROVE  PipeInv'
<1>1. PipeInOrder' /\ EffectIsLast'
  BY DEF PipeInv, PipeInOrder, EffectIsLast, OutOfOrder, Known, Busy
<1>2. ASSUME NEW g \in Gens, (sups[g] # None /\ sups[g].open)' PROVE Mirrors(sups[g])'
  <2>1. Mirrors(sups[g]) /\ SameAnswer(sups[g], sups'[g])
    BY <1>2 DEF PipeInv, SameAnswer
  <2> QED BY <2>1 DEF SameAnswer, Mirrors, Numbered, NotAdmittedYet, AlreadyAdmitted, Admitted, NoApply, Busy
<1>3. (proc /\ ~announced => gw.last = None /\ toGw = <<>> /\ toManager = <<>>)'
  BY DEF PipeInv
<1> QED BY <1>1, <1>2, <1>3 DEF PipeInv

(* The pipes of a child that has just started, or is gone, are empty. *)
LEMMA PipesFresh ==
    ASSUME gw'.last = None, toGw' = <<>>, toManager' = <<>>, NoneOpen'
    PROVE  PipeInv'
BY EmptyFacts DEF PipeInv, PipeInOrder, EffectIsLast, NoneOpen

(* A step of the child's life keeps the invariant. *)
LEMMA LifeKeeps ==
    ASSUME ActivationInv, LifeStep
    PROVE  ActivationInv'
<1> USE DEF ActivationInv
<1>0. gen \in 0 .. MaxStarts /\ MaxStarts \in Nat
  BY Constants DEF TypeOK
<1>r. ReceiptsAreTrue'
  BY DEF ReceiptsAreTrue, LifeStep, TrueReceipts
<1>s. ServedInv'
  <2>1. (toGw' = <<>> /\ toManager' = <<>> /\ gw'.last = None) \/ UNCHANGED <<gw, toGw, toManager>>
    BY DEF LifeStep, Start, Gone, TypeOK
  <2>2. /\ \A i \in 1 .. Len(toGw') : Began(toGw[i].op.id)'
        /\ (gw.last # None => Began(gw.last.op.id) /\ (gw.last.state = "applied" => WasServed(gw.last.op)))'
        /\ \A i \in 1 .. Len(toManager') : (toManager[i].state = "applied" => WasServed(toManager[i].op))'
    <3>1. CASE toGw' = <<>> /\ toManager' = <<>> /\ gw'.last = None
      BY <3>1, EmptyFacts
    <3>2. CASE UNCHANGED <<gw, toGw, toManager>>
      BY <3>2 DEF ServedInv, Began, WasServed, LifeStep
    <3> QED BY <2>1, <3>1, <3>2
  <2>3. \A g \in Gens : (sups[g] # None /\ sups[g].op # None =>
          Began(sups[g].op.id) /\ (sups[g].ack = "applied" => WasServed(sups[g].op)))'
    BY DEF ServedInv, Began, WasServed, LifeStep, SameAnswer
  <2>4. \A o \in Mutations : (served[o] # None /\ proc /\ announced => gw.rev \in served[o])'
    BY DEF ServedInv, LifeStep, Start, Gone
  <2>5. \A o \in Mutations : (receipts[o] # None => served[o] # None)'
    BY DEF LifeStep, TrueReceipts
  <2>6. (prep # None => Began(prep.op))'
    BY DEF ServedInv, Began, LifeStep
  <2>7. ASSUME prep' # None, prep'.gen # 0, prep'.op \in Mutations, Settled(sups[prep.gen])'
        PROVE  sups'[prep'.gen].applied \in served'[prep'.op]
    <3>1. prep' = prep /\ prep.gen \in Gens /\ sups[prep.gen] # None
      BY <1>0, <2>7 DEF LifeStep, PrepareInv, Gens
    <3>2. sups'[prep.gen] # None /\ SameAnswer(sups[prep.gen], sups'[prep.gen])
      BY <2>7, <3>1 DEF LifeStep
    <3> QED BY <2>7, <3>1, <3>2 DEF ServedInv, LifeStep, Settled, SameAnswer
  <2> QED BY <2>2, <2>3, <2>4, <2>5, <2>6, <2>7 DEF ServedInv
<1>1. CASE Start /\ NoneOpen'
  <2>1. gen' \in Gens /\ gen < gen' /\ gen' = gen + 1
    BY <1>1, ChildSteps DEF Start
  <2>2. TypeOK'
    <3>1. OpenIsCurrent'
      BY <1>1 DEF NoneOpen, OpenIsCurrent
    <3> QED BY <3>1 DEF TypeOK, LifeStep, ChildTypes, OpenIsCurrent
  <2>3. PipeInv'
    <3>1. gw'.last = None /\ toGw' = <<>> /\ toManager' = <<>>
      BY <1>1 DEF Start
    <3> QED BY <1>1, <3>1, PipesFresh
  <2>4. SupervisorsInv'
    <3>1. \A g \in Gens : g > gen => sups'[g] = None
      BY DEF SupervisorsInv, LifeStep
    <3>2. sups'[gen'] = None
      BY <2>1, <3>1
    <3> QED BY <1>0, <1>1, <2>1, <3>1, <3>2 DEF SupervisorsInv, LifeStep, Start, Attached, SameAnswer, Gens
  <2>5. PrepareInv'
    <3>1. sups'[gen'] = None
      BY <2>1 DEF SupervisorsInv, LifeStep
    <3>2. gw'.rev = desired /\ gw'.last = None /\ toGw' = <<>>
      BY <1>1 DEF Start
    <3>3. prep' # None => prep' = prep /\ receipts' = receipts /\ desired' = desired /\ prepares' = prepares
      BY DEF LifeStep
    <3>4. ASSUME prep' # None, prep.pc # "declaring"
          PROVE  /\ prep.gen \in 1 .. gen' /\ prep.gen \in Gens
                 /\ sups'[prep.gen] # None /\ SameAnswer(sups[prep.gen], sups'[prep.gen])
      BY <1>0, <2>1, <3>3, <3>4 DEF PrepareInv, LifeStep, Gens
    <3> QED BY <3>1, <3>2, <3>3, <3>4 DEF PrepareInv, SameAnswer, LifeStep
  <2> QED BY <1>s, <1>r, <2>2, <2>3, <2>4, <2>5
<1>2. CASE /\ Gone /\ ~needsRestart
           /\ UNCHANGED <<gen, needsRestart, restarting>> /\ NoneOpen'
  <2>1. gw'.last = None /\ toGw' = <<>> /\ toManager' = <<>> /\ ~proc'
    BY <1>2 DEF Gone, TypeOK
  <2>2. TypeOK'
    <3>1. OpenIsCurrent'
      BY <1>2 DEF NoneOpen, OpenIsCurrent
    <3> QED BY <3>1 DEF TypeOK, LifeStep, ChildTypes, OpenIsCurrent
  <2>3. PipeInv'
    BY <1>2, <2>1, PipesFresh
  <2>4. SupervisorsInv'
    BY <1>0, <1>2, <2>1 DEF SupervisorsInv, LifeStep, Attached, SameAnswer, Gens
  <2>5. PrepareInv'
    <3>1. prep' # None => prep' = prep /\ receipts' = receipts /\ desired' = desired /\ prepares' = prepares
      BY DEF LifeStep
    <3>2. ASSUME prep' # None, prep.pc # "declaring"
          PROVE  /\ prep.gen \in 1 .. gen' /\ prep.gen \in Gens
                 /\ sups'[prep.gen] # None /\ SameAnswer(sups[prep.gen], sups'[prep.gen])
      BY <1>0, <1>2, <3>1, <3>2 DEF PrepareInv, LifeStep, Gens
    <3> QED BY <2>1, <3>1, <3>2 DEF PrepareInv, SameAnswer, LifeStep
  <2> QED BY <1>s, <1>r, <2>2, <2>3, <2>4, <2>5
<1>3. CASE /\ UNCHANGED <<proc, gen, announced, gw, toGw, toManager>>
           /\ Attached' => Attached /\ sups'[gen].open
           /\ restarting' = "asked" => needsRestart' /\ proc
  <2>2. TypeOK'
    <3>1. OpenIsCurrent'
      BY <1>3 DEF OpenIsCurrent, TypeOK, LifeStep, SameAnswer
    <3> QED BY <3>1 DEF TypeOK, LifeStep, ChildTypes, OpenIsCurrent
  <2>3. PipeInv'
    BY <1>3, PipesKept DEF LifeStep
  <2>4. SupervisorsInv'
    BY <1>0, <1>3 DEF SupervisorsInv, LifeStep, SameAnswer, Gens
  <2>5. PrepareInv'
    <3>1. prep' # None => prep' = prep /\ receipts' = receipts /\ desired' = desired /\ prepares' = prepares
      BY DEF LifeStep
    <3>2. ASSUME prep' # None, prep.pc # "declaring"
          PROVE  /\ prep.gen \in 1 .. gen' /\ prep.gen \in Gens
                 /\ sups'[prep.gen] # None /\ SameAnswer(sups[prep.gen], sups'[prep.gen])
      BY <1>0, <1>3, <3>1, <3>2 DEF PrepareInv, LifeStep, Gens
    <3>3. ASSUME prep' # None, proc, prep.pc # "declaring", sups'[gen] # None
          PROVE  sups[gen] # None /\ SameAnswer(sups[gen], sups'[gen])
      BY <3>3 DEF LifeStep, SupervisorsInv
    <3> QED BY <1>3, <3>1, <3>2, <3>3 DEF PrepareInv, SameAnswer, LifeStep
  <2> QED BY <1>s, <1>r, <2>2, <2>3, <2>4, <2>5
<1> QED BY <1>1, <1>2, <1>3 DEF LifeStep

(* A supervisor that is detached says what it said, and stays only for the *)
(* application that holds it.                                              *)
LEMMA ClosedKeeps ==
    ASSUME ActivationInv, proc, sups' = [sups EXCEPT ![gen] = Closed(sups[gen])]
    PROVE  /\ sups' \in [Gens -> Supervisor \cup {None}]
           /\ \A g \in Gens : sups'[g] # None => sups[g] # None /\ SameAnswer(sups[g], sups'[g])
           /\ \A g \in Gens : sups'[g] = None => sups[g] = None \/ prep = None \/ prep.gen # g
           /\ NoneOpen'
<1> DEFINE s == sups[gen]
<1>1. gen \in Gens /\ s \in Supervisor \cup {None} /\ sups \in [Gens -> Supervisor \cup {None}]
  BY DEF ActivationInv, SupervisorsInv, TypeOK
<1>2. /\ Closed(s) \in Supervisor \cup {None}
      /\ Closed(s) # None => s # None /\ SameAnswer(s, Closed(s)) /\ ~Closed(s).open
      /\ Closed(s) = None => s = None \/ prep = None \/ prep.gen # gen
  <2> HIDE DEF s
  <2>1. CASE s = None \/ prep = None \/ prep.gen # gen
    BY <2>1 DEF Closed
  <2>2. CASE ~(s = None \/ prep = None \/ prep.gen # gen)
    <3>1. s \in Supervisor /\ Closed(s) = [s EXCEPT !.open = FALSE, !.waiting = FALSE]
      BY <1>1, <2>2 DEF Closed
    <3>2. Closed(s) \in Supervisor /\ Closed(s) # None
      BY <3>1, SupervisorUpdates, Constants
    <3>3. SameAnswer(s, Closed(s)) /\ ~Closed(s).open
      BY <3>1 DEF SameAnswer, Supervisor
    <3> QED BY <2>2, <3>2, <3>3
  <2> QED BY <2>1, <2>2
<1>3. /\ sups' = [sups EXCEPT ![gen] = Closed(s)] /\ sups'[gen] = Closed(s)
      /\ \A g \in Gens : g # gen => sups'[g] = sups[g]
  BY <1>1
<1>4. sups' \in [Gens -> Supervisor \cup {None}]
  BY <1>1, <1>2, <1>3
<1>5. NoneOpen'
  BY <1>1, <1>2, <1>3 DEF NoneOpen, ActivationInv, TypeOK
<1> HIDE DEF s
<1>6. ASSUME NEW g \in Gens
      PROVE  /\ sups'[g] # None => sups[g] # None /\ SameAnswer(sups[g], sups'[g])
             /\ sups'[g] = None => sups[g] = None \/ prep = None \/ prep.gen # g
  <2>1. CASE g = gen
    BY <1>2, <1>3, <2>1 DEF s
  <2>2. CASE g # gen
    BY <1>3, <2>2 DEF SameAnswer
  <2> QED BY <2>1, <2>2
<1> QED BY <1>4, <1>5, <1>6

(* Nothing changes for receipts and supervisors that a step leaves alone. *)
LEMMA LeftAlone ==
    ASSUME ActivationInv
    PROVE  /\ UNCHANGED <<receipts, served>> =>
                 receipts' \in [Mutations -> Receipt \cup {None}] /\ TrueReceipts
           /\ UNCHANGED sups =>
                 /\ sups' \in [Gens -> Supervisor \cup {None}]
                 /\ \A g \in Gens : sups'[g] # None => sups[g] # None /\ SameAnswer(sups[g], sups'[g])
                 /\ \A g \in Gens : sups'[g] = None => sups[g] = None
                 /\ ~proc => NoneOpen'
BY DEF ActivationInv, TypeOK, ServedInv, ReceiptsAreTrue, TrueReceipts, SameAnswer, NoneOpen

(* The actions that concern only the child are such steps. *)
LEMMA ChildLives ==
    ASSUME ActivationInv, Exit \/ StopGateway \/ StartGateway \/ RestartGateway
    PROVE  LifeStep
<1> USE DEF ActivationInv
<1>0. TypeOK /\ ReceiptsAreTrue
  OBVIOUS
<1>1. CASE Exit
  <2>1. UNCHANGED <<desired, prep, prepares, receipts, served>> /\ proc
    BY <1>1 DEF Exit
  <2>2. sups' = [sups EXCEPT ![gen] = Closed(sups[gen])]
    BY <1>1 DEF Exit
  <2>3. CASE Start
    BY <2>1, <2>2, <2>3, ClosedKeeps, LeftAlone, ChildSteps DEF LifeStep
  <2>4. CASE ~needsRestart /\ Gone /\ UNCHANGED <<gen, needsRestart, restarting>>
    <3>1. ChildTypes'
      <4>1. gw' \in [rev : Definitions, last : Last \cup {None}]
        BY <2>4 DEF Gone, TypeOK
      <4>2. toGw' \in Seq(Command) /\ toManager' \in Seq(Ack)
        BY <2>4, EmptyFacts DEF Gone
      <4> QED BY <2>4, <4>1, <4>2 DEF Gone, TypeOK, ChildTypes
    <3> QED BY <2>1, <2>2, <2>4, <3>1, ClosedKeeps, LeftAlone DEF LifeStep
  <2> QED BY <1>1, <2>3, <2>4 DEF Exit
<1>2. CASE StopGateway
  <2>1. /\ UNCHANGED <<desired, prep, prepares, receipts, served, proc, gen, announced, gw, toGw, toManager>>
        /\ ~Attached' /\ restarting' # "asked" /\ ChildTypes'
    BY <1>2 DEF StopGateway, Attached, TypeOK, ChildTypes
  <2>2. CASE proc
    <3>1. sups' = [sups EXCEPT ![gen] = Closed(sups[gen])]
      BY <1>2, <2>2 DEF StopGateway
    <3> QED BY <2>1, <2>2, <3>1, ClosedKeeps, LeftAlone DEF LifeStep
  <2>3. CASE ~proc
    <3>1. UNCHANGED sups
      BY <1>2, <2>3 DEF StopGateway
    <3> QED BY <2>1, <3>1, LeftAlone DEF LifeStep
  <2> QED BY <2>2, <2>3
<1>3. CASE StartGateway
  BY <1>3, LeftAlone, ChildSteps DEF LifeStep, StartGateway
<1>4. CASE RestartGateway
  BY <1>4, LeftAlone, ChildSteps DEF LifeStep, RestartGateway, Kill, Attached, SupervisorsInv
<1> QED BY <1>1, <1>2, <1>3, <1>4

(* A deadline, or an error of the pipe, changes what is waited for only. *)
LEMMA DeadlineLives ==
    ASSUME ActivationInv, NEW g \in Gens, Deadline(g)
    PROVE  LifeStep
<1> USE DEF ActivationInv
<1>1. sups[g] \in Supervisor /\ sups \in [Gens -> Supervisor \cup {None}]
  BY DEF Deadline, TypeOK
<1> DEFINE s == sups[g]
           t == [s EXCEPT !.waiting = FALSE]
<1>2. t \in Supervisor /\ SameAnswer(s, t) /\ t.open = s.open
  <2> HIDE DEF s
  <2>1. s \in Supervisor
    BY <1>1 DEF s
  <2> QED BY <2>1, SupervisorUpdates DEF Supervisor, SameAnswer
<1>3. sups' = [sups EXCEPT ![g] = t]
  BY DEF Deadline
<1> HIDE DEF t
<1>4. /\ sups' \in [Gens -> Supervisor \cup {None}]
      /\ sups'[g] = t /\ \A h \in Gens : h # g => sups'[h] = sups[h]
  BY <1>1, <1>2, <1>3
<1>5. \A h \in Gens : /\ sups'[h] # None => sups[h] # None /\ SameAnswer(sups[h], sups'[h])
                      /\ sups'[h] = None => sups[h] = None
                      /\ sups'[h] # None /\ sups[h].open => sups'[h].open
  BY <1>1, <1>2, <1>4, Constants DEF SameAnswer
<1>6. Attached' => Attached /\ sups'[gen].open
  BY <1>5 DEF Deadline, Attached, SupervisorsInv, childVars
<1> QED BY <1>4, <1>5, <1>6, LeftAlone
        DEF LifeStep, Deadline, childVars, TypeOK, ChildTypes, SupervisorsInv

-----------------------------------------------------------------------------
(* Steps that end an application                                           *)

(* An open supervisor without an open question has the revision in effect. *)
LEMMA SettledInSync ==
    ASSUME ActivationInv, NEW g \in Gens, sups[g] # None, sups[g].open, Settled(sups[g])
    PROVE  /\ sups[g].applied = gw.rev
           /\ sups[g].op # None => gw.last # None /\ gw.last.op = sups[g].op /\ gw.last.state = sups[g].ack
           /\ ~Busy /\ NoApply
<1> USE DEF ActivationInv
<1>1. Mirrors(sups[g]) /\ EffectIsLast /\ PipeInOrder
  BY DEF PipeInv
<1>2. CASE sups[g].op = None
  BY <1>1, <1>2, EmptyFacts DEF Mirrors, Busy, NoApply
<1>3. CASE sups[g].op # None
  <2>1. AlreadyAdmitted(sups[g])
    BY <1>1, <1>3, Constants DEF Mirrors, NotAdmittedYet, Settled, OpStates
  <2>2. gw.last # None /\ gw.last.op = sups[g].op /\ gw.last.state = sups[g].ack
    BY <1>3, <2>1 DEF AlreadyAdmitted, Admitted, Settled
  <2>3. sups[g].applied = gw.rev /\ ~Busy
    BY <1>1, <1>3, <2>1, <2>2 DEF EffectIsLast, Busy, AlreadyAdmitted, Settled, SupervisorsInv
  <2>4. NoApply
    BY <1>1, <1>3, <2>2 DEF NoApply, Mirrors, PipeInOrder, Known
  <2> QED BY <2>2, <2>3, <2>4
<1> QED BY <1>2, <1>3

(* The supervisor that an application looks at. *)
Used(g) == (prep.gen # 0 /\ g = prep.gen) \/ (Attached /\ g = gen)

(* What its settled supervisor has applied was in effect since it began. *)
LEMMA SettledWasServed ==
    ASSUME ActivationInv, prep # None, prep.op \in Mutations,
           NEW g \in Gens, Used(g), Settled(sups[g])
    PROVE  sups[g].applied \in served[prep.op]
<1> USE DEF ActivationInv
<1>1. CASE prep.gen # 0 /\ g = prep.gen
  BY <1>1 DEF ServedInv
<1>2. CASE Attached /\ g = gen
  <2>1. sups[g] # None /\ sups[g].open /\ proc /\ announced
    BY <1>2 DEF Attached, SupervisorsInv, TypeOK
  <2>2. served[prep.op] # None
    BY DEF ServedInv, Began
  <2> QED BY <2>1, <2>2, SettledInSync DEF ServedInv
<1> QED BY <1>1, <1>2 DEF Used

(* Receipts after the owner remembers a state that is true. *)
LEMMA RememberKeeps ==
    ASSUME ActivationInv, prep # None, UNCHANGED served,
           NEW state \in {"applied", "requested", "rejected", "uncertain"}, NEW rev \in Definitions,
           Remember(state, rev),
           prep.op \in Mutations /\ state = "applied" => rev \in served[prep.op]
    PROVE  receipts' \in [Mutations -> Receipt \cup {None}] /\ TrueReceipts
<1> USE DEF ActivationInv
<1>1. CASE prep.op \in Mutations
  <2> DEFINE r == [state |-> state, rev |-> rev]
  <2>1. r \in Receipt /\ r.state = state /\ r.rev = rev
    BY DEF Receipt
  <2>2. receipts' = [receipts EXCEPT ![prep.op] = r] /\ receipts \in [Mutations -> Receipt \cup {None}]
    BY <1>1 DEF Remember, TypeOK
  <2>3. served[prep.op] # None
    BY <1>1 DEF ServedInv, Began
  <2> HIDE DEF r
  <2> QED BY <1>1, <2>1, <2>2, <2>3 DEF TrueReceipts, ServedInv, ReceiptsAreTrue
<1>2. CASE prep.op \notin Mutations
  <2>1. UNCHANGED receipts
    BY <1>2 DEF Remember
  <2> QED BY <2>1, LeftAlone
<1> QED BY <1>1, <1>2

(* The same for an answer of the supervisor that was asked. *)
LEMMA FromAckKeeps ==
    ASSUME ActivationInv, prep # None, UNCHANGED served, NEW g \in Gens, Used(g), sups[g] # None,
           NEW target \in Definitions, FromAck(sups[g], target)
    PROVE  receipts' \in [Mutations -> Receipt \cup {None}] /\ TrueReceipts
<1> DEFINE st == IF sups[g].ack = "applied" THEN (IF sups[g].op.rev = target THEN "applied" ELSE "requested")
                 ELSE IF sups[g].ack = "rejected" THEN "rejected" ELSE "uncertain"
<1>1. st \in {"applied", "requested", "rejected", "uncertain"} /\ Remember(st, target)
  BY DEF FromAck
<1>2. ASSUME prep.op \in Mutations, st = "applied" PROVE target \in served[prep.op]
  <2>1. sups[g].ack = "applied" /\ sups[g].op.rev = target
    BY <1>2
  <2>2. sups[g].applied = target /\ Settled(sups[g])
    BY <2>1 DEF ActivationInv, SupervisorsInv, Settled
  <2> QED BY <1>2, <2>2, SettledWasServed
<1> HIDE DEF st
<1> QED BY <1>1, <1>2, RememberKeeps

(* An application that ends with true receipts is a step of the child's    *)
(* life.                                                                   *)
LEMMA FinishLives ==
    ASSUME ActivationInv, UNCHANGED <<desired, sups, prepares, served>>, prep' = None,
           receipts' \in [Mutations -> Receipt \cup {None}], TrueReceipts,
           \/ Kill /\ proc
           \/ \E needed \in BOOLEAN : SyncRunningGateways(needed)
    PROVE  LifeStep
<1> USE DEF ActivationInv
<1>1. CASE Kill /\ proc
  BY <1>1, LeftAlone, ChildSteps DEF LifeStep, Kill, Attached, SupervisorsInv
<1>2. ASSUME NEW needed \in BOOLEAN, SyncRunningGateways(needed) PROVE LifeStep
  <2>1. CASE Start /\ ~proc
    BY <2>1, LeftAlone, ChildSteps DEF LifeStep
  <2>2. CASE Kill /\ proc
    BY <1>1, <2>2
  <2>3. CASE proc /\ Flag(FALSE) /\ UNCHANGED <<proc, ready, gen, announced, gw, toGw, toManager>>
    <3>1. ChildTypes' /\ restarting' # "asked"
      BY <2>3, ChildSteps DEF Flag
    <3> QED BY <2>3, <3>1, LeftAlone DEF LifeStep, Attached, SupervisorsInv
  <2> QED BY <1>2, <2>1, <2>2, <2>3 DEF SyncRunningGateways, TypeOK
<1> QED BY <1>1, <1>2

(* Every action that ends an application ends it with true receipts. *)
LEMMA EndLives ==
    ASSUME ActivationInv,
           \/ ResolveSkips \/ Resolved \/ NeedsStart \/ NeedsRestart \/ ApplyAnswered
           \/ \E g \in Gens : EarlierBlocks(g) \/ DecidesWithoutApply(g)
    PROVE  LifeStep
<1> USE DEF ActivationInv
<1>0. desired \in Definitions /\ needsRestart \in BOOLEAN /\ MaxStarts \in Nat
  BY Constants DEF TypeOK
<1>1. CASE ResolveSkips
  <2>1. StillNeeded \in BOOLEAN
    BY <1>0 DEF StillNeeded
  <2>2. UNCHANGED <<receipts, served>>
    BY <1>1 DEF ResolveSkips, Finish
  <2> QED BY <1>1, <2>1, <2>2, LeftAlone, FinishLives DEF ResolveSkips, Finish
<1>2. CASE Resolved
  <2>1. /\ prep # None /\ prep.gen \in Gens /\ Used(prep.gen) /\ sups[prep.gen] # None
        /\ Previous.rev \in Definitions
    <3>1. /\ prep # None /\ prep.gen \in Gens /\ Used(prep.gen) /\ sups[prep.gen] # None
          /\ prep.op \in Mutations /\ receipts[prep.op] # None
      BY <1>0, <1>2 DEF Resolved, PrepareInv, Gens, Used, TypeOK
    <3>2. receipts[prep.op] \in Receipt
      BY <3>1 DEF TypeOK
    <3> QED BY <3>1, <3>2 DEF Previous, Receipt
  <2>2. receipts' \in [Mutations -> Receipt \cup {None}] /\ TrueReceipts
    BY <1>2, <2>1, FromAckKeeps DEF Resolved, Finish
  <2> QED BY <1>0, <1>2, <2>2, FinishLives DEF Resolved, Finish
<1>3. CASE NeedsStart
  <2>1. receipts' \in [Mutations -> Receipt \cup {None}] /\ TrueReceipts
    BY <1>0, <1>3, RememberKeeps DEF NeedsStart, Finish
  <2> QED BY <1>0, <1>3, <2>1, FinishLives DEF NeedsStart, Finish
<1>4. CASE NeedsRestart
  <2>1. receipts' \in [Mutations -> Receipt \cup {None}] /\ TrueReceipts
    BY <1>0, <1>4, RememberKeeps DEF NeedsRestart
  <2> QED BY <1>4, <2>1, FinishLives DEF NeedsRestart, Attached
<1>5. CASE ApplyAnswered
  <2>1. prep # None /\ prep.gen \in Gens /\ Used(prep.gen) /\ sups[prep.gen] # None
    BY <1>0, <1>5 DEF ApplyAnswered, PrepareInv, Gens, Used, TypeOK
  <2>2. receipts' \in [Mutations -> Receipt \cup {None}] /\ TrueReceipts
    BY <1>0, <1>5, <2>1, FromAckKeeps DEF ApplyAnswered, Finish
  <2> QED BY <1>0, <1>5, <2>2, FinishLives DEF ApplyAnswered, Finish
<1>6. ASSUME NEW g \in Gens, Deciding(g) PROVE prep # None /\ Used(g) /\ sups[g] # None
  BY <1>0, <1>6 DEF Deciding, Used, Attached, PrepareInv, Gens
<1>7. ASSUME NEW g \in Gens, EarlierBlocks(g) PROVE LifeStep
  <2>1. prep # None /\ Used(g) /\ sups[g] # None
    BY <1>6, <1>7 DEF EarlierBlocks
  <2>2. receipts' \in [Mutations -> Receipt \cup {None}] /\ TrueReceipts
    <3>1. CASE FromAck(sups[g], desired)
      BY <1>0, <1>7, <2>1, <3>1, FromAckKeeps DEF EarlierBlocks, Finish
    <3>2. CASE Remember("rejected", desired)
      BY <1>0, <1>7, <2>1, <3>2, RememberKeeps DEF EarlierBlocks, Finish
    <3> QED BY <1>7, <3>1, <3>2 DEF EarlierBlocks
  <2> QED BY <1>0, <1>7, <2>2, FinishLives DEF EarlierBlocks, Finish
<1>8. ASSUME NEW g \in Gens, DecidesWithoutApply(g) PROVE LifeStep
  <2>1. prep # None /\ Used(g) /\ sups[g] # None /\ Settled(sups[g]) /\ UNCHANGED served
    BY <1>6, <1>8 DEF DecidesWithoutApply, Finish
  <2>2. receipts' \in [Mutations -> Receipt \cup {None}] /\ TrueReceipts
    <3>1. CASE FromAck(sups[g], desired)
      BY <1>0, <2>1, <3>1, FromAckKeeps
    <3>2. CASE AlreadyApplied(sups[g]) /\ Remember("applied", desired)
      BY <1>0, <2>1, <3>2, SettledWasServed, RememberKeeps DEF AlreadyApplied
    <3>3. CASE UNCHANGED receipts
      BY <2>1, <3>3, LeftAlone
    <3> QED BY <1>8, <3>1, <3>2, <3>3 DEF DecidesWithoutApply
  <2>3. (needsRestart /\ prep.pc = "inspecting") \in BOOLEAN
    OBVIOUS
  <2> QED BY <1>8, <2>2, <2>3, FinishLives DEF DecidesWithoutApply, Finish
<1> QED BY <1>1, <1>2, <1>3, <1>4, <1>5, <1>7, <1>8

-----------------------------------------------------------------------------
(* READY, and the beginning of an application                              *)

\* What was in effect since an operation began remains so.
Grown == \A o \in Mutations : served[o] # None =>
            served'[o] # None /\ \A d \in served[o] : d \in served'[o]

(* A revision that comes into effect does so for every operation begun. *)
LEMMA ServesGrows ==
    ASSUME TypeOK, NEW rev \in Definitions, Serves(rev)
    PROVE  /\ served' \in [Mutations -> (SUBSET Definitions) \cup {None}]
           /\ Grown
           /\ \A o \in Mutations : served'[o] # None => served[o] # None /\ rev \in served'[o]
<1>1. ASSUME NEW o \in Mutations
      PROVE  /\ served'[o] \in (SUBSET Definitions) \cup {None}
             /\ served[o] # None => /\ served'[o] # None /\ rev \in served'[o]
                                    /\ \A d \in served[o] : d \in served'[o]
             /\ served'[o] # None => served[o] # None
  <2>1. CASE served[o] = None
    BY <2>1 DEF Serves
  <2>2. CASE served[o] # None
    <3> DEFINE S == served[o] \cup {rev}
    <3>1. served'[o] = S
      BY <2>2 DEF Serves
    <3>2. S \in SUBSET Definitions /\ rev \in S /\ \A d \in served[o] : d \in S
      BY <2>2 DEF TypeOK
    <3> HIDE DEF S
    <3>3. S # None
      BY <3>2, Constants
    <3> QED BY <2>2, <3>1, <3>2, <3>3
  <2> QED BY <2>1, <2>2
<1>2. served' = [o \in Mutations |-> served'[o]]
  BY DEF Serves
<1>3. served' \in [Mutations -> (SUBSET Definitions) \cup {None}]
  BY <1>1, <1>2
<1> QED BY <1>1, <1>3 DEF Grown

(* READY. *)
LEMMA ReadyKeeps ==
    ASSUME ActivationInv, Ready
    PROVE  ActivationInv'
<1> USE DEF ActivationInv
<1>0. /\ gen \in Gens /\ MaxStarts \in Nat /\ gw.rev \in Definitions /\ sups[gen] = None
      /\ gw.last = None /\ toGw = <<>> /\ toManager = <<>>
      /\ sups \in [Gens -> Supervisor \cup {None}]
  BY Constants DEF Ready, SupervisorsInv, TypeOK, PipeInv
<1> DEFINE s == [open |-> TRUE, applied |-> gw.rev, op |-> None, ack |-> None, waiting |-> FALSE, seq |-> 0]
<1>1. /\ s \in Supervisor /\ s # None /\ s.open /\ s.applied = gw.rev /\ s.op = None /\ s.ack = None /\ s.seq = 0
  <2>1. s \in Supervisor
    BY <1>0, Constants DEF Supervisor
  <2> QED BY <2>1, Constants
<1>2. sups' = [sups EXCEPT ![gen] = s]
  BY DEF Ready
<1> HIDE DEF s
<1>3. sups' \in [Gens -> Supervisor \cup {None}] /\ sups'[gen] = s /\ \A g \in Gens : g # gen => sups'[g] = sups[g]
  BY <1>0, <1>1, <1>2
<1>4. UNCHANGED <<proc, gen, gw, toGw, toManager, needsRestart, restarting, desired, prep, prepares>>
      /\ proc /\ ~announced /\ announced' = TRUE /\ ready' = TRUE
  BY DEF Ready
<1>5. /\ served' \in [Mutations -> (SUBSET Definitions) \cup {None}]
      /\ Grown
      /\ \A o \in Mutations : served'[o] # None => served[o] # None /\ gw.rev \in served'[o]
  BY <1>0, ServesGrows DEF Ready
<1>6. /\ receipts' \in [Mutations -> Receipt \cup {None}]
      /\ \A o \in Mutations : /\ receipts'[o] # None <=> receipts[o] # None
                              /\ receipts'[o] = receipts[o] \/ receipts'[o].rev = gw.rev
  <2>1. ASSUME NEW o \in Mutations
        PROVE  /\ receipts'[o] \in Receipt \cup {None}
               /\ receipts'[o] # None <=> receipts[o] # None
               /\ receipts'[o] = receipts[o] \/ receipts'[o].rev = gw.rev
    <3> DEFINE r == receipts[o]
               u == [r EXCEPT !.state = "applied"]
    <3>1. CASE receipts[o] # None /\ receipts[o] = [state |-> "requested", rev |-> gw.rev]
      <4>1. r \in Receipt /\ r.rev = gw.rev
        BY <3>1 DEF TypeOK
      <4>2. u \in Receipt /\ u.rev = gw.rev
        BY <4>1 DEF Receipt
      <4>3. receipts'[o] = u
        BY <3>1 DEF Ready
      <4> HIDE DEF u
      <4> QED BY <3>1, <4>2, <4>3, Constants
    <3>2. CASE ~(receipts[o] # None /\ receipts[o] = [state |-> "requested", rev |-> gw.rev])
      <4>1. receipts'[o] = receipts[o]
        BY <3>2 DEF Ready
      <4> QED BY <4>1 DEF TypeOK
    <3> QED BY <3>1, <3>2
  <2>2. receipts' = [o \in Mutations |-> receipts'[o]]
    BY DEF Ready
  <2> QED BY <2>1, <2>2
<1>7. TypeOK'
  <2>1. OpenIsCurrent'
    BY <1>3, <1>4 DEF OpenIsCurrent, TypeOK
  <2> QED BY <1>3, <1>4, <1>5, <1>6, <2>1 DEF TypeOK, OpenIsCurrent
<1>8. PipeInv'
  <2>1. PipeInOrder' /\ EffectIsLast'
    BY <1>4 DEF PipeInv, PipeInOrder, EffectIsLast, OutOfOrder, Known, Busy
  <2>2. ASSUME NEW g \in Gens, (sups[g] # None /\ sups[g].open)' PROVE Mirrors(sups[g])'
    <3>1. g = gen
      BY <1>3, <1>4, <2>2 DEF TypeOK
    <3> QED BY <1>0, <1>1, <1>3, <1>4, <3>1 DEF Mirrors
  <2> QED BY <1>4, <2>1, <2>2 DEF PipeInv
<1>9. SupervisorsInv'
  <2>1. prep # None => prepares > 0
    BY DEF PrepareInv
  <2>2. prepares \in Nat /\ gen \in Nat
    BY <1>0, Constants DEF TypeOK
  <2>3. \A g \in Gens : (sups[g] # None =>
          /\ sups[g].ack # None => sups[g].op # None
          /\ sups[g].ack = "applied" => sups[g].applied = sups[g].op.rev
          /\ sups[g].seq <= prepares
          /\ prep # None /\ prep.pc # "applying" => sups[g].seq < prepares)'
    BY <1>1, <1>3, <1>4, <2>1, <2>2, Constants DEF SupervisorsInv, OpStates
  <2>4. (Attached => sups[gen].open)' /\ (\A g \in Gens : g > gen => sups[g] = None)'
    BY <1>1, <1>3, <1>4, <2>2 DEF SupervisorsInv, Gens
  <2> QED BY <1>0, <1>4, <2>3, <2>4 DEF SupervisorsInv
<1>10. PrepareInv'
  <2>1. ASSUME prep # None, prep.pc # "declaring" PROVE prep.gen \in 1 .. gen /\ prep.gen \in Gens /\ prep.gen # gen
    BY <1>0, <2>1 DEF PrepareInv, Gens
  <2>2. ASSUME prep # None, prep.pc # "declaring" PROVE sups'[prep.gen] = sups[prep.gen]
    BY <1>3, <2>1, <2>2
  <2>3. ASSUME prep # None, prep.pc = "resolving" PROVE prep.op \in Mutations
    BY <2>3 DEF PrepareInv
  <2> QED BY <1>1, <1>3, <1>4, <1>6, <2>1, <2>2, <2>3 DEF PrepareInv
<1>11. ServedInv'
  <2>1. \A i \in 1 .. Len(toGw') : FALSE
    BY <1>0, <1>4, EmptyFacts
  <2>2. \A i \in 1 .. Len(toManager') : FALSE
    BY <1>0, <1>4, EmptyFacts
  <2>3. \A g \in Gens : (sups[g] # None /\ sups[g].op # None =>
          Began(sups[g].op.id) /\ (sups[g].ack = "applied" => WasServed(sups[g].op)))'
    BY <1>1, <1>3, <1>5 DEF Grown, ServedInv, Began, WasServed
  <2>4. ASSUME prep # None, prep.gen # 0, prep.op \in Mutations, Settled(sups[prep.gen])'
        PROVE  sups'[prep.gen].applied \in served'[prep.op]
    <3>1. prep.gen \in Gens /\ sups'[prep.gen] = sups[prep.gen]
      BY <1>0, <1>3, <2>4 DEF PrepareInv, Gens
    <3>2. served[prep.op] # None
      BY <2>4 DEF ServedInv, Began
    <3> QED BY <1>4, <1>5, <2>4, <3>1, <3>2 DEF Grown, ServedInv, Settled
  <2>5. (prep # None => Began(prep.op))'
    BY <1>4, <1>5 DEF ServedInv, Began, Grown
  <2> QED BY <1>0, <1>4, <1>5, <1>6, <2>1, <2>2, <2>3, <2>4, <2>5 DEF ServedInv, Grown
<1>12. ReceiptsAreTrue'
  BY <1>5, <1>6 DEF ReceiptsAreTrue, Grown, ServedInv
<1> QED BY <1>7, <1>8, <1>9, <1>10, <1>11, <1>12

(* An application begins: nothing but the desired definition, the flag and *)
(* the history of its operation changes.                                   *)
LEMMA BeginKeeps ==
    ASSUME ActivationInv, NEW o \in Operations, NEW resolve \in BOOLEAN, NEW d \in Definitions,
           BeginPrepare(o, resolve, d)
    PROVE  ActivationInv'
<1> USE DEF ActivationInv
<1> DEFINE p == [pc |-> "declaring", op |-> o, resolve |-> resolve, gen |-> 0]
<1>1. /\ UNCHANGED <<proc, ready, gen, announced, gw, toGw, toManager, restarting, sups, receipts>>
      /\ prep = None /\ prepares' = prepares + 1 /\ prepares < MaxPrepares /\ desired' = d
      /\ prep' = p /\ (resolve => o \in Mutations)
  BY DEF BeginPrepare
<1>2. p \in Prepare /\ p # None /\ p.pc = "declaring" /\ p.op = o /\ p.resolve = resolve /\ p.gen = 0
  <2>1. p \in Prepare
    BY Constants DEF Prepare
  <2> QED BY <2>1, Constants
<1> HIDE DEF p
<1>3. prepares \in Nat /\ prepares' \in 0 .. MaxPrepares /\ prepares' > 0
  BY <1>1, Constants DEF TypeOK
<1>4. /\ served' \in [Mutations -> (SUBSET Definitions) \cup {None}] /\ Grown
      /\ o \in Mutations => served'[o] # None
      /\ \A m \in Mutations : served'[m] # None /\ proc /\ announced => gw.rev \in served'[m]
  <2>1. CASE o \in Mutations /\ served[o] = None
    <3> DEFINE S == IF proc /\ announced THEN {gw.rev} ELSE {}
    <3>1. S \in SUBSET Definitions /\ (proc /\ announced => gw.rev \in S)
      BY DEF TypeOK
    <3>2. served' = [served EXCEPT ![o] = S]
      BY <2>1 DEF BeginPrepare
    <3> HIDE DEF S
    <3>3. S # None
      BY <3>1, Constants
    <3>4. served'[o] = S /\ \A m \in Mutations : m # o => served'[m] = served[m]
      BY <2>1, <3>2 DEF TypeOK
    <3>5. served' \in [Mutations -> (SUBSET Definitions) \cup {None}]
      BY <3>1, <3>2 DEF TypeOK
    <3> QED BY <2>1, <3>1, <3>3, <3>4, <3>5 DEF Grown, ServedInv
  <2>2. CASE ~(o \in Mutations /\ served[o] = None)
    <3>1. served' = served
      BY <2>2 DEF BeginPrepare
    <3> QED BY <2>2, <3>1 DEF TypeOK, Grown, ServedInv
  <2> QED BY <2>1, <2>2
<1>5. TypeOK'
  <2>1. needsRestart' \in BOOLEAN
    BY DEF BeginPrepare
  <2> QED BY <1>1, <1>2, <1>3, <1>4, <2>1 DEF TypeOK
<1>6. PipeInv'
  BY <1>1, PipesKept DEF SameAnswer
<1>7. SupervisorsInv'
  <2>1. needsRestart => needsRestart'
    BY DEF BeginPrepare
  <2>2. \A g \in Gens : sups[g] # None => sups[g].seq \in Nat
    BY Constants DEF TypeOK, Supervisor
  <2> QED BY <1>1, <1>3, <2>1, <2>2 DEF SupervisorsInv, Attached
<1>8. PrepareInv'
  BY <1>1, <1>2, <1>3 DEF PrepareInv
<1>9. ServedInv'
  <2>1. /\ \A i \in 1 .. Len(toGw') : Began(toGw[i].op.id)'
        /\ (gw.last # None => Began(gw.last.op.id) /\ (gw.last.state = "applied" => WasServed(gw.last.op)))'
        /\ \A i \in 1 .. Len(toManager') : (toManager[i].state = "applied" => WasServed(toManager[i].op))'
    BY <1>1, <1>4 DEF ServedInv, Began, WasServed, Grown
  <2>2. \A g \in Gens : (sups[g] # None /\ sups[g].op # None =>
          Began(sups[g].op.id) /\ (sups[g].ack = "applied" => WasServed(sups[g].op)))'
    BY <1>1, <1>4 DEF ServedInv, Began, WasServed, Grown
  <2>3. \A m \in Mutations : (receipts[m] # None => served[m] # None)'
    BY <1>1, <1>4 DEF ServedInv, Grown
  <2> QED BY <1>1, <1>2, <1>4, <2>1, <2>2, <2>3 DEF ServedInv, Began
<1>10. ReceiptsAreTrue'
  BY <1>1, <1>4 DEF ReceiptsAreTrue, ServedInv, Grown
<1> QED BY <1>5, <1>6, <1>7, <1>8, <1>9, <1>10

-----------------------------------------------------------------------------
(* The pipes                                                               *)

(* Nobody but the open supervisor of the current child mirrors anything. *)
LEMMA OnlyCurrentOpen ==
    ASSUME TypeOK, NEW g \in Gens, sups[g] # None, sups[g].open
    PROVE  g = gen /\ gen \in Gens /\ proc /\ announced
BY DEF TypeOK

(* accept: an answer about the operation in question says what is so. *)
LEMMA AcceptKeeps ==
    ASSUME ActivationInv, Accept
    PROVE  ActivationInv'
<1> USE DEF ActivationInv
<1> DEFINE a == Head(toManager)
           s == sups[gen]
           t == [s EXCEPT !.ack = a.state, !.waiting = FALSE,
                          !.applied = IF a.state = "applied" THEN s.op.rev ELSE s.applied]
<1>1. /\ UNCHANGED <<proc, ready, gen, announced, gw, toGw, needsRestart, restarting,
                     desired, prep, prepares, receipts, served>>
      /\ proc /\ toManager # <<>> /\ toManager' = Tail(toManager) /\ gen \in Gens
      /\ MaxStarts \in Nat /\ sups \in [Gens -> Supervisor \cup {None}]
  BY Constants DEF Accept, SupervisorsInv, TypeOK
<1>2. /\ a \in Ack /\ a = toManager[1] /\ 1 \in 1 .. Len(toManager) /\ toManager' \in Seq(Ack)
      /\ \A i \in 1 .. Len(toManager') : i + 1 \in 1 .. Len(toManager) /\ toManager'[i] = toManager[i + 1]
  BY <1>1, TailFacts DEF TypeOK
<1>a. a.op \in Op /\ a.op # None /\ a.state \in OpStates
  BY <1>2, Constants DEF Ack
<1>b. announced
  BY <1>1 DEF PipeInv
<1>c. ASSUME Matches(s, a)
      PROVE  /\ sups' = [sups EXCEPT ![gen] = t] /\ t \in Supervisor /\ t # None
             /\ s # None /\ s \in Supervisor /\ s.open /\ s.op = a.op
             /\ t.open = s.open /\ t.op = s.op /\ t.seq = s.seq /\ t.ack = a.state
             /\ t.applied = IF a.state = "applied" THEN s.op.rev ELSE s.applied
  <2>1. s # None /\ s \in Supervisor /\ s.open /\ s.op = a.op
    BY <1>1, <1>c DEF Matches
  <2>2. s.op.rev \in Definitions /\ s.applied \in Definitions
    BY <1>a, <2>1 DEF Op, Supervisor
  <2>3. t \in Supervisor
    BY <1>a, <2>1, <2>2, SupervisorUpdates
  <2>4. t.open = s.open /\ t.op = s.op /\ t.seq = s.seq /\ t.ack = a.state
        /\ t.applied = IF a.state = "applied" THEN s.op.rev ELSE s.applied
    <3> HIDE DEF s, a
    <3> QED BY <2>1 DEF Supervisor
  <2>5. sups' = [sups EXCEPT ![gen] = t]
    BY <1>c DEF Accept
  <2> QED BY <2>1, <2>3, <2>4, <2>5, Constants
<1>d. ASSUME ~Matches(s, a) PROVE UNCHANGED sups
  BY <1>d DEF Accept
<1> HIDE DEF a, t
<1>3. /\ sups' \in [Gens -> Supervisor \cup {None}]
      /\ \A g \in Gens : /\ g # gen => sups'[g] = sups[g]
                         /\ sups'[g] # None <=> sups[g] # None
                         /\ sups[g] # None => /\ sups'[g].open = sups[g].open /\ sups'[g].op = sups[g].op
                                               /\ sups'[g].seq = sups[g].seq
  <2>1. CASE Matches(s, a)
    BY <1>1, <1>c, <2>1
  <2>2. CASE ~Matches(s, a)
    BY <1>1, <1>d, <2>2
  <2> QED BY <2>1, <2>2
<1>4. TypeOK'
  <2>1. OpenIsCurrent'
    BY <1>1, <1>3 DEF OpenIsCurrent, TypeOK
  <2> QED BY <1>1, <1>2, <1>3, <2>1 DEF TypeOK, OpenIsCurrent
<1>5. ASSUME s # None, s.open PROVE Mirrors(sups[gen])'
  <2>1. Mirrors(s)
    BY <1>1, <1>5 DEF PipeInv
  <2>2. s.op # None
    BY <1>1, <2>1 DEF Mirrors
  <2>3. Numbered(s) /\ (NotAdmittedYet(s) \/ AlreadyAdmitted(s))
        /\ \A i \in 1 .. Len(toGw) : toGw[i].kind = "apply" => toGw[i].op = s.op
    BY <2>1, <2>2 DEF Mirrors
  <2>4. CASE ~Matches(s, a)
    <3>1. sups'[gen] = s
      BY <1>d, <2>4
    <3>2. Numbered(sups[gen])'
      BY <1>1, <1>2, <2>3, <3>1 DEF Numbered
    <3>3. NotAdmittedYet(s) => NotAdmittedYet(sups[gen])'
      BY <1>1, <1>2, <3>1 DEF NotAdmittedYet, Admitted, NoApply, Busy
    <3>4. AlreadyAdmitted(s) => AlreadyAdmitted(sups[gen])'
      BY <1>1, <1>2, <3>1 DEF AlreadyAdmitted, Admitted
    <3> QED BY <1>1, <2>2, <2>3, <3>1, <3>2, <3>3, <3>4 DEF Mirrors
  <2>5. CASE Matches(s, a)
    <3>1. sups'[gen] = t
      BY <1>1, <1>c, <2>5
    <3>2. Numbered(sups[gen])'
      BY <1>1, <1>2, <1>c, <2>3, <2>5, <3>1 DEF Numbered
    <3>3. NotAdmittedYet(s) => NotAdmittedYet(sups[gen])'
      BY <1>1, <1>2, <1>c, <2>5, <3>1 DEF NotAdmittedYet, Admitted, NoApply, Busy
    <3>4. AlreadyAdmitted(s) => AlreadyAdmitted(sups[gen])'
      BY <1>1, <1>2, <1>c, <2>5, <3>1 DEF AlreadyAdmitted, Admitted
    <3> QED BY <1>1, <1>c, <2>2, <2>3, <2>5, <3>1, <3>2, <3>3, <3>4 DEF Mirrors
  <2> QED BY <2>4, <2>5
<1>6. PipeInv'
  <2>1. PipeInOrder' /\ EffectIsLast'
    BY <1>1 DEF PipeInv, PipeInOrder, EffectIsLast, OutOfOrder, Known, Busy
  <2>2. ASSUME NEW g \in Gens, (sups[g] # None /\ sups[g].open)' PROVE Mirrors(sups[g])'
    <3>1. g = gen /\ s # None /\ s.open
      BY <1>3, <2>2, OnlyCurrentOpen
    <3> QED BY <1>1, <1>5, <3>1
  <2> QED BY <1>1, <1>b, <2>1, <2>2 DEF PipeInv
<1>7. SupervisorsInv'
  <2>1. \A g \in Gens : (sups[g] # None =>
          /\ sups[g].ack # None => sups[g].op # None
          /\ sups[g].ack = "applied" => sups[g].applied = sups[g].op.rev)'
    BY <1>1, <1>a, <1>c, <1>d, <1>3 DEF SupervisorsInv
  <2> QED BY <1>1, <1>3, <2>1 DEF SupervisorsInv, Attached
<1>8. PrepareInv'
  <2>1. ASSUME prep # None, prep.pc # "declaring" PROVE prep.gen \in Gens
    BY <1>1, <2>1 DEF PrepareInv, Gens, TypeOK
  <2>2. ASSUME sups[gen].op = None PROVE UNCHANGED sups
    BY <1>a, <1>d, <2>2 DEF Matches
  <2> QED BY <1>1, <1>3, <2>1, <2>2 DEF PrepareInv
<1>9. ServedInv'
  <2>1. \A i \in 1 .. Len(toManager') : (toManager[i].state = "applied" => WasServed(toManager[i].op))'
    BY <1>1, <1>2 DEF ServedInv, WasServed
  <2>2. \A g \in Gens : (sups[g] # None /\ sups[g].op # None =>
          Began(sups[g].op.id) /\ (sups[g].ack = "applied" => WasServed(sups[g].op)))'
    BY <1>1, <1>2, <1>c, <1>d, <1>3 DEF ServedInv, Began, WasServed
  <2>3. ASSUME prep # None, prep.gen # 0, prep.op \in Mutations, Settled(sups[prep.gen])'
        PROVE  sups'[prep.gen].applied \in served[prep.op]
    <3>1. prep.gen \in Gens
      BY <1>1, <2>3 DEF PrepareInv, Gens, TypeOK
    <3>2. CASE sups'[prep.gen] = sups[prep.gen]
      BY <1>1, <2>3, <3>2 DEF ServedInv, Settled
    <3>3. CASE prep.gen = gen /\ Matches(s, a)
      <4>1. Mirrors(sups[gen])' /\ sups'[gen] = t
        BY <1>1, <1>5, <1>c, <3>3
      <4>2. t.ack \in {"applied", "rejected"} /\ t.op # None
        BY <1>1, <1>a, <1>c, <2>3, <3>3, <4>1 DEF Settled
      <4>3. AlreadyAdmitted(sups[gen])'
        BY <1>1, <4>1, <4>2, Constants DEF Mirrors, NotAdmittedYet, OpStates
      <4>4. t.applied = gw.rev
        BY <1>1, <1>6, <1>7, <4>1, <4>2, <4>3, <1>3, <1>c, <3>3 DEF AlreadyAdmitted, Admitted, PipeInv, EffectIsLast, SupervisorsInv
      <4>5. served[prep.op] # None
        BY <2>3 DEF ServedInv, Began
      <4> QED BY <1>1, <1>b, <2>3, <3>3, <4>1, <4>4, <4>5 DEF ServedInv
    <3> QED BY <1>3, <1>d, <3>1, <3>2, <3>3
  <2> QED BY <1>1, <2>1, <2>2, <2>3 DEF ServedInv, Began, WasServed
<1>10. ReceiptsAreTrue'
  BY <1>1 DEF ReceiptsAreTrue
<1> QED BY <1>4, <1>6, <1>7, <1>8, <1>9, <1>10

(* Receive: what waits next for the Gateway is admitted, or asked about    *)
(* and answered truly.                                                     *)
LEMMA ReceiveCases ==
    ASSUME ActivationInv, Receive
    PROVE  LET c == Head(toGw) IN
           \/ /\ c.kind = "apply" /\ ~Known(c.op) /\ ~OutOfOrder(c.op) /\ Admit(c)
           \/ /\ c.kind = "status" /\ Known(c.op) /\ UNCHANGED gw
              /\ Reply(c.op, IF gw.last.op = c.op THEN gw.last.state ELSE "rejected")
           \/ /\ c.kind = "status" /\ ~Known(c.op) /\ UNCHANGED gw /\ Reply(c.op, "unknown")
<1> DEFINE c == Head(toGw)
<1>1. c \in Command /\ c = toGw[1] /\ 1 \in 1 .. Len(toGw)
  BY TailFacts DEF ActivationInv, TypeOK, Receive
<1>2. c.kind \in {"apply", "status"}
  BY <1>1 DEF Command
<1>3. c.kind = "apply" => ~Known(c.op) /\ ~OutOfOrder(c.op)
  BY <1>1 DEF ActivationInv, PipeInv, PipeInOrder
<1> QED BY <1>2, <1>3 DEF Receive

LEMMA ReceiveKeeps ==
    ASSUME ActivationInv, Receive
    PROVE  ActivationInv'
<1> USE DEF ActivationInv
<1> DEFINE c == Head(toGw)
           s == sups[gen]
           n == [op |-> c.op, state |-> "pending"]
<1>1. /\ UNCHANGED <<proc, ready, gen, announced, needsRestart, restarting,
                     desired, sups, prep, prepares, receipts, served>>
      /\ proc /\ toGw # <<>> /\ toGw' = Tail(toGw) /\ gen \in Gens
      /\ MaxStarts \in Nat /\ sups \in [Gens -> Supervisor \cup {None}]
  BY Constants DEF Receive, SupervisorsInv, TypeOK
<1>2. /\ c \in Command /\ c = toGw[1] /\ 1 \in 1 .. Len(toGw) /\ toGw' \in Seq(Command) /\ Len(toGw') \in Nat
      /\ \A i \in 1 .. Len(toGw') : i + 1 \in 1 .. Len(toGw) /\ i + 1 # 1 /\ toGw'[i] = toGw[i + 1]
  BY <1>1, TailFacts DEF TypeOK
<1>a. c.op \in Op /\ c.op # None /\ Began(c.op.id)
  BY <1>2, Constants DEF Command, ServedInv
<1>b. announced
  BY <1>1 DEF PipeInv
<1> HIDE DEF c
<1>3. \/ /\ c.kind = "apply" /\ ~Known(c.op) /\ ~OutOfOrder(c.op) /\ Admit(c)
      \/ /\ c.kind = "status" /\ UNCHANGED gw /\ Known(c.op)
         /\ Reply(c.op, IF gw.last.op = c.op THEN gw.last.state ELSE "rejected")
      \/ /\ c.kind = "status" /\ UNCHANGED gw /\ ~Known(c.op) /\ Reply(c.op, "unknown")
  BY ReceiveCases DEF c
<1>4. ASSUME c.kind = "apply"
      PROVE  /\ ~Known(c.op) /\ ~OutOfOrder(c.op) /\ UNCHANGED toManager
             /\ gw'.rev = gw.rev /\ gw'.last = n /\ n \in Last /\ n # None
             /\ n.op = c.op /\ n.state = "pending"
             /\ gw' \in [rev : Definitions, last : Last \cup {None}]
             /\ \A i \in 1 .. Len(toGw') : toGw'[i].kind # "apply"
  <2>1. ~Known(c.op) /\ ~OutOfOrder(c.op) /\ Admit(c)
    BY <1>3, <1>4
  <2>2. n \in Last /\ n # None /\ n.op = c.op /\ n.state = "pending"
    <3>1. n \in Last
      BY <1>a DEF Last
    <3> QED BY <3>1, Constants
  <2>3. gw' = [gw EXCEPT !.last = n] /\ UNCHANGED toManager
    BY <2>1 DEF Admit
  <2> HIDE DEF n
  <2>4. gw'.rev = gw.rev /\ gw'.last = n /\ gw' \in [rev : Definitions, last : Last \cup {None}]
    BY <2>2, <2>3 DEF TypeOK
  <2>5. \A i \in 1 .. Len(toGw') : toGw'[i].kind # "apply"
    BY <1>2, <1>4 DEF PipeInv, PipeInOrder
  <2> QED BY <2>1, <2>2, <2>3, <2>4, <2>5
<1> HIDE DEF n
<1> DEFINE st == IF Known(c.op) THEN (IF gw.last.op = c.op THEN gw.last.state ELSE "rejected") ELSE "unknown"
           r == [op |-> c.op, state |-> st]
<1>5. ASSUME c.kind # "apply"
      PROVE  /\ c.kind = "status" /\ UNCHANGED gw
             /\ toManager' \in Seq(Ack) /\ Len(toManager) \in Nat /\ Len(toManager') = Len(toManager) + 1
             /\ \A i \in 1 .. Len(toManager) : toManager'[i] = toManager[i]
             /\ toManager'[Len(toManager) + 1].op = c.op
             /\ toManager'[Len(toManager) + 1].state = st
  <2>1. c.kind = "status" /\ UNCHANGED gw /\ toManager' = Append(toManager, r)
    BY <1>3, <1>5 DEF Reply
  <2>2. st \in OpStates
    BY DEF TypeOK, Last, OpStates, Known
  <2> HIDE DEF st
  <2>3. r \in Ack /\ r.op = c.op /\ r.state = st
    BY <1>a, <2>2 DEF Ack
  <2> HIDE DEF r
  <2> QED BY <2>1, <2>3, AppendFacts DEF TypeOK
<1> HIDE DEF r
<1>6. TypeOK'
  <2>1. gw' \in [rev : Definitions, last : Last \cup {None}] /\ toManager' \in Seq(Ack)
    BY <1>4, <1>5 DEF TypeOK
  <2> QED BY <1>1, <1>2, <2>1 DEF TypeOK
<1>7. PipeInOrder' /\ EffectIsLast'
  <2>1. CASE c.kind = "apply"
    BY <1>4, <2>1 DEF PipeInOrder, EffectIsLast, OutOfOrder
  <2>2. CASE c.kind # "apply"
    <3>1. EffectIsLast'
      BY <1>5, <2>2 DEF PipeInv, EffectIsLast
    <3>2. PipeInOrder'
      <4>1. ASSUME NEW i \in 1 .. Len(toGw'), toGw'[i].kind = "apply"
            PROVE  /\ (~OutOfOrder(toGw[i].op) /\ ~Known(toGw[i].op))'
                   /\ \A j \in 1 .. Len(toGw') : /\ j # i => toGw'[j].kind # "apply"
                                                 /\ j < i => toGw'[j].op # toGw'[i].op
        <5>1. i + 1 \in 1 .. Len(toGw) /\ toGw'[i] = toGw[i + 1]
          BY <1>2
        <5>2. ~OutOfOrder(toGw[i + 1].op) /\ ~Known(toGw[i + 1].op)
          BY <4>1, <5>1 DEF PipeInv, PipeInOrder
        <5>3. (~OutOfOrder(toGw[i].op) /\ ~Known(toGw[i].op))'
          BY <1>5, <2>2, <5>1, <5>2 DEF OutOfOrder, Known, Busy
        <5>4. ASSUME NEW j \in 1 .. Len(toGw')
              PROVE  /\ j # i => toGw'[j].kind # "apply"
                     /\ j < i => toGw'[j].op # toGw'[i].op
          <6>1. j + 1 \in 1 .. Len(toGw) /\ toGw'[j] = toGw[j + 1]
            BY <1>2
          <6>2. (j # i => j + 1 # i + 1) /\ (j < i => j + 1 < i + 1)
            BY <1>2
          <6> QED BY <4>1, <5>1, <6>1, <6>2 DEF PipeInv, PipeInOrder
        <5> QED BY <5>3, <5>4
      <4> QED BY <4>1 DEF PipeInOrder
    <3> QED BY <3>1, <3>2
  <2> QED BY <2>1, <2>2
<1>8. ASSUME s # None, s.open PROVE Mirrors(sups[gen])'
  <2>1. Mirrors(s) /\ sups'[gen'] = s
    BY <1>1, <1>8 DEF PipeInv
  <2>2. s.op # None
    BY <1>1, <2>1 DEF Mirrors
  <2>3. Numbered(s) /\ (NotAdmittedYet(s) \/ AlreadyAdmitted(s))
        /\ \A i \in 1 .. Len(toGw) : toGw[i].kind = "apply" => toGw[i].op = s.op
    BY <2>1, <2>2 DEF Mirrors
  <2> HIDE DEF s
  <2>4. \A i \in 1 .. Len(toGw') : (toGw[i].kind = "apply" => toGw[i].op = s.op)'
    BY <1>1, <1>2, <2>1, <2>3 DEF s
  <2>5. CASE c.kind = "apply"
    <3>1. c.op = s.op /\ NotAdmittedYet(s) /\ ~NoApply
      BY <1>2, <1>4, <2>3, <2>5 DEF AlreadyAdmitted, Admitted, Known, NoApply
    <3>2. AlreadyAdmitted(sups[gen])'
      BY <1>4, <2>1, <2>5, <3>1, Constants DEF AlreadyAdmitted, Admitted, NotAdmittedYet, OpStates
    <3>3. Numbered(sups[gen])'
      BY <1>2, <1>4, <2>1, <2>3, <2>5, <3>1 DEF Numbered
    <3> QED BY <1>1, <2>1, <2>2, <2>4, <3>2, <3>3 DEF Mirrors, s
  <2>6. CASE c.kind # "apply"
    <3>1. Numbered(sups[gen])'
      <4>1. \A i \in 1 .. Len(toManager') : toManager'[i].op.seq <= s.seq
        <5>1. c.op.seq <= s.seq
          BY <1>2, <2>3 DEF Numbered
        <5> QED BY <1>5, <2>3, <2>6, <5>1 DEF Numbered
      <4>2. \A i \in 1 .. Len(toGw') : toGw'[i].op.seq <= s.seq
        BY <1>2, <2>3 DEF Numbered
      <4> QED BY <1>5, <2>1, <2>3, <2>6, <4>1, <4>2 DEF Numbered
    <3>2. CASE NotAdmittedYet(s)
      <4>1. c.op = s.op => st = "unknown" /\ NoApply
        BY <1>2, <1>5, <2>3, <2>6, <3>2 DEF NotAdmittedYet, Known, NoApply, PipeInv, PipeInOrder
      <4>2. NoApply => NoApply'
        BY <1>2 DEF NoApply
      <4> HIDE DEF st
      <4>3. NotAdmittedYet(sups[gen])'
        BY <1>5, <2>1, <2>6, <3>2, <4>1, <4>2 DEF NotAdmittedYet, Admitted, Busy
      <4> QED BY <1>1, <2>1, <2>2, <2>4, <3>1, <4>3 DEF Mirrors, s
    <3>3. CASE AlreadyAdmitted(s)
      <4>1. c.op = s.op => st = gw.last.state
        BY <3>3 DEF AlreadyAdmitted, Admitted, Known
      <4>2. gw.last.state # "unknown"
        BY <3>3 DEF AlreadyAdmitted, Admitted, TypeOK, Last
      <4> HIDE DEF st
      <4>3. AlreadyAdmitted(sups[gen])'
        BY <1>5, <2>1, <2>6, <3>3, <4>1, <4>2 DEF AlreadyAdmitted, Admitted
      <4> QED BY <1>1, <2>1, <2>2, <2>4, <3>1, <4>3 DEF Mirrors, s
    <3> QED BY <2>3, <3>2, <3>3
  <2> QED BY <2>5, <2>6
<1>9. PipeInv'
  <2>1. ASSUME NEW g \in Gens, (sups[g] # None /\ sups[g].open)' PROVE Mirrors(sups[g])'
    <3>1. g = gen /\ s # None /\ s.open
      BY <1>1, <2>1, OnlyCurrentOpen
    <3> QED BY <1>1, <1>8, <3>1
  <2> QED BY <1>1, <1>b, <1>7, <2>1 DEF PipeInv
<1>10. SupervisorsInv'
  BY <1>1 DEF SupervisorsInv, Attached
<1>11. PrepareInv'
  BY <1>1 DEF PrepareInv
<1>12. ServedInv'
  <2>1. \A i \in 1 .. Len(toGw') : Began(toGw[i].op.id)'
    BY <1>1, <1>2 DEF ServedInv, Began
  <2>2. /\ (gw.last # None => Began(gw.last.op.id) /\ (gw.last.state = "applied" => WasServed(gw.last.op)))'
        /\ gw'.rev = gw.rev
    BY <1>1, <1>4, <1>5, <1>a DEF ServedInv, Began, WasServed
  <2>3. \A i \in 1 .. Len(toManager') : (toManager[i].state = "applied" => WasServed(toManager[i].op))'
    <3>1. CASE c.kind = "apply"
      BY <1>1, <1>4, <3>1 DEF ServedInv, WasServed
    <3>2. CASE c.kind # "apply"
      <4>1. st = "applied" => WasServed(c.op)
        BY DEF ServedInv, WasServed, Known
      <4> HIDE DEF st
      <4> QED BY <1>1, <1>5, <3>2, <4>1 DEF ServedInv, WasServed
    <3> QED BY <3>1, <3>2
  <2> QED BY <1>1, <2>1, <2>2, <2>3 DEF ServedInv, Began, WasServed, Settled
<1>13. ReceiptsAreTrue'
  BY <1>1 DEF ReceiptsAreTrue
<1> QED BY <1>6, <1>9, <1>10, <1>11, <1>12, <1>13

(* The end of an application in the Gateway is the end of the operation    *)
(* that the supervisor asks about, and of no other.                        *)
LEMMA ApplicationEndsKeeps ==
    ASSUME ActivationInv, NEW outcome \in {"applied", "rejected", "uncertain"}, ApplicationEnds(outcome)
    PROVE  ActivationInv'
<1> USE DEF ActivationInv
<1> DEFINE l == gw.last
           m == [l EXCEPT !.state = outcome]
           v == IF outcome = "applied" THEN gw.last.op.rev ELSE gw.rev
           r == [op |-> gw.last.op, state |-> outcome]
           s == sups[gen]
<1>1. /\ UNCHANGED <<proc, ready, gen, announced, toGw, needsRestart, restarting,
                     desired, sups, prep, prepares, receipts>>
      /\ proc /\ gw.last # None /\ gw.last.state = "pending" /\ gen \in Gens
      /\ MaxStarts \in Nat /\ sups \in [Gens -> Supervisor \cup {None}]
      /\ gw' = [rev |-> v, last |-> m] /\ toManager' = Append(toManager, r)
  BY Constants DEF ApplicationEnds, SupervisorsInv, TypeOK, Reply
<1>2. l \in Last /\ l.op \in Op /\ l.op.rev \in Definitions /\ gw.rev \in Definitions
  BY <1>1 DEF TypeOK, Last, Op
<1>3. m \in Last /\ m # None /\ m.op = l.op /\ m.state = outcome
  <2> HIDE DEF l
  <2>1. m \in Last /\ m.op = l.op /\ m.state = outcome
    BY <1>2 DEF Last
  <2> QED BY <2>1, Constants
<1>4. r \in Ack /\ r.op = l.op /\ r.state = outcome
  BY <1>2 DEF Ack, OpStates
<1>5. v \in Definitions
  BY <1>2
<1> HIDE DEF m, r, v
<1>6. /\ gw'.rev = v /\ gw'.last = m /\ gw' \in [rev : Definitions, last : Last \cup {None}]
      /\ toManager' \in Seq(Ack) /\ Len(toManager) \in Nat /\ Len(toManager') = Len(toManager) + 1
      /\ \A i \in 1 .. Len(toManager) : toManager'[i] = toManager[i]
      /\ toManager'[Len(toManager) + 1] = r
  <2>1. gw'.rev = v /\ gw'.last = m /\ gw' \in [rev : Definitions, last : Last \cup {None}]
    BY <1>1, <1>3, <1>5
  <2> QED BY <1>1, <1>4, <2>1, AppendFacts DEF TypeOK
<1>7. /\ served' \in [Mutations -> (SUBSET Definitions) \cup {None}] /\ Grown
      /\ \A o \in Mutations : served'[o] # None => served[o] # None
      /\ \A o \in Mutations : served'[o] # None /\ announced => v \in served'[o]
      /\ \A o \in Mutations : served'[o] # None /\ outcome = "applied" => l.op.rev \in served'[o]
  <2>1. CASE outcome = "applied"
    <3>1. Serves(l.op.rev) /\ v = l.op.rev
      BY <2>1 DEF ApplicationEnds, v
    <3> QED BY <1>2, <3>1, ServesGrows
  <2>2. CASE outcome # "applied"
    <3>1. UNCHANGED served /\ v = gw.rev
      BY <2>2 DEF ApplicationEnds, v
    <3> QED BY <1>1, <2>2, <3>1 DEF TypeOK, Grown, ServedInv
  <2> QED BY <2>1, <2>2
<1>8. announced
  BY <1>1 DEF PipeInv
<1>9. NoApply
  BY <1>1 DEF NoApply, PipeInv, PipeInOrder, OutOfOrder, Busy
<1>10. TypeOK'
  BY <1>1, <1>6, <1>7 DEF TypeOK
<1>11. ASSUME s # None, s.open PROVE Mirrors(sups[gen])'
  <2>1. Mirrors(s) /\ sups'[gen'] = s
    BY <1>1, <1>11 DEF PipeInv
  <2>2. s.op # None
    BY <1>1, <2>1 DEF Mirrors
  <2>3. Numbered(s) /\ AlreadyAdmitted(s)
    BY <1>1, <2>1, <2>2 DEF Mirrors, NotAdmittedYet, Busy
  <2>4. l.op = s.op
    BY <2>3 DEF AlreadyAdmitted, Admitted
  <2>5. AlreadyAdmitted(sups[gen])'
    <3>1. gw'.last # None /\ gw'.last.op = s.op /\ gw'.last.state = outcome
      BY <1>3, <1>6, <2>4
    <3>2. \A i \in 1 .. Len(toManager') :
             (i \in 1 .. Len(toManager) /\ toManager'[i] = toManager[i]) \/ toManager'[i] = r
      BY <1>6
    <3> QED BY <1>1, <1>4, <2>1, <2>3, <3>1, <3>2 DEF AlreadyAdmitted, Admitted
  <2>6. Numbered(sups[gen])'
    BY <1>1, <1>3, <1>4, <1>6, <2>1, <2>3, <2>4 DEF Numbered
  <2> QED BY <1>1, <1>9, <2>1, <2>2, <2>5, <2>6 DEF Mirrors, NoApply
<1>12. PipeInv'
  <2>1. PipeInOrder'
    BY <1>1, <1>9 DEF NoApply, PipeInOrder
  <2>2. EffectIsLast'
    BY <1>1, <1>3, <1>6 DEF PipeInv, EffectIsLast, v
  <2>3. ASSUME NEW g \in Gens, (sups[g] # None /\ sups[g].open)' PROVE Mirrors(sups[g])'
    <3>1. g = gen /\ s # None /\ s.open
      BY <1>1, <2>3, OnlyCurrentOpen
    <3> QED BY <1>1, <1>11, <3>1
  <2> QED BY <1>1, <1>8, <2>1, <2>2, <2>3 DEF PipeInv
<1>13. SupervisorsInv'
  BY <1>1 DEF SupervisorsInv, Attached
<1>14. PrepareInv'
  BY <1>1 DEF PrepareInv
<1>15. ServedInv'
  <2>1. \A i \in 1 .. Len(toGw') : Began(toGw[i].op.id)'
    BY <1>1, <1>7 DEF ServedInv, Began, Grown
  <2>2. (gw.last # None => Began(gw.last.op.id) /\ (gw.last.state = "applied" => WasServed(gw.last.op)))'
    BY <1>1, <1>3, <1>6, <1>7 DEF ServedInv, Began, WasServed, Grown
  <2>3. \A i \in 1 .. Len(toManager') : (toManager[i].state = "applied" => WasServed(toManager[i].op))'
    <3>1. outcome = "applied" /\ l.op.id \in Mutations =>
             served'[l.op.id] # None /\ l.op.rev \in served'[l.op.id]
      BY <1>1, <1>7 DEF ServedInv, Began, WasServed, Grown
    <3>2. \A i \in 1 .. Len(toManager) : toManager[i].state = "applied" /\ toManager[i].op.id \in Mutations =>
             served'[toManager[i].op.id] # None /\ toManager[i].op.rev \in served'[toManager[i].op.id]
      BY <1>7 DEF ServedInv, WasServed, Grown
    <3> QED BY <1>4, <1>6, <3>1, <3>2 DEF WasServed
  <2>4. \A g \in Gens : (sups[g] # None /\ sups[g].op # None =>
          Began(sups[g].op.id) /\ (sups[g].ack = "applied" => WasServed(sups[g].op)))'
    BY <1>1, <1>7 DEF ServedInv, Began, WasServed, Grown
  <2>5. \A o \in Mutations : (receipts[o] # None => served[o] # None)'
    BY <1>1, <1>7 DEF ServedInv, Grown
  <2>6. (prep # None => Began(prep.op))'
    BY <1>1, <1>7 DEF ServedInv, Began, Grown
  <2>7. (prep # None /\ prep.gen # 0 /\ prep.op \in Mutations /\ Settled(sups[prep.gen])
          => sups[prep.gen].applied \in served[prep.op])'
    BY <1>1, <1>7 DEF ServedInv, Began, Settled, Grown
  <2> QED BY <1>1, <1>6, <1>7, <1>8, <2>1, <2>2, <2>3, <2>4, <2>5, <2>6, <2>7 DEF ServedInv
<1>16. ReceiptsAreTrue'
  BY <1>1, <1>7 DEF ReceiptsAreTrue, ServedInv, Grown
<1> QED BY <1>10, <1>12, <1>13, <1>14, <1>15, <1>16

-----------------------------------------------------------------------------
(* Steps of the application that ask or apply                              *)

(* A command is sent for s, by its open supervisor, or its write fails.    *)
LEMMA SendFacts ==
    ASSUME TypeOK, NEW g \in Gens, NEW s \in Supervisor, s.op \in Op, NEW kind \in {"apply", "status"},
           Send(g, s, kind)
    PROVE  /\ sups' \in [Gens -> Supervisor \cup {None}] /\ sups'[g] \in Supervisor
           /\ \A h \in Gens : h # g => sups'[h] = sups[h]
           /\ sups'[g].open = s.open /\ SameAnswer(s, sups'[g])
           /\ toGw' \in Seq(Command) /\ Len(toGw) \in Nat
           /\ \A i \in 1 .. Len(toGw) : i \in 1 .. Len(toGw') /\ toGw'[i] = toGw[i]
           /\ \/ UNCHANGED toGw
              \/ /\ s.open /\ Len(toGw') = Len(toGw) + 1
                 /\ toGw'[Len(toGw) + 1].kind = kind /\ toGw'[Len(toGw) + 1].op = s.op
<1>0. sups \in [Gens -> Supervisor \cup {None}] /\ toGw \in Seq(Command) /\ Len(toGw) \in Nat
  BY ElementFacts DEF TypeOK
<1>1. CASE /\ s.open /\ sups' = [sups EXCEPT ![g] = [s EXCEPT !.waiting = TRUE]]
           /\ toGw' = Append(toGw, [kind |-> kind, op |-> s.op])
  <2> DEFINE t == [s EXCEPT !.waiting = TRUE]
             c == [kind |-> kind, op |-> s.op]
  <2>1. t \in Supervisor /\ t.open = s.open /\ SameAnswer(s, t)
    BY SupervisorUpdates DEF Supervisor, SameAnswer
  <2>2. c \in Command /\ c.kind = kind /\ c.op = s.op
    BY DEF Command
  <2>3. sups' = [sups EXCEPT ![g] = t] /\ toGw' = Append(toGw, c)
    BY <1>1
  <2> HIDE DEF t, c
  <2>4. /\ sups' \in [Gens -> Supervisor \cup {None}] /\ sups'[g] = t
        /\ \A h \in Gens : h # g => sups'[h] = sups[h]
    BY <1>0, <2>1, <2>3
  <2>5. /\ toGw' \in Seq(Command) /\ Len(toGw') = Len(toGw) + 1
        /\ \A i \in 1 .. Len(toGw) : toGw'[i] = toGw[i]
        /\ toGw'[Len(toGw) + 1] = c
    BY <1>0, <2>2, <2>3, AppendFacts
  <2>6. \A i \in 1 .. Len(toGw) : i \in 1 .. Len(toGw')
    BY <1>0, <2>5
  <2>7. toGw'[Len(toGw) + 1].kind = kind /\ toGw'[Len(toGw) + 1].op = s.op
    BY <2>2, <2>5
  <2>8. sups'[g].open = s.open /\ SameAnswer(s, sups'[g]) /\ sups'[g] \in Supervisor
    BY <2>1, <2>4
  <2> QED BY <1>0, <1>1, <2>4, <2>5, <2>6, <2>7, <2>8
<1>2. CASE sups' = [sups EXCEPT ![g] = s] /\ UNCHANGED toGw
  BY <1>0, <1>2 DEF SameAnswer
<1> QED BY <1>1, <1>2 DEF Send

\* The application asks the supervisor of the current child about the last
\* operation, which is its own when it only resolves one.
AskStep(pc) ==
    /\ prep # None /\ prep.pc = "declaring" /\ Attached /\ sups[gen].op # None
    /\ pc \in {"inspecting", "resolving"} /\ (prep.resolve <=> pc = "resolving")
    /\ prep.resolve => sups[gen].op.id = prep.op /\ receipts[prep.op] # None
    /\ \E b \in BOOLEAN : Flag(b)
    /\ Await(pc)
    /\ UNCHANGED <<sups, toGw>> \/ Send(gen, sups[gen], "status")
    /\ UNCHANGED <<proc, ready, gen, announced, gw, toManager, desired, prepares, receipts, served>>

(* A question changes nothing but what is waited for. *)
LEMMA AskKeeps ==
    ASSUME ActivationInv, NEW pc, AskStep(pc)
    PROVE  ActivationInv'
<1> USE DEF ActivationInv
<1> DEFINE s == sups[gen]
           p == [prep EXCEPT !.pc = pc, !.gen = gen]
<1>0. /\ UNCHANGED <<proc, ready, gen, announced, gw, toManager, desired, prepares, receipts, served>>
      /\ gen \in Gens /\ MaxStarts \in Nat /\ gen \in 1 .. gen /\ gen # 0
      /\ s # None /\ s \in Supervisor /\ s.open /\ s.op # None /\ s.op \in Op
      /\ proc /\ announced /\ prep # None /\ prep.pc = "declaring" /\ prep \in Prepare
      /\ sups \in [Gens -> Supervisor \cup {None}]
  <2>1. gen \in Gens /\ MaxStarts \in Nat /\ s # None /\ s \in Supervisor /\ s.open /\ s.op # None
    BY Constants DEF AskStep, Attached, SupervisorsInv, TypeOK
  <2>2. s.op \in Op
    BY <2>1 DEF Supervisor
  <2> QED BY <2>1, <2>2, Constants DEF AskStep, Attached, TypeOK, Gens
<1>1. p \in Prepare /\ p # None /\ prep' = p /\ p.pc = pc /\ p.gen = gen /\ p.op = prep.op /\ p.resolve = prep.resolve
  <2>1. gen \in 0 .. MaxStarts /\ pc \in {"declaring", "inspecting", "applying", "resolving"} /\ prep' = p
    BY DEF AskStep, Await, TypeOK
  <2>2. p \in Prepare /\ p.pc = pc /\ p.gen = gen /\ p.op = prep.op /\ p.resolve = prep.resolve
    BY <1>0, <2>1 DEF Prepare
  <2> QED BY <2>1, <2>2, Constants
<1> HIDE DEF p
<1>2. /\ sups' \in [Gens -> Supervisor \cup {None}] /\ sups'[gen] \in Supervisor
      /\ \A h \in Gens : h # gen => sups'[h] = sups[h]
      /\ sups'[gen].open = s.open /\ SameAnswer(s, sups'[gen])
      /\ toGw' \in Seq(Command) /\ Len(toGw) \in Nat
      /\ \A i \in 1 .. Len(toGw) : i \in 1 .. Len(toGw') /\ toGw'[i] = toGw[i]
      /\ \/ UNCHANGED toGw
         \/ /\ Len(toGw') = Len(toGw) + 1
            /\ toGw'[Len(toGw) + 1].kind = "status" /\ toGw'[Len(toGw) + 1].op = s.op
  <2>1. CASE UNCHANGED <<sups, toGw>>
    BY <1>0, <2>1, ElementFacts DEF SameAnswer, TypeOK
  <2>2. CASE Send(gen, s, "status")
    BY <1>0, <2>2, SendFacts
  <2> QED BY <2>1, <2>2 DEF AskStep
<1>3. \A i \in 1 .. Len(toGw') : \/ i \in 1 .. Len(toGw) /\ toGw'[i] = toGw[i]
                                 \/ i = Len(toGw) + 1 /\ toGw'[i].kind = "status" /\ toGw'[i].op = s.op
  BY <1>2
<1>4. \A h \in Gens : /\ sups'[h] # None <=> sups[h] # None
                      /\ sups[h] # None => SameAnswer(sups[h], sups'[h]) /\ sups'[h].open = sups[h].open
  BY <1>0, <1>2, Constants DEF SameAnswer
<1>5. TypeOK'
  <2>1. needsRestart' \in BOOLEAN /\ restarting' \in {"no", "asked", "revoked"}
    BY DEF AskStep, Flag, TypeOK
  <2>2. OpenIsCurrent'
    BY <1>0, <1>4 DEF OpenIsCurrent, TypeOK
  <2> QED BY <1>0, <1>1, <1>2, <2>1, <2>2 DEF TypeOK, OpenIsCurrent
<1>6. PipeInOrder' /\ EffectIsLast' /\ (NoApply => NoApply')
  <2>1. ASSUME NEW i \in 1 .. Len(toGw'), toGw'[i].kind = "apply"
        PROVE  /\ (~OutOfOrder(toGw[i].op) /\ ~Known(toGw[i].op))'
               /\ \A j \in 1 .. Len(toGw') : /\ j # i => toGw'[j].kind # "apply"
                                             /\ j < i => toGw'[j].op # toGw'[i].op
    <3>1. i \in 1 .. Len(toGw) /\ toGw'[i] = toGw[i] /\ toGw[i].kind = "apply"
      BY <1>3, <2>1
    <3>2. (~OutOfOrder(toGw[i].op) /\ ~Known(toGw[i].op))'
      BY <1>0, <3>1 DEF PipeInv, PipeInOrder, OutOfOrder, Known, Busy
    <3>3. ASSUME NEW j \in 1 .. Len(toGw')
          PROVE  /\ j # i => toGw'[j].kind # "apply"
                 /\ j < i => toGw'[j].op # toGw'[i].op
      <4>1. CASE j \in 1 .. Len(toGw) /\ toGw'[j] = toGw[j]
        BY <3>1, <4>1 DEF PipeInv, PipeInOrder
      <4>2. CASE j = Len(toGw) + 1 /\ toGw'[j].kind = "status"
        BY <1>2, <3>1, <4>2
      <4> QED BY <1>3, <4>1, <4>2
    <3> QED BY <3>2, <3>3
  <2>2. NoApply => NoApply'
    BY <1>3 DEF NoApply
  <2> QED BY <1>0, <2>1, <2>2 DEF PipeInOrder, PipeInv, EffectIsLast
<1>7. Mirrors(sups[gen])'
  <2>1. Mirrors(s)
    BY <1>0 DEF PipeInv
  <2>2. Numbered(s) /\ (NotAdmittedYet(s) \/ AlreadyAdmitted(s))
        /\ \A i \in 1 .. Len(toGw) : toGw[i].kind = "apply" => toGw[i].op = s.op
    BY <1>0, <2>1 DEF Mirrors
  <2>3. sups'[gen'].op = s.op /\ sups'[gen'].applied = s.applied /\ sups'[gen'].ack = s.ack /\ sups'[gen'].seq = s.seq
    BY <1>0, <1>2 DEF SameAnswer
  <2> HIDE DEF s
  <2>4. Numbered(sups[gen])'
    <3>1. s.op.seq <= s.seq
      BY <1>0, <2>2, Constants DEF Numbered, Op
    <3>2. \A i \in 1 .. Len(toGw') : toGw'[i].op.seq <= s.seq
      BY <1>3, <2>2, <3>1 DEF Numbered
    <3> QED BY <1>0, <2>2, <2>3, <3>2 DEF Numbered
  <2>5. \A i \in 1 .. Len(toGw') : toGw'[i].kind = "apply" => toGw'[i].op = s.op
    BY <1>3, <2>2
  <2>6. NotAdmittedYet(s) => NotAdmittedYet(sups[gen])'
    BY <1>0, <1>6, <2>3 DEF NotAdmittedYet, Admitted, Busy
  <2>7. AlreadyAdmitted(s) => AlreadyAdmitted(sups[gen])'
    BY <1>0, <2>3 DEF AlreadyAdmitted, Admitted
  <2> QED BY <1>0, <2>2, <2>3, <2>4, <2>5, <2>6, <2>7 DEF Mirrors
<1>8. PipeInv'
  <2>1. ASSUME NEW g \in Gens, (sups[g] # None /\ sups[g].open)' PROVE Mirrors(sups[g])'
    <3>1. g = gen
      BY <1>4, <2>1, OnlyCurrentOpen
    <3> QED BY <1>0, <1>7, <3>1
  <2> QED BY <1>0, <1>6, <2>1 DEF PipeInv
<1>9. SupervisorsInv'
  <2>1. restarting' = "asked" => needsRestart' /\ proc
    BY DEF AskStep, Flag, SupervisorsInv, TypeOK
  <2>2. (Attached => sups[gen].open)'
    BY <1>0, <1>2
  <2> QED BY <1>0, <1>1, <1>4, <2>1, <2>2 DEF SupervisorsInv, SameAnswer
<1>10. PrepareInv'
  BY <1>0, <1>1, <1>2, Constants DEF PrepareInv, AskStep, SameAnswer
<1>11. ServedInv'
  <2>1. Began(s.op.id)
    BY <1>0 DEF ServedInv
  <2> HIDE DEF s
  <2>2. \A i \in 1 .. Len(toGw') : Began(toGw[i].op.id)'
    BY <1>0, <1>3, <2>1 DEF ServedInv, Began
  <2>3. \A g \in Gens : (sups[g] # None /\ sups[g].op # None =>
          Began(sups[g].op.id) /\ (sups[g].ack = "applied" => WasServed(sups[g].op)))'
    BY <1>0, <1>4 DEF ServedInv, Began, WasServed, SameAnswer
  <2>4. ASSUME prep.op \in Mutations, Settled(sups[gen])' PROVE sups'[gen].applied \in served[prep.op]
    <3>1. Settled(s) /\ s.applied = sups'[gen].applied
      BY <1>0, <1>2, <2>4 DEF Settled, SameAnswer
    <3>2. Used(gen)
      BY DEF Used, AskStep
    <3> QED BY <1>0, <2>4, <3>1, <3>2, SettledWasServed DEF s
  <2> QED BY <1>0, <1>1, <2>2, <2>3, <2>4 DEF ServedInv, Began, WasServed
<1>12. ReceiptsAreTrue'
  BY <1>0 DEF ReceiptsAreTrue
<1> QED BY <1>5, <1>8, <1>9, <1>10, <1>11, <1>12

(* Sequence numbers can be compared. *)
LEMMA SequenceNumbers ==
    ASSUME TypeOK
    PROVE  /\ \A i \in 1 .. Len(toGw) : toGw[i].op.seq \in Nat
           /\ \A i \in 1 .. Len(toManager) : toManager[i].op.seq \in Nat
           /\ gw.last # None => gw.last.op.seq \in Nat
<1>0. \A o \in Op : o.seq \in Nat
  BY Constants DEF Op
<1>1. ASSUME NEW i \in 1 .. Len(toGw) PROVE toGw[i].op \in Op
  <2>1. toGw[i] \in Command
    BY ElementFacts DEF TypeOK
  <2> QED BY <2>1 DEF Command
<1>2. ASSUME NEW i \in 1 .. Len(toManager) PROVE toManager[i].op \in Op
  <2>1. toManager[i] \in Ack
    BY ElementFacts DEF TypeOK
  <2> QED BY <2>1 DEF Ack
<1>3. gw.last # None => gw.last.op \in Op
  BY DEF TypeOK, Last
<1> QED BY <1>0, <1>1, <1>2, <1>3

(* An apply is the next one in the order of its Gateway. *)
LEMMA AppliesKeeps ==
    ASSUME ActivationInv, NEW g \in Gens, Applies(g)
    PROVE  ActivationInv'
<1> USE DEF ActivationInv
<1> DEFINE s == sups[g]
           op == [id |-> prep.op, seq |-> s.seq + 1, base |-> s.applied, rev |-> desired]
           u == [s EXCEPT !.op = op, !.seq = s.seq + 1, !.ack = None]
           p == [prep EXCEPT !.pc = "applying", !.gen = g]
<1>1. /\ UNCHANGED <<proc, ready, gen, announced, gw, toManager, desired, prepares, receipts, served>>
      /\ prep # None /\ ~prep.resolve /\ Settled(s) /\ ~OwnOperation(s) /\ prep' = p
      /\ prep.pc \in {"declaring", "inspecting"}
  BY DEF Applies, Deciding
<1>2. /\ prep \in Prepare /\ MaxStarts \in Nat /\ MaxPrepares \in Nat /\ desired \in Definitions
      /\ sups \in [Gens -> Supervisor \cup {None}] /\ prepares \in 0 .. MaxPrepares
      /\ gen \in 0 .. MaxStarts
  BY <1>1, Constants DEF TypeOK
<1>3. s # None /\ s \in Supervisor /\ g \in 1 .. gen /\ g # 0 /\ g \in 0 .. MaxStarts
      /\ (g # gen => prep.gen = g /\ prep.pc = "inspecting")
  <2>1. CASE prep.pc = "declaring"
    <3>1. Attached /\ g = gen
      BY <2>1 DEF Applies, Deciding
    <3> QED BY <1>2, <3>1 DEF Attached, Gens
  <2>2. CASE prep.pc = "inspecting"
    <3>1. g = prep.gen
      BY <2>2 DEF Applies, Deciding
    <3> QED BY <1>1, <1>2, <2>2, <3>1 DEF PrepareInv, Gens
  <2> QED BY <1>1, <2>1, <2>2
<1>4. s.seq \in Nat /\ s.seq < prepares
  BY <1>1, <1>2, <1>3 DEF SupervisorsInv, Supervisor
<1>5. /\ op \in Op /\ op # None /\ op.id = prep.op /\ op.seq = s.seq + 1 /\ op.base = s.applied /\ op.rev = desired
  <2>1. prep.op \in Operations /\ s.applied \in Definitions /\ s.seq + 1 \in 1 .. MaxPrepares
    BY <1>2, <1>3, <1>4 DEF Prepare, Supervisor
  <2>2. op \in Op
    BY <1>2, <2>1 DEF Op
  <2> QED BY <2>2, Constants
<1>6. u \in Supervisor /\ u.open = s.open /\ u.applied = s.applied /\ u.op = op /\ u.ack = None /\ u.seq = s.seq + 1
  <2> HIDE DEF op, s
  <2>1. s.seq + 1 \in 0 .. MaxPrepares
    BY <1>2, <1>4
  <2>2. u \in Supervisor
    BY <1>3, <1>5, <2>1, SupervisorUpdates
  <2> QED BY <1>3, <2>2 DEF Supervisor
<1>7. p \in Prepare /\ p # None /\ p.pc = "applying" /\ p.gen = g /\ p.op = prep.op /\ ~p.resolve
  <2>1. p \in Prepare /\ p.pc = "applying" /\ p.gen = g /\ p.op = prep.op /\ p.resolve = prep.resolve
    BY <1>2, <1>3 DEF Prepare
  <2> QED BY <1>1, <2>1, Constants
<1>8. Send(g, u, "apply")
  BY DEF Applies
<1> HIDE DEF op, u, p
<1>9. /\ sups' \in [Gens -> Supervisor \cup {None}] /\ sups'[g] \in Supervisor /\ sups'[g] # None
      /\ \A h \in Gens : h # g => sups'[h] = sups[h]
      /\ sups'[g].open = s.open /\ sups'[g].applied = s.applied /\ sups'[g].op = op
      /\ sups'[g].ack = None /\ sups'[g].seq = s.seq + 1
      /\ toGw' \in Seq(Command) /\ Len(toGw) \in Nat
      /\ \/ UNCHANGED toGw
         \/ /\ s.open /\ Len(toGw') = Len(toGw) + 1
            /\ \A i \in 1 .. Len(toGw) : toGw'[i] = toGw[i]
            /\ toGw'[Len(toGw) + 1].kind = "apply" /\ toGw'[Len(toGw) + 1].op = op
  <2>1. u.op \in Op
    BY <1>5, <1>6
  <2> QED BY <1>6, <1>8, <2>1, SendFacts, Constants DEF SameAnswer
<1>10. \A i \in 1 .. Len(toGw') : \/ i \in 1 .. Len(toGw) /\ toGw'[i] = toGw[i]
                                  \/ s.open /\ i = Len(toGw) + 1 /\ toGw'[i].kind = "apply" /\ toGw'[i].op = op
  BY <1>9
<1>11. TypeOK'
  <2>1. needsRestart' \in BOOLEAN /\ restarting' \in {"no", "asked", "revoked"}
    BY DEF Applies, Flag, TypeOK
  <2>2. OpenIsCurrent'
    BY <1>1, <1>3, <1>9 DEF OpenIsCurrent, TypeOK
  <2> QED BY <1>1, <1>7, <1>9, <2>1, <2>2 DEF TypeOK, OpenIsCurrent
<1>12. ASSUME s.open
       PROVE  /\ g = gen /\ proc /\ announced
              /\ gw.rev = op.base /\ s.applied = gw.rev /\ ~Busy /\ NoApply
              /\ gw.last # None => gw.last.op.id # op.id /\ gw.last.op.seq <= s.seq
              /\ \A i \in 1 .. Len(toGw) : toGw[i].op.seq <= s.seq
              /\ \A i \in 1 .. Len(toManager) : toManager[i].op.seq <= s.seq
  <2>1. g = gen /\ proc /\ announced
    BY <1>3, <1>12 DEF TypeOK
  <2>2. /\ s.applied = gw.rev /\ ~Busy /\ NoApply
        /\ s.op # None => gw.last # None /\ gw.last.op = s.op
    BY <1>1, <1>3, <1>12, SettledInSync
  <2>3. Mirrors(s)
    BY <1>3, <1>12 DEF PipeInv
  <2>4. CASE s.op = None
    BY <1>5, <2>1, <2>2, <2>3, <2>4, EmptyFacts DEF Mirrors
  <2>5. CASE s.op # None
    BY <1>1, <1>5, <2>1, <2>2, <2>3, <2>5 DEF Mirrors, Numbered, OwnOperation
  <2> QED BY <2>4, <2>5
<1>13. ASSUME s.open
       PROVE  /\ \A i \in 1 .. Len(toGw) : toGw[i].op # op
              /\ \A i \in 1 .. Len(toManager) : toManager[i].op # op
              /\ ~OutOfOrder(op) /\ ~Known(op)
  <2>2. \A n \in Nat : n <= s.seq => n # s.seq + 1 /\ ~(s.seq + 1 <= n)
    BY <1>4
  <2>5. \A i \in 1 .. Len(toGw) : toGw[i].op # op
    BY <1>5, <1>12, <1>13, <2>2, SequenceNumbers
  <2>6. \A i \in 1 .. Len(toManager) : toManager[i].op # op
    BY <1>5, <1>12, <1>13, <2>2, SequenceNumbers
  <2>7. ~OutOfOrder(op) /\ ~Known(op)
    BY <1>5, <1>12, <1>13, <2>2, SequenceNumbers DEF OutOfOrder, Known
  <2> QED BY <2>5, <2>6, <2>7
<1>14. PipeInOrder' /\ EffectIsLast'
  <2>1. EffectIsLast'
    BY <1>1 DEF PipeInv, EffectIsLast
  <2>2. CASE UNCHANGED toGw
    BY <1>1, <2>1, <2>2 DEF PipeInv, PipeInOrder, OutOfOrder, Known, Busy
  <2>3. CASE ~(UNCHANGED toGw)
    <3>1. s.open
      BY <1>9, <2>3
    <3>2. ASSUME NEW i \in 1 .. Len(toGw'), toGw'[i].kind = "apply"
          PROVE  i = Len(toGw) + 1 /\ toGw'[i].op = op
      BY <1>10, <1>12, <3>1, <3>2 DEF NoApply
    <3>3. \A j \in 1 .. Len(toGw') : j < Len(toGw) + 1 => toGw'[j].op # op
      BY <1>9, <1>10, <1>13, <3>1
    <3>4. (~OutOfOrder(op) /\ ~Known(op)) /\ UNCHANGED gw
      BY <1>1, <1>13, <3>1
    <3>5. ASSUME NEW i \in 1 .. Len(toGw'), toGw'[i].kind = "apply"
          PROVE  /\ (~OutOfOrder(toGw[i].op) /\ ~Known(toGw[i].op))'
                 /\ \A j \in 1 .. Len(toGw') : /\ j # i => toGw'[j].kind # "apply"
                                               /\ j < i => toGw'[j].op # toGw'[i].op
      <4>1. i = Len(toGw) + 1 /\ toGw'[i].op = op
        BY <3>2, <3>5
      <4>2. (~OutOfOrder(toGw[i].op) /\ ~Known(toGw[i].op))'
        BY <3>4, <4>1 DEF OutOfOrder, Known, Busy
      <4> QED BY <3>2, <3>3, <4>1, <4>2
    <3> QED BY <2>1, <3>5 DEF PipeInOrder
  <2> QED BY <2>1, <2>2, <2>3
<1>15. ASSUME s.open PROVE Mirrors(sups[gen])'
  <2>1. sups'[gen'] = sups'[g]
    BY <1>1, <1>12, <1>15
  <2>2. \A i \in 1 .. Len(toGw') : toGw'[i].kind = "apply" => toGw'[i].op = op
    BY <1>10, <1>12, <1>15 DEF NoApply
  <2>3. Numbered(sups[gen])'
    <3>1. \A i \in 1 .. Len(toGw') : toGw'[i].op.seq <= s.seq + 1
      BY <1>4, <1>5, <1>10, <1>12, <1>15, SequenceNumbers
    <3>2. \A i \in 1 .. Len(toManager) : toManager[i].op.seq <= s.seq + 1
      BY <1>4, <1>12, <1>15, SequenceNumbers
    <3>3. gw.last # None => gw.last.op.seq <= s.seq + 1
      BY <1>4, <1>12, <1>15, SequenceNumbers
    <3> QED BY <1>1, <1>5, <1>9, <2>1, <3>1, <3>2, <3>3 DEF Numbered
  <2>4. NotAdmittedYet(sups[gen])'
    BY <1>1, <1>5, <1>9, <1>12, <1>13, <1>15, <2>1, Constants DEF NotAdmittedYet, Admitted, Busy, OpStates
  <2> QED BY <1>5, <1>9, <2>1, <2>2, <2>3, <2>4 DEF Mirrors
<1>16. PipeInv'
  <2>1. ASSUME NEW h \in Gens, (sups[h] # None /\ sups[h].open)' PROVE Mirrors(sups[h])'
    <3>1. CASE h = g
      BY <1>1, <1>9, <1>12, <1>15, <2>1, <3>1
    <3>2. CASE h # g
      <4>1. sups'[h] = sups[h] /\ h = gen /\ ~s.open
        BY <1>9, <1>12, <2>1, <3>2, OnlyCurrentOpen
      <4>2. UNCHANGED toGw /\ Mirrors(sups[h])
        BY <1>9, <2>1, <4>1 DEF PipeInv
      <4> QED BY <1>1, <4>1, <4>2
              DEF Mirrors, Numbered, NotAdmittedYet, AlreadyAdmitted, Admitted, NoApply, Busy
    <3> QED BY <3>1, <3>2
  <2>2. (proc /\ ~announced => gw.last = None /\ toGw = <<>> /\ toManager = <<>>)'
    BY <1>1, <1>9, <1>12 DEF PipeInv
  <2> QED BY <1>14, <2>1, <2>2 DEF PipeInv
<1>17. SupervisorsInv'
  <2>1. restarting' = "asked" => needsRestart' /\ proc
    BY DEF Applies, Flag, SupervisorsInv, TypeOK
  <2>2. (Attached => sups[gen].open)'
    <3>1. CASE g = gen
      BY <1>1, <1>3, <1>9, <3>1 DEF Attached, SupervisorsInv
    <3>2. CASE g # gen
      BY <1>1, <1>9, <3>2 DEF Attached, SupervisorsInv
    <3> QED BY <3>1, <3>2
  <2>3. \A h \in Gens : (sups[h] # None =>
          /\ sups[h].ack # None => sups[h].op # None
          /\ sups[h].ack = "applied" => sups[h].applied = sups[h].op.rev
          /\ sups[h].seq <= prepares)'
    BY <1>1, <1>2, <1>4, <1>9, Constants DEF SupervisorsInv, OpStates
  <2> QED BY <1>1, <1>2, <1>3, <1>7, <1>9, <2>1, <2>2, <2>3 DEF SupervisorsInv
<1>18. PrepareInv'
  <2>1. ASSUME g # gen, proc
        PROVE  /\ gw.rev = desired /\ gw.last = None /\ toGw' = <<>>
               /\ sups'[gen] # None => sups'[gen].applied = desired /\ sups'[gen].op = None
    <3>1. UNCHANGED toGw /\ gen \in Gens /\ prep.gen = g /\ prep.pc = "inspecting"
      BY <1>3, <1>9, <1>12, <2>1 DEF SupervisorsInv
    <3> QED BY <1>1, <1>9, <2>1, <3>1 DEF PrepareInv
  <2>2. prepares > 0
    BY <1>1 DEF PrepareInv
  <2> QED BY <1>1, <1>3, <1>5, <1>7, <1>9, <2>1, <2>2 DEF PrepareInv
<1>19. ServedInv'
  <2>1. Began(prep.op)
    BY <1>1 DEF ServedInv
  <2>2. \A i \in 1 .. Len(toGw') : Began(toGw[i].op.id)'
    BY <1>1, <1>5, <1>10, <2>1 DEF ServedInv, Began
  <2>3. \A h \in Gens : (sups[h] # None /\ sups[h].op # None =>
          Began(sups[h].op.id) /\ (sups[h].ack = "applied" => WasServed(sups[h].op)))'
    BY <1>1, <1>5, <1>9, <2>1, Constants DEF ServedInv, Began, WasServed, OpStates
  <2>4. ~Settled(sups[prep.gen])'
    BY <1>1, <1>5, <1>7, <1>9, Constants DEF Settled, OpStates
  <2> QED BY <1>1, <1>7, <2>1, <2>2, <2>3, <2>4 DEF ServedInv, Began, WasServed
<1>20. ReceiptsAreTrue'
  BY <1>1 DEF ReceiptsAreTrue
<1> QED BY <1>11, <1>16, <1>17, <1>18, <1>19, <1>20

-----------------------------------------------------------------------------
(* The theorems                                                            *)

(* Initially there is no child and no application. *)
LEMMA ActivationInit == Init => ActivationInv
<1> SUFFICES ASSUME Init PROVE ActivationInv
  OBVIOUS
<1>0. MaxStarts \in Nat /\ MaxPrepares \in Nat
  BY Constants
<1>1. TypeOK
  <2>1. toGw \in Seq(Command) /\ toManager \in Seq(Ack)
    BY EmptyFacts DEF Init
  <2>2. gw \in [rev : Definitions, last : Last \cup {None}]
    BY DEF Init
  <2>3. sups \in [Gens -> Supervisor \cup {None}] /\ \A g \in Gens : sups[g] = None
    BY DEF Init
  <2>4. /\ receipts \in [Mutations -> Receipt \cup {None}]
        /\ served \in [Mutations -> (SUBSET Definitions) \cup {None}]
    BY DEF Init
  <2>5. gen \in 0 .. MaxStarts /\ prepares \in 0 .. MaxPrepares
    BY <1>0 DEF Init
  <2> QED BY <2>1, <2>2, <2>3, <2>4, <2>5 DEF Init, TypeOK
<1>2. PipeInv
  BY EmptyFacts DEF Init, PipeInv, PipeInOrder, EffectIsLast
<1>3. SupervisorsInv /\ PrepareInv /\ ReceiptsAreTrue
  BY DEF Init, SupervisorsInv, PrepareInv, ReceiptsAreTrue, Attached
<1>4. ServedInv
  BY EmptyFacts DEF Init, ServedInv
<1> QED BY <1>1, <1>2, <1>3, <1>4 DEF ActivationInv

(* The two actions that ask are steps of AskStep. *)
LEMMA Asks ==
    ASSUME ActivationInv, ResolveAsks \/ AsksEarlier
    PROVE  \E pc : AskStep(pc)
<1>1. CASE ResolveAsks
  <2>1. prep # None /\ prep.op \in Mutations /\ needsRestart \in BOOLEAN
    BY <1>1 DEF ResolveAsks, ActivationInv, PrepareInv, TypeOK
  <2>2. receipts[prep.op] # None
    BY <1>1, <2>1 DEF ResolveAsks, Resolvable, Previous
  <2>3. StillNeeded \in BOOLEAN
    BY <2>1 DEF StillNeeded
  <2>4. AskStep("resolving")
    BY <1>1, <2>1, <2>2, <2>3 DEF ResolveAsks, AskStep, Resolvable
  <2> QED BY <2>4
<1>2. CASE AsksEarlier
  <2>1. AskStep("inspecting")
    BY <1>2 DEF AsksEarlier, AskStep, Settled
  <2> QED BY <2>1
<1> QED BY <1>1, <1>2

(* Every step keeps the invariant. *)
LEMMA ActivationStep == ActivationInv /\ [Next]_vars => ActivationInv'
<1> SUFFICES ASSUME ActivationInv, [Next]_vars PROVE ActivationInv'
  OBVIOUS
<1>1. CASE Ready
  BY <1>1, ReadyKeeps
<1>2. CASE Exit \/ StopGateway \/ StartGateway \/ RestartGateway
  BY <1>2, ChildLives, LifeKeeps
<1>3. CASE \E g \in Gens : Deadline(g)
  BY <1>3, DeadlineLives, LifeKeeps
<1>4. CASE Accept
  BY <1>4, AcceptKeeps
<1>5. CASE Receive
  BY <1>5, ReceiveKeeps
<1>6. CASE \E outcome \in {"applied", "rejected", "uncertain"} : ApplicationEnds(outcome)
  BY <1>6, ApplicationEndsKeeps
<1>7. CASE \E o \in Operations, resolve \in BOOLEAN, d \in Definitions : BeginPrepare(o, resolve, d)
  BY <1>7, BeginKeeps
<1>8. CASE ResolveAsks \/ AsksEarlier
  BY <1>8, Asks, AskKeeps
<1>9. CASE \/ ResolveSkips \/ Resolved \/ NeedsStart \/ NeedsRestart \/ ApplyAnswered
           \/ \E g \in Gens : EarlierBlocks(g) \/ DecidesWithoutApply(g)
  BY <1>9, EndLives, LifeKeeps
<1>10. CASE \E g \in Gens : Applies(g)
  BY <1>10, AppliesKeeps
<1>11. CASE UNCHANGED vars
  <2>1. /\ UNCHANGED <<desired, prepares, served, prep, receipts, sups>>
        /\ UNCHANGED <<proc, ready, gen, announced, gw, toGw, toManager, needsRestart, restarting>>
    BY <1>11 DEF vars, childVars
  <2>2. LifeStep
    BY <2>1, LeftAlone DEF ActivationInv, LifeStep, TypeOK, ChildTypes, Attached, SupervisorsInv
  <2> QED BY <2>2, LifeKeeps
<1> QED BY <1>1, <1>2, <1>3, <1>4, <1>5, <1>6, <1>7, <1>8, <1>9, <1>10, <1>11 DEF Next

(* The inductive invariant holds: pipes, supervisors, the running          *)
(* application and the history of revisions fit together.                  *)
THEOREM ActivationInvariant == Spec => []ActivationInv
BY ActivationInit, ActivationStep, PTL DEF Spec

(* Supervisor and Gateway agree on the order and the effect of operations: *)
(* a settled supervisor has the revision in effect, no apply reaches the   *)
(* receiver out of order, and what it does not know is never applied later *)
(* (gatewayRouteSnapshotSupervisor.ts, gatewayRouteSnapshotReceiver.ts).   *)
THEOREM SupervisorAgreesWithGateway == Spec => []SupervisorFollowsGateway
<1>1. ActivationInv => SupervisorFollowsGateway
  <2> SUFFICES ASSUME ActivationInv PROVE SupervisorFollowsGateway
    OBVIOUS
  <2>1. TypeOK
    BY DEF ActivationInv
  <2>2. InSync
    <3> SUFFICES ASSUME NEW g \in Gens, sups[g] # None, sups[g].open, Settled(sups[g])
                 PROVE  /\ sups[g].applied = gw.rev
                        /\ sups[g].op # None => gw.last = [op |-> sups[g].op, state |-> sups[g].ack]
      BY DEF InSync
    <3>1. /\ sups[g].applied = gw.rev
          /\ sups[g].op # None => gw.last # None /\ gw.last.op = sups[g].op /\ gw.last.state = sups[g].ack
      BY SettledInSync
    <3>2. gw.last # None => gw.last = [op |-> gw.last.op, state |-> gw.last.state]
      BY <2>1 DEF TypeOK, Last
    <3> QED BY <3>1, <3>2
  <2>3. NeverOutOfOrder
    <3> SUFFICES ASSUME toGw # <<>>, Head(toGw).kind = "apply" PROVE ~OutOfOrder(Head(toGw).op)
      BY DEF NeverOutOfOrder
    <3>1. Head(toGw) = toGw[1] /\ 1 \in 1 .. Len(toGw)
      BY <2>1, TailFacts DEF TypeOK
    <3> QED BY <3>1 DEF ActivationInv, PipeInv, PipeInOrder
  <2>4. UnknownNeverApplies
    <3> SUFFICES ASSUME NEW g \in Gens, sups[g] # None, sups[g].open, sups[g].ack = "unknown"
                 PROVE  /\ gw.last = None \/ gw.last.op # sups[g].op
                        /\ \A i \in 1 .. Len(toGw) : toGw[i].kind = "status"
      BY DEF UnknownNeverApplies
    <3>1. Mirrors(sups[g]) /\ sups[g].op # None
      BY Constants DEF ActivationInv, PipeInv, SupervisorsInv, OpStates
    <3>2. NotAdmittedYet(sups[g])
      BY <3>1 DEF Mirrors, AlreadyAdmitted
    <3>3. \A i \in 1 .. Len(toGw) : toGw[i].kind # "apply" /\ toGw[i].kind \in {"apply", "status"}
      <4>1. \A i \in 1 .. Len(toGw) : toGw[i] \in Command
        BY <2>1, ElementFacts DEF TypeOK
      <4> QED BY <3>2, <4>1 DEF NotAdmittedYet, NoApply, Command
    <3> QED BY <3>2, <3>3 DEF NotAdmittedYet, Admitted
  <2> QED BY <2>1, <2>2, <2>3, <2>4 DEF SupervisorFollowsGateway
<1> QED BY <1>1, ActivationInvariant, PTL

(* A receipt that says applied is about a revision that was in effect      *)
(* after its operation began (gatewayRouteActivationOwner.ts, appliedFromAck *)
(* and the receipts that READY settles).                                   *)
THEOREM ReceiptsNeverLie == Spec => []ReceiptsAreTrue
<1>1. ActivationInv => ReceiptsAreTrue
  BY DEF ActivationInv
<1> QED BY <1>1, ActivationInvariant, PTL

(* A child told to exit for a restart is followed by another one, unless   *)
(* it was stopped or the restart was found unnecessary (restartRuntime and *)
(* the exit handler of managerGatewayRuntimeService.ts).                   *)
THEOREM AskedRestartIsKept == Spec => []RestartIsKept
<1>1. ActivationInv => RestartIsKept
  BY DEF ActivationInv, SupervisorsInv, RestartIsKept
<1> QED BY <1>1, ActivationInvariant, PTL

(* One step of LagHasCause. *)
LagCause ==
    prep # None /\ prep' = None /\ ~prep.resolve /\ Attached' /\ sups'[gen'].applied # desired
          => /\ \/ needsRestart' \/ ~Settled(sups'[gen'])
                \/ sups'[gen'].ack = "rejected" /\ (prep.pc = "applying" \/ prep.op \in Captures)
                \/ /\ prep.pc # "applying" /\ OwnOperation(sups[gen])
                   /\ sups[gen].op.rev # desired \/ sups[gen].ack = "rejected"
                \/ Previous = [state |-> "rejected", rev |-> desired]
             /\ prep.op \in Mutations => receipts'[prep.op].state # "applied"

(* What a receipt does not say, when it is not what is remembered. *)
LEMMA RememberSays ==
    ASSUME TypeOK, prep.op \in Mutations, NEW state, state # "applied", NEW rev, Remember(state, rev)
    PROVE  receipts'[prep.op].state # "applied"
BY DEF Remember, TypeOK

LEMMA FromAckSays ==
    ASSUME TypeOK, prep.op \in Mutations, NEW s, NEW target, FromAck(s, target),
           s.ack # "applied" \/ s.op.rev # target
    PROVE  receipts'[prep.op].state # "applied"
BY RememberSays DEF FromAck

(* The actions that can end an application. *)
LEMMA WhoEnds ==
    ASSUME Next, prep # None, prep' = None, ~prep.resolve, ActivationInv
    PROVE  \/ NeedsStart \/ NeedsRestart \/ ApplyAnswered
           \/ \E g \in Gens : EarlierBlocks(g) \/ DecidesWithoutApply(g)
<1>1. CASE ResolveAsks \/ AsksEarlier
  <2>1. PICK pc : AskStep(pc)
    BY <1>1, Asks
  <2>2. prep' \in Prepare
    <3>1. gen \in 0 .. MaxStarts /\ prep \in Prepare
      BY DEF ActivationInv, TypeOK
    <3>2. pc \in {"declaring", "inspecting", "applying", "resolving"} /\ prep' = [prep EXCEPT !.pc = pc, !.gen = gen]
      BY <2>1 DEF AskStep, Await
    <3> QED BY <3>1, <3>2 DEF Prepare
  <2> QED BY <2>2, Constants
<1>2. CASE \E g \in Gens : Applies(g)
  <2>1. PICK g \in Gens : Applies(g)
    BY <1>2
  <2>2. prep' \in Prepare
    <3>1. g \in 0 .. MaxStarts /\ prep \in Prepare
      BY Constants DEF ActivationInv, TypeOK, Gens
    <3>2. prep' = [prep EXCEPT !.pc = "applying", !.gen = g]
      BY <2>1 DEF Applies
    <3> QED BY <3>1, <3>2 DEF Prepare
  <2> QED BY <2>2, Constants
<1>3. CASE ResolveSkips \/ Resolved
  BY <1>3 DEF ResolveSkips, Resolved, ActivationInv, PrepareInv
<1> QED BY <1>1, <1>2, <1>3
        DEF Next, Ready, Exit, StopGateway, StartGateway, RestartGateway, Deadline, Accept, Receive,
            ApplicationEnds, BeginPrepare

(* A catalog application leaves a ready Gateway behind the saved Route     *)
(* only for one of the causes that LagHasCause lists, and never under a    *)
(* receipt that says applied (prepare of gatewayRouteActivationOwner.ts).  *)
THEOREM LagIsExplained == Spec => LagHasCause
<1>1. ActivationInv /\ [Next]_vars => [LagCause]_vars
  <2> SUFFICES ASSUME ActivationInv, Next, prep # None, prep' = None, ~prep.resolve, Attached',
                      sups'[gen'].applied # desired
               PROVE  LagCause
    BY DEF LagCause
  <2> USE DEF ActivationInv
  <2>0. gen \in 0 .. MaxStarts /\ MaxStarts \in Nat
    BY Constants DEF TypeOK
  <2>1. ASSUME NEW needed \in BOOLEAN, Finish(needed)
        PROVE  proc /\ (needed => needsRestart') /\ UNCHANGED <<gen, ready, sups, proc>> /\ Attached /\ gen \in Gens
    <3>1. UNCHANGED sups /\ SyncRunningGateways(needed)
      BY <2>1 DEF Finish
    <3>2. ready'
      BY DEF Attached
    <3>3. proc
      BY <3>1, <3>2 DEF SyncRunningGateways, Start
    <3>4. UNCHANGED <<gen, ready, proc>> /\ (needed => needsRestart')
      BY <3>1, <3>3 DEF SyncRunningGateways, Kill
    <3> QED BY <3>1, <3>3, <3>4 DEF Attached, SupervisorsInv
  <2>2. ASSUME Attached, gen \in Gens, UNCHANGED <<gen, sups>>, prep.gen # 0, prep.gen # gen
        PROVE  FALSE
    BY <2>2 DEF Attached, PrepareInv
  <2>3. CASE NeedsStart
    <3>1. needsRestart \in BOOLEAN /\ ~Attached /\ Finish(needsRestart)
      BY <2>3 DEF NeedsStart, TypeOK
    <3> QED BY <2>1, <3>1
  <2>4. CASE NeedsRestart
    <3>1. prep.op \in Mutations => receipts'[prep.op].state # "applied"
      BY <2>4, RememberSays DEF NeedsRestart
    <3> QED BY <2>4, <3>1 DEF NeedsRestart, Kill, LagCause
  <2>5. CASE ApplyAnswered
    <3>1. needsRestart \in BOOLEAN /\ Finish(needsRestart) /\ prep.pc = "applying"
      BY <2>5 DEF ApplyAnswered, TypeOK
    <3>2. Attached /\ gen \in Gens /\ UNCHANGED <<gen, sups>>
      BY <2>1, <3>1
    <3>3. prep.gen # 0 /\ sups[prep.gen].op.rev = desired
      BY <2>0, <3>1 DEF PrepareInv
    <3>4. prep.gen = gen
      BY <2>2, <3>2, <3>3
    <3>5. sups[gen].ack # "applied" /\ (Settled(sups[gen]) => sups[gen].ack = "rejected")
      BY <3>2, <3>3, <3>4 DEF Settled, SupervisorsInv, PrepareInv, Attached
    <3>6. prep.op \in Mutations => receipts'[prep.op].state # "applied"
      BY <2>5, <3>4, <3>5, FromAckSays DEF ApplyAnswered
    <3> QED BY <3>1, <3>2, <3>5, <3>6 DEF LagCause
  <2>6. ASSUME NEW g \in Gens, EarlierBlocks(g) \/ DecidesWithoutApply(g) PROVE LagCause
    <3>1. \E needed \in BOOLEAN : Finish(needed)
      BY <2>6 DEF EarlierBlocks, DecidesWithoutApply, TypeOK
    <3>2. Attached /\ gen \in Gens /\ UNCHANGED <<gen, sups>>
      BY <2>1, <3>1
    <3>3. prep.pc # "applying" /\ (g = gen \/ (prep.gen # 0 /\ prep.gen = g))
      BY <2>0, <2>6 DEF EarlierBlocks, DecidesWithoutApply, Deciding, PrepareInv
    <3>4. g = gen
      BY <2>2, <3>2, <3>3
    <3>5. sups[gen].ack = "applied" => sups[gen].op.rev # desired
      BY <3>2 DEF Attached, SupervisorsInv
    <3>6. CASE EarlierBlocks(g)
      <4>1. prep.op \in Mutations => receipts'[prep.op].state # "applied"
        <5>1. sups[gen].ack # "applied"
          BY <3>4, <3>6 DEF EarlierBlocks, Settled
        <5> QED BY <3>4, <3>6, <5>1, FromAckSays, RememberSays DEF EarlierBlocks
      <4> QED BY <3>2, <3>4, <3>6, <4>1 DEF EarlierBlocks, LagCause
    <3>7. CASE DecidesWithoutApply(g)
      <4>1. Settled(sups[gen]) /\ sups[gen].applied # desired
        BY <3>2, <3>4, <3>7 DEF DecidesWithoutApply
      <4>2. CASE OwnOperation(sups[gen]) /\ FromAck(sups[gen], desired)
        <5>1. prep.op \in Mutations => receipts'[prep.op].state # "applied"
          BY <3>5, <4>2, FromAckSays
        <5>2. sups[gen].op.rev # desired \/ sups[gen].ack = "rejected"
          BY <3>5, <4>1, <4>2 DEF Settled, OwnOperation
        <5> QED BY <3>3, <4>2, <5>1, <5>2 DEF LagCause
      <4>3. CASE KnownRejection(sups[gen]) /\ UNCHANGED receipts
        <5>1. prep.op \in Mutations => Previous = [state |-> "rejected", rev |-> desired]
          BY <4>3, ActivationAssumption DEF KnownRejection
        <5>2. prep.op \in Mutations => receipts'[prep.op].state # "applied"
          BY <4>3, <5>1 DEF Previous
        <5> QED BY <3>2, <4>3, <5>2 DEF LagCause, KnownRejection
      <4> QED BY <3>4, <3>7, <4>1, <4>2, <4>3 DEF DecidesWithoutApply, AlreadyApplied
    <3> QED BY <2>6, <3>6, <3>7
  <2> QED BY <2>3, <2>4, <2>5, <2>6, WhoEnds
<1> QED BY <1>1, ActivationInvariant, PTL DEF Spec, LagHasCause, LagCause
=============================================================================
