--------------------------- MODULE ProcessProofs ---------------------------
(***************************************************************************)
(* Proofs about the child processes of the Manager: the pool of one        *)
(* storage mutation child (StorageMutationPool) and the registry of all of *)
(* them (ProcessLeases).                                                   *)
(***************************************************************************)
EXTENDS StorageMutationPool, ProcessLeases, FiniteSetTheorems, SequenceTheorems, TLAPS

-----------------------------------------------------------------------------
(* StorageMutationPool, for every set of mutations and children and every  *)
(* queue limit: the role storage has one writer, the commit admission      *)
(* decides what is written, and an answer is final.                        *)

Elems(q) == {q[i] : i \in 1..Len(q)}

Distinct(q) == \A i, j \in 1..Len(q) : q[i] = q[j] => i = j

(* What is queued waits and was not admitted; what is active waits too; and *)
(* nothing else waits.  Native work is that of the queue and the active     *)
(* mutation, or of a child whose end is not confirmed.  The parameters are  *)
(* those of Drain.                                                          *)
PendingWork(q, out, nat) ==
    /\ Distinct(q)
    /\ \A m \in Elems(q) : out[m] = "pending" /\ m \in nat /\ m \notin admitted /\ m # active
    /\ active # None => out[active] = "pending" /\ active \in nat
    /\ \A m \in Mutations : out[m] = "pending" => m = active \/ m \in Elems(q)
    /\ \A m \in nat : m \in Elems(q) \/ m = active \/ blocked
    /\ \A m \in Mutations : out[m] = "new" => m \notin admitted

(* A live child holds m only on behalf of the active mutation, or of one    *)
(* that was given up without a confirmed end.                               *)
HoldsFor(m, out, nat) ==
    /\ m \in nat
    /\ active # None => m = active
    /\ active = None => blocked /\ out[m] = "termination_unconfirmed"

(* The protocol alternates: a child that answers is idle, one that asks     *)
(* waits for the decision, and one that was admitted has empty channels.    *)
ChildWork(out, nat) ==
    \A c \in alive :
        /\ c = child
        /\ step[c] # "unborn"
        /\ step[c] # "idle" => job[c] # None /\ HoldsFor(job[c], out, nat)
        /\ inbox[c] # None => HoldsFor(inbox[c].of, out, nat)
        /\ outbox[c] # None => /\ HoldsFor(outbox[c].of, out, nat)
                               /\ inbox[c] = None
                               /\ IF outbox[c].kind = "ask" THEN step[c] = "asking"
                                                            ELSE step[c] = "idle"
        /\ step[c] \in {"admitted", "done"} => inbox[c] = None /\ outbox[c] = None

(* An admission is that of the active mutation, and one that is being       *)
(* aborted was not admitted.                                                *)
AdmissionWork ==
    /\ active = None => admission = "none"
    /\ active # None => (active \in admitted <=> admission = "allowed")
    /\ cause = "aborted" => admission # "allowed"
    /\ committed \cap Authorized \subseteq admitted
    /\ \A c \in alive :
          /\ step[c] \in {"admitted", "done"} /\ job[c] \in Authorized => job[c] \in admitted
          /\ inbox[c] # None /\ inbox[c].kind = "allow" => inbox[c].of \in admitted

(* A child that was created never becomes unborn, and a pool that stops     *)
(* takes nothing up.                                                        *)
PoolWork(q) ==
    /\ child # None => step[child] # "unborn"
    /\ \A c \in Children : step[c] = "unborn" => c \notin alive /\ inbox[c] = None /\ outbox[c] = None
    /\ stopping \/ stopped => ~accepting
    /\ ~accepting => q = <<>>
    /\ stopped => child = None

PoolInv ==
    /\ TypeOK
    /\ PendingWork(queue, outcome, native)
    /\ ChildWork(outcome, native)
    /\ AdmissionWork
    /\ PoolWork(queue)
    /\ RefusedWritesNothing

-----------------------------------------------------------------------------
(* Sequences without repetition *)

(* A mutation enters the queue at its end (execute). *)
LEMMA AppendElems ==
    ASSUME NEW S, NEW q \in Seq(S), NEW e \in S
    PROVE  /\ Append(q, e) \in Seq(S) /\ Append(q, e) # <<>>
           /\ Elems(Append(q, e)) = Elems(q) \cup {e}
           /\ Distinct(q) /\ e \notin Elems(q) => Distinct(Append(q, e))
<1>1. Append(q, e) \in Seq(S) /\ Len(Append(q, e)) = Len(q) + 1
  OBVIOUS
<1>2. \A i \in 1..Len(q) : Append(q, e)[i] = q[i]
  OBVIOUS
<1>3. Append(q, e)[Len(q) + 1] = e
  OBVIOUS
<1>4. Elems(Append(q, e)) = Elems(q) \cup {e}
  BY <1>1, <1>2, <1>3 DEF Elems
<1>5. ASSUME Distinct(q), e \notin Elems(q) PROVE Distinct(Append(q, e))
  BY <1>1, <1>2, <1>3, <1>5 DEF Distinct, Elems
<1> QED BY <1>1, <1>4, <1>5

(* drain takes the head of the queue. *)
LEMMA TailElems ==
    ASSUME NEW S, NEW q \in Seq(S), q # <<>>
    PROVE  /\ Head(q) \in S /\ Tail(q) \in Seq(S) /\ Head(q) \in Elems(q)
           /\ Distinct(q) => Distinct(Tail(q)) /\ Elems(Tail(q)) = Elems(q) \ {Head(q)}
<1>1. /\ Head(q) \in S /\ Tail(q) \in Seq(S) /\ Len(q) \in Nat \ {0}
      /\ Len(Tail(q)) = Len(q) - 1 /\ Head(q) = q[1]
  OBVIOUS
<1>2. \A i \in 1..Len(Tail(q)) : Tail(q)[i] = q[i + 1]
  OBVIOUS
<1>3. Head(q) \in Elems(q)
  BY <1>1 DEF Elems
<1>4. ASSUME Distinct(q) PROVE Distinct(Tail(q))
  BY <1>1, <1>2, <1>4 DEF Distinct
<1>5. ASSUME Distinct(q) PROVE Elems(Tail(q)) = Elems(q) \ {Head(q)}
  <2>1. ASSUME NEW e \in Elems(Tail(q)) PROVE e \in Elems(q) \ {Head(q)}
    BY <1>1, <1>2, <1>5, <2>1 DEF Elems, Distinct
  <2>2. ASSUME NEW e \in Elems(q), e # Head(q) PROVE e \in Elems(Tail(q))
    <3>1. PICK i \in 1..Len(q) : e = q[i]
      BY <2>2 DEF Elems
    <3>2. i - 1 \in 1..Len(Tail(q)) /\ Tail(q)[i - 1] = q[i]
      BY <1>1, <1>2, <2>2, <3>1
    <3> QED BY <3>1, <3>2 DEF Elems
  <2> QED BY <2>1, <2>2
<1> QED BY <1>1, <1>3, <1>4, <1>5

(* An aborted mutation leaves the queue from anywhere. *)
LEMMA RemoveElems ==
    ASSUME NEW S, NEW q \in Seq(S), NEW i \in 1..Len(q), Distinct(q)
    PROVE  LET r == SubSeq(q, 1, i - 1) \o SubSeq(q, i + 1, Len(q))
           IN  r \in Seq(S) /\ Distinct(r) /\ Elems(r) = Elems(q) \ {q[i]}
<1> DEFINE a == SubSeq(q, 1, i - 1)
           b == SubSeq(q, i + 1, Len(q))
           r == a \o b
<1>1. /\ a \in Seq(S) /\ Len(a) = i - 1
      /\ \A k \in 1..(i - 1) : a[k] = q[k]
  OBVIOUS
<1>2. /\ b \in Seq(S) /\ Len(b) = Len(q) - i
      /\ \A k \in 1..(Len(q) - i) : b[k] = q[i + k]
  OBVIOUS
<1> HIDE DEF a, b
<1>3. /\ r \in Seq(S) /\ Len(r) = Len(q) - 1 /\ Len(q) \in Nat
      /\ \A k \in 1..(i - 1) : r[k] = q[k]
      /\ \A k \in i..(Len(q) - 1) : r[k] = q[k + 1]
  <2>1. r \in Seq(S) /\ Len(r) = Len(a) + Len(b)
    BY <1>1, <1>2, ConcatProperties
  <2>2. \A k \in 1..Len(r) : r[k] = IF k <= Len(a) THEN a[k] ELSE b[k - Len(a)]
    BY <1>1, <1>2, <2>1, ConcatProperties
  <2> HIDE DEF r
  <2>3. ASSUME NEW k \in 1..(i - 1) PROVE r[k] = q[k]
    <3>1. k \in 1..Len(r) /\ k <= Len(a)
      BY <1>1, <1>2, <2>1
    <3> QED BY <3>1, <2>2, <1>1
  <2>4. ASSUME NEW k \in i..(Len(q) - 1) PROVE r[k] = q[k + 1]
    <3>1. k \in 1..Len(r) /\ ~(k <= Len(a)) /\ k - Len(a) \in 1..(Len(q) - i) /\ i + (k - Len(a)) = k + 1
      BY <1>1, <1>2, <2>1
    <3> QED BY <3>1, <2>2, <1>2
  <2> QED BY <1>1, <1>2, <2>1, <2>3, <2>4
<1> HIDE DEF r
<1>4. Distinct(r)
  BY <1>3 DEF Distinct
<1>5. ASSUME NEW e \in Elems(r) PROVE e \in Elems(q) \ {q[i]}
  <2>1. PICK k \in 1..Len(r) : e = r[k]
    BY <1>5 DEF Elems
  <2>2. CASE k < i
    <3>1. k \in 1..Len(q) /\ k # i /\ e = q[k]
      BY <1>3, <2>1, <2>2
    <3> QED BY <3>1 DEF Elems, Distinct
  <2>3. CASE k >= i
    <3>1. k + 1 \in 1..Len(q) /\ k + 1 # i /\ e = q[k + 1]
      BY <1>3, <2>1, <2>3
    <3> QED BY <3>1 DEF Elems, Distinct
  <2> QED BY <2>1, <2>2, <2>3, <1>3
<1>6. ASSUME NEW e \in Elems(q), e # q[i] PROVE e \in Elems(r)
  <2>1. PICK k \in 1..Len(q) : e = q[k]
    BY <1>6 DEF Elems
  <2>2. CASE k < i
    <3>1. k \in 1..Len(r) /\ r[k] = e
      BY <1>3, <2>1, <2>2
    <3> QED BY <3>1 DEF Elems
  <2>3. CASE k > i
    <3>1. k - 1 \in 1..Len(r) /\ r[k - 1] = e
      BY <1>3, <2>1, <2>3
    <3> QED BY <3>1 DEF Elems
  <2> QED BY <2>1, <2>2, <2>3, <1>3, <1>6
<1>7. r \in Seq(S) /\ Distinct(r) /\ Elems(r) = Elems(q) \ {q[i]}
  BY <1>3, <1>4, <1>5, <1>6
<1> QED BY <1>7 DEF r, a, b

-----------------------------------------------------------------------------
(* The steps of a termination *)

(* Messages may be read or fail to be sent; none is added. *)
ChannelsShrink ==
    /\ inbox' \in [Children -> Down \cup {None}]
    /\ outbox' \in [Children -> Up \cup {None}]
    /\ \A c \in Children : inbox'[c] \in {inbox[c], None} /\ outbox'[c] \in {outbox[c], None}

(* A termination that could not be confirmed keeps the native work of the   *)
(* mutation it gives up, and releases that of the queue only.               *)
LEMMA GiveUpStep ==
    ASSUME PoolInv, NEW S, S = {} \/ (S = {active} /\ active # None),
           S = {} => cause = "none", child # None,
           GiveUp(S), ChannelsShrink, UNCHANGED <<revoked, childVars>>
    PROVE  PoolInv'
<1> USE StorageMutationPoolAssumption DEF PoolInv, GiveUp, ChannelsShrink, childVars
<1>1. TypeOK'
  <2>1. /\ queue' \in Seq(Mutations) /\ native' \subseteq Mutations
        /\ outcome' \in [Mutations -> Settled \cup {"new", "pending"}]
    BY DEF TypeOK, Settled
  <2>2. /\ active' \in Mutations \cup {None} /\ admission' \in {"none", "allowed", "denied"}
        /\ cause' = "none"
    BY DEF TypeOK, NoActive
  <2> QED BY <2>1, <2>2 DEF TypeOK
<1>2. PendingWork(queue, outcome, native)'
  <2>1. Queued = Elems(queue)
    BY DEF Queued, Elems
  <2>2. Distinct(queue') /\ Elems(queue') = {}
    BY DEF Distinct, Elems
  <2>3. CASE S = {}
    BY <2>1, <2>2, <2>3 DEF TypeOK, PendingWork
  <2>4. CASE S = {active} /\ active # None
    BY <2>1, <2>2, <2>4 DEF TypeOK, NoActive, PendingWork
  <2> QED BY <2>3, <2>4
<1>3. ChildWork(outcome, native)'
  BY DEF TypeOK, NoActive, PendingWork, Elems, Queued, ChildWork, HoldsFor
<1>4. AdmissionWork'
  BY DEF TypeOK, NoActive, AdmissionWork
<1>5. PoolWork(queue)'
  BY DEF TypeOK, PoolWork
<1>6. RefusedWritesNothing'
  BY DEF TypeOK, RefusedWritesNothing
<1> QED BY <1>1, <1>2, <1>3, <1>4, <1>5, <1>6

(* A termination leaves the mutation active until the child has closed. *)
LEMMA TerminateStep ==
    ASSUME PoolInv, NEW code \in Causes, Running(active), TerminateActive(code),
           code = "aborted" => admission # "allowed",
           ChannelsShrink, UNCHANGED <<revoked, childVars>>
    PROVE  PoolInv'
<1>1. CASE flight = "unconfirmed"
  <2>1. GiveUp({active}) /\ active # None /\ child # None
    BY <1>1 DEF TerminateActive, Running, PoolInv, TypeOK
  <2> QED BY <2>1, GiveUpStep
<1>2. CASE flight # "unconfirmed"
  <2> USE <1>2, StorageMutationPoolAssumption
      DEF PoolInv, TerminateActive, ChannelsShrink, childVars, Running
  <2>1. TypeOK'
    BY DEF TypeOK
  <2>2. PendingWork(queue, outcome, native)'
    BY DEF TypeOK, PendingWork
  <2>3. ChildWork(outcome, native)'
    BY DEF TypeOK, ChildWork, HoldsFor
  <2>4. AdmissionWork'
    BY DEF TypeOK, AdmissionWork
  <2>5. PoolWork(queue)'
    BY DEF TypeOK, PoolWork
  <2>6. RefusedWritesNothing'
    BY DEF TypeOK, RefusedWritesNothing
  <2> QED BY <2>1, <2>2, <2>3, <2>4, <2>5, <2>6
<1> QED BY <1>1, <1>2

-----------------------------------------------------------------------------
(* drain() *)

(* What drain() relies on, for the queue, outcomes and native work that its *)
(* caller has left.                                                         *)
DrainReady(q, out, nat) ==
    /\ q \in Seq(Mutations) /\ nat \subseteq Mutations
    /\ out \in [Mutations -> Settled \cup {"new", "pending"}]
    /\ TypeOK /\ AdmissionWork
    /\ PendingWork(q, out, nat) /\ ChildWork(out, nat) /\ PoolWork(q)
    /\ \A m \in Authorized : out[m] \in {"aborted", "authorization_revoked"} => m \notin committed

(* drain() dispatches to a child that holds nothing, or rejects what no     *)
(* child has seen.                                                          *)
LEMMA DrainStep ==
    ASSUME NEW q, NEW out, NEW nat, DrainReady(q, out, nat), Drain(q, out, nat)
    PROVE  PoolInv'
<1> USE StorageMutationPoolAssumption
<1>0. /\ UNCHANGED <<blocked, accepting, stopped, stopping, admitted, revoked, job, committed, outbox>>
      /\ q \in Seq(Mutations) /\ nat \subseteq Mutations
      /\ out \in [Mutations -> Settled \cup {"new", "pending"}]
      /\ TypeOK
  BY DEF Drain, DrainReady
<1>1. CASE DrainSkips(q, out, nat)
  <2> USE <1>0, <1>1 DEF DrainSkips, DrainReady
  <2>1. TypeOK'
    BY DEF TypeOK
  <2>2. PendingWork(queue, outcome, native)'
    BY DEF PendingWork
  <2>3. ChildWork(outcome, native)'
    BY DEF ChildWork, HoldsFor
  <2>4. AdmissionWork' /\ PoolWork(queue)' /\ RefusedWritesNothing'
    BY DEF AdmissionWork, PoolWork, RefusedWritesNothing
  <2> QED BY <2>1, <2>2, <2>3, <2>4 DEF PoolInv
<1> DEFINE h == Head(q)
<1>2. ASSUME CanStart(q)
      PROVE  /\ h \in Mutations /\ Tail(q) \in Seq(Mutations) /\ h \in Elems(q)
             /\ Distinct(Tail(q)) /\ Elems(Tail(q)) = Elems(q) \ {h}
             /\ out[h] = "pending" /\ h \in nat /\ h \notin admitted
             /\ active = None /\ ~blocked /\ accepting
  BY <1>0, <1>2, TailElems DEF CanStart, DrainReady, PendingWork
<1> HIDE DEF h
<1>3. CASE DrainRejects(q, out, nat)
  <2>0. CanStart(q)
    BY <1>3 DEF DrainRejects
  <2>1. PICK code \in {"authorization_revoked", "worker_failed"} : outcome' = [out EXCEPT ![h] = code]
    BY <1>3 DEF DrainRejects, h
  <2>2. /\ due' = TRUE /\ queue' = Tail(q) /\ native' = nat \ {h}
        /\ UNCHANGED <<active, cause, admission, child, flight, alive, step, inbox>>
    BY <1>3 DEF DrainRejects, h
  <2> USE <1>0, <1>2, <2>0, <2>1, <2>2
  <2>3. TypeOK'
    BY DEF TypeOK, Settled, Causes
  <2>4. PendingWork(queue, outcome, native)'
    BY DEF DrainReady, PendingWork
  <2>5. ChildWork(outcome, native)'
    BY DEF DrainReady, ChildWork, HoldsFor
  <2>6. AdmissionWork' /\ PoolWork(queue)'
    BY DEF DrainReady, AdmissionWork, PoolWork
  <2>7. RefusedWritesNothing'
    BY DEF DrainReady, AdmissionWork, RefusedWritesNothing
  <2> QED BY <2>3, <2>4, <2>5, <2>6, <2>7 DEF PoolInv
<1>4. CASE DrainStarts(q, out, nat)
  <2>0. CanStart(q)
    BY <1>4 DEF DrainStarts
  <2>1. PICK c \in Children :
          /\ \/ child = c /\ UNCHANGED <<alive, step, flight>>
             \/ /\ child = None /\ step[c] = "unborn"
                /\ alive' = alive \cup {c}
                /\ step' = [step EXCEPT ![c] = "idle"]
                /\ flight' = "none"
          /\ child' = c
          /\ inbox' = [inbox EXCEPT ![c] = [kind |-> "run", of |-> h]]
    BY <1>4 DEF DrainStarts, h
  <2>2. /\ due' = FALSE /\ queue' = Tail(q) /\ outcome' = out /\ native' = nat
        /\ active' = h /\ UNCHANGED <<cause, admission>>
    BY <1>4 DEF DrainStarts, h
  <2> DEFINE run == [kind |-> "run", of |-> h]
  <2>r. run \in Down /\ run.of = h /\ run.kind = "run"
    BY <1>2, <2>0 DEF Down
  <2>i. inbox' = [inbox EXCEPT ![c] = run]
    BY <2>1
  <2>b. \/ child = c /\ UNCHANGED <<alive, step, flight>>
        \/ /\ child = None /\ step[c] = "unborn"
           /\ alive' = alive \cup {c}
           /\ step' = [step EXCEPT ![c] = "idle"]
           /\ flight' = "none"
    BY <2>1
  <2>c. child' = c
    BY <2>1
  <2> HIDE DEF run
  <2> USE <1>0, <1>2, <2>0, <2>2, <2>r, <2>i, <2>b, <2>c
  <2>3. TypeOK'
    BY DEF TypeOK
  <2>4. PendingWork(queue, outcome, native)'
    BY DEF DrainReady, PendingWork
  <2>5. ChildWork(outcome, native)'
    BY DEF DrainReady, ChildWork, HoldsFor, TypeOK, PoolWork
  <2>6. AdmissionWork'
    BY DEF DrainReady, AdmissionWork, TypeOK, PoolWork
  <2>7. PoolWork(queue)'
    BY DEF DrainReady, PoolWork, TypeOK
  <2>8. RefusedWritesNothing'
    BY DEF DrainReady, RefusedWritesNothing
  <2> QED BY <2>3, <2>4, <2>5, <2>6, <2>7, <2>8 DEF PoolInv
<1> QED BY <1>1, <1>3, <1>4 DEF Drain

-----------------------------------------------------------------------------
(* The steps *)

(* execute() and the events of its callers keep the invariant. *)
LEMMA CallerStep ==
    ASSUME PoolInv, NEW m \in Mutations,
           ExecuteRefused(m) \/ ExecuteQueued(m) \/ AbortQueued(m) \/ Revoke(m)
    PROVE  PoolInv'
<1> USE StorageMutationPoolAssumption DEF PoolInv
<1>1. CASE ExecuteRefused(m)
  <2> USE <1>1 DEF ExecuteRefused, childVars
  <2>0. /\ Refusal(m) \in Settled /\ Refusal(m) \notin {"aborted", "new", "pending", "ok"}
        /\ outcome' = [outcome EXCEPT ![m] = Refusal(m)]
    BY DEF Refusal, Settled, Causes
  <2>1. TypeOK'
    BY <2>0 DEF TypeOK, Settled
  <2>2. PendingWork(queue, outcome, native)'
    BY <2>0 DEF TypeOK, PendingWork, Elems
  <2>3. ChildWork(outcome, native)'
    <3>1. \A k \in Mutations : outcome[k] = "termination_unconfirmed" => outcome'[k] = outcome[k]
      BY <2>0 DEF TypeOK
    <3> QED BY <3>1 DEF TypeOK, ChildWork, HoldsFor
  <2>4. AdmissionWork'
    BY DEF AdmissionWork
  <2>5. PoolWork(queue)'
    BY DEF PoolWork
  <2>6. RefusedWritesNothing'
    BY <2>0 DEF TypeOK, RefusedWritesNothing, AdmissionWork, PendingWork
  <2> QED BY <2>1, <2>2, <2>3, <2>4, <2>5, <2>6
<1>2. CASE ExecuteQueued(m)
  <2> DEFINE q == Append(queue, m)
             out == [outcome EXCEPT ![m] = "pending"]
             nat == native \cup {m}
  <2>0. /\ outcome[m] = "new" /\ accepting /\ Drain(q, out, nat)
        /\ out \in [Mutations -> Settled \cup {"new", "pending"}] /\ nat \subseteq Mutations
        /\ out[m] = "pending" /\ \A k \in Mutations : k # m => out[k] = outcome[k]
    BY <1>2 DEF ExecuteQueued, TypeOK
  <2>1. m \notin Elems(queue) /\ m # active /\ m \notin admitted
    BY <2>0 DEF PendingWork
  <2>2. q \in Seq(Mutations) /\ Distinct(q) /\ Elems(q) = Elems(queue) \cup {m}
    BY <2>1, AppendElems DEF TypeOK, PendingWork
  <2>n. \A k : k \in nat <=> k \in native \/ k = m
    OBVIOUS
  <2> HIDE DEF q, out, nat
  <2>3. PendingWork(q, out, nat)
    <3>1. \A k \in Elems(q) : k \in Mutations
      BY <2>2 DEF Elems
    <3>2. \A k \in Elems(q) : out[k] = "pending" /\ k \in nat /\ k \notin admitted /\ k # active
      BY <2>0, <2>1, <2>2, <2>n, <3>1 DEF PendingWork
    <3>3. active # None => out[active] = "pending" /\ active \in nat
      BY <2>0, <2>1, <2>n DEF PendingWork, TypeOK
    <3>4. \A k \in Mutations : out[k] = "pending" => k = active \/ k \in Elems(q)
      BY <2>0, <2>2 DEF PendingWork
    <3>5. \A k \in nat : k \in Elems(q) \/ k = active \/ blocked
      BY <2>2, <2>n DEF PendingWork
    <3>6. \A k \in Mutations : out[k] = "new" => k \notin admitted
      BY <2>0 DEF PendingWork
    <3> QED BY <2>2, <3>2, <3>3, <3>4, <3>5, <3>6 DEF PendingWork
  <2>4. ChildWork(out, nat)
    <3>1. \A k \in Mutations : outcome[k] = "termination_unconfirmed" => out[k] = outcome[k]
      BY <2>0
    <3> QED BY <3>1, <2>n DEF TypeOK, ChildWork, HoldsFor
  <2>5. PoolWork(q)
    BY <2>0 DEF PoolWork
  <2>6. \A k \in Authorized : out[k] \in {"aborted", "authorization_revoked"} => k \notin committed
    BY <2>0 DEF RefusedWritesNothing
  <2>7. DrainReady(q, out, nat)
    BY <2>0, <2>2, <2>3, <2>4, <2>5, <2>6 DEF DrainReady
  <2> QED BY <2>0, <2>7, DrainStep
<1>3. CASE AbortQueued(m)
  <2>0. PICK i \in 1..Len(queue) :
          /\ queue[i] = m
          /\ queue' = SubSeq(queue, 1, i - 1) \o SubSeq(queue, i + 1, Len(queue))
          /\ outcome' = [outcome EXCEPT ![m] = "aborted"]
          /\ native' = native \ {m}
          /\ UNCHANGED <<active, cause, admission, child, flight, blocked, accepting, stopped,
                         stopping, due, admitted, revoked, childVars, inbox, outbox>>
    BY <1>3 DEF AbortQueued
  <2>q. queue' \in Seq(Mutations) /\ Distinct(queue') /\ Elems(queue') = Elems(queue) \ {m}
    BY <2>0, RemoveElems DEF TypeOK, PendingWork
  <2>m. /\ m \in Elems(queue) /\ outcome[m] = "pending" /\ m \notin admitted /\ m # active /\ accepting
    <3>1. m \in Elems(queue)
      BY <2>0 DEF Elems
    <3>2. accepting
      BY <2>0 DEF PoolWork, TypeOK
    <3> QED BY <3>1, <3>2 DEF PendingWork
  <2>u. /\ outcome' = [outcome EXCEPT ![m] = "aborted"]
        /\ native' = native \ {m}
        /\ UNCHANGED <<active, cause, admission, child, flight, blocked, accepting, stopped,
                       stopping, due, admitted, revoked, alive, job, step, committed, inbox, outbox>>
    BY <2>0 DEF childVars
  <2>1. TypeOK'
    BY <2>q, <2>u DEF TypeOK, Settled, Causes
  <2>2. PendingWork(queue, outcome, native)'
    BY <2>q, <2>m, <2>u DEF TypeOK, PendingWork
  <2>3. ChildWork(outcome, native)'
    <3>1. \A k \in Mutations : outcome[k] = "termination_unconfirmed" => outcome'[k] = outcome[k] /\ k # m
      BY <2>m, <2>u DEF TypeOK
    <3> QED BY <3>1, <2>u, <2>m DEF TypeOK, ChildWork, HoldsFor
  <2>4. AdmissionWork'
    BY <2>u DEF AdmissionWork
  <2>5. PoolWork(queue)'
    BY <2>u, <2>m DEF PoolWork
  <2>6. RefusedWritesNothing'
    BY <2>u, <2>m DEF TypeOK, RefusedWritesNothing, AdmissionWork
  <2> QED BY <2>1, <2>2, <2>3, <2>4, <2>5, <2>6
<1>4. CASE Revoke(m)
  <2> USE <1>4 DEF Revoke, poolVars, childVars
  <2>1. TypeOK'
    BY DEF TypeOK
  <2>2. PendingWork(queue, outcome, native)' /\ ChildWork(outcome, native)'
    BY DEF PendingWork, ChildWork, HoldsFor
  <2>3. AdmissionWork' /\ PoolWork(queue)' /\ RefusedWritesNothing'
    BY DEF AdmissionWork, PoolWork, RefusedWritesNothing
  <2> QED BY <2>1, <2>2, <2>3
<1> QED BY <1>1, <1>2, <1>3, <1>4

(* The timers, aborts and errors that end a child, its close event and      *)
(* stop() keep the invariant.                                               *)
LEMMA TerminationStep ==
    ASSUME PoolInv,
           \/ Timeout \/ AbortActive \/ WorkerFails \/ IdleChildError \/ ForceKill \/ FlightFails
           \/ Stop \/ \E c \in Children : Close(c)
    PROVE  PoolInv'
<1> USE StorageMutationPoolAssumption DEF PoolInv
<1>1. CASE Timeout
  <2>1. ChannelsShrink
    BY <1>1 DEF Timeout, ChannelsShrink, TypeOK
  <2> QED BY <1>1, <2>1, TerminateStep DEF Timeout, Causes
<1>2. CASE AbortActive
  <2>1. ChannelsShrink
    BY <1>2 DEF AbortActive, ChannelsShrink, TypeOK
  <2> QED BY <1>2, <2>1, TerminateStep DEF AbortActive, Causes
<1>3. CASE WorkerFails
  <2>1. ChannelsShrink
    BY <1>3 DEF WorkerFails, ChannelsShrink, TypeOK
  <2>2. Running(active) /\ TerminateActive("worker_failed") /\ UNCHANGED <<revoked, childVars>>
    BY <1>3 DEF WorkerFails
  <2> QED BY <2>1, <2>2, TerminateStep DEF Causes
<1>4. CASE IdleChildError \/ ForceKill
  <2> USE <1>4 DEF IdleChildError, ForceKill, childVars
  <2>1. TypeOK'
    BY DEF TypeOK
  <2>2. PendingWork(queue, outcome, native)'
    BY DEF PendingWork
  <2>3. ChildWork(outcome, native)'
    BY DEF ChildWork, HoldsFor
  <2>4. AdmissionWork' /\ PoolWork(queue)' /\ RefusedWritesNothing'
    BY DEF AdmissionWork, PoolWork, RefusedWritesNothing
  <2> QED BY <2>1, <2>2, <2>3, <2>4
<1>5. CASE FlightFails
  <2> DEFINE S == IF cause # "none" THEN {active} ELSE {}
  <2>1. ChannelsShrink
    BY <1>5 DEF FlightFails, ChannelsShrink, TypeOK
  <2>2. GiveUp(S) /\ UNCHANGED <<revoked, childVars>> /\ child # None
    BY <1>5 DEF FlightFails, TypeOK
  <2>3. (cause = "none" => S = {}) /\ (cause # "none" => S = {active})
    OBVIOUS
  <2> HIDE DEF S
  <2>4. S = {active} => S # {}
    OBVIOUS
  <2>5. S = {} \/ (S = {active} /\ active # None)
    BY <2>3 DEF TypeOK
  <2>6. S = {} => cause = "none"
    BY <2>3, <2>4
  <2> QED BY <2>1, <2>2, <2>5, <2>6, GiveUpStep
<1>6. CASE Stop
  <2>0. /\ accepting' = FALSE /\ queue' = <<>> /\ native' = native \ Elems(queue)
        /\ UNCHANGED <<child, blocked, due, admitted, revoked, alive, job, step, committed, inbox, outbox>>
        /\ flight' = IF child # None /\ flight = "none" THEN "term" ELSE flight
        /\ stopping' = (child # None /\ flight # "unconfirmed")
        /\ stopped' = (child = None)
    BY <1>6 DEF Stop, Queued, Elems, childVars
  <2>q. queue' \in Seq(Mutations) /\ Distinct(queue') /\ Elems(queue') = {}
    BY <2>0 DEF Distinct, Elems
  <2>o. outcome' = [k \in Mutations |->
                      IF k \in Elems(queue) THEN "stopped"
                      ELSE IF flight = "unconfirmed" /\ k = active THEN "termination_unconfirmed"
                      ELSE outcome[k]]
    <3> DEFINE rejected == [k \in Mutations |-> IF k \in Elems(queue) THEN "stopped" ELSE outcome[k]]
    <3>1. outcome' = IF flight = "unconfirmed" /\ active # None
                       THEN [rejected EXCEPT ![active] = "termination_unconfirmed"]
                       ELSE rejected
      BY <1>6 DEF Stop, Queued, Elems
    <3>2. active # None => active \notin Elems(queue)
      BY DEF PendingWork
    <3>3. \A k \in Mutations : k = active => active # None
      OBVIOUS
    <3> QED BY <3>1, <3>2, <3>3 DEF TypeOK
  <2>1. CASE flight = "unconfirmed"
    <3>0. NoActive
      BY <1>6, <2>1 DEF Stop
    <3> USE <2>0, <2>q, <2>o, <2>1, <3>0 DEF NoActive
    <3>1. TypeOK'
      BY DEF TypeOK, Settled, Causes
    <3>2. PendingWork(queue, outcome, native)'
      BY DEF TypeOK, PendingWork
    <3>3. ChildWork(outcome, native)'
      BY DEF TypeOK, PendingWork, ChildWork, HoldsFor
    <3>4. AdmissionWork'
      BY DEF AdmissionWork
    <3>5. PoolWork(queue)'
      BY DEF TypeOK, PoolWork
    <3>6. RefusedWritesNothing'
      BY DEF RefusedWritesNothing
    <3> QED BY <3>1, <3>2, <3>3, <3>4, <3>5, <3>6
  <2>2. CASE flight # "unconfirmed"
    <3>0. cause' = (IF Running(active) THEN "stopped" ELSE cause) /\ UNCHANGED <<active, admission>>
      BY <1>6, <2>2 DEF Stop
    <3>o. outcome' = [k \in Mutations |-> IF k \in Elems(queue) THEN "stopped" ELSE outcome[k]]
      BY <2>o, <2>2
    <3> USE <2>0, <2>q, <3>o, <2>2, <3>0 DEF Running
    <3>1. TypeOK'
      BY DEF TypeOK, Settled, Causes
    <3>2. PendingWork(queue, outcome, native)'
      BY DEF TypeOK, PendingWork
    <3>3. ChildWork(outcome, native)'
      BY DEF TypeOK, PendingWork, ChildWork, HoldsFor
    <3>4. AdmissionWork'
      BY DEF AdmissionWork, TypeOK
    <3>5. PoolWork(queue)'
      BY DEF TypeOK, PoolWork
    <3>6. RefusedWritesNothing'
      BY DEF RefusedWritesNothing
    <3> QED BY <3>1, <3>2, <3>3, <3>4, <3>5, <3>6
  <2> QED BY <2>1, <2>2
<1>7. ASSUME NEW c \in Children, Close(c) PROVE PoolInv'
  <2>0. /\ alive = {}
        /\ native' = Elems(queue)
    BY <1>7 DEF Close, ChildWork, Queued, Elems
  <2>o. /\ outcome' \in [Mutations -> Settled \cup {"new", "pending"}]
        /\ \A m \in Mutations : m # active => outcome'[m] = outcome[m]
        /\ active # None => outcome'[active] = IF cause # "none" THEN cause ELSE "worker_failed"
    BY <1>7 DEF Close, TypeOK, Settled, Causes
  <2>1. TypeOK'
    <3>1. native' \subseteq Mutations
      BY <2>0 DEF Elems, TypeOK
    <3> QED BY <1>7, <2>o, <3>1 DEF Close, TypeOK, NoActive, childVars
  <2>2. PendingWork(queue, outcome, native)'
    BY <1>7, <2>0 DEF Close, TypeOK, NoActive, PendingWork, Settled, Causes
  <2>3. ChildWork(outcome, native)'
    BY <1>7, <2>0 DEF Close, childVars, ChildWork
  <2>4. AdmissionWork'
    BY <1>7, <2>0 DEF Close, childVars, NoActive, AdmissionWork
  <2>5. PoolWork(queue)'
    BY <1>7, <2>0 DEF Close, childVars, PoolWork
  <2>6. RefusedWritesNothing'
    <3>0. committed' = committed
      BY <1>7 DEF Close, childVars
    <3>1. ASSUME NEW m \in Authorized, m # active, outcome'[m] \in {"aborted", "authorization_revoked"}
          PROVE  m \notin committed'
      BY <2>o, <3>0, <3>1 DEF RefusedWritesNothing
    <3>2. ASSUME active \in Authorized, outcome'[active] \in {"aborted", "authorization_revoked"}
          PROVE  active \notin committed'
      <4>1. active # None /\ cause = "aborted"
        BY <2>o, <3>2 DEF TypeOK, Causes
      <4> QED BY <3>0, <3>2, <4>1 DEF AdmissionWork
    <3> QED BY <3>1, <3>2 DEF RefusedWritesNothing
  <2> QED BY <2>1, <2>2, <2>3, <2>4, <2>5, <2>6
<1> QED BY <1>1, <1>2, <1>3, <1>4, <1>5, <1>6, <1>7

(* A message of the child settles the active mutation only when the child   *)
(* is through with it, and admits it at most once.                          *)
LEMMA MessageStep ==
    ASSUME PoolInv, NEW c \in Children, HandleMessage(c)
    PROVE  PoolInv'
<1> USE StorageMutationPoolAssumption DEF PoolInv
<1>0. /\ c = child /\ outbox[c] # None /\ outbox' = [outbox EXCEPT ![c] = None]
      /\ outbox[c] \in Up
      /\ UNCHANGED <<revoked, alive, job, step, committed>>
  BY DEF HandleMessage, childVars, TypeOK
<1>1. CASE ~Running(active)
  <2>0. UNCHANGED <<poolVars, inbox>>
    BY <1>1 DEF HandleMessage
  <2> USE <1>0, <2>0 DEF poolVars
  <2>1. TypeOK'
    BY DEF TypeOK
  <2>2. PendingWork(queue, outcome, native)'
    BY DEF PendingWork
  <2>3. ChildWork(outcome, native)'
    BY DEF ChildWork, HoldsFor, TypeOK
  <2>4. AdmissionWork' /\ PoolWork(queue)' /\ RefusedWritesNothing'
    BY DEF AdmissionWork, PoolWork, RefusedWritesNothing, TypeOK
  <2> QED BY <2>1, <2>2, <2>3, <2>4
<1>2. CASE /\ Running(active) /\ outbox[c].of = active /\ outbox[c].kind = "ask"
           /\ active \in Authorized /\ admission = "none"
  <2>0. Admit(c)
    BY <1>2 DEF HandleMessage
  <2> DEFINE d == [kind |-> IF active \in revoked THEN "deny" ELSE "allow", of |-> active]
  <2>d. /\ d \in Down /\ d.of = active /\ (d.kind = "allow" => active \notin revoked)
        /\ inbox' = [inbox EXCEPT ![c] = d]
    BY <1>2, <2>0 DEF Down, Admit
  <2> HIDE DEF d
  <2>a. /\ admission' \in {"allowed", "denied"}
        /\ admission' = "allowed" => admitted' = admitted \cup {active}
        /\ admission' = "denied" => admitted' = admitted
        /\ active \notin revoked => admission' = "allowed"
        /\ UNCHANGED <<queue, active, cause, child, flight, blocked, accepting, stopped,
                       stopping, due, outcome, native>>
    BY <2>0 DEF Admit
  <2>m. active # None /\ active \notin admitted /\ cause = "none"
    BY <1>2 DEF Running, AdmissionWork
  <2> USE <1>0, <2>d, <2>a, <2>m
  <2>1. TypeOK'
    BY DEF TypeOK
  <2>2. PendingWork(queue, outcome, native)'
    BY DEF PendingWork, TypeOK
  <2>3. ChildWork(outcome, native)'
    BY <1>2 DEF ChildWork, HoldsFor, TypeOK, PendingWork
  <2>4. AdmissionWork'
    BY DEF AdmissionWork, TypeOK
  <2>5. PoolWork(queue)'
    BY DEF PoolWork, TypeOK
  <2>6. RefusedWritesNothing'
    BY DEF RefusedWritesNothing
  <2> QED BY <2>1, <2>2, <2>3, <2>4, <2>5, <2>6
<1>3. ASSUME NEW code \in {"ok", "failed", "authorization_revoked"}, Running(active), SettleActive(code),
             inbox' = inbox, outbox[c].of = active, outbox[c].kind # "ask",
             code = "authorization_revoked" => admission = "denied"
      PROVE  PoolInv'
  <2>0. /\ outcome' = [outcome EXCEPT ![active] = code] /\ native' = native \ {active}
        /\ active' = None /\ cause' = "none" /\ admission' = "none"
        /\ UNCHANGED <<queue, child, flight, blocked, accepting, stopped, stopping, admitted>>
        /\ due' \in BOOLEAN /\ active \in Mutations
    BY <1>3 DEF SettleActive, NoActive, TypeOK, Running
  <2>c. \A x \in alive : x = c /\ step[x] = "idle" /\ inbox'[x] = None /\ outbox'[x] = None
    BY <1>0, <1>3 DEF ChildWork, TypeOK
  <2> USE <1>0, <2>0
  <2>1. TypeOK'
    BY <1>3 DEF TypeOK, Settled
  <2>2. PendingWork(queue, outcome, native)'
    BY DEF PendingWork, TypeOK
  <2>3. ChildWork(outcome, native)'
    BY <2>c DEF ChildWork
  <2>4. AdmissionWork'
    BY <2>c DEF AdmissionWork
  <2>5. PoolWork(queue)'
    BY <1>3 DEF PoolWork, TypeOK
  <2>6. RefusedWritesNothing'
    BY <1>3 DEF RefusedWritesNothing, AdmissionWork, TypeOK
  <2> QED BY <2>1, <2>2, <2>3, <2>4, <2>5, <2>6
<1>4. ASSUME Running(active), TerminateActive("fence_mismatch"), inbox' = inbox
      PROVE  PoolInv'
  <2>1. ChannelsShrink
    BY <1>0, <1>4 DEF ChannelsShrink, TypeOK
  <2>2. UNCHANGED <<revoked, childVars>>
    BY <1>0 DEF childVars
  <2> QED BY <1>4, <2>1, <2>2, TerminateStep DEF Causes
<1>5. CASE /\ Running(active)
           /\ ~(outbox[c].of = active /\ outbox[c].kind = "ask" /\ active \in Authorized /\ admission = "none")
  <2>1. inbox' = inbox
    BY <1>5 DEF HandleMessage
  <2>2. \/ /\ outbox[c].of = active /\ outbox[c].kind = "ok" /\ SettleActive("ok")
        \/ /\ outbox[c].of = active /\ outbox[c].kind = "error" /\ SettleActive("failed")
        \/ /\ outbox[c].of = active /\ outbox[c].kind = "revoked" /\ admission = "denied"
           /\ SettleActive("authorization_revoked")
        \/ TerminateActive("fence_mismatch")
    BY <1>5 DEF HandleMessage
  <2> QED BY <1>5, <2>1, <2>2, <1>3, <1>4
<1> QED BY <1>1, <1>2, <1>5

(* The child's own steps keep to the protocol, and what it commits is the   *)
(* active mutation, or one that was given up, and admitted where it has an  *)
(* authority.                                                               *)
LEMMA ChildWorkStep ==
    ASSUME PoolInv, NEW c \in Children, ChildStep(c) \/ Die(c)
    PROVE  PoolInv'
<1> USE StorageMutationPoolAssumption DEF PoolInv
<1>0. UNCHANGED <<poolVars, revoked>>
  BY DEF ChildStep, Receive, Decided, Invalid, Commit, Respond, Die
<1>1. PendingWork(queue, outcome, native)'
  BY <1>0 DEF PendingWork, poolVars
<1>2. CASE Receive(c)
  <2>0. inbox[c] \in Down /\ inbox[c].of \in Mutations
    BY <1>2 DEF Receive, TypeOK, Down
  <2> DEFINE m == inbox[c].of
             ask == [kind |-> "ask", of |-> m]
  <2>a. ask \in Up /\ ask.of = m /\ ask.kind = "ask"
    BY <2>0 DEF Up
  <2>b. /\ c \in alive /\ step[c] = "idle" /\ inbox[c] # None
        /\ inbox' = [inbox EXCEPT ![c] = None] /\ job' = [job EXCEPT ![c] = m]
        /\ UNCHANGED <<alive, committed>>
        /\ \/ /\ m \in Authorized /\ step' = [step EXCEPT ![c] = "asking"]
              /\ outbox' = [outbox EXCEPT ![c] = ask]
           \/ /\ m \notin Authorized /\ step' = [step EXCEPT ![c] = "admitted"]
              /\ outbox' = outbox
    BY <1>2 DEF Receive
  <2>m. m \in Mutations /\ HoldsFor(m, outcome, native) /\ outbox[c] = None
    BY <2>0, <2>b DEF ChildWork
  <2> HIDE DEF m, ask
  <2> USE <1>0, <2>a, <2>b, <2>m DEF poolVars
  <2>1. TypeOK'
    BY DEF TypeOK
  <2>2. ChildWork(outcome, native)'
    BY DEF ChildWork, HoldsFor, TypeOK
  <2>3. AdmissionWork'
    BY DEF AdmissionWork, TypeOK
  <2>4. PoolWork(queue)'
    BY DEF PoolWork, TypeOK
  <2>5. RefusedWritesNothing'
    BY DEF RefusedWritesNothing
  <2> QED BY <1>1, <2>1, <2>2, <2>3, <2>4, <2>5
<1>3. ASSUME NEW kind \in {"revoked", "ok", "error"}, c \in alive, step[c] # "idle", Finish(c, kind),
             inbox'[c] = None, inbox' \in [Children -> Down \cup {None}],
             \A x \in Children : x # c => inbox'[x] = inbox[x],
             UNCHANGED <<alive, committed>>
      PROVE  PoolInv'
  <2> DEFINE ans == [kind |-> kind, of |-> job[c]]
  <2>0. job[c] \in Mutations /\ HoldsFor(job[c], outcome, native)
    BY <1>3 DEF ChildWork, TypeOK
  <2>a. ans \in Up /\ ans.of = job[c] /\ ans.kind # "ask"
    BY <1>3, <2>0 DEF Up
  <2>b. /\ outbox' = [outbox EXCEPT ![c] = ans]
        /\ job' = [job EXCEPT ![c] = None] /\ step' = [step EXCEPT ![c] = "idle"]
    BY <1>3 DEF Finish
  <2> HIDE DEF ans
  <2> USE <1>0, <1>3, <2>0, <2>a, <2>b DEF poolVars
  <2>1. TypeOK'
    BY DEF TypeOK
  <2>2. ChildWork(outcome, native)'
    BY DEF ChildWork, HoldsFor, TypeOK
  <2>3. AdmissionWork'
    BY DEF AdmissionWork, TypeOK, ChildWork
  <2>4. PoolWork(queue)'
    BY DEF PoolWork, TypeOK
  <2>5. RefusedWritesNothing'
    BY DEF RefusedWritesNothing
  <2> QED BY <1>1, <2>1, <2>2, <2>3, <2>4, <2>5
<1>4. CASE Decided(c)
  <2>0. /\ c \in alive /\ step[c] = "asking" /\ inbox[c] # None
        /\ inbox' = [inbox EXCEPT ![c] = None] /\ UNCHANGED <<alive, committed>>
    BY <1>4 DEF Decided
  <2>1. CASE Finish(c, "revoked")
    BY <2>0, <2>1, <1>3 DEF TypeOK
  <2>2. CASE /\ inbox[c] = [kind |-> "allow", of |-> job[c]]
             /\ step' = [step EXCEPT ![c] = "admitted"]
             /\ UNCHANGED <<job, outbox>>
    <3>a. inbox[c].kind = "allow" /\ inbox[c].of = job[c] /\ outbox[c] = None
      BY <2>0, <2>2 DEF ChildWork
    <3>b. step' = [step EXCEPT ![c] = "admitted"] /\ UNCHANGED <<job, outbox>>
      BY <2>2
    <3> USE <1>0, <2>0, <3>a, <3>b DEF poolVars
    <3>1. TypeOK'
      BY DEF TypeOK
    <3>2. ChildWork(outcome, native)'
      BY DEF ChildWork, HoldsFor, TypeOK
    <3>3. AdmissionWork'
      BY DEF AdmissionWork, TypeOK
    <3>4. PoolWork(queue)'
      BY DEF PoolWork, TypeOK
    <3>5. RefusedWritesNothing'
      BY DEF RefusedWritesNothing
    <3> QED BY <1>1, <3>1, <3>2, <3>3, <3>4, <3>5
  <2> QED BY <1>4, <2>1, <2>2 DEF Decided
<1>5. CASE Invalid(c)
  <2>0. inbox[c] \in Down /\ inbox[c].of \in Mutations
    BY <1>5 DEF Invalid, TypeOK, Down
  <2> DEFINE ans == [kind |-> "error", of |-> inbox[c].of]
  <2>a. ans \in Up /\ ans.of = inbox[c].of /\ ans.kind = "error"
    BY <2>0 DEF Up
  <2>b. /\ c \in alive /\ step[c] = "idle" /\ inbox[c] # None
        /\ inbox' = [inbox EXCEPT ![c] = None] /\ outbox' = [outbox EXCEPT ![c] = ans]
        /\ UNCHANGED <<alive, job, step, committed>>
    BY <1>5 DEF Invalid, childVars
  <2> HIDE DEF ans
  <2> USE <1>0, <2>0, <2>a, <2>b DEF poolVars
  <2>1. TypeOK'
    BY DEF TypeOK
  <2>2. ChildWork(outcome, native)'
    BY DEF ChildWork, HoldsFor, TypeOK
  <2>3. AdmissionWork'
    BY DEF AdmissionWork, TypeOK
  <2>4. PoolWork(queue)'
    BY DEF PoolWork, TypeOK
  <2>5. RefusedWritesNothing'
    BY DEF RefusedWritesNothing
  <2> QED BY <1>1, <2>1, <2>2, <2>3, <2>4, <2>5
<1>6. CASE Commit(c)
  <2>m. /\ job[c] \in Mutations /\ outcome[job[c]] \in {"pending", "termination_unconfirmed"}
    BY <1>6 DEF Commit, ChildWork, HoldsFor, PendingWork, TypeOK
  <2> USE <1>0, <1>6, <2>m DEF Commit, poolVars
  <2>1. TypeOK'
    BY DEF TypeOK
  <2>2. ChildWork(outcome, native)'
    BY DEF ChildWork, HoldsFor, TypeOK
  <2>3. AdmissionWork'
    BY DEF AdmissionWork, TypeOK
  <2>4. PoolWork(queue)'
    BY DEF PoolWork, TypeOK
  <2>5. RefusedWritesNothing'
    BY DEF RefusedWritesNothing
  <2> QED BY <1>1, <2>1, <2>2, <2>3, <2>4, <2>5
<1>7. CASE Respond(c)
  <2>1. PICK kind \in {"ok", "error"} : Finish(c, kind)
    BY <1>7 DEF Respond
  <2>2. /\ c \in alive /\ step[c] \in {"admitted", "done"} /\ inbox' = inbox
        /\ UNCHANGED <<alive, committed>>
    BY <1>7 DEF Respond
  <2>3. inbox[c] = None
    BY <2>2 DEF ChildWork
  <2> QED BY <2>1, <2>2, <2>3, <1>3 DEF TypeOK
<1>8. CASE Die(c)
  <2> USE <1>0, <1>8 DEF Die, poolVars
  <2>1. TypeOK'
    BY DEF TypeOK
  <2>2. ChildWork(outcome, native)'
    BY DEF ChildWork, HoldsFor
  <2>3. AdmissionWork' /\ PoolWork(queue)' /\ RefusedWritesNothing'
    BY DEF AdmissionWork, PoolWork, RefusedWritesNothing
  <2> QED BY <1>1, <2>1, <2>2, <2>3
<1> QED BY <1>2, <1>4, <1>5, <1>6, <1>7, <1>8 DEF ChildStep

-----------------------------------------------------------------------------
(* The theorems *)

(* Every state of the pool satisfies the inductive invariant. *)
THEOREM PoolInvariant == Spec => []PoolInv
<1>1. Init => PoolInv
  <2> SUFFICES ASSUME Init PROVE PoolInv
    OBVIOUS
  <2> USE StorageMutationPoolAssumption DEF Init
  <2>1. TypeOK
    <3>1. queue \in Seq(Mutations) /\ outcome \in [Mutations -> Settled \cup {"new", "pending"}]
      OBVIOUS
    <3>2. /\ job \in [Children -> Mutations \cup {None}]
          /\ step \in [Children -> {"unborn", "idle", "asking", "admitted", "done"}]
          /\ inbox \in [Children -> Down \cup {None}] /\ outbox \in [Children -> Up \cup {None}]
      OBVIOUS
    <3> QED BY <3>1, <3>2 DEF TypeOK
  <2>2. PendingWork(queue, outcome, native)
    BY DEF PendingWork, Distinct, Elems
  <2>3. ChildWork(outcome, native) /\ AdmissionWork /\ PoolWork(queue) /\ RefusedWritesNothing
    BY DEF ChildWork, AdmissionWork, PoolWork, RefusedWritesNothing
  <2> QED BY <2>1, <2>2, <2>3 DEF PoolInv
<1>2. PoolInv /\ [Next]_vars => PoolInv'
  <2> SUFFICES ASSUME PoolInv, [Next]_vars PROVE PoolInv'
    OBVIOUS
  <2>1. ASSUME NEW m \in Mutations, ExecuteRefused(m) \/ ExecuteQueued(m) \/ AbortQueued(m) \/ Revoke(m)
        PROVE  PoolInv'
    BY <2>1, CallerStep
  <2>2. CASE QueuedDrain
    <3>1. DrainReady(queue, outcome, native)
      BY DEF DrainReady, PoolInv, TypeOK, RefusedWritesNothing
    <3> QED BY <2>2, <3>1, DrainStep DEF QueuedDrain
  <2>3. CASE Timeout \/ AbortActive \/ WorkerFails \/ IdleChildError \/ ForceKill \/ FlightFails \/ Stop
    BY <2>3, TerminationStep
  <2>4. ASSUME NEW c \in Children, Close(c) \/ HandleMessage(c) \/ ChildStep(c) \/ Die(c)
        PROVE  PoolInv'
    BY <2>4, TerminationStep, MessageStep, ChildWorkStep
  <2>5. CASE UNCHANGED vars
    BY <2>5 DEF vars, poolVars, childVars, PoolInv, TypeOK, PendingWork, ChildWork, HoldsFor,
                AdmissionWork, PoolWork, RefusedWritesNothing
  <2> QED BY <2>1, <2>2, <2>3, <2>4, <2>5 DEF Next
<1> QED BY <1>1, <1>2, PTL DEF Spec

(* The role storage has one writer, and none once the pool says it stopped, *)
(* whatever was terminated, crashed, hung or was replaced.                  *)
THEOREM OneWriterAtATime == Spec => []SingleWriter
<1>1. PoolInv => SingleWriter
  <2> SUFFICES ASSUME PoolInv PROVE SingleWriter
    OBVIOUS
  <2> USE StorageMutationPoolAssumption DEF PoolInv
  <2>1. OneWriter
    <3>1. alive = {} \/ alive = {child}
      BY DEF ChildWork
    <3>2. Cardinality({}) = 0 /\ Cardinality({child}) = 1
      BY FS_EmptySet, FS_Singleton
    <3> QED BY <3>1, <3>2 DEF OneWriter
  <2>2. StoppedIsQuiet
    <3> SUFFICES ASSUME stopped
                 PROVE  alive = {} /\ native = {} /\ \A m \in Mutations : outcome[m] # "pending"
      BY DEF StoppedIsQuiet
    <3>1. child = None /\ queue = <<>> /\ active = None /\ ~blocked
      BY DEF PoolWork, TypeOK
    <3>2. Elems(queue) = {}
      BY <3>1 DEF Elems
    <3>3. alive = {}
      BY <3>1 DEF ChildWork, TypeOK
    <3>4. \A m \in Mutations : outcome[m] # "pending"
      BY <3>1, <3>2 DEF PendingWork
    <3>5. \A m \in native : FALSE
      BY <3>1, <3>2 DEF PendingWork, TypeOK
    <3> QED BY <3>3, <3>4, <3>5
  <2> QED BY <2>1, <2>2 DEF SingleWriter
<1> QED BY <1>1, PoolInvariant, PTL

(* What the commit admission did not let through is not written, and a      *)
(* caller that is told so can rely on it.                                   *)
THEOREM AdmissionIsDecisive == Spec => []AdmissionDecides
<1>1. PoolInv => AdmissionDecides
  BY DEF PoolInv, AdmissionWork, AdmissionDecides, CommitWasAdmitted
<1> QED BY <1>1, PoolInvariant, PTL

(* No step writes a mutation whose caller has an answer other than          *)
(* termination_unconfirmed, or whose native work was released: a domain     *)
(* write is made by a live child for the active mutation or for one that    *)
(* was given up and is still accounted for.                                 *)
THEOREM AnswersAreFinal == Spec => AnswerIsFinal
<1> DEFINE Final == \A m \in Mutations :
                        \/ outcome[m] \in Settled \ {"termination_unconfirmed"}
                        \/ outcome[m] # "new" /\ m \notin native
                        => (m \in committed' <=> m \in committed)
<1>1. PoolInv /\ [Next]_vars => [Final]_vars
  <2> SUFFICES ASSUME PoolInv, Next PROVE Final
    OBVIOUS
  <2>1. ASSUME NEW c \in Children, Commit(c) PROVE Final
    <3>1. /\ c \in alive /\ step[c] = "admitted" /\ committed' = committed \cup {job[c]}
      BY <2>1 DEF Commit
    <3>2. /\ job[c] \in native /\ outcome[job[c]] \in {"pending", "termination_unconfirmed"}
      BY <3>1 DEF PoolInv, ChildWork, HoldsFor, PendingWork
    <3>3. "pending" \notin Settled
      BY DEF Settled, Causes
    <3> QED BY <3>1, <3>2, <3>3
  <2>2. CASE committed' = committed
    BY <2>2
  <2>3. committed' = committed \/ \E c \in Children : Commit(c)
    BY DEF Next, ExecuteRefused, ExecuteQueued, AbortQueued, Revoke, QueuedDrain, Drain, Timeout,
           AbortActive, WorkerFails, IdleChildError, ForceKill, FlightFails, Stop, Close,
           HandleMessage, ChildStep, Receive, Decided, Invalid, Respond, Die, childVars
  <2> QED BY <2>1, <2>2, <2>3
<1> QED BY <1>1, PoolInvariant, PTL DEF Spec, AnswerIsFinal

-----------------------------------------------------------------------------
(* ProcessLeases, for any launches and calls: the registry's bookkeeping   *)
(* (RegistryInv) and what the calls that closed the launches wait for      *)
(* (CallInv) are inductive together with LeaseTypeOK.                      *)

Inv == LeaseTypeOK /\ RegistryInv /\ CallInv

USE ProcessLeasesAssumption

(* The steps that touch neither the children nor the registry. *)
Elsewhere == UNCHANGED <<proc, registered>>

(* LeaseTypeOK is inductive on its own. *)
LEMMA TypeStep == LeaseTypeOK /\ [LeaseNext]_leaseVars => LeaseTypeOK'
<1> SUFFICES ASSUME LeaseTypeOK, [LeaseNext]_leaseVars PROVE LeaseTypeOK'
  OBVIOUS
<1> USE DEF LeaseTypeOK
<1>1. ASSUME NEW l \in Leases, Launch(l) PROVE LeaseTypeOK'
  BY <1>1 DEF Launch, CanLaunch
<1>2. ASSUME NEW l \in Leases, Exit(l) PROVE LeaseTypeOK'
  BY <1>2 DEF Exit
<1>3. ASSUME NEW l \in Leases, Complete(l) PROVE LeaseTypeOK'
  BY <1>3 DEF Complete
<1>4. ASSUME NEW l \in Leases, StopStep(l) PROVE LeaseTypeOK'
  <2>1. CASE GracefulDeadline(l)
    BY <2>1 DEF GracefulDeadline
  <2>2. CASE StopSucceeds(l)
    BY <2>2 DEF StopSucceeds
  <2>3. CASE StopTimesOut(l)
    BY <2>3 DEF StopTimesOut
  <2> QED
    BY <1>4, <2>1, <2>2, <2>3 DEF StopStep
<1>5. ASSUME NEW c \in Calls, DrainOwner(c) PROVE LeaseTypeOK'
  BY <1>5 DEF DrainOwner, Begin, Active
<1>6. ASSUME NEW c \in Calls, TerminateOwner(c) PROVE LeaseTypeOK'
  BY <1>6 DEF TerminateOwner, Begin, Active, StopEach
<1>7. ASSUME NEW c \in Calls, Terminate(c) PROVE LeaseTypeOK'
  BY <1>7 DEF Terminate, Begin, StopEach
<1>8. ASSUME NEW c \in Calls, DisposeAll(c) PROVE LeaseTypeOK'
  BY <1>8 DEF DisposeAll, Begin, StopEach
<1>9. ASSUME NEW c \in Calls, CallStep(c) PROVE LeaseTypeOK'
  BY <1>9 DEF CallStep, CallReturns, DrainTimesOut
<1>10. ASSUME NEW o \in Owners, ReleaseOwner(o) PROVE LeaseTypeOK'
  BY <1>10 DEF ReleaseOwner
<1>11. CASE UNCHANGED leaseVars
  BY <1>11 DEF leaseVars
<1> QED
  BY <1>1, <1>2, <1>3, <1>4, <1>5, <1>6, <1>7, <1>8, <1>9, <1>10, <1>11 DEF LeaseNext

(* What a step does to the children and the registry: a launch, an exit, a  *)
(* completion, or nothing.                                                  *)
LEMMA ChildSteps ==
  ASSUME LeaseTypeOK, [LeaseNext]_leaseVars
  PROVE  \/ \E l \in Leases : Launch(l) \/ Exit(l) \/ Complete(l)
         \/ Elsewhere
BY DEF LeaseNext, leaseVars, Elsewhere, StopStep, GracefulDeadline, StopSucceeds, StopTimesOut,
       DrainOwner, TerminateOwner, Terminate, DisposeAll, CallStep, CallReturns,
       DrainTimesOut, ReleaseOwner

(* Registering a child that passed launch's checks keeps the owner's limit. *)
LEMMA LimitKept ==
  ASSUME LeaseTypeOK, RegistryInv, NEW l \in Leases, CanLaunch(l),
         registered' = registered \cup {l}, NEW o \in Owners
  PROVE  IsFiniteSet(Active(o)') /\ Cardinality(Active(o)') <= MaxChildren[o]
<1>1. IsFiniteSet(Active(o)) /\ Cardinality(Active(o)) <= MaxChildren[o]
  BY DEF RegistryInv
<1>2. CASE OwnerOf[l] # o
  <2>1. Active(o)' = Active(o)
    BY <1>2 DEF Active, Of
  <2> QED
    BY <1>1, <2>1
<1>3. CASE OwnerOf[l] = o
  <2>1. Active(o)' = Active(o) \cup {l}
    BY <1>3 DEF Active, Of
  <2>2. /\ IsFiniteSet(Active(o) \cup {l})
        /\ Cardinality(Active(o) \cup {l}) = Cardinality(Active(o))
           \/ Cardinality(Active(o) \cup {l}) = Cardinality(Active(o)) + 1
    BY <1>1, FS_AddElement
  <2>3. Cardinality(Active(o)) \in Nat
    BY <1>1, FS_CardinalityType
  <2>4. Cardinality(Active(o)) < MaxChildren[o] /\ MaxChildren[o] \in Nat
    BY <1>3 DEF CanLaunch
  <2> QED
    BY <2>1, <2>2, <2>3, <2>4
<1> QED
  BY <1>2, <1>3

(* A smaller registry keeps every limit. *)
LEMMA LimitShrinks ==
  ASSUME LeaseTypeOK, RegistryInv, registered' \subseteq registered, NEW o \in Owners
  PROVE  IsFiniteSet(Active(o)') /\ Cardinality(Active(o)') <= MaxChildren[o]
<1>1. IsFiniteSet(Active(o)) /\ Cardinality(Active(o)) <= MaxChildren[o]
  BY DEF RegistryInv
<1>2. Active(o)' \subseteq Active(o)
  BY DEF Active, Of
<1>3. IsFiniteSet(Active(o)') /\ Cardinality(Active(o)') <= Cardinality(Active(o))
  BY <1>1, <1>2, FS_Subset
<1>4. Cardinality(Active(o)) \in Nat /\ Cardinality(Active(o)') \in Nat /\ MaxChildren[o] \in Nat
  BY <1>1, <1>3, FS_CardinalityType
<1> QED
  BY <1>1, <1>3, <1>4

(* The registry's bookkeeping is inductive. *)
LEMMA RegistryStep == LeaseTypeOK /\ RegistryInv /\ [LeaseNext]_leaseVars => RegistryInv'
<1> SUFFICES ASSUME LeaseTypeOK, RegistryInv, [LeaseNext]_leaseVars PROVE RegistryInv'
  OBVIOUS
<1> DEFINE Keys(R) == \A l, m \in R : KeyOf[l] = KeyOf[m] /\ KeyOf[l] \in ExclusiveKeys => l = m
<1> DEFINE Limits == \A o \in Owners :
                        IsFiniteSet(Active(o)') /\ Cardinality(Active(o)') <= MaxChildren[o]
<1>1. ASSUME NEW l \in Leases, Launch(l) PROVE RegistryInv'
  <2>1. CASE registered' = registered \cup {l} /\ proc' = [proc EXCEPT ![l] = "running"]
    <3>1. NoOrphan'
      BY <2>1 DEF LeaseTypeOK, RegistryInv, NoOrphan, Runs
    <3>2. Keys(registered')
      BY <1>1, <2>1 DEF Launch, CanLaunch, RegistryInv, LeaseTypeOK
    <3>3. Limits
      BY <1>1, <2>1, LimitKept DEF Launch
    <3> QED
      BY <3>1, <3>2, <3>3 DEF RegistryInv
  <2>2. CASE registered' = registered /\ proc' = [proc EXCEPT ![l] = "dead"]
    <3>1. NoOrphan'
      BY <2>2 DEF LeaseTypeOK, RegistryInv, NoOrphan, Runs
    <3>2. Limits
      BY <2>2, LimitShrinks
    <3> QED
      BY <3>1, <3>2, <2>2 DEF RegistryInv
  <2> QED
    BY <1>1, <2>1, <2>2 DEF Launch
<1>2. ASSUME NEW l \in Leases, Exit(l) \/ Complete(l) PROVE RegistryInv'
  <2>1. registered' \subseteq registered
    BY <1>2 DEF Exit, Complete
  <2>2. NoOrphan'
    BY <1>2 DEF Exit, Complete, LeaseTypeOK, RegistryInv, NoOrphan, Runs
  <2>3. Limits
    BY <2>1, LimitShrinks
  <2> QED
    BY <2>1, <2>2, <2>3 DEF RegistryInv
<1>3. CASE Elsewhere
  <2>1. NoOrphan'
    BY <1>3 DEF Elsewhere, RegistryInv, NoOrphan, Runs
  <2>2. Limits
    BY <1>3, LimitShrinks DEF Elsewhere
  <2> QED
    BY <1>3, <2>1, <2>2 DEF RegistryInv, Elsewhere
<1> QED
  BY <1>1, <1>2, <1>3, ChildSteps

(* What the calls wait for is inductive. *)
LEMMA CallInvStep == LeaseTypeOK /\ CallInv /\ [LeaseNext]_leaseVars => CallInv'
<1> SUFFICES ASSUME LeaseTypeOK, CallInv, [LeaseNext]_leaseVars PROVE CallInv'
  OBVIOUS
<1>1. ASSUME NEW l \in Leases, Launch(l) PROVE CallInv'
  <2>1. ~stoppingAll /\ OwnerOf[l] \notin quiescing
    BY <1>1 DEF Launch, CanLaunch
  <2>2. UNCHANGED <<stoppingAll, quiescing, call, waits, released>> /\ registered' \subseteq registered \cup {l}
    BY <1>1 DEF Launch
  <2> QED
    BY <2>1, <2>2 DEF CallInv, Active, Of
<1>2. ASSUME NEW l \in Leases, Exit(l) \/ Complete(l) \/ GracefulDeadline(l) \/ StopSucceeds(l)
      PROVE CallInv'
  <2>1. UNCHANGED <<stoppingAll, quiescing, call, waits, released>> /\ registered' \subseteq registered
    BY <1>2 DEF Exit, Complete, GracefulDeadline, StopSucceeds
  <2> QED
    BY <2>1 DEF CallInv, Active, Of
<1>3. ASSUME NEW l \in Leases, StopTimesOut(l) PROVE CallInv'
  <2>1. UNCHANGED <<stoppingAll, waits, released, registered>>
    BY <1>3 DEF StopTimesOut
  <2>2. \A c \in Calls : call'[c] = call[c] \/ (call[c] = "waiting" /\ call'[c] = "failed")
    BY <1>3 DEF StopTimesOut, LeaseTypeOK
  <2>3. quiescing' = quiescing \/ stoppingAll
    BY <1>3 DEF StopTimesOut, CallInv, LeaseTypeOK
  <2> QED
    BY <2>1, <2>2, <2>3 DEF CallInv, Active, Of
<1>4. ASSUME NEW c \in Calls, DrainOwner(c) \/ TerminateOwner(c) \/ Terminate(c) PROVE CallInv'
  <2>1. UNCHANGED <<stoppingAll, released, registered>> /\ quiescing \subseteq quiescing'
    BY <1>4 DEF DrainOwner, TerminateOwner, Terminate
  <2>2. /\ call' = [call EXCEPT ![c] = "waiting"]
        /\ \A d \in Calls : d # c => waits'[d] = waits[d]
    BY <1>4 DEF DrainOwner, TerminateOwner, Terminate, Begin, LeaseTypeOK
  <2>3. /\ KindOf[c] # "dispose"
        /\ KindOf[c] \in {"drain", "terminateOwner"} =>
              TargetOf[c] \in quiescing' /\ waits'[c] = Active(TargetOf[c])
    BY <1>4 DEF DrainOwner, TerminateOwner, Terminate, Begin, LeaseTypeOK
  <2> QED
    BY <2>1, <2>2, <2>3 DEF CallInv, Active, Of, LeaseTypeOK
<1>5. ASSUME NEW c \in Calls, DisposeAll(c) PROVE CallInv'
  BY <1>5 DEF DisposeAll, Begin, CallInv, Active, Of, LeaseTypeOK
<1>6. ASSUME NEW c \in Calls, CallReturns(c) PROVE CallInv'
  <2>1. UNCHANGED <<stoppingAll, waits, released, registered>> /\ call' = [call EXCEPT ![c] = "done"]
    BY <1>6 DEF CallReturns
  <2>2. KindOf[c] = "dispose" => registered = {}
    BY <1>6 DEF CallReturns, CallInv, LeaseTypeOK
  <2>3. quiescing' = quiescing \/ stoppingAll
    BY <1>6 DEF CallReturns, CallInv
  <2> QED
    BY <2>1, <2>2, <2>3, <1>6 DEF CallReturns, CallInv, Active, Of, LeaseTypeOK
<1>7. ASSUME NEW c \in Calls, DrainTimesOut(c) PROVE CallInv'
  BY <1>7 DEF DrainTimesOut, CallInv, Active, Of, LeaseTypeOK
<1>8. ASSUME NEW o \in Owners, ReleaseOwner(o) PROVE CallInv'
  BY <1>8 DEF ReleaseOwner, CallInv, Active, Of, LeaseTypeOK
<1>9. CASE UNCHANGED leaseVars
  BY <1>9 DEF leaseVars, CallInv, Active, Of
<1> QED
  BY <1>1, <1>2, <1>3, <1>4, <1>5, <1>6, <1>7, <1>8, <1>9 DEF LeaseNext, StopStep, CallStep

(* The empty registry satisfies the invariant. *)
LEMMA InitInv == LeaseInit => Inv
<1> SUFFICES ASSUME LeaseInit PROVE Inv
  OBVIOUS
<1>1. LeaseTypeOK /\ CallInv
  BY DEF LeaseInit, LeaseTypeOK, CallInv, Active
<1>2. ASSUME NEW o \in Owners PROVE IsFiniteSet(Active(o)) /\ Cardinality(Active(o)) <= MaxChildren[o]
  <2>1. Active(o) = {}
    BY DEF LeaseInit, Active
  <2> QED
    BY <2>1, FS_EmptySet
<1> QED
  BY <1>1, <1>2 DEF LeaseInit, Inv, RegistryInv, NoOrphan, Runs

(* ProcessLeaseRegistry keeps its invariant. *)
THEOREM RegistryInvariant == LeaseSpec => []Inv
<1>1. Inv /\ [LeaseNext]_leaseVars => Inv'
  BY TypeStep, RegistryStep, CallInvStep DEF Inv
<1> QED
  BY InitInv, <1>1, PTL DEF LeaseSpec

(* The variables have their types, and only settled leases are resolved. *)
THEOREM LeaseTypeCorrect == LeaseSpec => []LeaseTypeOK
BY RegistryInvariant, PTL DEF Inv

(* No child runs that the registry does not hold. *)
THEOREM NeverOrphaned == LeaseSpec => []NoOrphan
<1>1. Inv => NoOrphan
  BY DEF Inv, RegistryInv
<1> QED
  BY RegistryInvariant, <1>1, PTL

(* Children of an exclusive key never overlap. *)
THEOREM ExclusiveNeverOverlap == LeaseSpec => []ExclusiveProcess
<1>1. Inv => ExclusiveProcess
  BY DEF Inv, RegistryInv, NoOrphan, ExclusiveProcess
<1> QED
  BY RegistryInvariant, <1>1, PTL

(* maxChildProcesses bounds the running children, not only the registered. *)
THEOREM LimitHolds == LeaseSpec => []ChildLimit
<1>1. ASSUME Inv, NEW o \in Owners
      PROVE Cardinality({l \in Of(o) : Runs(l)}) <= MaxChildren[o]
  <2> DEFINE R == {l \in Of(o) : Runs(l)}
  <2>1. R \subseteq Active(o)
    BY <1>1 DEF Inv, RegistryInv, NoOrphan, Active, Of
  <2>2. IsFiniteSet(Active(o)) /\ Cardinality(Active(o)) <= MaxChildren[o]
    BY <1>1 DEF Inv, RegistryInv
  <2>3. IsFiniteSet(R) /\ Cardinality(R) <= Cardinality(Active(o))
    BY <2>1, <2>2, FS_Subset
  <2>4. Cardinality(R) \in Nat /\ Cardinality(Active(o)) \in Nat /\ MaxChildren[o] \in Nat
    BY <2>2, <2>3, FS_CardinalityType
  <2> QED
    BY <2>2, <2>3, <2>4
<1>2. Inv => ChildLimit
  BY <1>1 DEF ChildLimit
<1> QED
  BY RegistryInvariant, <1>2, PTL

(* A disposed registry has no running child, for good. *)
THEOREM DisposalIsFinal == LeaseSpec => []DisposedForGood
<1>1. Inv => DisposedForGood
  BY DEF Inv, RegistryInv, NoOrphan, CallInv, DisposedForGood
<1> QED
  BY RegistryInvariant, <1>1, PTL

(* The registry speaks for the processes, in all four respects. *)
THEOREM ChildrenHeld == LeaseSpec => []ChildrenAreHeld
<1>1. NoOrphan /\ ExclusiveProcess /\ ChildLimit /\ DisposedForGood => ChildrenAreHeld
  BY DEF ChildrenAreHeld
<1> QED
  BY NeverOrphaned, ExclusiveNeverOverlap, LimitHolds, DisposalIsFinal, <1>1, PTL

(* A drained or terminated owner has no running child when the call returns. *)
THEOREM OwnerIsQuietOnReturn == LeaseSpec => OwnerIsQuiet
<1> DEFINE Quiet == \A c \in Calls :
          /\ KindOf[c] \in {"drain", "terminateOwner"} /\ c \notin released
          /\ call[c] = "waiting" /\ call'[c] = "done"
          => \A l \in Of(TargetOf[c]) : ~Runs(l)
<1>1. ASSUME Inv, [LeaseNext]_leaseVars PROVE [Quiet]_leaseVars
  <2> SUFFICES ASSUME NEW c \in Calls, KindOf[c] \in {"drain", "terminateOwner"}, c \notin released,
                      call[c] = "waiting", call'[c] = "done", NEW l \in Of(TargetOf[c]), Runs(l)
               PROVE FALSE
    OBVIOUS
  <2>1. CallReturns(c)
    <3>1. ASSUME NEW d \in Calls, CallReturns(d) PROVE d = c
      BY <3>1, <1>1 DEF CallReturns, Inv, LeaseTypeOK
    <3>2. ASSUME NEW m \in Leases, StopTimesOut(m) PROVE FALSE
      BY <3>2, <1>1 DEF StopTimesOut, Inv, LeaseTypeOK
    <3>3. ASSUME NEW d \in Calls, DrainOwner(d) \/ TerminateOwner(d) \/ Terminate(d) \/ DisposeAll(d)
          PROVE FALSE
      BY <3>3, <1>1 DEF DrainOwner, TerminateOwner, Terminate, DisposeAll, Begin, Inv, LeaseTypeOK
    <3>4. ASSUME NEW d \in Calls, DrainTimesOut(d) PROVE FALSE
      BY <3>4, <1>1 DEF DrainTimesOut, Inv, LeaseTypeOK
    <3>5. call' # call
      OBVIOUS
    <3> QED
      BY <1>1, <3>1, <3>2, <3>3, <3>4, <3>5 DEF LeaseNext, leaseVars, StopStep, CallStep, Launch, Exit,
         Complete, GracefulDeadline, StopSucceeds, ReleaseOwner
  <2>2. l \in Active(TargetOf[c]) /\ Active(TargetOf[c]) \subseteq waits[c]
    BY <1>1 DEF Inv, RegistryInv, NoOrphan, CallInv, Active, Of
  <2> QED
    BY <2>1, <2>2, <1>1 DEF CallReturns, Inv, LeaseTypeOK, Active, Of
<1>2. Inv /\ [LeaseNext]_leaseVars => [Quiet]_leaseVars
  BY <1>1
<1> QED
  BY RegistryInvariant, <1>2, PTL DEF LeaseSpec, OwnerIsQuiet
=============================================================================
