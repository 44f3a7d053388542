------------------------- MODULE GenerationsProofs -------------------------
(* The invariants of the plugin generation runtime, for every capability     *)
(* graph without cycles and every sequence of calls: the published graph is  *)
(* consistent, an instance has one worker, nobody at work is lost, a         *)
(* shutdown that reports success is quiet, and what leaves the graph has a   *)
(* cause.                                                                    *)
(*                                                                           *)
(* The inductive invariant is stated of flights, scopes, owners and a graph  *)
(* as operands, so that it also describes what lies between the operations   *)
(* of one step.  Most steps only age scopes: they abort, retire or finish.   *)
EXTENDS Generations, TLAPS, FiniteSetTheorems

StartingUp == {"waiting", "admitted", "starting"}

ScopeRecords ==
    [op : BOOLEAN, held : BOOLEAN, late : BOOLEAN, aborted : BOOLEAN, failed : BOOLEAN,
     disposal : {"none", "running", "over"}, clean : BOOLEAN,
     startup : {"none", "running", "failed"} \cup StartingUp, prior : Activations \cup {None}, worker : BOOLEAN]

\* A scope by itself.
ScopeOK(s) ==
    /\ s \in ScopeRecords
    /\ s.disposal # "none" => s.aborted
    /\ s.worker => Working(s) /\ s.startup \in {"starting", "running", "failed"}
    /\ s.startup \in StartingUp => s.op /\ (s.disposal = "none" => s.held)

\* A flight by itself.
FlightOK(f, r) ==
    /\ r = [revision |-> r.revision, external |-> r.external, state |-> r.state, cancelled |-> r.cancelled,
            failed |-> r.failed, registered |-> r.registered, current |-> r.current, done |-> r.done]
    /\ r.state \in {"running", "settled"}
    /\ r.cancelled \in BOOLEAN /\ r.failed \in BOOLEAN /\ r.registered \in BOOLEAN
    /\ r.current \in f[1] \cup {None} /\ r.done \subseteq f[1]
    /\ r.state = "running" => /\ r.registered \/ r.cancelled
                              /\ r.current = None => r.done # f[1]
    /\ r.state = "settled" => r.current = None /\ (r.failed \/ r.done = f[1])

FlightsOK(fl) ==
    /\ fl = [f \in DOMAIN fl |-> fl[f]]
    /\ DOMAIN fl \subseteq (SUBSET Instances) \X Nat /\ IsFiniteSet(DOMAIN fl)
    /\ \A f \in DOMAIN fl : FlightOK(f, fl[f])
    /\ \A f, g \in DOMAIN fl : fl[f].registered /\ fl[g].registered /\ f[1] = g[1] => f = g

\* An activation in its flight: prepared and not failed, it is ready; published
\* once, its flight is over.
InFlight(a, s, r) ==
    LET i == InstanceOf(a) IN
    /\ i \in r.done \/ r.current = i \/ r.state = "settled"
    /\ i \in r.done /\ s.startup = "none" /\ ~s.aborted => ~s.op /\ (s.held <=> i \in Owning)
    /\ s.startup # "none" => i \in r.done /\ ~r.registered /\ r.state = "settled"

ScopesOK(fl, sc) ==
    /\ sc = [a \in DOMAIN sc |-> sc[a]]
    /\ \A a \in DOMAIN sc :
           /\ a \in Activations /\ InstanceOf(a) \in a[1] /\ FlightOf(a) \in DOMAIN fl
           /\ ScopeOK(sc[a]) /\ InFlight(a, sc[a], fl[FlightOf(a)])
    /\ \A f \in DOMAIN fl :
           /\ \A i \in fl[f].done : ActivationOf(f, i) \in DOMAIN sc
           /\ fl[f].current # None => ActivationOf(f, fl[f].current) \in DOMAIN sc /\ fl[f].current \notin fl[f].done

\* A graph: what is in it was published, what was published and is not in it
\* is aborted.
GraphOK(fl, sc, ac) ==
    /\ ac \in [Instances -> Activations \cup {None}]
    /\ \A i \in Instances : ac[i] # None =>
           /\ ac[i] \in DOMAIN sc /\ InstanceOf(ac[i]) = i
           /\ sc[ac[i]].disposal = "none" /\ sc[ac[i]].startup # "none"
    /\ \A a \in DOMAIN sc : sc[a].startup # "none" /\ ac[InstanceOf(a)] # a => sc[a].aborted

OwnersOK(fl, sc, ow, ac) ==
    /\ ow \subseteq DOMAIN sc
    /\ \A a \in DOMAIN sc : Working(sc[a]) => a \in ow \/ ac[InstanceOf(a)] = a \/ fl[FlightOf(a)].registered

\* A worker that runs, or that nothing keeps from starting.
Claims(s) == s.worker \/ (s.startup \in {"admitted", "starting"} /\ ~s.aborted)

WorkersOK(sc) ==
    \A a, b \in DOMAIN sc : a # b /\ InstanceOf(a) = InstanceOf(b) => ~(Claims(sc[a]) /\ Claims(sc[b]))

Binding(fl, a, j) == IF j \in a[1] THEN <<a[1], a[2], j>> ELSE fl[FlightOf(a)].external[j]

BoundOK(fl, g) ==
    \A i \in Instances : g[i] # None => \A j \in Requires[i] : g[j] # None /\ Binding(fl, g[i], j) = g[j]

KernelOK(fl, sc, ow, ac) ==
    /\ FlightsOK(fl) /\ ScopesOK(fl, sc) /\ GraphOK(fl, sc, ac) /\ OwnersOK(fl, sc, ow, ac)
    /\ BoundOK(fl, ac)

\* Failures on their way out.
Entries == [op : {"pump", "dispose"}] \cup [op : {"switch"}, call : Nat] \cup [op : {"failure"}, of : SUBSET Activations]

Queued(q, a) == \E n \in 1..Len(q) : q[n].op = "failure" /\ a \in q[n].of
Finishing(fin, a) == \E g \in fin : a \in g.started

PendingOK(sc, ac, fin, q) ==
    /\ q \in Seq(Entries)
    /\ \A i \in Instances : ac[i] # None =>
           LET s == sc[ac[i]] IN
           /\ s.startup \in StartingUp => Finishing(fin, ac[i])
           /\ s.startup = "failed" => Finishing(fin, ac[i]) \/ Queued(q, ac[i])
           /\ s.aborted /\ s.startup # "failed" => Queued(q, ac[i])
    /\ \A n \in 1..Len(q) : q[n].op = "failure" =>
           \A a \in q[n].of : a \in DOMAIN sc /\ (sc[a].aborted \/ sc[a].startup = "failed")

\* Shutdown.
ShutdownOK(fl, sc, ac, q, st, ss) ==
    /\ st \in {"no", "called", "disposing", "joining", "confirming", "confirmed", "unconfirmed"}
    /\ ss \subseteq DOMAIN sc
    /\ st \notin {"no", "called"} => (\A i \in Instances : ac[i] = None) /\ (\A f \in DOMAIN fl : ~fl[f].registered)
    /\ st = "disposing" => q # <<>> /\ Head(q).op = "dispose"
    /\ st \in {"confirming", "confirmed"} => \A a \in DOMAIN sc : Working(sc[a]) => a \in ss
    /\ st = "confirmed" => \A a \in ss : Confirmed(sc[a])

IInv ==
    /\ KernelOK(flights, scopes, owners, active)
    /\ WorkersOK(scopes)
    /\ PendingOK(scopes, active, finishing, queue)
    /\ ShutdownOK(flights, scopes, active, queue, stop, stopStates)
    /\ \A g \in finishing : g.started \subseteq DOMAIN scopes
    /\ failedRecords \subseteq Instances /\ faults \in 0..MaxFaults
    /\ DOMAIN calls \subseteq Nat

-----------------------------------------------------------------------------
(* Scopes that age.                                                         *)

Ages(s, t) ==
    /\ ScopeOK(t)
    /\ s.aborted => t.aborted
    /\ s.startup = "none" <=> t.startup = "none"
    /\ Working(t) => Working(s)
    /\ Confirmed(s) => Confirmed(t)
    /\ s.startup = "none" /\ ~t.aborted => t.op = s.op /\ t.held = s.held

(* An aborted or retired scope (abort, dispose of effectScope.ts) has aged, *)
(* and claims no worker that it did not claim.                              *)
LEMMA RetiringAges ==
    ASSUME NEW s, ScopeOK(s)
    PROVE  /\ Ages(s, s)
           /\ Ages(s, Dispose(s)) /\ (Claims(Dispose(s)) => Claims(s)) /\ Dispose(s).aborted
           /\ Dispose(s).startup = s.startup /\ (Working(Dispose(s)) <=> Working(s)) /\ Dispose(s).disposal # "none"
           /\ Dispose(s).failed = s.failed
           /\ \A b \in BOOLEAN : /\ Ages(s, [s EXCEPT !.aborted = @ \/ b])
                                 /\ Claims([s EXCEPT !.aborted = @ \/ b]) => Claims(s)
PROOF
<1>1. s \in ScopeRecords
  BY DEF ScopeOK
<1>2. Ages(s, s)
  BY <1>1 DEF Ages, ScopeOK
<1>3. Ages(s, Dispose(s))
  <2> DEFINE d == Dispose(s)
  <2>1. /\ d \in ScopeRecords /\ d.aborted /\ d.disposal # "none"
        /\ d.op = s.op /\ d.held = s.held /\ d.late = s.late /\ d.failed = s.failed
        /\ d.startup = s.startup /\ d.worker = s.worker
        /\ s.disposal # "none" => d.disposal = s.disposal
    BY <1>1, ZenonT(40) DEF ScopeRecords, Dispose
  <2> HIDE DEF d
  <2>2. ScopeOK(d)
    BY <2>1 DEF ScopeOK, Working
  <2>3. Ages(s, d)
    BY <2>1, <2>2 DEF Ages, Working, Confirmed
  <2>. QED
    BY <2>3 DEF d
<1>4. /\ Claims(Dispose(s)) => Claims(s)
      /\ Dispose(s).aborted
      /\ Dispose(s).startup = s.startup /\ (Working(Dispose(s)) <=> Working(s)) /\ Dispose(s).disposal # "none"
      /\ Dispose(s).failed = s.failed
  BY <1>1 DEF ScopeRecords, Claims, Dispose, Working
<1>5. ASSUME NEW b \in BOOLEAN PROVE /\ Ages(s, [s EXCEPT !.aborted = @ \/ b])
                                     /\ Claims([s EXCEPT !.aborted = @ \/ b]) => Claims(s)
  BY <1>1 DEF Ages, ScopeOK, ScopeRecords, StartingUp, Working, Confirmed, Claims
<1>. QED
  BY <1>2, <1>3, <1>4, <1>5

\* What a flight goes through beside its own members.
Eases(r, q) ==
    /\ q = [revision |-> r.revision, external |-> r.external, state |-> r.state, cancelled |-> q.cancelled,
            failed |-> q.failed, registered |-> q.registered, current |-> r.current, done |-> r.done]
    /\ q.cancelled \in BOOLEAN /\ q.failed \in BOOLEAN /\ q.registered \in BOOLEAN
    /\ r.failed => q.failed
    /\ q.registered => r.registered
    /\ q.state = "running" => q.registered \/ q.cancelled

\* Flights begin or ease.
FlightsMove(fl, fl2) ==
    /\ FlightsOK(fl2)
    /\ DOMAIN fl \subseteq DOMAIN fl2
    /\ \A f \in DOMAIN fl : Eases(fl[f], fl2[f])
    /\ \A f \in DOMAIN fl2 \ DOMAIN fl : fl2[f].done = {} /\ fl2[f].current = None

ScopesAge(sc, sc2) ==
    /\ sc2 = [a \in DOMAIN sc |-> sc2[a]]
    /\ \A a \in DOMAIN sc : Ages(sc[a], sc2[a])

\* What leaves the graph is aborted, what stays in it is not disposed of.
GraphShrinks(ac, ac2, sc2) ==
    /\ ac2 = [i \in Instances |-> ac2[i]]
    /\ \A i \in Instances : ac2[i] = None \/ (ac2[i] = ac[i] /\ sc2[ac[i]].disposal = "none")
    /\ \A i \in Instances : ac[i] # None /\ ac2[i] # ac[i] => sc2[ac[i]].aborted

\* No owner that is at work is dropped.
OwnersStay(fl, sc, ow, ac, fl2, sc2, ow2, ac2) ==
    /\ ow2 \subseteq DOMAIN sc
    /\ \A a \in DOMAIN sc : Working(sc2[a]) /\ a \notin ow2 =>
           /\ a \notin ow
           /\ fl[FlightOf(a)].registered => fl2[FlightOf(a)].registered
           /\ ac[InstanceOf(a)] = a => ac2[InstanceOf(a)] = a

(* Flights that only are cancelled, fail, or leave the map stay as they     *)
(* should be: at most one in the map per component.                         *)
LEMMA FlightsEase ==
    ASSUME NEW fl, NEW fl2, FlightsOK(fl),
           fl2 = [f \in DOMAIN fl |-> fl2[f]], \A f \in DOMAIN fl : Eases(fl[f], fl2[f])
    PROVE  FlightsMove(fl, fl2)
PROOF
<1>1. DOMAIN fl2 = DOMAIN fl
  OBVIOUS
<1>2. ASSUME NEW f \in DOMAIN fl PROVE FlightOK(f, fl2[f]) /\ (fl2[f].registered => fl[f].registered)
  BY DEF FlightsOK, FlightOK, Eases
<1>3. FlightsOK(fl2)
  BY <1>1, <1>2 DEF FlightsOK
<1>. QED
  BY <1>1, <1>3 DEF FlightsMove

(* Flights that stay as they are.                                           *)
LEMMA FlightsStay ==
    ASSUME NEW fl, FlightsOK(fl)
    PROVE  FlightsMove(fl, fl)
PROOF
<1>1. \A f \in DOMAIN fl : Eases(fl[f], fl[f])
  BY DEF FlightsOK, FlightOK, Eases
<1>. QED
  BY <1>1 DEF FlightsMove

(* Scopes that age, flights that ease or begin, and a graph from which      *)
(* something is retired: the kernel's invariants survive when what stays in *)
(* the graph is not disposed of and no owner is dropped that is at work.    *)
LEMMA KernelAges ==
    ASSUME NEW fl, NEW sc, NEW ow, NEW ac, NEW fl2, NEW sc2, NEW ow2, NEW ac2,
           KernelOK(fl, sc, ow, ac), FlightsMove(fl, fl2), ScopesAge(sc, sc2), GraphShrinks(ac, ac2, sc2),
           OwnersStay(fl, sc, ow, ac, fl2, sc2, ow2, ac2), BoundOK(fl, ac2)
    PROVE  KernelOK(fl2, sc2, ow2, ac2)
PROOF
<1>0. /\ FlightsOK(fl2)
      /\ DOMAIN fl \subseteq DOMAIN fl2
      /\ \A f \in DOMAIN fl : Eases(fl[f], fl2[f])
      /\ \A f \in DOMAIN fl2 \ DOMAIN fl : fl2[f].done = {} /\ fl2[f].current = None
      /\ sc2 = [a \in DOMAIN sc |-> sc2[a]]
      /\ \A a \in DOMAIN sc : Ages(sc[a], sc2[a])
      /\ ac2 = [i \in Instances |-> ac2[i]]
      /\ \A i \in Instances : ac2[i] = None \/ (ac2[i] = ac[i] /\ sc2[ac[i]].disposal = "none")
      /\ \A i \in Instances : ac[i] # None /\ ac2[i] # ac[i] => sc2[ac[i]].aborted
      /\ ow2 \subseteq DOMAIN sc
      /\ \A a \in DOMAIN sc : Working(sc2[a]) /\ a \notin ow2 =>
             /\ a \notin ow
             /\ fl[FlightOf(a)].registered => fl2[FlightOf(a)].registered
             /\ ac[InstanceOf(a)] = a => ac2[InstanceOf(a)] = a
  BY DEF FlightsMove, ScopesAge, GraphShrinks, OwnersStay
<1>1. DOMAIN sc2 = DOMAIN sc
  BY <1>0
<1>2. \A a \in DOMAIN sc : a \in Activations /\ InstanceOf(a) \in a[1] /\ FlightOf(a) \in DOMAIN fl /\ InstanceOf(a) \in Instances
  BY DEF KernelOK, ScopesOK, Activations, InstanceOf
<1>3. ScopesOK(fl2, sc2)
  <2>1. ASSUME NEW a \in DOMAIN sc PROVE ScopeOK(sc2[a]) /\ InFlight(a, sc2[a], fl2[FlightOf(a)])
    <3>1. /\ InFlight(a, sc[a], fl[FlightOf(a)])
          /\ Ages(sc[a], sc2[a]) /\ Eases(fl[FlightOf(a)], fl2[FlightOf(a)])
      BY <1>0, <1>2 DEF KernelOK, ScopesOK
    <3>2. fl2[FlightOf(a)].registered => fl[FlightOf(a)].registered
      BY <3>1 DEF Eases
    <3>3. /\ fl2[FlightOf(a)].done = fl[FlightOf(a)].done
          /\ fl2[FlightOf(a)].current = fl[FlightOf(a)].current
          /\ fl2[FlightOf(a)].state = fl[FlightOf(a)].state
      BY <3>1 DEF Eases
    <3>. QED
      BY <3>1, <3>2, <3>3 DEF Ages, InFlight
  <2>2. ASSUME NEW f \in DOMAIN fl2
        PROVE /\ \A i \in fl2[f].done : ActivationOf(f, i) \in DOMAIN sc
              /\ fl2[f].current # None => ActivationOf(f, fl2[f].current) \in DOMAIN sc /\ fl2[f].current \notin fl2[f].done
    <3>1. CASE f \in DOMAIN fl
      <4>1. Eases(fl[f], fl2[f])
        BY <1>0, <3>1
      <4>2. fl2[f].done = fl[f].done /\ fl2[f].current = fl[f].current
        BY <4>1 DEF Eases
      <4>. QED
        BY <3>1, <4>2 DEF KernelOK, ScopesOK
    <3>. QED
      BY <1>0, <3>1
  <2>. QED
    BY <1>0, <1>1, <1>2, <2>1, <2>2 DEF ScopesOK
<1>4. GraphOK(fl2, sc2, ac2)
  <2>1. ASSUME NEW i \in Instances, ac2[i] # None
        PROVE /\ ac2[i] \in DOMAIN sc /\ InstanceOf(ac2[i]) = i /\ ac2[i] \in Activations
              /\ sc2[ac2[i]].disposal = "none" /\ sc2[ac2[i]].startup # "none"
    <3>1. ac2[i] = ac[i] /\ ac[i] # None /\ sc2[ac[i]].disposal = "none"
      BY <1>0, <2>1
    <3>2. ac[i] \in DOMAIN sc /\ InstanceOf(ac[i]) = i /\ sc[ac[i]].startup # "none"
      BY <3>1 DEF KernelOK, GraphOK
    <3>. QED
      BY <1>0, <1>2, <3>1, <3>2 DEF Ages
  <2>2. ASSUME NEW a \in DOMAIN sc, sc2[a].startup # "none", ac2[InstanceOf(a)] # a PROVE sc2[a].aborted
    <3>1. sc[a].startup # "none" /\ (sc[a].aborted => sc2[a].aborted)
      BY <1>0, <2>2 DEF Ages
    <3>2. CASE ac[InstanceOf(a)] = a
      <4>1. a # None
        BY <1>2, GenerationsAssumption
      <4>. QED
        BY <1>0, <1>2, <2>2, <3>2, <4>1
    <3>3. CASE ac[InstanceOf(a)] # a
      BY <3>1, <3>3 DEF KernelOK, GraphOK
    <3>. QED
      BY <3>2, <3>3
  <2>. QED
    BY <1>0, <1>1, <2>1, <2>2 DEF GraphOK
<1>5. OwnersOK(fl2, sc2, ow2, ac2)
  <2>1. ASSUME NEW a \in DOMAIN sc, Working(sc2[a]), a \notin ow2
        PROVE ac2[InstanceOf(a)] = a \/ fl2[FlightOf(a)].registered
    BY <1>0, <2>1 DEF KernelOK, OwnersOK, Ages
  <2>. QED
    BY <1>0, <1>1, <2>1 DEF OwnersOK
<1>6. BoundOK(fl2, ac2)
  <2>1. ASSUME NEW i \in Instances, ac2[i] # None, NEW j \in Requires[i] PROVE Binding(fl2, ac2[i], j) = Binding(fl, ac2[i], j)
    <3>1. ac2[i] \in DOMAIN sc
      BY <1>0, <2>1 DEF KernelOK, GraphOK
    <3>2. Eases(fl[FlightOf(ac2[i])], fl2[FlightOf(ac2[i])])
      BY <1>0, <1>2, <3>1
    <3>3. fl2[FlightOf(ac2[i])].external = fl[FlightOf(ac2[i])].external
      BY <3>2 DEF Eases
    <3>. QED
      BY <3>3 DEF Binding
  <2>. QED
    BY <2>1 DEF BoundOK
<1>. QED
  BY <1>0, <1>3, <1>4, <1>5, <1>6 DEF KernelOK

\* Scopes that age without a startup that proceeds.
Wanes(sc, sc2) ==
    /\ sc2 = [a \in DOMAIN sc |-> sc2[a]]
    /\ \A a \in DOMAIN sc : /\ Ages(sc[a], sc2[a])
                            /\ Claims(sc2[a]) => Claims(sc[a])
                            /\ sc2[a].startup = sc[a].startup

(* One after the other, two such changes are one.                           *)
LEMMA WaningIsTransitive ==
    ASSUME NEW sc, NEW sc2, NEW sc3, Wanes(sc, sc2), Wanes(sc2, sc3)
    PROVE  Wanes(sc, sc3)
PROOF
<1>1. DOMAIN sc2 = DOMAIN sc /\ DOMAIN sc3 = DOMAIN sc
  BY DEF Wanes
<1>2. ASSUME NEW a \in DOMAIN sc
      PROVE /\ Ages(sc[a], sc3[a])
            /\ Claims(sc3[a]) => Claims(sc[a])
            /\ sc3[a].startup = sc[a].startup
  <2>1. Ages(sc[a], sc2[a]) /\ Ages(sc2[a], sc3[a])
    BY <1>1 DEF Wanes
  <2>2. Ages(sc[a], sc3[a])
    BY <2>1 DEF Ages
  <2>. QED
    BY <1>1, <2>2 DEF Wanes
<1>. QED
  BY <1>1, <1>2 DEF Wanes

(* A worker that claims nothing new stays the only one.                     *)
LEMMA WorkersWane ==
    ASSUME NEW sc, NEW sc2, WorkersOK(sc), DOMAIN sc2 = DOMAIN sc,
           \A a \in DOMAIN sc : Claims(sc2[a]) => Claims(sc[a])
    PROVE  WorkersOK(sc2)
PROOF
  BY DEF WorkersOK

(* What Append does to the failures that the mutation queue holds.          *)
LEMMA QueueGrows ==
    ASSUME NEW q \in Seq(Entries), NEW e \in Entries
    PROVE  /\ Append(q, e) \in Seq(Entries)
           /\ Append(q, e) # <<>> /\ (q # <<>> => Head(Append(q, e)) = Head(q))
           /\ \A a : Queued(Append(q, e), a) <=> (Queued(q, a) \/ (e.op = "failure" /\ a \in e.of))
PROOF
<1>2. Len(Append(q, e)) = Len(q) + 1 /\ Append(q, e)[Len(q) + 1] = e /\ \A n \in 1..Len(q) : Append(q, e)[n] = q[n]
  OBVIOUS
<1>1. Append(q, e) \in Seq(Entries) /\ Append(q, e) # <<>> /\ (q # <<>> => Head(Append(q, e)) = Head(q))
  <2>1. Append(q, e) \in Seq(Entries) /\ Len(q) \in Nat
    OBVIOUS
  <2>2. Append(q, e) # <<>>
    <3>1. Len(<<>>) = 0
      OBVIOUS
    <3>. QED
      BY <1>2, <2>1, <3>1
  <2>3. ASSUME q # <<>> PROVE Head(Append(q, e)) = Head(q)
    <3>1. Len(q) > 0 /\ Head(q) = q[1]
      BY <2>3
    <3>2. Head(Append(q, e)) = Append(q, e)[1]
      BY <2>1, <2>2
    <3>. QED
      BY <1>2, <2>1, <3>1, <3>2
  <2>. QED
    BY <2>1, <2>2, <2>3
<1>3. ASSUME NEW a, Queued(Append(q, e), a) PROVE Queued(q, a) \/ (e.op = "failure" /\ a \in e.of)
  <2>1. PICK n \in 1..Len(q) + 1 : Append(q, e)[n].op = "failure" /\ a \in Append(q, e)[n].of
    BY <1>2, <1>3 DEF Queued
  <2>2. CASE n = Len(q) + 1
    BY <1>2, <2>1, <2>2
  <2>3. CASE n \in 1..Len(q)
    BY <1>2, <2>1, <2>3 DEF Queued
  <2>. QED
    BY <2>1, <2>2, <2>3
<1>4. ASSUME NEW a, Queued(q, a) \/ (e.op = "failure" /\ a \in e.of) PROVE Queued(Append(q, e), a)
  <2>1. CASE Queued(q, a)
    <3>1. PICK n \in 1..Len(q) : q[n].op = "failure" /\ a \in q[n].of
      BY <2>1 DEF Queued
    <3>. QED
      BY <1>2, <3>1 DEF Queued
  <2>2. CASE e.op = "failure" /\ a \in e.of
    <3>1. Len(q) + 1 \in 1..Len(Append(q, e))
      BY <1>2
    <3>. QED
      BY <1>2, <2>2, <3>1 DEF Queued
  <2>. QED
    BY <1>4, <2>1, <2>2
<1>. QED
  BY <1>1, <1>3, <1>4

(* What Tail does to them.                                                  *)
LEMMA QueueShrinks ==
    ASSUME NEW q \in Seq(Entries), q # <<>>
    PROVE  /\ Head(q) \in Entries /\ Tail(q) \in Seq(Entries)
           /\ \A a : Queued(q, a) <=> (Queued(Tail(q), a) \/ (Head(q).op = "failure" /\ a \in Head(q).of))
PROOF
<1>1. Head(q) \in Entries /\ Tail(q) \in Seq(Entries) /\ Len(q) \in Nat /\ Len(q) > 0 /\ Head(q) = q[1]
  OBVIOUS
<1>2. Len(Tail(q)) = Len(q) - 1 /\ \A n \in 1..Len(q) - 1 : Tail(q)[n] = q[n + 1]
  OBVIOUS
<1>3. ASSUME NEW a, Queued(q, a) PROVE Queued(Tail(q), a) \/ (Head(q).op = "failure" /\ a \in Head(q).of)
  <2>1. PICK n \in 1..Len(q) : q[n].op = "failure" /\ a \in q[n].of
    BY <1>3 DEF Queued
  <2>2. CASE n = 1
    BY <1>1, <2>1, <2>2
  <2>3. CASE n # 1
    <3>1. n - 1 \in 1..Len(Tail(q)) /\ Tail(q)[n - 1] = q[n]
      BY <1>1, <1>2, <2>3
    <3>. QED
      BY <2>1, <3>1 DEF Queued
  <2>. QED
    BY <2>2, <2>3
<1>4. ASSUME NEW a, Queued(Tail(q), a) PROVE Queued(q, a)
  <2>1. PICK n \in 1..Len(q) - 1 : Tail(q)[n].op = "failure" /\ a \in Tail(q)[n].of
    BY <1>2, <1>4 DEF Queued
  <2>2. n + 1 \in 1..Len(q) /\ q[n + 1] = Tail(q)[n]
    BY <1>1, <1>2
  <2>. QED
    BY <2>1, <2>2 DEF Queued
<1>5. ASSUME NEW a, Head(q).op = "failure", a \in Head(q).of PROVE Queued(q, a)
  <2>1. 1 \in 1..Len(q)
    BY <1>1
  <2>. QED
    BY <1>1, <1>5, <2>1 DEF Queued
<1>. QED
  BY <1>1, <1>3, <1>4, <1>5

(* Failures on their way out stay on their way while the graph only loses   *)
(* what is retired.                                                         *)
LEMMA PendingWanes ==
    ASSUME NEW sc, NEW ac, NEW fin, NEW q, NEW sc2, NEW ac2, NEW fin2, NEW q2,
           PendingOK(sc, ac, fin, q), q2 \in Seq(Entries),
           \A a : Queued(q2, a) => Queued(q, a),
           \A i \in Instances : ac2[i] = None
               \/ /\ ac2[i] = ac[i]
                  /\ sc2[ac[i]].startup = sc[ac[i]].startup
                  /\ sc2[ac[i]].aborted = sc[ac[i]].aborted
                  /\ Queued(q, ac[i]) => Queued(q2, ac[i])
                  /\ Finishing(fin, ac[i]) => Finishing(fin2, ac[i]),
           \A a \in DOMAIN sc : a \in DOMAIN sc2 /\ (sc[a].aborted => sc2[a].aborted)
                                /\ (sc[a].startup = "failed" => sc2[a].startup = "failed")
    PROVE  PendingOK(sc2, ac2, fin2, q2)
PROOF
<1>1. ASSUME NEW i \in Instances, ac2[i] # None
      PROVE LET s == sc2[ac2[i]] IN
            /\ s.startup \in StartingUp => Finishing(fin2, ac2[i])
            /\ s.startup = "failed" => Finishing(fin2, ac2[i]) \/ Queued(q2, ac2[i])
            /\ s.aborted /\ s.startup # "failed" => Queued(q2, ac2[i])
  <2>1. /\ ac2[i] = ac[i]
        /\ sc2[ac[i]].startup = sc[ac[i]].startup
        /\ sc2[ac[i]].aborted = sc[ac[i]].aborted
        /\ Queued(q, ac[i]) => Queued(q2, ac[i])
        /\ Finishing(fin, ac[i]) => Finishing(fin2, ac[i])
    BY <1>1
  <2>. QED
    BY <1>1, <2>1 DEF PendingOK
<1>2. ASSUME NEW n \in 1..Len(q2), q2[n].op = "failure", NEW a \in q2[n].of
      PROVE a \in DOMAIN sc2 /\ (sc2[a].aborted \/ sc2[a].startup = "failed")
  <2>1. Queued(q, a)
    BY <1>2 DEF Queued
  <2>2. a \in DOMAIN sc /\ (sc[a].aborted \/ sc[a].startup = "failed")
    BY <2>1 DEF PendingOK, Queued
  <2>. QED
    BY <2>2
<1>. QED
  BY <1>1, <1>2 DEF PendingOK

(* So does a shutdown: nobody begins to work, and who is confirmed stays so. *)
LEMMA ShutdownWanes ==
    ASSUME NEW fl, NEW sc, NEW ac, NEW q, NEW st, NEW ss, NEW fl2, NEW sc2, NEW ac2, NEW q2,
           ShutdownOK(fl, sc, ac, q, st, ss), DOMAIN sc \subseteq DOMAIN sc2,
           \A a \in DOMAIN sc2 : Working(sc2[a]) => a \in DOMAIN sc /\ Working(sc[a]),
           \A a \in DOMAIN sc : Confirmed(sc[a]) => Confirmed(sc2[a]),
           st \notin {"no", "called"} => /\ \A i \in Instances : ac2[i] = ac[i]
                                         /\ \A f \in DOMAIN fl2 : fl2[f].registered => f \in DOMAIN fl /\ fl[f].registered,
           st = "disposing" => q2 # <<>> /\ Head(q2) = Head(q)
    PROVE  ShutdownOK(fl2, sc2, ac2, q2, st, ss)
PROOF
  BY DEF ShutdownOK

-----------------------------------------------------------------------------
(* The capability graph.                                                    *)

(* Upstream is transitive and holds what is required.                       *)
LEMMA UpstreamIsTransitive ==
    /\ \A i \in Instances : Requires[i] \subseteq Upstream[i] /\ Upstream[i] \subseteq Instances
    /\ \A i \in Instances : \A j \in Upstream[i] : Upstream[j] \subseteq Upstream[i]
PROOF
<1>0. \A i \in Instances : Requires[i] \subseteq Instances
  BY GenerationsAssumption
<1>1. \A i \in Instances :
         Upstream[i] = {j \in Instances : \A S \in SUBSET Instances :
             Requires[i] \subseteq S /\ (\A k \in S : Requires[k] \subseteq S) => j \in S}
  BY DEF Upstream
<1>2. ASSUME NEW i \in Instances PROVE Requires[i] \subseteq Upstream[i] /\ Upstream[i] \subseteq Instances
  BY <1>0, <1>1
<1>3. ASSUME NEW i \in Instances, NEW j \in Upstream[i], NEW m \in Upstream[j] PROVE m \in Upstream[i]
  <2>1. j \in Instances /\ m \in Instances
    BY <1>2, <1>3
  <2>2. ASSUME NEW S \in SUBSET Instances, Requires[i] \subseteq S, \A k \in S : Requires[k] \subseteq S PROVE m \in S
    <3>1. j \in S
      BY <1>1, <2>2
    <3>2. Requires[j] \subseteq S
      BY <2>2, <3>1
    <3>. QED
      BY <1>1, <2>1, <2>2, <3>2
  <2>. QED
    BY <1>1, <2>1, <2>2
<1>. QED
  BY <1>2, <1>3

(* What something published requires, directly or through others, is        *)
(* published too.                                                           *)
LEMMA UpstreamIsPublished ==
    ASSUME NEW fl, BoundOK(fl, active), NEW i \in Instances, active[i] # None, NEW j \in Upstream[i]
    PROVE  active[j] # None
PROOF
<1> DEFINE S == {m \in Instances : active[m] # None}
<1>1. \A m \in S : Requires[m] \subseteq S
  BY GenerationsAssumption DEF BoundOK
<1>2. Requires[i] \subseteq S /\ S \in SUBSET Instances
  BY <1>1
<1>3. j \in S
  BY <1>1, <1>2 DEF Upstream
<1>. QED
  BY <1>3

Movable(p) == Rebuilding(p) \ Waiting(p)

Pulled(p) ==
    {k \in Movable(p) : active[k] # None} \cup
    {j \in Movable(p) : \E k \in Movable(p) : active[k] # None /\ j \in Upstream[k]}

Closed(p, S) == \A k \in Pulled(p) : \A j \in Movable(p) \cap Requires[k] : k \in S <=> j \in S

(* What an instance needs of what is wanted and not waiting is so too; what *)
(* it needs is rebuilt only when it is.                                     *)
LEMMA ProvidersOfWanted ==
    ASSUME NEW p, NEW i \in Wanted(p) \ Waiting(p), NEW j \in Upstream[i]
    PROVE  /\ j \in Wanted(p) \ Waiting(p)
           /\ i \notin Rebuilding(p) => j \notin Rebuilding(p) /\ active[j] # None
PROOF
<1>1. i \in Instances /\ j \in Instances
  BY UpstreamIsTransitive DEF Wanted
<1>2. Upstream[i] \subseteq Wanted(p) /\ Upstream[j] \subseteq Upstream[i]
  BY <1>1, UpstreamIsTransitive DEF Waiting
<1>3. j \in Wanted(p) \ Waiting(p)
  BY <1>2 DEF Waiting
<1>4. ASSUME i \notin Rebuilding(p) PROVE j \notin Rebuilding(p) /\ active[j] # None
  <2>1. \A m \in Upstream[i] : ~Changed(p, m)
    BY <1>2, <1>4 DEF Rebuilding
  <2>. QED
    BY <1>2, <2>1 DEF Rebuilding, Changed
<1>. QED
  BY <1>3, <1>4

(* The components of dependencyComponents divide what is rebuilt, and the   *)
(* component of an active instance holds every rebuilt provider of it.      *)
LEMMA ComponentsDivide ==
    ASSUME NEW p, NEW i \in Movable(p)
    PROVE  /\ i \in Component(p, i) /\ Component(p, i) \subseteq Movable(p)
           /\ \A k \in Component(p, i) : Component(p, k) = Component(p, i)
           /\ active[i] # None => \A k \in Component(p, i) : Requires[k] \cap Movable(p) \subseteq Component(p, i)
           /\ active[i] # None => Component(p, i) \subseteq Pulled(p)
PROOF
<1>1. Movable(p) \subseteq Instances
  BY DEF Movable, Rebuilding, Wanted
<1>2. \A m \in Instances : Component(p, m) = {k \in Instances : \A S \in SUBSET Instances : m \in S /\ Closed(p, S) => k \in S}
  BY DEF Component, Closed, Pulled, Movable
<1>3. i \in Component(p, i)
  BY <1>1, <1>2
<1>4. Component(p, i) \subseteq Movable(p)
  <2>1. Closed(p, Movable(p))
    BY DEF Closed, Pulled
  <2>. QED
    BY <1>1, <1>2, <2>1
<1>5. ASSUME NEW k \in Component(p, i) PROVE Component(p, k) = Component(p, i)
  <2>1. k \in Instances /\ i \in Instances
    BY <1>1, <1>4
  <2>2. ASSUME NEW S \in SUBSET Instances, Closed(p, S), k \in S PROVE i \in S
    <3>1. SUFFICES ASSUME i \notin S PROVE FALSE
      OBVIOUS
    <3>2. Closed(p, Instances \ S)
      BY <1>1, <2>2 DEF Closed, Pulled
    <3>. QED
      BY <1>2, <2>1, <2>2, <3>1, <3>2
  <2>3. ASSUME NEW S \in SUBSET Instances, Closed(p, S), i \in S PROVE k \in S
    BY <1>2, <2>1, <2>3
  <2>. QED
    BY <1>2, <2>1, <2>2, <2>3
<1>6. ASSUME active[i] # None, NEW k \in Component(p, i) PROVE k \in Pulled(p)
  <2>1. Closed(p, Pulled(p))
    <3>1. ASSUME NEW m \in Pulled(p), NEW n \in Movable(p) \cap Requires[m] PROVE n \in Pulled(p)
      <4>1. PICK l \in Movable(p) : active[l] # None /\ (m = l \/ m \in Upstream[l])
        BY DEF Pulled
      <4>2. n \in Upstream[l]
        BY <1>1, <3>1, <4>1, UpstreamIsTransitive DEF Pulled
      <4>. QED
        BY <3>1, <4>1, <4>2 DEF Pulled
    <3>. QED
      BY <3>1 DEF Closed
  <2>2. Pulled(p) \subseteq Instances /\ i \in Pulled(p)
    BY <1>1, <1>6 DEF Pulled
  <2>. QED
    BY <1>1, <1>2, <1>6, <2>1, <2>2
<1>7. ASSUME active[i] # None, NEW k \in Component(p, i), NEW j \in Requires[k] \cap Movable(p) PROVE j \in Component(p, i)
  <2>1. k \in Pulled(p)
    BY <1>6, <1>7
  <2>2. ASSUME NEW S \in SUBSET Instances, i \in S, Closed(p, S) PROVE j \in S
    <3>1. k \in S
      BY <1>1, <1>2, <1>7, <2>2
    <3>. QED
      BY <1>7, <2>1, <2>2, <3>1 DEF Closed
  <2>. QED
    BY <1>1, <1>2, <1>7, <2>2
<1>. QED
  BY <1>3, <1>4, <1>5, <1>6, <1>7

Chosen(p, fl, c, next) == CHOOSE f \in Ready(p, fl, c, next) : TRUE

Blocked(c, next) == \E j \in External(c) : next[j] = None

(* The graph that switchNow arrives at, case by case.                       *)
LEMMA NextGraphCases ==
    ASSUME NEW p, NEW fl, NEW next \in NextGraphs(p, fl, Components(p)), NEW i \in Instances
    PROVE  /\ i \notin Wanted(p) \ Waiting(p) => next[i] = None
           /\ i \in Wanted(p) \ Waiting(p) /\ i \notin Rebuilding(p) => next[i] = active[i]
           /\ i \in Movable(p) =>
                  LET c == Component(p, i) IN
                  /\ Blocked(c, next) => next[i] = None
                  /\ ~Blocked(c, next) /\ Ready(p, fl, c, next) = {} => next[i] = active[i]
                  /\ ~Blocked(c, next) /\ Ready(p, fl, c, next) # {} =>
                         /\ Chosen(p, fl, c, next) \in Ready(p, fl, c, next)
                         /\ next[i] = ActivationOf(Chosen(p, fl, c, next), i)
PROOF
<1>1. next[i] = Successor(p, fl, Components(p), next, i)
  BY DEF NextGraphs
<1>2. i \in Movable(p) => Components(p)[i] = Component(p, i)
  BY DEF Components, Movable
<1>3. i \in Movable(p) => i \in Wanted(p) \ Waiting(p) /\ i \in Rebuilding(p)
  BY DEF Movable, Rebuilding
<1>4. ASSUME i \in Movable(p), Ready(p, fl, Component(p, i), next) # {}
      PROVE Chosen(p, fl, Component(p, i), next) \in Ready(p, fl, Component(p, i), next)
  BY <1>4 DEF Chosen
<1>. QED
  BY <1>1, <1>2, <1>3, <1>4 DEF Successor, Chosen, Blocked

(* It consists of activations, and what is new in it are the prepared       *)
(* members of a ready flight of the map, a whole component each time.       *)
LEMMA NextGraphIsPrepared ==
    ASSUME NEW p, NEW fl, FlightsOK(fl), active \in [Instances -> Activations \cup {None}],
           NEW next \in NextGraphs(p, fl, Components(p))
    PROVE  /\ next \in [Instances -> Activations \cup {None}]
           /\ \A i \in Candidates(next) :
                  LET c == Component(p, i)
                      f == Chosen(p, fl, c, next)
                  IN /\ i \in Movable(p) /\ f \in DOMAIN fl /\ f[1] = c /\ ~Blocked(c, next)
                     /\ fl[f].registered /\ fl[f].state = "settled" /\ ~fl[f].failed
                     /\ Fits(p, fl, f, Bindings(c, next))
                     /\ FlightOf(next[i]) = f /\ InstanceOf(next[i]) = i
                     /\ \A k \in c : next[k] = ActivationOf(f, k)
PROOF
<1>1. \A f \in DOMAIN fl : f[1] \in SUBSET Instances /\ f[2] \in Nat /\ f = <<f[1], f[2]>>
  BY DEF FlightsOK
<1>2. next \in [Instances -> Activations \cup {None}]
  <2>1. DEFINE S == {f \in DOMAIN fl : fl[f].registered /\ fl[f].state = "settled" /\ ~fl[f].failed}
  <2>2. ASSUME NEW f \in S, NEW i \in f[1] PROVE ActivationOf(f, i) \in Activations
    BY <1>1, <2>2 DEF ActivationOf, Activations
  <2>3. next \in [Instances -> {None} \cup {active[i] : i \in Instances} \cup UNION {{ActivationOf(f, i) : i \in f[1]} : f \in S}]
    BY DEF NextGraphs
  <2>. QED
    BY <2>2, <2>3
<1>3. ASSUME NEW i \in Candidates(next)
      PROVE LET c == Component(p, i)
                f == Chosen(p, fl, c, next)
            IN /\ i \in Movable(p) /\ f \in DOMAIN fl /\ f[1] = c /\ ~Blocked(c, next)
               /\ fl[f].registered /\ fl[f].state = "settled" /\ ~fl[f].failed
               /\ Fits(p, fl, f, Bindings(c, next))
               /\ FlightOf(next[i]) = f /\ InstanceOf(next[i]) = i
               /\ \A k \in c : next[k] = ActivationOf(f, k)
  <2> DEFINE c == Component(p, i)
             f == Chosen(p, fl, c, next)
  <2>1. i \in Instances /\ next[i] # None /\ next[i] # active[i]
    BY DEF Candidates
  <2>2. i \in Wanted(p) \ Waiting(p) /\ i \in Rebuilding(p)
    BY <2>1, NextGraphCases
  <2>3. i \in Movable(p)
    BY <2>2 DEF Movable
  <2>4. ~Blocked(c, next) /\ Ready(p, fl, c, next) # {} /\ f \in Ready(p, fl, c, next) /\ next[i] = ActivationOf(f, i)
    BY <2>1, <2>3, NextGraphCases
  <2>5. /\ f \in DOMAIN fl /\ f[1] = c /\ fl[f].registered /\ fl[f].state = "settled" /\ ~fl[f].failed
        /\ Fits(p, fl, f, Bindings(c, next))
    BY <2>4 DEF Ready, FlightsOf
  <2>6. FlightOf(next[i]) = f /\ InstanceOf(next[i]) = i
    BY <1>1, <2>4, <2>5 DEF FlightOf, InstanceOf, ActivationOf
  <2>7. ASSUME NEW k \in c PROVE next[k] = ActivationOf(f, k)
    <3>1. k \in Movable(p) /\ Component(p, k) = c /\ k \in Instances
      BY <2>3, ComponentsDivide DEF Movable, Rebuilding, Wanted
    <3>. QED
      BY <2>4, <3>1, NextGraphCases
  <2>. QED
    BY <2>3, <2>4, <2>5, <2>6, <2>7
<1>. QED
  BY <1>2, <1>3

(* Every instance of it is bound to the one it has of what that requires.   *)
LEMMA NextGraphIsBound ==
    ASSUME NEW p, NEW fl, FlightsOK(fl), active \in [Instances -> Activations \cup {None}], BoundOK(fl, active),
           NEW next \in NextGraphs(p, fl, Components(p))
    PROVE  BoundOK(fl, next)
PROOF
<1>1. SUFFICES ASSUME NEW i \in Instances, next[i] # None, NEW j \in Requires[i]
               PROVE  next[j] # None /\ Binding(fl, next[i], j) = next[j]
  BY DEF BoundOK
<1>2. i \in Wanted(p) \ Waiting(p)
  BY <1>1, NextGraphCases
<1>3. j \in Upstream[i] /\ j \in Instances
  BY <1>1, UpstreamIsTransitive
<1>4. j \in Wanted(p) \ Waiting(p)
  BY <1>2, <1>3, ProvidersOfWanted
<1>5. CASE i \notin Rebuilding(p)
  <2>1. next[i] = active[i] /\ next[j] = active[j]
    BY <1>2, <1>3, <1>4, <1>5, ProvidersOfWanted, NextGraphCases
  <2>. QED
    BY <1>1, <2>1 DEF BoundOK
<1>6. CASE i \in Rebuilding(p) /\ next[i] = active[i]
  <2>1. i \in Movable(p)
    BY <1>2, <1>6 DEF Movable
  <2>2. active[j] # None /\ Binding(fl, active[i], j) = active[j]
    BY <1>1, <1>6 DEF BoundOK
  <2>3. CASE next[j] = active[j]
    BY <1>6, <2>2, <2>3
  <2>4. CASE next[j] # active[j]
    <3>1. j \in Movable(p)
      BY <1>3, <1>4, <2>4, NextGraphCases DEF Movable
    <3>2. j \in Component(p, i)
      BY <1>1, <1>6, <2>1, <3>1, ComponentsDivide
    <3>3. Component(p, j) = Component(p, i)
      BY <2>1, <3>2, ComponentsDivide
    <3>4. ~Blocked(Component(p, i), next)
      BY <1>1, <2>1, NextGraphCases
    <3>5. Ready(p, fl, Component(p, i), next) # {}
      BY <1>3, <2>4, <3>1, <3>3, <3>4, NextGraphCases
    <3> DEFINE f == Chosen(p, fl, Component(p, i), next)
    <3>6. next[i] = ActivationOf(f, i) /\ next[j] = ActivationOf(f, j)
      BY <1>3, <2>1, <3>1, <3>3, <3>4, <3>5, NextGraphCases
    <3>7. f[1] = Component(p, i)
      BY <2>1, <3>4, <3>5, NextGraphCases DEF Ready, FlightsOf
    <3>8. Binding(fl, next[i], j) = next[j]
      BY <3>2, <3>6, <3>7 DEF Binding, ActivationOf
    <3>9. next[j] # None
      BY <1>6, <2>2, <3>8
    <3>. QED
      BY <3>8, <3>9
  <2>. QED
    BY <2>3, <2>4
<1>7. CASE i \in Rebuilding(p) /\ next[i] # active[i]
  <2> DEFINE c == Component(p, i)
             f == Chosen(p, fl, c, next)
  <2>1. i \in Candidates(next)
    BY <1>1, <1>7 DEF Candidates
  <2>2. /\ i \in Movable(p) /\ f \in DOMAIN fl /\ f[1] = c /\ ~Blocked(c, next)
        /\ Fits(p, fl, f, Bindings(c, next))
        /\ \A k \in c : next[k] = ActivationOf(f, k)
    BY <2>1, NextGraphIsPrepared
  <2>3. i \in c /\ c \subseteq Instances
    BY <2>2, ComponentsDivide DEF Movable, Rebuilding, Wanted
  <2>4. next[i] = <<c, f[2], i>>
    BY <2>2, <2>3 DEF ActivationOf
  <2>5. CASE j \in c
    <3>1. next[j] = <<c, f[2], j>>
      BY <2>2, <2>5 DEF ActivationOf
    <3>2. next[j] # None
      <4>1. next[j] \in Activations
        BY <2>2, <2>3, <2>5, <3>1 DEF FlightsOK, Activations
      <4>. QED
        BY <4>1, GenerationsAssumption
    <3>. QED
      BY <2>4, <2>5, <3>1, <3>2 DEF Binding
  <2>6. CASE j \notin c
    <3>1. j \in External(c)
      <4>1. j \in UNION {Requires[k] : k \in c}
        BY <1>1, <2>3
      <4>. QED
        BY <2>6, <4>1 DEF External
    <3>2. next[j] # None
      BY <2>2, <3>1 DEF Blocked
    <3>3. FlightOf(next[i]) = f
      BY <2>1, NextGraphIsPrepared
    <3>4. Binding(fl, next[i], j) = fl[f].external[j]
      BY <2>4, <2>6, <3>3 DEF Binding
    <3>5. fl[f].external = Bindings(c, next)
      BY <2>2 DEF Fits
    <3>. QED
      BY <3>1, <3>2, <3>4, <3>5 DEF Bindings
  <2>. QED
    BY <2>5, <2>6
<1>. QED
  BY <1>5, <1>6, <1>7

(* What is published stays in it as long as it is wanted and not waiting:   *)
(* its component lacks no provider, since whatever it needs is published    *)
(* too and, where it is rebuilt, of the same component.                     *)
LEMMA SuccessorStays ==
    ASSUME NEW p, NEW fl, FlightsOK(fl), BoundOK(fl, active), NEW next \in NextGraphs(p, fl, Components(p)),
           NEW i \in Wanted(p) \ Waiting(p), active[i] # None
    PROVE  next[i] # None
PROOF
<1>1. i \in Instances
  BY DEF Wanted
<1>2. CASE i \notin Rebuilding(p)
  BY <1>1, <1>2, NextGraphCases
<1>3. CASE i \in Rebuilding(p)
  <2> DEFINE c == Component(p, i)
             f == Chosen(p, fl, c, next)
  <2>1. i \in Movable(p)
    BY <1>3 DEF Movable
  <2>2. i \in c /\ c \subseteq Movable(p) /\ c \subseteq Pulled(p) /\ \A k \in c : Requires[k] \cap Movable(p) \subseteq c
    BY <2>1, ComponentsDivide
  <2>3. ASSUME Blocked(c, next) PROVE FALSE
    <3>1. PICK j \in External(c) : next[j] = None
      BY <2>3 DEF Blocked
    <3>2. PICK k \in c : j \in Requires[k] /\ j \notin c
      BY <3>1 DEF External
    <3>3. k \in Movable(p) /\ k \in Pulled(p) /\ j \notin Movable(p)
      BY <2>2, <3>2
    <3>4. k \in Instances /\ k \in Wanted(p) \ Waiting(p)
      BY <3>3 DEF Movable, Rebuilding, Wanted
    <3>5. j \in Upstream[k] /\ j \in Instances
      BY <3>2, <3>4, UpstreamIsTransitive
    <3>6. j \in Wanted(p) \ Waiting(p)
      BY <3>4, <3>5, ProvidersOfWanted
    <3>7. j \notin Rebuilding(p)
      BY <3>3, <3>6 DEF Movable
    <3>8. active[j] # None
      <4>1. PICK l \in Movable(p) : active[l] # None /\ (k = l \/ k \in Upstream[l])
        BY <3>3 DEF Pulled
      <4>2. l \in Instances
        BY DEF Movable, Rebuilding, Wanted
      <4>. QED
        BY <3>5, <4>1, <4>2, UpstreamIsTransitive, UpstreamIsPublished
    <3>. QED
      BY <3>1, <3>5, <3>6, <3>7, <3>8, NextGraphCases
  <2>4. ASSUME Ready(p, fl, c, next) # {} PROVE ActivationOf(f, i) \in Activations
    <3>1. f \in Ready(p, fl, c, next)
      BY <2>4 DEF Chosen
    <3>2. f \in DOMAIN fl
      BY <3>1 DEF Ready, FlightsOf
    <3> HIDE DEF f
    <3>3. f[1] \in SUBSET Instances /\ f[2] \in Nat
      BY <3>2 DEF FlightsOK
    <3>. QED
      BY <1>1, <3>3 DEF ActivationOf, Activations
  <2>. QED
    BY <1>1, <2>1, <2>3, <2>4, NextGraphCases, GenerationsAssumption
<1>. QED
  BY <1>2, <1>3

(* An old activation that depends on an uncertain one is uncertain.         *)
LEMMA UncertainGrows ==
    ASSUME NEW seeds, NEW i \in Instances, active[i] # None, NEW j \in Requires[i], j \in Uncertain(seeds)
    PROVE  i \in Uncertain(seeds)
PROOF
<1>1. j \in Upstream[i] /\ Upstream[j] \subseteq Upstream[i]
  BY UpstreamIsTransitive
<1>2. PICK m \in seeds \cap ({j} \cup Upstream[j]) : active[m] # None
  BY DEF Uncertain
<1>3. m \in seeds \cap ({i} \cup Upstream[i])
  BY <1>1, <1>2
<1>. QED
  BY <1>2, <1>3 DEF Uncertain

WithdrawnClosed(p, next, bad, uncertain, S) ==
    /\ bad \subseteq S
    /\ \A i \in S : Components(p)[i] \subseteq S
    /\ \A i \in Candidates(next) : \A j \in Requires[i] :
           j \in S \/ (j \in uncertain /\ next[j] = active[j]) => i \in S

(* What restoreFailedDomain withdraws is closed: whole components, and what *)
(* is bound to them or to an uncertain old activation.                      *)
LEMMA WithdrawnIsClosed ==
    ASSUME NEW p, NEW fl, FlightsOK(fl), active \in [Instances -> Activations \cup {None}],
           \A i \in Instances : active[i] # None => ~fl[FlightOf(active[i])].registered,
           NEW next \in NextGraphs(p, fl, Components(p)),
           NEW plan, plan.next = next, plan.component = Components(p),
           NEW bad \in SUBSET Candidates(next), NEW uncertain
    PROVE  /\ Withdrawn(plan, bad, uncertain) \subseteq Candidates(next)
           /\ WithdrawnClosed(p, next, bad, uncertain, Withdrawn(plan, bad, uncertain))
PROOF
<1> DEFINE C == Candidates(next)
           W == Withdrawn(plan, bad, uncertain)
<1>1. W = {i \in C : \A S \in SUBSET C : WithdrawnClosed(p, next, bad, uncertain, S) => i \in S}
  BY DEF Withdrawn, WithdrawnClosed
<1>2. ASSUME NEW i \in C PROVE Components(p)[i] = Component(p, i) /\ Component(p, i) \subseteq C
  <2>1. i \in Instances /\ i \in Movable(p)
    BY NextGraphIsPrepared DEF Candidates
  <2>2. Components(p)[i] = Component(p, i)
    BY <2>1 DEF Components, Movable
  <2>3. ASSUME NEW k \in Component(p, i) PROVE k \in C
    <3> DEFINE f == Chosen(p, fl, Component(p, i), next)
    <3>1. next[k] = ActivationOf(f, k) /\ f \in DOMAIN fl /\ fl[f].registered /\ f[1] = Component(p, i)
      BY NextGraphIsPrepared
    <3>2. k \in Instances
      BY <2>1, ComponentsDivide DEF Movable, Rebuilding, Wanted
    <3>3. f = <<f[1], f[2]>> /\ f[1] \in SUBSET Instances /\ f[2] \in Nat
      BY <3>1 DEF FlightsOK
    <3>4. FlightOf(next[k]) = f
      BY <3>1, <3>3 DEF FlightOf, ActivationOf
    <3>5. next[k] # None
      <4>1. next[k] \in Activations
        BY <3>1, <3>2, <3>3 DEF ActivationOf, Activations
      <4>. QED
        BY <4>1, GenerationsAssumption
    <3>6. next[k] # active[k]
      BY <3>1, <3>2, <3>4, <3>5
    <3>. QED
      BY <3>2, <3>5, <3>6 DEF Candidates
  <2>. QED
    BY <2>2, <2>3
<1>3. WithdrawnClosed(p, next, bad, uncertain, C)
  BY <1>2 DEF WithdrawnClosed
<1>4. bad \subseteq W
  BY <1>1 DEF WithdrawnClosed
<1>5. ASSUME NEW i \in W, NEW k \in Components(p)[i] PROVE k \in W
  <2>1. k \in C
    BY <1>1, <1>2
  <2>. QED
    BY <1>1, <1>5, <2>1 DEF WithdrawnClosed
<1>6. ASSUME NEW i \in C, NEW j \in Requires[i], j \in W \/ (j \in uncertain /\ next[j] = active[j]) PROVE i \in W
  BY <1>1, <1>6 DEF WithdrawnClosed
<1>7. WithdrawnClosed(p, next, bad, uncertain, W)
  BY <1>4, <1>5, <1>6 DEF WithdrawnClosed
<1>. QED
  BY <1>1, <1>7

(* Without what is uncertain the old graph is bound.                        *)
LEMMA OldGraphIsBound ==
    ASSUME NEW fl, BoundOK(fl, active), NEW seeds
    PROVE  BoundOK(fl, Without(active, Uncertain(seeds)))
PROOF
<1> DEFINE g == Without(active, Uncertain(seeds))
<1>1. \A i \in Instances : g[i] = IF i \in Uncertain(seeds) THEN None ELSE active[i]
  BY DEF Without
<1>2. ASSUME NEW i \in Instances, g[i] # None, NEW j \in Requires[i]
      PROVE  g[j] # None /\ Binding(fl, g[i], j) = g[j]
  <2>1. g[i] = active[i] /\ active[i] # None /\ i \notin Uncertain(seeds)
    BY <1>1, <1>2
  <2>2. j \in Instances /\ active[j] # None /\ Binding(fl, active[i], j) = active[j]
    BY <1>2, <2>1, GenerationsAssumption DEF BoundOK
  <2>3. j \notin Uncertain(seeds)
    BY <1>2, <2>1, UncertainGrows
  <2>. QED
    BY <1>1, <2>1, <2>2, <2>3
<1>. QED
  BY <1>2 DEF BoundOK

\* What stays of the graph that switchNow arrived at when some candidates are
\* withdrawn.
Left(next, kept) == [i \in Instances |-> IF i \in Candidates(next) \ kept THEN active[i] ELSE next[i]]

(* The graph that a publication leaves is bound, whatever failed in it.     *)
LEMMA LeftGraphIsBound ==
    ASSUME NEW p, NEW fl, FlightsOK(fl), active \in [Instances -> Activations \cup {None}], BoundOK(fl, active),
           NEW next \in NextGraphs(p, fl, Components(p)), NEW seeds, NEW bad, NEW W \in SUBSET Candidates(next),
           WithdrawnClosed(p, next, bad, Uncertain(seeds), W)
    PROVE  BoundOK(fl, Without(Left(next, Candidates(next) \ W), Uncertain(seeds)))
PROOF
<1> DEFINE C == Candidates(next)
           U == Uncertain(seeds)
           left == Left(next, C \ W)
           g == Without(left, U)
<1>1. ASSUME NEW i \in Instances
      PROVE  /\ left[i] = IF i \in W THEN active[i] ELSE next[i]
             /\ g[i] = IF i \in U /\ left[i] = active[i] THEN None ELSE left[i]
  BY DEF Left, Without
<1>2. \A i \in Instances : i \notin C => next[i] = None \/ next[i] = active[i]
  BY DEF Candidates
<1>3. ASSUME NEW i \in Instances, g[i] # None, NEW j \in Requires[i]
      PROVE  g[j] # None /\ Binding(fl, g[i], j) = g[j]
  <2>1. j \in Instances
    BY <1>3, GenerationsAssumption
  <2>2. next[i] # None => next[j] # None /\ Binding(fl, next[i], j) = next[j]
    BY <1>3, NextGraphIsBound DEF BoundOK
  <2>3. active[i] # None => active[j] # None /\ Binding(fl, active[i], j) = active[j]
    BY <1>3 DEF BoundOK
  <2>4. active[i] # None /\ j \in U => i \in U
    BY <1>3, UncertainGrows
  <2>5. CASE i \in C \ W
    <3>1. g[i] = next[i] /\ next[i] # None
      BY <1>1, <2>5 DEF Candidates
    <3>2. j \notin W /\ ~(j \in U /\ next[j] = active[j])
      BY <1>3, <2>5 DEF WithdrawnClosed
    <3>3. g[j] = next[j]
      BY <1>1, <2>1, <3>2
    <3>. QED
      BY <2>2, <3>1, <3>3
  <2>6. CASE i \in W
    <3>1. g[i] = active[i] /\ active[i] # None /\ i \notin U
      BY <1>1, <1>3, <2>6
    <3>2. next[i] # None /\ next[j] # None
      BY <2>2, <2>6 DEF Candidates
    <3>3. j \notin C \ W
      <4>1. SUFFICES ASSUME j \in C \ W PROVE FALSE
        OBVIOUS
      <4>2. i \in Movable(p) /\ j \in Movable(p)
        BY <2>6, <4>1, NextGraphIsPrepared
      <4>3. j \in Component(p, i)
        BY <1>3, <3>1, <4>2, ComponentsDivide
      <4>4. Components(p)[i] = Component(p, i)
        BY <1>3, <4>2 DEF Components, Movable
      <4>. QED
        BY <2>6, <4>1, <4>3, <4>4 DEF WithdrawnClosed
    <3>4. left[j] = active[j]
      BY <1>1, <1>2, <2>1, <3>2, <3>3
    <3>5. g[j] = active[j]
      BY <1>1, <2>1, <2>4, <3>1, <3>4
    <3>. QED
      BY <2>3, <3>1, <3>5
  <2>7. CASE i \notin C
    <3>1. g[i] = next[i] /\ next[i] = active[i] /\ active[i] # None /\ i \notin U
      BY <1>1, <1>2, <1>3, <2>7
    <3>2. next[j] = active[j]
      BY <2>2, <2>3, <3>1
    <3>3. j \notin W
      BY <3>2 DEF Candidates
    <3>4. g[j] = active[j]
      BY <1>1, <2>1, <2>4, <3>1, <3>2, <3>3
    <3>. QED
      BY <2>3, <3>1, <3>4
  <2>. QED
    BY <2>5, <2>6, <2>7
<1>. QED
  BY <1>3 DEF BoundOK

-----------------------------------------------------------------------------
(* The operations on flights, scopes and owners.                            *)

\* A record of flights, scopes and owners.
Works(k) == k = [flights |-> k.flights, scopes |-> k.scopes, owners |-> k.owners]

(* retireStates: what it retires ages, the rest stays as it is.             *)
LEMMA RetireWanes ==
    ASSUME NEW k, NEW as, \A a \in DOMAIN k.scopes : ScopeOK(k.scopes[a])
    PROVE  /\ Works(Retire(k, as)) /\ Retire(k, as).flights = k.flights
           /\ Wanes(k.scopes, Retire(k, as).scopes)
           /\ \A a \in DOMAIN k.scopes :
                  IF a \in as THEN Retire(k, as).scopes[a].aborted ELSE Retire(k, as).scopes[a] = k.scopes[a]
           /\ Retire(k, as).owners = Registered(k.owners, Retire(k, as).scopes, as)
PROOF
<1> DEFINE sc == [a \in DOMAIN k.scopes |-> IF a \in as THEN Dispose(k.scopes[a]) ELSE k.scopes[a]]
<1>1. Retire(k, as) = [flights |-> k.flights, scopes |-> sc, owners |-> Registered(k.owners, sc, as)]
  BY DEF Retire
<1>2. ASSUME NEW a \in DOMAIN k.scopes
      PROVE /\ Ages(k.scopes[a], sc[a]) /\ (Claims(sc[a]) => Claims(k.scopes[a])) /\ sc[a].startup = k.scopes[a].startup
            /\ IF a \in as THEN sc[a].aborted ELSE sc[a] = k.scopes[a]
  BY RetiringAges
<1>3. Wanes(k.scopes, sc)
  BY <1>2 DEF Wanes
<1>4. /\ Works(Retire(k, as)) /\ Retire(k, as).flights = k.flights /\ Retire(k, as).scopes = sc
      /\ Retire(k, as).owners = Registered(k.owners, sc, as)
  BY <1>1 DEF Works
<1> HIDE DEF sc
<1>. QED
  BY <1>2, <1>3, <1>4

(* Retiring what leaves the graph keeps the kernel's invariants.            *)
LEMMA RetireKernel ==
    ASSUME NEW k, NEW as, NEW ac, NEW ac2, KernelOK(k.flights, k.scopes, k.owners, ac),
           as \subseteq DOMAIN k.scopes, BoundOK(k.flights, ac2), ac2 = [i \in Instances |-> ac2[i]],
           \A i \in Instances : ac2[i] = None \/ (ac2[i] = ac[i] /\ ac[i] \notin as),
           \A i \in Instances : ac[i] # None /\ ac2[i] # ac[i] => ac[i] \in as
    PROVE  KernelOK(Retire(k, as).flights, Retire(k, as).scopes, Retire(k, as).owners, ac2)
PROOF
<1> DEFINE k2 == Retire(k, as)
<1>0. \A a \in DOMAIN k.scopes : ScopeOK(k.scopes[a])
  BY DEF KernelOK, ScopesOK
<1>1. /\ k2.flights = k.flights /\ Wanes(k.scopes, k2.scopes)
      /\ \A a \in DOMAIN k.scopes : IF a \in as THEN k2.scopes[a].aborted ELSE k2.scopes[a] = k.scopes[a]
      /\ k2.owners = Registered(k.owners, k2.scopes, as)
  BY <1>0, RetireWanes
<1> HIDE DEF k2
<1>2. FlightsMove(k.flights, k2.flights)
  BY <1>1, FlightsStay DEF KernelOK
<1>4. ScopesAge(k.scopes, k2.scopes)
  BY <1>1 DEF Wanes, ScopesAge
<1>5. \A i \in Instances : ac2[i] = None \/ (ac2[i] = ac[i] /\ k2.scopes[ac[i]].disposal = "none")
  <2>1. SUFFICES ASSUME NEW i \in Instances, ac2[i] # None PROVE ac2[i] = ac[i] /\ k2.scopes[ac[i]].disposal = "none"
    OBVIOUS
  <2>2. ac2[i] = ac[i] /\ ac[i] # None /\ ac[i] \notin as
    BY <2>1
  <2>3. ac[i] \in DOMAIN k.scopes /\ k.scopes[ac[i]].disposal = "none"
    BY <2>2 DEF KernelOK, GraphOK
  <2>. QED
    BY <1>1, <2>2, <2>3
<1>6. \A i \in Instances : ac[i] # None /\ ac2[i] # ac[i] => k2.scopes[ac[i]].aborted
  BY <1>1
<1>7. k2.owners \subseteq DOMAIN k.scopes
  BY <1>1 DEF Registered, KernelOK, OwnersOK
<1>8. ASSUME NEW a \in DOMAIN k.scopes, Working(k2.scopes[a]), a \notin k2.owners
      PROVE  a \notin k.owners /\ (ac[InstanceOf(a)] = a => ac2[InstanceOf(a)] = a)
  <2>1. a \notin k.owners /\ a \notin as
    BY <1>1, <1>8 DEF Registered, Confirmed
  <2>2. ASSUME ac[InstanceOf(a)] = a PROVE ac2[InstanceOf(a)] = a
    <3>1. InstanceOf(a) \in Instances /\ a # None
      BY GenerationsAssumption DEF KernelOK, ScopesOK, Activations, InstanceOf
    <3>. QED
      BY <2>1, <2>2, <3>1
  <2>. QED
    BY <2>1, <2>2
<1>9. OwnersStay(k.flights, k.scopes, k.owners, ac, k2.flights, k2.scopes, k2.owners, ac2)
  BY <1>1, <1>7, <1>8 DEF OwnersStay
<1>10. GraphShrinks(ac, ac2, k2.scopes)
  BY <1>5, <1>6 DEF GraphShrinks
<1>11. KernelOK(k2.flights, k2.scopes, k2.owners, ac2)
  BY <1>2, <1>4, <1>9, <1>10, KernelAges
<1>. QED
  BY <1>11 DEF k2

\* What lies between the operations of one step.
Stage(k) ==
    /\ Works(k)
    /\ KernelOK(k.flights, k.scopes, k.owners, active)
    /\ Wanes(scopes, k.scopes)
    /\ \A i \in Instances : active[i] # None => k.scopes[active[i]] = scopes[active[i]]
    /\ DOMAIN flights \subseteq DOMAIN k.flights
    /\ \A f \in DOMAIN flights : /\ k.flights[f].done = flights[f].done
                                 /\ k.flights[f].external = flights[f].external

(* The members of a flight that is in the map, or that runs, are not        *)
(* published.                                                               *)
LEMMA FlyingIsNotPublished ==
    ASSUME NEW fl, NEW sc, NEW ow, NEW ac, KernelOK(fl, sc, ow, ac), NEW f \in DOMAIN fl,
           fl[f].registered \/ fl[f].state = "running", NEW i \in Instances, ac[i] # None
    PROVE  FlightOf(ac[i]) # f
PROOF
<1>1. ac[i] \in DOMAIN sc /\ sc[ac[i]].startup # "none"
  BY DEF KernelOK, GraphOK
<1>2. InFlight(ac[i], sc[ac[i]], fl[FlightOf(ac[i])])
  BY <1>1 DEF KernelOK, ScopesOK
<1>3. ~fl[FlightOf(ac[i])].registered /\ fl[FlightOf(ac[i])].state = "settled"
  BY <1>1, <1>2 DEF InFlight
<1>. QED
  BY <1>3

(* What a flight of the map has prepared was begun, and is not published.   *)
LEMMA PreparedIsNotPublished ==
    ASSUME NEW k, Stage(k), NEW f \in DOMAIN flights, k.flights[f].registered \/ k.flights[f].state = "running"
    PROVE  /\ Prepared(f) \subseteq DOMAIN scopes
           /\ \A a \in Prepared(f) : FlightOf(a) = f /\ InstanceOf(a) \in f[1] /\ a[1] = f[1]
           /\ \A i \in Instances : active[i] # None => active[i] \notin Prepared(f)
PROOF
<1>1. f \in DOMAIN k.flights /\ k.flights[f].done = flights[f].done
  BY DEF Stage
<1>2. f \in (SUBSET Instances) \X Nat /\ FlightOK(f, k.flights[f])
  BY <1>1 DEF Stage, KernelOK, FlightsOK
<1>3. f = <<f[1], f[2]>>
  BY <1>2
<1>4. \A i \in flights[f].done : ActivationOf(f, i) \in DOMAIN k.scopes
  BY <1>1 DEF Stage, KernelOK, ScopesOK
<1>5. DOMAIN k.scopes = DOMAIN scopes
  BY DEF Stage, Wanes
<1>6. ASSUME NEW a \in Prepared(f) PROVE a \in DOMAIN scopes /\ FlightOf(a) = f /\ InstanceOf(a) \in f[1] /\ a[1] = f[1]
  <2>1. PICK i \in flights[f].done : a = ActivationOf(f, i)
    BY DEF Prepared
  <2>2. i \in f[1]
    BY <1>1, <1>2 DEF FlightOK
  <2>. QED
    BY <1>3, <1>4, <1>5, <2>1, <2>2 DEF FlightOf, InstanceOf, ActivationOf
<1>7. \A i \in Instances : active[i] # None => FlightOf(active[i]) # f
  BY <1>1, FlyingIsNotPublished DEF Stage
<1>. QED
  BY <1>6, <1>7

(* Retiring what is not published.                                          *)
LEMMA RetireStage ==
    ASSUME NEW k, Stage(k), NEW as \in SUBSET DOMAIN scopes, \A i \in Instances : active[i] # None => active[i] \notin as
    PROVE  /\ Stage(Retire(k, as)) /\ Retire(k, as).flights = k.flights
           /\ \A a \in DOMAIN scopes \ as : Retire(k, as).scopes[a] = k.scopes[a]
PROOF
<1> DEFINE k2 == Retire(k, as)
<1>1. DOMAIN k.scopes = DOMAIN scopes
  BY DEF Stage, Wanes
<1>2. \A a \in DOMAIN k.scopes : ScopeOK(k.scopes[a])
  BY DEF Stage, KernelOK, ScopesOK
<1>3. /\ Works(k2) /\ k2.flights = k.flights /\ Wanes(k.scopes, k2.scopes)
      /\ \A a \in DOMAIN k.scopes : IF a \in as THEN k2.scopes[a].aborted ELSE k2.scopes[a] = k.scopes[a]
  BY <1>2, RetireWanes, ZenonT(40)
<1>4. KernelOK(k2.flights, k2.scopes, k2.owners, active)
  <2>1. active = [i \in Instances |-> active[i]] /\ BoundOK(k.flights, active)
    BY DEF Stage, KernelOK, GraphOK
  <2>2. KernelOK(k.flights, k.scopes, k.owners, active)
    BY DEF Stage
  <2>. QED
    BY <1>1, <2>1, <2>2, RetireKernel
<1> HIDE DEF k2
<1>5. Wanes(scopes, k2.scopes)
  BY <1>3, WaningIsTransitive DEF Stage
<1>6. \A i \in Instances : active[i] # None => k2.scopes[active[i]] = scopes[active[i]]
  <2>1. \A i \in Instances : active[i] # None => active[i] \in DOMAIN k.scopes
    BY DEF Stage, KernelOK, GraphOK
  <2>. QED
    BY <1>3, <2>1 DEF Stage
<1>7. Stage(k2)
  BY <1>3, <1>4, <1>5, <1>6 DEF Stage
<1>. QED
  BY <1>1, <1>3, <1>7 DEF k2

(* Between two steps.                                                       *)
LEMMA NowIsStage == KernelOK(flights, scopes, owners, active) => Stage(Now)
PROOF
<1>1. SUFFICES ASSUME KernelOK(flights, scopes, owners, active) PROVE Stage(Now)
  OBVIOUS
<1>2. Now.flights = flights /\ Now.scopes = scopes /\ Now.owners = owners /\ Works(Now)
  BY DEF Now, Works
<1>3. Wanes(scopes, scopes)
  BY <1>1, RetiringAges DEF Wanes, KernelOK, ScopesOK
<1>. QED
  BY <1>1, <1>2, <1>3 DEF Stage

(* Flights that ease or begin, with the rest as it is.                      *)
LEMMA FlightsMoveStage ==
    ASSUME NEW k, Stage(k), NEW k2, Works(k2), k2.scopes = k.scopes, k2.owners = k.owners,
           FlightsMove(k.flights, k2.flights),
           \A f \in DOMAIN k.flights : k.flights[f].registered => k2.flights[f].registered
    PROVE  Stage(k2)
PROOF
<1>1. KernelOK(k.flights, k.scopes, k.owners, active)
  BY DEF Stage
<1>2. ScopesAge(k.scopes, k.scopes) /\ k.scopes = [a \in DOMAIN k.scopes |-> k.scopes[a]]
  BY <1>1, RetiringAges DEF KernelOK, ScopesOK, ScopesAge
<1>3. GraphShrinks(active, active, k.scopes)
  BY <1>1 DEF GraphShrinks, KernelOK, GraphOK
<1>4. OwnersStay(k.flights, k.scopes, k.owners, active, k2.flights, k.scopes, k.owners, active)
  <2>1. \A a \in DOMAIN k.scopes : FlightOf(a) \in DOMAIN k.flights
    BY <1>1 DEF KernelOK, ScopesOK
  <2>. QED
    BY <1>1, <2>1 DEF OwnersStay, KernelOK, OwnersOK
<1>5. BoundOK(k.flights, active)
  BY <1>1 DEF KernelOK
<1>6. KernelOK(k2.flights, k.scopes, k.owners, active)
  BY <1>1, <1>2, <1>3, <1>4, <1>5, KernelAges
<1>7. /\ DOMAIN flights \subseteq DOMAIN k2.flights
      /\ \A f \in DOMAIN flights : k2.flights[f].done = flights[f].done /\ k2.flights[f].external = flights[f].external
  <2>1. ASSUME NEW f \in DOMAIN flights
        PROVE f \in DOMAIN k2.flights /\ k2.flights[f].done = flights[f].done /\ k2.flights[f].external = flights[f].external
    <3>1. f \in DOMAIN k.flights /\ k.flights[f].done = flights[f].done /\ k.flights[f].external = flights[f].external
      BY DEF Stage
    <3>2. f \in DOMAIN k2.flights /\ Eases(k.flights[f], k2.flights[f])
      BY <3>1 DEF FlightsMove
    <3>3. k2.flights[f].done = k.flights[f].done /\ k2.flights[f].external = k.flights[f].external
      BY <3>2 DEF Eases
    <3>. QED
      BY <3>1, <3>2, <3>3
  <2>. QED
    BY <2>1
<1>. QED
  BY <1>6, <1>7 DEF Stage

(* FailedFlights only lets flights fail.                                    *)
LEMMA FailingEases ==
    ASSUME NEW fl, FlightsOK(fl), NEW fs
    PROVE  FlightsMove(fl, FailedFlights(fl, fs))
           /\ DOMAIN FailedFlights(fl, fs) = DOMAIN fl
           /\ \A f \in DOMAIN fl : FailedFlights(fl, fs)[f].registered = fl[f].registered
                                   /\ FailedFlights(fl, fs)[f].state = fl[f].state
PROOF
<1> DEFINE fl2 == FailedFlights(fl, fs)
<1>1. fl2 = [f \in DOMAIN fl |-> fl2[f]] /\ DOMAIN fl2 = DOMAIN fl
  BY DEF FailedFlights
<1>2. ASSUME NEW f \in DOMAIN fl PROVE Eases(fl[f], fl2[f]) /\ fl2[f].registered = fl[f].registered /\ fl2[f].state = fl[f].state
  <2>1. fl2[f] = [fl[f] EXCEPT !.failed = fl[f].failed \/ f \in fs]
    BY DEF FailedFlights
  <2>2. FlightOK(f, fl[f])
    BY DEF FlightsOK
  <2>. QED
    BY <2>1, <2>2 DEF FlightOK, Eases
<1> HIDE DEF fl2
<1>3. FlightsMove(fl, fl2)
  BY <1>1, <1>2, FlightsEase
<1>. QED
  BY <1>1, <1>2, <1>3 DEF fl2

(* cancelInitialization of flights of the map.                              *)
LEMMA CancelStage ==
    ASSUME NEW k, Stage(k), NEW fs \in SUBSET DOMAIN flights, \A f \in fs : k.flights[f].registered
    PROVE  /\ Stage(Cancel(k, fs))
           /\ DOMAIN Cancel(k, fs).flights = DOMAIN k.flights
           /\ \A f \in DOMAIN k.flights : /\ Cancel(k, fs).flights[f].registered <=> k.flights[f].registered /\ f \notin fs
                                          /\ Cancel(k, fs).flights[f].state = k.flights[f].state
                                          /\ Cancel(k, fs).flights[f].failed = k.flights[f].failed
                                          /\ f \notin fs => Cancel(k, fs).flights[f] = k.flights[f]
PROOF
<1> DEFINE begun == UNION {Begun(f) : f \in fs}
           settled == UNION {Prepared(f) : f \in {g \in fs : k.flights[g].state = "settled"}}
           fl == [f \in DOMAIN k.flights |->
                     IF f \in fs THEN [k.flights[f] EXCEPT !.cancelled = TRUE, !.registered = FALSE] ELSE k.flights[f]]
           sc == [a \in DOMAIN k.scopes |-> IF a \in settled THEN Dispose(k.scopes[a])
                                            ELSE [k.scopes[a] EXCEPT !.aborted = @ \/ a \in begun]]
           ow == Registered(k.owners \cup begun, sc, settled)
<1>1. Cancel(k, fs) = [flights |-> fl, scopes |-> sc, owners |-> ow]
  BY DEF Cancel
<1>2. KernelOK(k.flights, k.scopes, k.owners, active) /\ DOMAIN k.scopes = DOMAIN scopes /\ DOMAIN flights \subseteq DOMAIN k.flights
  BY DEF Stage, Wanes
<1>3. ASSUME NEW f \in DOMAIN k.flights
      PROVE /\ Eases(k.flights[f], fl[f])
            /\ fl[f].registered <=> k.flights[f].registered /\ f \notin fs
            /\ fl[f].state = k.flights[f].state /\ fl[f].failed = k.flights[f].failed
            /\ f \notin fs => fl[f] = k.flights[f]
  <2>1. FlightOK(f, k.flights[f])
    BY <1>2 DEF KernelOK, FlightsOK
  <2>. QED
    BY <2>1, ZenonT(40) DEF FlightOK, Eases
<1>4. FlightsMove(k.flights, fl)
  <2>1. FlightsOK(k.flights)
    BY <1>2 DEF KernelOK
  <2>2. fl = [f \in DOMAIN k.flights |-> fl[f]]
    BY ZenonT(40)
  <2> HIDE DEF fl
  <2>. QED
    BY <1>3, <2>1, <2>2, FlightsEase
<1>5. settled \subseteq DOMAIN scopes /\ begun \subseteq DOMAIN scopes
      /\ \A i \in Instances : active[i] # None => active[i] \notin settled /\ active[i] \notin begun
  <2>1. ASSUME NEW f \in fs
        PROVE Prepared(f) \subseteq DOMAIN scopes /\ \A i \in Instances : active[i] # None => active[i] \notin Prepared(f)
    BY PreparedIsNotPublished
  <2>2. ASSUME NEW f \in fs, NEW i \in Instances, active[i] # None PROVE active[i] \notin Begun(f)
    BY <1>2, <2>2, FlyingIsNotPublished DEF Begun
  <2>. QED
    BY <2>1, <2>2 DEF Begun
<1>6. ASSUME NEW a \in DOMAIN k.scopes
      PROVE /\ Ages(k.scopes[a], sc[a]) /\ (Claims(sc[a]) => Claims(k.scopes[a])) /\ sc[a].startup = k.scopes[a].startup
            /\ a \notin begun /\ a \notin settled => sc[a] = k.scopes[a]
  <2>1. ScopeOK(k.scopes[a])
    BY <1>2 DEF KernelOK, ScopesOK
  <2>2. CASE a \in settled
    <3>1. sc[a] = Dispose(k.scopes[a])
      BY <2>2
    <3>. QED
      BY <2>1, <2>2, <3>1, RetiringAges
  <2>3. CASE a \notin settled
    <3> DEFINE b == a \in begun
    <3>1. sc[a] = [k.scopes[a] EXCEPT !.aborted = k.scopes[a].aborted \/ b]
      BY <2>3
    <3>2. b \in BOOLEAN
      OBVIOUS
    <3>3. sc[a].startup = k.scopes[a].startup /\ (~b => sc[a] = k.scopes[a])
      BY <2>1, <3>1 DEF ScopeOK, ScopeRecords
    <3> HIDE DEF b
    <3>4. Ages(k.scopes[a], sc[a]) /\ (Claims(sc[a]) => Claims(k.scopes[a]))
      BY <2>1, <3>1, <3>2, RetiringAges
    <3>. QED
      BY <2>3, <3>3, <3>4 DEF b
  <2>. QED
    BY <2>2, <2>3
<1>7. Wanes(k.scopes, sc) /\ ScopesAge(k.scopes, sc) /\ DOMAIN sc = DOMAIN scopes
  BY <1>2, <1>6 DEF Wanes, ScopesAge
<1>8. \A i \in Instances : active[i] # None => sc[active[i]] = k.scopes[active[i]]
  <2>1. \A i \in Instances : active[i] # None => active[i] \in DOMAIN k.scopes
    BY <1>2 DEF KernelOK, GraphOK
  <2>. QED
    BY <1>5, <1>6, <2>1, ZenonT(40)
<1> HIDE DEF sc, fl
<1>9. GraphShrinks(active, active, sc)
  BY <1>2, <1>8 DEF GraphShrinks, KernelOK, GraphOK
<1>10. OwnersStay(k.flights, k.scopes, k.owners, active, fl, sc, ow, active)
  <2>1. ow \subseteq DOMAIN k.scopes
    BY <1>2, <1>5 DEF Registered, KernelOK, OwnersOK
  <2>2. ASSUME NEW a \in DOMAIN k.scopes, Working(sc[a]), a \notin ow
        PROVE a \notin k.owners /\ (k.flights[FlightOf(a)].registered => fl[FlightOf(a)].registered)
    <3>1. a \notin k.owners /\ a \notin begun
      BY <2>2 DEF Registered, Confirmed
    <3>2. FlightOf(a) \notin fs
      BY <1>2, <3>1 DEF Begun
    <3>3. FlightOf(a) \in DOMAIN k.flights
      BY <1>2 DEF KernelOK, ScopesOK
    <3>. QED
      BY <1>3, <3>1, <3>2, <3>3
  <2>. QED
    BY <2>1, <2>2 DEF OwnersStay
<1> HIDE DEF ow
<1>11. BoundOK(k.flights, active) /\ KernelOK(k.flights, k.scopes, k.owners, active)
  BY <1>2 DEF KernelOK
<1>12. KernelOK(fl, sc, ow, active)
  BY <1>4, <1>7, <1>9, <1>10, <1>11, KernelAges
<1>13. Wanes(scopes, sc)
  BY <1>7, WaningIsTransitive DEF Stage
<1>14. /\ DOMAIN fl = DOMAIN k.flights
       /\ \A f \in DOMAIN flights : fl[f].done = flights[f].done /\ fl[f].external = flights[f].external
  <2>1. DOMAIN fl = DOMAIN k.flights
    BY DEF fl
  <2>2. ASSUME NEW f \in DOMAIN flights PROVE fl[f].done = flights[f].done /\ fl[f].external = flights[f].external
    <3>1. f \in DOMAIN k.flights /\ k.flights[f].done = flights[f].done /\ k.flights[f].external = flights[f].external
      BY DEF Stage
    <3>2. Eases(k.flights[f], fl[f])
      BY <1>3, <3>1
    <3>. QED
      BY <3>1, <3>2 DEF Eases
  <2>. QED
    BY <2>1, <2>2
<1>15. /\ Works(Cancel(k, fs)) /\ Cancel(k, fs).flights = fl /\ Cancel(k, fs).scopes = sc /\ Cancel(k, fs).owners = ow
  BY <1>1 DEF Works
<1>16. Stage(Cancel(k, fs))
  BY <1>2, <1>8, <1>12, <1>13, <1>14, <1>15 DEF Stage
<1>. QED
  BY <1>3, <1>14, <1>15, <1>16

\* Flights that begin: one per component, where the map has none.
FreshOK(fl, fresh) ==
    /\ DOMAIN fresh \subseteq (SUBSET Instances) \X Nat /\ IsFiniteSet(DOMAIN fresh)
    /\ \A f \in DOMAIN fresh : FlightOK(f, fresh[f]) /\ fresh[f].done = {} /\ fresh[f].current = None
    /\ \A f, g \in DOMAIN fresh : f[1] = g[1] => f = g
    /\ \A f \in DOMAIN fl, g \in DOMAIN fresh : fl[f].registered => f[1] # g[1]

(* The flights that a switch plans: it cancels, uses and gives up flights   *)
(* of the map, and begins one only where it cancelled what did not fit.     *)
LEMMA PlanIsOK ==
    ASSUME NEW p, NEW fl, FlightsOK(fl), active \in [Instances -> Activations \cup {None}],
           NEW next \in NextGraphs(p, fl, Components(p))
    PROVE  LET plan == Plan(p, fl, Components(p), next) IN
           /\ plan.next = next /\ plan.component = Components(p)
           /\ plan.stale \subseteq DOMAIN fl /\ \A f \in plan.stale : fl[f].registered
           /\ plan.ready \cup plan.spent \subseteq DOMAIN fl \ plan.stale
           /\ \A f \in plan.ready \cup plan.spent : fl[f].registered /\ fl[f].state = "settled"
           /\ \A f \in plan.ready : ~fl[f].failed
           /\ \A i \in Candidates(next) : Chosen(p, fl, Component(p, i), next) \in plan.ready
           /\ DOMAIN plan.fresh \subseteq (SUBSET Instances) \X Nat /\ IsFiniteSet(DOMAIN plan.fresh)
           /\ \A f \in DOMAIN plan.fresh : /\ FlightOK(f, plan.fresh[f])
                                           /\ plan.fresh[f].done = {} /\ plan.fresh[f].current = None
           /\ \A f, g \in DOMAIN plan.fresh : f[1] = g[1] => f = g
           /\ \A f \in DOMAIN fl, g \in DOMAIN plan.fresh : fl[f].registered /\ f[1] = g[1] => f \in plan.stale
PROOF
<1> DEFINE tried == {c \in {Components(p)[i] : i \in Rebuilding(p) \ Waiting(p)} : \A j \in External(c) : next[j] # None}
           fitting(c) == {f \in FlightsOf(fl, c) : Fits(p, fl, f, Bindings(c, next))}
           number(c) == 1 + Cardinality({f \in DOMAIN fl : f[1] = c})
           fits == UNION {fitting(c) : c \in tried}
           begin == {d \in tried : fitting(d) = {}}
           fresh == {<<c, number(c)>> : c \in begin}
           plan == Plan(p, fl, Components(p), next)
<1>1. /\ plan.next = next /\ plan.component = Components(p)
      /\ plan.stale = (UNION {FlightsOf(fl, c) : c \in tried}) \ fits
      /\ plan.ready = {f \in fits : fl[f].state = "settled" /\ ~fl[f].failed}
      /\ plan.spent = {f \in fits : fl[f].state = "settled" /\ fl[f].failed}
      /\ plan.fresh = [f \in fresh |-> NewFlight(p, f[1], Bindings(f[1], next))]
  BY DEF Plan
<1> HIDE DEF plan
<1>2. \A c \in tried : fitting(c) \subseteq FlightsOf(fl, c)
  OBVIOUS
<1>3. \A c \in tried : \A f \in FlightsOf(fl, c) : f \in DOMAIN fl /\ fl[f].registered /\ f[1] = c
  BY DEF FlightsOf
<1>4. \A f \in fits : f \in DOMAIN fl /\ fl[f].registered
  BY <1>2, <1>3
<1>5. plan.stale \subseteq DOMAIN fl /\ \A f \in plan.stale : fl[f].registered
  BY <1>1, <1>3
<1>6. /\ plan.ready \cup plan.spent \subseteq DOMAIN fl \ plan.stale
      /\ \A f \in plan.ready \cup plan.spent : fl[f].registered /\ fl[f].state = "settled"
      /\ \A f \in plan.ready : ~fl[f].failed
  BY <1>1, <1>4
<1>7. ASSUME NEW c \in tried PROVE c \in SUBSET Instances /\ c # {}
  <2>1. PICK i \in Rebuilding(p) \ Waiting(p) : c = Components(p)[i]
    OBVIOUS
  <2>2. i \in Movable(p) /\ i \in Instances
    BY <2>1 DEF Movable, Rebuilding, Wanted
  <2>3. c = Component(p, i)
    BY <2>1, <2>2 DEF Components, Movable
  <2>. QED
    BY <2>2, <2>3, ComponentsDivide DEF Movable, Rebuilding, Wanted
<1>8. IsFiniteSet(tried)
  <2>1. tried \in SUBSET (SUBSET Instances)
    BY <1>7
  <2>2. IsFiniteSet(SUBSET Instances)
    BY FS_SUBSET, GenerationsAssumption
  <2>. QED
    BY <2>1, <2>2, FS_Subset
<1>9. \A c \in tried : number(c) \in Nat
  <2>1. ASSUME NEW c PROVE Cardinality({f \in DOMAIN fl : f[1] = c}) \in Nat
    <3>1. IsFiniteSet({f \in DOMAIN fl : f[1] = c})
      BY FS_Subset DEF FlightsOK
    <3>. QED
      BY <3>1, FS_CardinalityType
  <2>. QED
    BY <2>1
<1>10. IsFiniteSet(begin)
  BY <1>8, FS_Subset
<1> HIDE DEF number, begin
<1>11. begin \subseteq tried /\ \A c \in begin : fitting(c) = {}
  BY DEF begin
<1>12. /\ fresh \subseteq (SUBSET Instances) \X Nat /\ IsFiniteSet(fresh)
       /\ \A f \in fresh : f[1] \in begin
       /\ \A f, g \in fresh : f[1] = g[1] => f = g
  <2>1. IsFiniteSet(fresh)
    <3> DEFINE h == [c \in begin |-> <<c, number(c)>>]
    <3>1. h \in Surjection(begin, fresh)
      BY DEF Surjection
    <3>. QED
      BY <1>10, <3>1, FS_Surjection
  <2>. QED
    BY <1>7, <1>9, <1>11, <2>1
<1>13. ASSUME NEW f \in fresh
       PROVE /\ FlightOK(f, plan.fresh[f]) /\ plan.fresh[f].done = {} /\ plan.fresh[f].current = None
  <2>1. plan.fresh[f] = NewFlight(p, f[1], Bindings(f[1], next)) /\ f[1] # {}
    BY <1>1, <1>7, <1>11, <1>12
  <2>. QED
    BY <2>1 DEF FlightOK, NewFlight
<1>14. ASSUME NEW f \in DOMAIN fl, NEW g \in fresh, fl[f].registered, f[1] = g[1] PROVE f \in plan.stale
  <2>1. g[1] \in tried /\ fitting(g[1]) = {}
    BY <1>11, <1>12
  <2>2. f \in FlightsOf(fl, g[1])
    BY <1>14 DEF FlightsOf
  <2>3. ASSUME NEW c \in tried, f \in fitting(c) PROVE FALSE
    BY <1>14, <2>1, <2>3 DEF FlightsOf
  <2>4. f \notin fits
    BY <2>3
  <2>. QED
    BY <1>1, <2>1, <2>2, <2>4
<1>15. ASSUME NEW i \in Candidates(next) PROVE Chosen(p, fl, Component(p, i), next) \in plan.ready
  <2> DEFINE c == Component(p, i)
             f == Chosen(p, fl, c, next)
  <2>1. /\ i \in Movable(p) /\ f \in DOMAIN fl /\ f[1] = c /\ ~Blocked(c, next)
        /\ fl[f].registered /\ fl[f].state = "settled" /\ ~fl[f].failed /\ Fits(p, fl, f, Bindings(c, next))
    BY NextGraphIsPrepared
  <2>2. c \in tried
    BY <2>1 DEF Components, Movable, Rebuilding, Wanted, Blocked
  <2>3. f \in fitting(c)
    BY <2>1 DEF FlightsOf
  <2>. QED
    BY <1>1, <2>1, <2>2, <2>3
<1>16. DOMAIN plan.fresh = fresh
  BY <1>1
<1> HIDE DEF fresh, tried, fits
<1>. QED
  BY <1>1, <1>5, <1>6, <1>12, <1>13, <1>14, <1>15, <1>16, ZenonT(40) DEF plan

(* Planned flights begin.                                                   *)
LEMMA BeginsStage ==
    ASSUME NEW k, Stage(k), NEW plan, FreshOK(k.flights, plan.fresh)
    PROVE  /\ Stage(Begins(k, plan))
           /\ DOMAIN k.flights \subseteq DOMAIN Begins(k, plan).flights
           /\ Begins(k, plan).scopes = k.scopes /\ Begins(k, plan).owners = k.owners
           /\ \A f \in DOMAIN k.flights : Begins(k, plan).flights[f].registered = k.flights[f].registered
                                          /\ Begins(k, plan).flights[f].state = k.flights[f].state
PROOF
<1> DEFINE failed == FailedFlights(k.flights, Overlapping(k.flights, UNION {f[1] : f \in plan.spent}))
           fl == [f \in DOMAIN failed \cup DOMAIN plan.fresh |-> IF f \in DOMAIN failed THEN failed[f] ELSE plan.fresh[f]]
           k2 == Begins(k, plan)
<1>1. k2 = [k EXCEPT !.flights = fl]
  BY DEF Begins
<1>2. k2 = [flights |-> fl, scopes |-> k.scopes, owners |-> k.owners]
  BY <1>1 DEF Stage, Works
<1>3. Works(k2) /\ k2.flights = fl /\ k2.scopes = k.scopes /\ k2.owners = k.owners
  BY <1>2 DEF Works
<1>4. FlightsOK(k.flights)
  BY DEF Stage, KernelOK
<1>5. /\ FlightsMove(k.flights, failed) /\ DOMAIN failed = DOMAIN k.flights
      /\ \A f \in DOMAIN k.flights : failed[f].registered = k.flights[f].registered /\ failed[f].state = k.flights[f].state
  BY <1>4, FailingEases
<1> HIDE DEF k2, failed
<1>6. DOMAIN fl = DOMAIN k.flights \cup DOMAIN plan.fresh /\ fl = [f \in DOMAIN fl |-> fl[f]]
  BY <1>5
<1>7. /\ \A f \in DOMAIN k.flights : fl[f] = failed[f]
      /\ \A f \in DOMAIN fl \ DOMAIN k.flights : fl[f] = plan.fresh[f] /\ f \in DOMAIN plan.fresh
  BY <1>5, <1>6
<1> HIDE DEF fl
<1>8. FlightsOK(fl)
  <2>1. IsFiniteSet(DOMAIN fl) /\ DOMAIN fl \subseteq (SUBSET Instances) \X Nat
    <3>1. IsFiniteSet(DOMAIN k.flights) /\ IsFiniteSet(DOMAIN plan.fresh)
      BY <1>4 DEF FlightsOK, FreshOK
    <3>2. IsFiniteSet(DOMAIN k.flights \cup DOMAIN plan.fresh)
      BY <3>1, FS_Union
    <3>3. DOMAIN k.flights \subseteq (SUBSET Instances) \X Nat /\ DOMAIN plan.fresh \subseteq (SUBSET Instances) \X Nat
      BY <1>4 DEF FlightsOK, FreshOK
    <3>. QED
      BY <1>6, <3>2, <3>3
  <2>2. ASSUME NEW f \in DOMAIN fl PROVE FlightOK(f, fl[f])
    <3>1. CASE f \in DOMAIN k.flights
      BY <1>5, <1>7, <3>1 DEF FlightsMove, FlightsOK
    <3>2. CASE f \notin DOMAIN k.flights
      BY <1>7, <3>2 DEF FreshOK
    <3>. QED
      BY <3>1, <3>2
  <2>3. ASSUME NEW f \in DOMAIN fl, NEW g \in DOMAIN fl, fl[f].registered, fl[g].registered, f[1] = g[1] PROVE f = g
    <3>1. CASE f \in DOMAIN k.flights /\ g \in DOMAIN k.flights
      BY <1>4, <1>5, <1>7, <2>3, <3>1 DEF FlightsOK
    <3>2. CASE f \notin DOMAIN k.flights /\ g \notin DOMAIN k.flights
      BY <1>7, <2>3, <3>2 DEF FreshOK
    <3>3. CASE f \in DOMAIN k.flights /\ g \notin DOMAIN k.flights
      BY <1>5, <1>7, <2>3, <3>3 DEF FreshOK
    <3>4. CASE f \notin DOMAIN k.flights /\ g \in DOMAIN k.flights
      BY <1>5, <1>7, <2>3, <3>4 DEF FreshOK
    <3>. QED
      BY <3>1, <3>2, <3>3, <3>4
  <2>. QED
    BY <1>6, <2>1, <2>2, <2>3 DEF FlightsOK
<1>9. FlightsMove(k.flights, fl)
  <2>1. \A f \in DOMAIN k.flights : Eases(k.flights[f], fl[f])
    BY <1>5, <1>7 DEF FlightsMove
  <2>2. \A f \in DOMAIN fl \ DOMAIN k.flights : fl[f].done = {} /\ fl[f].current = None
    BY <1>7 DEF FreshOK
  <2>. QED
    BY <1>6, <1>8, <2>1, <2>2 DEF FlightsMove
<1>10. \A f \in DOMAIN k.flights : fl[f].registered = k.flights[f].registered /\ fl[f].state = k.flights[f].state
  BY <1>5, <1>7
<1>11. Stage(k2)
  BY <1>3, <1>9, <1>10, FlightsMoveStage
<1>. QED
  BY <1>3, <1>6, <1>10, <1>11 DEF k2

\* Publication reads the plan of a switch: what is ready in it is prepared and
\* still in the map, and what it would publish comes from there.
PlanOK(p, fl, plan, k) ==
    /\ FlightsOK(fl) /\ BoundOK(fl, active)
    /\ \A i \in Instances : active[i] # None => FlightOf(active[i]) \in DOMAIN fl /\ ~fl[FlightOf(active[i])].registered
    /\ DOMAIN fl = DOMAIN flights /\ \A f \in DOMAIN fl : fl[f].external = flights[f].external
    /\ plan.component = Components(p) /\ plan.next \in NextGraphs(p, fl, Components(p))
    /\ plan.ready \subseteq DOMAIN flights
    /\ \A f \in plan.ready : k.flights[f].registered /\ k.flights[f].state = "settled" /\ flights[f].done = f[1]
    /\ \A i \in Candidates(plan.next) : /\ FlightOf(plan.next[i]) \in plan.ready /\ InstanceOf(plan.next[i]) = i
                                        /\ i \in FlightOf(plan.next[i])[1]

(* What switchNow does before it publishes: it cancels what does not fit,   *)
(* begins what is missing and gives up what failed.                         *)
LEMMA SwitchStage ==
    ASSUME NEW k, Stage(k), DOMAIN k.flights = DOMAIN flights, NEW p,
           NEW next \in NextGraphs(p, k.flights, Components(p)),
           NEW plan, plan = Plan(p, k.flights, Components(p), next),
           NEW left, left = Cancel(k, plan.stale), NEW begun, begun = Begins(left, plan),
           NEW after, after = Retire(begun, UNION {Prepared(f) : f \in plan.spent})
    PROVE  Stage(after) /\ PlanOK(p, k.flights, plan, after)
PROOF
<1> DEFINE given == UNION {Prepared(f) : f \in plan.spent}
<1>1. /\ FlightsOK(k.flights) /\ BoundOK(k.flights, active) /\ active \in [Instances -> Activations \cup {None}]
      /\ KernelOK(k.flights, k.scopes, k.owners, active)
  BY DEF Stage, KernelOK, GraphOK
<1>a. /\ plan.next = next /\ plan.component = Components(p)
      /\ plan.stale \subseteq DOMAIN k.flights /\ \A f \in plan.stale : k.flights[f].registered
      /\ plan.ready \cup plan.spent \subseteq DOMAIN k.flights \ plan.stale
      /\ \A f \in plan.ready \cup plan.spent : k.flights[f].registered /\ k.flights[f].state = "settled"
      /\ \A f \in plan.ready : ~k.flights[f].failed
      /\ \A i \in Candidates(next) : Chosen(p, k.flights, Component(p, i), next) \in plan.ready
      /\ DOMAIN plan.fresh \subseteq (SUBSET Instances) \X Nat /\ IsFiniteSet(DOMAIN plan.fresh)
      /\ \A f \in DOMAIN plan.fresh : /\ FlightOK(f, plan.fresh[f])
                                      /\ plan.fresh[f].done = {} /\ plan.fresh[f].current = None
      /\ \A f, g \in DOMAIN plan.fresh : f[1] = g[1] => f = g
      /\ \A f \in DOMAIN k.flights, g \in DOMAIN plan.fresh : k.flights[f].registered /\ f[1] = g[1] => f \in plan.stale
  <2> DEFINE fl == k.flights
  <2>1. FlightsOK(fl) /\ active \in [Instances -> Activations \cup {None}] /\ next \in NextGraphs(p, fl, Components(p))
        /\ plan = Plan(p, fl, Components(p), next)
    BY <1>1
  <2> HIDE DEF fl
  <2>2. /\ plan.next = next /\ plan.component = Components(p)
        /\ plan.stale \subseteq DOMAIN fl /\ \A f \in plan.stale : fl[f].registered
        /\ plan.ready \cup plan.spent \subseteq DOMAIN fl \ plan.stale
        /\ \A f \in plan.ready \cup plan.spent : fl[f].registered /\ fl[f].state = "settled"
        /\ \A f \in plan.ready : ~fl[f].failed
        /\ \A i \in Candidates(next) : Chosen(p, fl, Component(p, i), next) \in plan.ready
        /\ DOMAIN plan.fresh \subseteq (SUBSET Instances) \X Nat /\ IsFiniteSet(DOMAIN plan.fresh)
        /\ \A f \in DOMAIN plan.fresh : /\ FlightOK(f, plan.fresh[f])
                                        /\ plan.fresh[f].done = {} /\ plan.fresh[f].current = None
        /\ \A f, g \in DOMAIN plan.fresh : f[1] = g[1] => f = g
        /\ \A f \in DOMAIN fl, g \in DOMAIN plan.fresh : fl[f].registered /\ f[1] = g[1] => f \in plan.stale
    BY <2>1, PlanIsOK
  <2>. QED
    BY <2>2 DEF fl
<1>2. /\ plan.next = next /\ plan.component = Components(p)
      /\ plan.stale \subseteq DOMAIN flights /\ \A f \in plan.stale : k.flights[f].registered
      /\ plan.ready \cup plan.spent \subseteq DOMAIN flights \ plan.stale
      /\ \A f \in plan.ready \cup plan.spent : k.flights[f].registered /\ k.flights[f].state = "settled"
      /\ \A f \in plan.ready : ~k.flights[f].failed
      /\ \A i \in Candidates(next) : Chosen(p, k.flights, Component(p, i), next) \in plan.ready
  BY <1>a
<1>3. /\ DOMAIN plan.fresh \subseteq (SUBSET Instances) \X Nat /\ IsFiniteSet(DOMAIN plan.fresh)
      /\ \A f \in DOMAIN plan.fresh : /\ FlightOK(f, plan.fresh[f])
                                      /\ plan.fresh[f].done = {} /\ plan.fresh[f].current = None
      /\ \A f, g \in DOMAIN plan.fresh : f[1] = g[1] => f = g
      /\ \A f \in DOMAIN k.flights, g \in DOMAIN plan.fresh : k.flights[f].registered /\ f[1] = g[1] => f \in plan.stale
  BY <1>a
<1>4. /\ Stage(left) /\ DOMAIN left.flights = DOMAIN flights
      /\ \A f \in DOMAIN flights : /\ left.flights[f].registered <=> k.flights[f].registered /\ f \notin plan.stale
                                   /\ left.flights[f].state = k.flights[f].state
  BY <1>2, CancelStage
<1>5. FreshOK(left.flights, plan.fresh)
  <2>1. \A f \in DOMAIN left.flights, g \in DOMAIN plan.fresh : left.flights[f].registered => f[1] # g[1]
    <3>1. ASSUME NEW f \in DOMAIN left.flights, NEW g \in DOMAIN plan.fresh, left.flights[f].registered PROVE f[1] # g[1]
      <4>1. f \in DOMAIN k.flights /\ k.flights[f].registered /\ f \notin plan.stale
        BY <1>4, <3>1
      <4>. QED
        BY <1>3, <4>1
    <3>. QED
      BY <3>1
  <2>. QED
    BY <1>3, <2>1 DEF FreshOK
<1>6. /\ Stage(begun)
      /\ \A f \in DOMAIN flights : begun.flights[f].registered = left.flights[f].registered
                                   /\ begun.flights[f].state = left.flights[f].state
  <2>1. Stage(left) /\ FreshOK(left.flights, plan.fresh)
    BY <1>4, <1>5
  <2>2. /\ Stage(Begins(left, plan))
        /\ \A f \in DOMAIN left.flights : Begins(left, plan).flights[f].registered = left.flights[f].registered
                                           /\ Begins(left, plan).flights[f].state = left.flights[f].state
    BY <2>1, BeginsStage, SMTT(30)
  <2>3. DOMAIN left.flights = DOMAIN flights
    BY <1>4
  <2>4. begun = Begins(left, plan)
    OBVIOUS
  <2>5. ASSUME NEW f \in DOMAIN flights
        PROVE  begun.flights[f].registered = left.flights[f].registered /\ begun.flights[f].state = left.flights[f].state
    <3>1. f \in DOMAIN left.flights
      BY <2>3, Zenon
    <3>2. Begins(left, plan).flights[f].registered = left.flights[f].registered
          /\ Begins(left, plan).flights[f].state = left.flights[f].state
      BY <2>2, <3>1, Zenon
    <3>. QED
      BY <2>4, <3>2, Zenon
  <2>6. Stage(begun)
    BY <2>2, <2>4, Zenon
  <2>. QED
    BY <2>5, <2>6, Zenon
<1>7. ASSUME NEW f \in plan.ready \cup plan.spent
      PROVE  f \in DOMAIN flights /\ begun.flights[f].registered /\ begun.flights[f].state = "settled"
  <2>1. f \in DOMAIN flights /\ f \notin plan.stale /\ k.flights[f].registered /\ k.flights[f].state = "settled"
    BY <1>2
  <2>2. left.flights[f].registered /\ left.flights[f].state = "settled"
    BY <1>4, <2>1
  <2>. QED
    <3>1. begun.flights[f].registered = left.flights[f].registered /\ begun.flights[f].state = left.flights[f].state
      BY <1>6, <2>1, Zenon
    <3>. QED
      BY <2>1, <2>2, <3>1, Zenon
<1>8. given \in SUBSET DOMAIN scopes /\ \A i \in Instances : active[i] # None => active[i] \notin given
  <2>1. ASSUME NEW f \in plan.spent
        PROVE Prepared(f) \subseteq DOMAIN scopes /\ \A i \in Instances : active[i] # None => active[i] \notin Prepared(f)
    BY <1>6, <1>7, PreparedIsNotPublished, SMTT(40)
  <2>. QED
    BY <2>1
<1>9. Stage(after) /\ after.flights = begun.flights
  BY <1>6, <1>8, RetireStage
<1>10. ASSUME NEW f \in plan.ready
       PROVE  f \in DOMAIN flights /\ after.flights[f].registered /\ after.flights[f].state = "settled" /\ flights[f].done = f[1]
  <2>1. f \in DOMAIN flights /\ k.flights[f].state = "settled" /\ ~k.flights[f].failed
    BY <1>2
  <2>2. k.flights[f].done = f[1]
    <3>1. FlightOK(f, k.flights[f])
      BY <1>1, <2>1 DEF FlightsOK
    <3>. QED
      BY <2>1, <3>1 DEF FlightOK
  <2>3. k.flights[f].done = flights[f].done
    BY <2>1 DEF Stage
  <2>. QED
    BY <1>7, <1>9, <2>1, <2>2, <2>3
<1>11. ASSUME NEW i \in Candidates(next)
       PROVE  FlightOf(next[i]) \in plan.ready /\ InstanceOf(next[i]) = i /\ i \in FlightOf(next[i])[1]
  <2> DEFINE f == Chosen(p, k.flights, Component(p, i), next)
  <2>1. i \in Movable(p) /\ f[1] = Component(p, i) /\ FlightOf(next[i]) = f /\ InstanceOf(next[i]) = i
    BY <1>1, NextGraphIsPrepared
  <2>2. i \in Component(p, i)
    BY <2>1, ComponentsDivide
  <2>. QED
    BY <1>2, <2>1, <2>2
<1>12. ASSUME NEW i \in Instances, active[i] # None
       PROVE  FlightOf(active[i]) \in DOMAIN k.flights /\ ~k.flights[FlightOf(active[i])].registered
  <2>1. active[i] \in DOMAIN k.scopes
    BY <1>1, <1>12 DEF KernelOK, GraphOK
  <2>2. FlightOf(active[i]) \in DOMAIN k.flights
    BY <1>1, <2>1 DEF KernelOK, ScopesOK
  <2>. QED
    BY <1>1, <1>12, <2>2, FlyingIsNotPublished
<1>13. \A f \in DOMAIN k.flights : k.flights[f].external = flights[f].external
  BY DEF Stage
<1>. QED
  <2> HIDE DEF given
  <2>1. plan.component = Components(p) /\ plan.next \in NextGraphs(p, k.flights, Components(p)) /\ plan.ready \subseteq DOMAIN flights
    BY <1>2
  <2>2. \A f \in plan.ready : after.flights[f].registered /\ after.flights[f].state = "settled" /\ flights[f].done = f[1]
    BY <1>10
  <2>3. \A i \in Candidates(plan.next) : /\ FlightOf(plan.next[i]) \in plan.ready /\ InstanceOf(plan.next[i]) = i
                                         /\ i \in FlightOf(plan.next[i])[1]
    BY <1>2, <1>11
  <2>4. \A i \in Instances : active[i] # None => FlightOf(active[i]) \in DOMAIN k.flights /\ ~k.flights[FlightOf(active[i])].registered
    BY <1>12
  <2>5. FlightsOK(k.flights) /\ BoundOK(k.flights, active) /\ DOMAIN k.flights = DOMAIN flights
    BY <1>1
  <2>6. Stage(after)
    BY <1>9
  <2>. QED
    BY <1>13, <2>1, <2>2, <2>3, <2>4, <2>5, <2>6, ZenonT(40) DEF PlanOK

-----------------------------------------------------------------------------
(* Publication.                                                             *)

(* What claims a worker is at work and was published.                       *)
LEMMA ClaimsWork ==
    ASSUME NEW s, ScopeOK(s), Claims(s)
    PROVE  Working(s) /\ s.startup # "none"
PROOF
  BY DEF ScopeOK, Claims, Working, StartingUp

(* assertRetirementConfirmed: with an open gate no unpublished activation   *)
(* of the instance has a worker or may still start one.                     *)
LEMMA OpenGate ==
    ASSUME NEW fl, NEW sc, NEW ow, NEW ac, KernelOK(fl, sc, ow, ac), NEW i, GateOpen(i, ow, sc),
           NEW b \in DOMAIN sc, InstanceOf(b) = i, ac[i] # b
    PROVE  ~Claims(sc[b])
PROOF
<1>1. SUFFICES ASSUME Claims(sc[b]) PROVE FALSE
  OBVIOUS
<1>2. ScopeOK(sc[b]) /\ InFlight(b, sc[b], fl[FlightOf(b)])
  BY DEF KernelOK, ScopesOK
<1>3. Working(sc[b]) /\ ~fl[FlightOf(b)].registered
  BY <1>1, <1>2, ClaimsWork DEF InFlight
<1>4. b \in ow
  BY <1>3 DEF KernelOK, OwnersOK
<1>. QED
  BY <1>3, <1>4 DEF GateOpen, Confirmed

\* An activation that waits to be published.
Publishable(fl, sc, a, i) ==
    /\ a \in DOMAIN sc /\ InstanceOf(a) = i /\ i \in fl[FlightOf(a)].done
    /\ sc[a].disposal = "none" /\ sc[a].startup = "none" /\ ~sc[a].aborted /\ ~sc[a].op
    /\ sc[a].held <=> i \in Owning

(* Startup of what was prepared (startupAfterPublish): its scope stays as   *)
(* it should be, and claims a worker only through the gate.                 *)
LEMMA StartedScope ==
    ASSUME NEW s, ScopeOK(s), NEW i \in Instances, active[i] \in Activations \cup {None}, NEW ow, NEW sc,
           s.disposal = "none", s.startup = "none", ~s.aborted, ~s.op, s.held <=> i \in Owning
    PROVE  LET t == Started(s, i, ow, sc) IN
           /\ ScopeOK(t) /\ t.disposal = "none" /\ ~t.aborted /\ t.startup # "none"
           /\ Claims(t) => active[i] = None /\ GateOpen(i, ow, sc)
PROOF
<1> DEFINE t == Started(s, i, ow, sc)
<1>1. s \in ScopeRecords /\ ~s.worker
  BY DEF ScopeOK
<1>2. CASE i \notin Owning
  <2>1. t = [s EXCEPT !.startup = "running"]
    BY <1>2 DEF Started
  <2>. QED
    BY <1>1, <2>1 DEF ScopeOK, ScopeRecords, StartingUp, Claims, Working
<1>3. CASE i \in Owning /\ active[i] # None
  <2>1. t = [s EXCEPT !.prior = active[i], !.op = TRUE, !.startup = "waiting"]
    BY <1>3 DEF Started
  <2>. QED
    BY <1>1, <1>3, <2>1, ZenonT(40) DEF ScopeOK, ScopeRecords, StartingUp, Claims, Working
<1>4. CASE i \in Owning /\ active[i] = None /\ GateOpen(i, ow, sc)
  <2>1. t = [s EXCEPT !.prior = active[i], !.op = TRUE, !.startup = "admitted"]
    BY <1>4 DEF Started
  <2>. QED
    BY <1>1, <1>4, <2>1, ZenonT(40) DEF ScopeOK, ScopeRecords, StartingUp, Claims, Working
<1>5. CASE i \in Owning /\ active[i] = None /\ ~GateOpen(i, ow, sc)
  <2>1. t = [s EXCEPT !.prior = active[i], !.op = FALSE, !.startup = "failed"]
    BY <1>5 DEF Started
  <2>. QED
    BY <1>1, <1>5, <2>1, ZenonT(40) DEF ScopeOK, ScopeRecords, StartingUp, Claims, Working
<1>. QED
  BY <1>2, <1>3, <1>4, <1>5

\* A graph that gains what is publishable in these flights.
Gains(fl, sc, ow, ac, graph, new, published) ==
    /\ active \in [Instances -> Activations \cup {None}]
    /\ graph \in [Instances -> Activations \cup {None}] /\ BoundOK(fl, graph)
    /\ new \subseteq Instances /\ published \subseteq DOMAIN fl
    /\ \A i \in Instances \ new : graph[i] = ac[i]
    /\ \A i \in new : /\ ac[i] = None /\ Publishable(fl, sc, graph[i], i)
                      /\ FlightOf(graph[i]) \in published
    /\ \A f \in published : /\ fl[f].state = "settled"
                            /\ \A a \in DOMAIN sc : FlightOf(a) = f /\ Working(sc[a]) =>
                                   a \in ow \/ graph[InstanceOf(a)] = a

\* What is new in a graph starts up.
StartsUp(sc, sc2, ow, graph, new) ==
    sc2 = [a \in DOMAIN sc |-> IF a \in {graph[i] : i \in new} THEN Started(sc[a], InstanceOf(a), ow, sc) ELSE sc[a]]

(* The graph gains what is publishable, and its flights leave the map.      *)
LEMMA PublicationKernel ==
    ASSUME NEW fl, NEW sc, NEW ow, NEW ac, KernelOK(fl, sc, ow, ac), WorkersOK(sc),
           NEW graph, NEW new, NEW published, Gains(fl, sc, ow, ac, graph, new, published),
           NEW sc2, StartsUp(sc, sc2, ow, graph, new)
    PROVE  KernelOK(Consumed(fl, published), sc2, ow, graph) /\ WorkersOK(sc2)
PROOF
<1> DEFINE fl2 == Consumed(fl, published)
           fresh == {graph[i] : i \in new}
<1>a. /\ active \in [Instances -> Activations \cup {None}]
      /\ graph \in [Instances -> Activations \cup {None}] /\ BoundOK(fl, graph)
      /\ new \subseteq Instances /\ published \subseteq DOMAIN fl
      /\ \A i \in Instances \ new : graph[i] = ac[i]
      /\ \A i \in new : /\ ac[i] = None /\ Publishable(fl, sc, graph[i], i)
                        /\ FlightOf(graph[i]) \in published
      /\ \A f \in published : /\ fl[f].state = "settled"
                              /\ \A a \in DOMAIN sc : FlightOf(a) = f /\ Working(sc[a]) =>
                                     a \in ow \/ graph[InstanceOf(a)] = a
  BY DEF Gains
<1> USE <1>a
<1>0. FlightsOK(fl) /\ ScopesOK(fl, sc) /\ GraphOK(fl, sc, ac) /\ OwnersOK(fl, sc, ow, ac)
  BY DEF KernelOK
<1>1. ASSUME NEW f \in DOMAIN fl PROVE Eases(fl[f], fl2[f]) /\ (fl2[f].registered <=> fl[f].registered /\ f \notin published)
  <2>1. fl2[f] = [fl[f] EXCEPT !.registered = fl[f].registered /\ f \notin published]
    BY DEF Consumed
  <2>2. FlightOK(f, fl[f])
    BY <1>0 DEF FlightsOK
  <2>. QED
    BY <2>1, <2>2, ZenonT(40) DEF FlightOK, Eases
<1>2. DOMAIN fl2 = DOMAIN fl /\ fl2 = [f \in DOMAIN fl |-> fl2[f]]
  BY DEF Consumed
<1> HIDE DEF fl2
<1>3. FlightsOK(fl2)
  <2>1. FlightsMove(fl, fl2)
    BY <1>0, <1>1, <1>2, FlightsEase
  <2>. QED
    BY <2>1 DEF FlightsMove
<1>4. ASSUME NEW f \in DOMAIN fl
      PROVE /\ fl2[f].done = fl[f].done /\ fl2[f].current = fl[f].current
            /\ fl2[f].state = fl[f].state /\ fl2[f].external = fl[f].external
  <2>1. Eases(fl[f], fl2[f])
    BY <1>1
  <2>. QED
    BY <2>1 DEF Eases
<1>5. ASSUME NEW a \in DOMAIN sc
      PROVE /\ a \in Activations /\ a # None /\ InstanceOf(a) \in Instances /\ FlightOf(a) \in DOMAIN fl
            /\ ScopeOK(sc[a]) /\ InFlight(a, sc[a], fl[FlightOf(a)])
            /\ a \in fresh <=> (InstanceOf(a) \in new /\ graph[InstanceOf(a)] = a)
  <2>1. a \in Activations /\ FlightOf(a) \in DOMAIN fl /\ ScopeOK(sc[a]) /\ InFlight(a, sc[a], fl[FlightOf(a)])
    BY <1>0 DEF ScopesOK
  <2>2. a # None /\ InstanceOf(a) \in Instances
    BY <2>1, GenerationsAssumption DEF Activations, InstanceOf
  <2>3. a \in fresh => InstanceOf(a) \in new /\ graph[InstanceOf(a)] = a
    BY DEF Publishable
  <2>. QED
    BY <2>1, <2>2, <2>3
<1>6. ASSUME NEW a \in DOMAIN sc, a \in fresh
      PROVE /\ ScopeOK(sc2[a]) /\ sc2[a].disposal = "none" /\ ~sc2[a].aborted /\ sc2[a].startup # "none"
            /\ Claims(sc2[a]) => active[InstanceOf(a)] = None /\ GateOpen(InstanceOf(a), ow, sc)
            /\ FlightOf(a) \in published /\ InstanceOf(a) \in fl[FlightOf(a)].done
            /\ sc[a].startup = "none"
  <2> DEFINE i == InstanceOf(a)
  <2>1. i \in new /\ graph[i] = a
    BY <1>5, <1>6
  <2>2. Publishable(fl, sc, a, i) /\ FlightOf(a) \in published
    BY <2>1
  <2>3. sc2[a] = Started(sc[a], i, ow, sc)
    BY <1>6 DEF StartsUp
  <2>4. ScopeOK(sc[a]) /\ i \in Instances /\ active[i] \in Activations \cup {None}
    BY <1>5
  <2> HIDE DEF i
  <2>5. /\ ScopeOK(sc2[a]) /\ sc2[a].disposal = "none" /\ ~sc2[a].aborted /\ sc2[a].startup # "none"
        /\ Claims(sc2[a]) => active[i] = None /\ GateOpen(i, ow, sc)
    BY <2>2, <2>3, <2>4, StartedScope DEF Publishable
  <2>. QED
    BY <2>2, <2>5 DEF i, Publishable
<1>7. \A a \in DOMAIN sc : a \notin fresh => sc2[a] = sc[a]
  BY DEF StartsUp
<1>8. DOMAIN sc2 = DOMAIN sc /\ sc2 = [a \in DOMAIN sc |-> sc2[a]]
  BY DEF StartsUp
<1> HIDE DEF fresh
<1>9. ScopesOK(fl2, sc2)
  <2>1. ASSUME NEW a \in DOMAIN sc PROVE ScopeOK(sc2[a]) /\ InFlight(a, sc2[a], fl2[FlightOf(a)])
    <3>1. /\ fl2[FlightOf(a)].done = fl[FlightOf(a)].done /\ fl2[FlightOf(a)].current = fl[FlightOf(a)].current
          /\ fl2[FlightOf(a)].state = fl[FlightOf(a)].state
          /\ fl2[FlightOf(a)].registered <=> fl[FlightOf(a)].registered /\ FlightOf(a) \notin published
      BY <1>1, <1>4, <1>5
    <3>2. CASE a \in fresh
      BY <1>6, <3>1, <3>2 DEF InFlight
    <3>3. CASE a \notin fresh
      BY <1>5, <1>7, <3>1, <3>3 DEF InFlight
    <3>. QED
      BY <3>2, <3>3
  <2>2. ASSUME NEW f \in DOMAIN fl
        PROVE /\ \A i \in fl2[f].done : ActivationOf(f, i) \in DOMAIN sc
              /\ fl2[f].current # None => ActivationOf(f, fl2[f].current) \in DOMAIN sc /\ fl2[f].current \notin fl2[f].done
    BY <1>0, <1>4 DEF ScopesOK
  <2>3. \A a \in DOMAIN sc : a \in Activations /\ InstanceOf(a) \in a[1] /\ FlightOf(a) \in DOMAIN fl
    BY <1>0 DEF ScopesOK
  <2>. QED
    BY <1>2, <1>8, <2>1, <2>2, <2>3 DEF ScopesOK
<1>10. GraphOK(fl2, sc2, graph)
  <2>1. ASSUME NEW i \in Instances, graph[i] # None
        PROVE /\ graph[i] \in DOMAIN sc /\ InstanceOf(graph[i]) = i
              /\ sc2[graph[i]].disposal = "none" /\ sc2[graph[i]].startup # "none"
    <3>1. CASE i \in new
      <4>1. graph[i] \in DOMAIN sc /\ InstanceOf(graph[i]) = i
        BY <3>1 DEF Publishable
      <4>2. graph[i] \in fresh
        BY <3>1 DEF fresh
      <4>. QED
        BY <1>6, <4>1, <4>2
    <3>2. CASE i \notin new
      <4>1. graph[i] = ac[i] /\ ac[i] \in DOMAIN sc /\ InstanceOf(ac[i]) = i /\ sc[ac[i]].disposal = "none" /\ sc[ac[i]].startup # "none"
        BY <1>0, <2>1, <3>2 DEF GraphOK
      <4>. QED
        BY <1>6, <1>7, <4>1
    <3>. QED
      BY <3>1, <3>2
  <2>2. ASSUME NEW a \in DOMAIN sc, sc2[a].startup # "none", graph[InstanceOf(a)] # a PROVE sc2[a].aborted
    <3>1. a \notin fresh /\ sc2[a] = sc[a] /\ a # None /\ InstanceOf(a) \in Instances
      BY <1>5, <1>7, <2>2
    <3>2. ac[InstanceOf(a)] # a
      BY <2>2, <3>1
    <3>. QED
      BY <1>0, <2>2, <3>1, <3>2 DEF GraphOK
  <2>. QED
    BY <1>8, <2>1, <2>2 DEF GraphOK
<1>11. OwnersOK(fl2, sc2, ow, graph)
  <2>1. ASSUME NEW a \in DOMAIN sc, Working(sc2[a]), a \notin ow
        PROVE graph[InstanceOf(a)] = a \/ fl2[FlightOf(a)].registered
    <3>1. CASE a \in fresh
      BY <1>5, <3>1
    <3>2. CASE a \notin fresh
      <4>1. Working(sc[a]) /\ a # None /\ InstanceOf(a) \in Instances /\ FlightOf(a) \in DOMAIN fl
        BY <1>5, <1>7, <2>1, <3>2
      <4>2. ac[InstanceOf(a)] = a \/ fl[FlightOf(a)].registered
        BY <1>0, <2>1, <4>1 DEF OwnersOK
      <4>3. CASE ac[InstanceOf(a)] = a
        BY <4>1, <4>3
      <4>4. CASE fl[FlightOf(a)].registered
        BY <1>1, <2>1, <4>1, <4>4
      <4>. QED
        BY <4>2, <4>3, <4>4
    <3>. QED
      BY <3>1, <3>2
  <2>2. ow \subseteq DOMAIN sc
    BY <1>0 DEF OwnersOK
  <2>. QED
    BY <1>8, <2>1, <2>2 DEF OwnersOK
<1>12. BoundOK(fl2, graph)
  <2>1. ASSUME NEW i \in Instances, graph[i] # None, NEW j \in Requires[i] PROVE Binding(fl2, graph[i], j) = Binding(fl, graph[i], j)
    <3>1. graph[i] \in DOMAIN sc
      BY <1>8, <1>10, <2>1 DEF GraphOK
    <3>2. fl2[FlightOf(graph[i])].external = fl[FlightOf(graph[i])].external
      BY <1>4, <1>5, <3>1
    <3>. QED
      BY <3>2 DEF Binding
  <2>. QED
    BY <2>1 DEF BoundOK
<1>13. WorkersOK(sc2)
  <2>1. ASSUME NEW a \in DOMAIN sc, a \in fresh, Claims(sc2[a]), NEW b \in DOMAIN sc, a # b, InstanceOf(a) = InstanceOf(b)
        PROVE ~Claims(sc2[b])
    <3>1. b \notin fresh
      BY <1>5, <2>1
    <3>2. GateOpen(InstanceOf(b), ow, sc)
      BY <1>6, <2>1
    <3>3. ac[InstanceOf(b)] # b
      <4>1. ac[InstanceOf(b)] = None
        BY <1>5, <2>1
      <4>. QED
        BY <1>5, <4>1
    <3>4. ~Claims(sc[b])
      BY <3>2, <3>3, OpenGate
    <3>. QED
      BY <1>7, <3>1, <3>4
  <2>2. ASSUME NEW a \in DOMAIN sc, NEW b \in DOMAIN sc, a # b, InstanceOf(a) = InstanceOf(b), Claims(sc2[a]), Claims(sc2[b])
        PROVE FALSE
    <3>1. a \notin fresh /\ b \notin fresh
      BY <2>1, <2>2
    <3>2. Claims(sc[a]) /\ Claims(sc[b])
      BY <1>7, <2>2, <3>1
    <3>. QED
      BY <2>2, <3>2 DEF WorkersOK
  <2>. QED
    BY <1>8, <2>2 DEF WorkersOK
<1>14. KernelOK(fl2, sc2, ow, graph)
  BY <1>3, <1>9, <1>10, <1>11, <1>12 DEF KernelOK
<1>. QED
  BY <1>13, <1>14 DEF fl2

(* The graph that replaces the published one.                               *)
GraphReplaces(plan, k, graph, new) ==
    /\ graph \in [Instances -> Activations \cup {None}] /\ BoundOK(k.flights, graph)
    /\ \A i \in Instances : graph[i] = None \/ graph[i] = active[i] \/ i \in new
    /\ new \subseteq Candidates(plan.next)
    /\ \A i \in new : graph[i] = plan.next[i] /\ ~k.scopes[plan.next[i]].aborted

(* What it gains is prepared.                                               *)
LEMMA NewIsPublishable ==
    ASSUME NEW p, NEW fl, NEW plan, NEW k, Stage(k), PlanOK(p, fl, plan, k),
           NEW graph, NEW new, GraphReplaces(plan, k, graph, new), NEW i \in new
    PROVE  /\ Publishable(k.flights, k.scopes, graph[i], i) /\ graph[i] \in DOMAIN scopes /\ graph[i] # active[i]
           /\ FlightOf(graph[i]) \in plan.ready /\ i \in FlightOf(graph[i])[1] /\ graph[i] = ActivationOf(FlightOf(graph[i]), i)
PROOF
<1> DEFINE a == graph[i]
           f == FlightOf(a)
           s == k.scopes[a]
<1>1. a = plan.next[i] /\ i \in Candidates(plan.next) /\ i \in Instances /\ a # None /\ a # active[i] /\ ~s.aborted
  BY DEF GraphReplaces, Candidates
<1>2. a \in Activations
  BY <1>1 DEF GraphReplaces
<1>3. f \in plan.ready /\ InstanceOf(a) = i /\ i \in f[1]
  BY <1>1 DEF PlanOK
<1>4. f \in DOMAIN flights /\ k.flights[f].registered /\ k.flights[f].state = "settled" /\ flights[f].done = f[1]
  BY <1>3 DEF PlanOK
<1>5. a = ActivationOf(f, i)
  BY <1>2, <1>3 DEF Activations, FlightOf, InstanceOf, ActivationOf
<1>6. a \in Prepared(f)
  BY <1>3, <1>4, <1>5 DEF Prepared
<1>7. a \in DOMAIN scopes
  BY <1>4, <1>6, PreparedIsNotPublished
<1>8. a \in DOMAIN k.scopes /\ ScopeOK(s) /\ InFlight(a, s, k.flights[f])
  BY <1>7 DEF Stage, Wanes, KernelOK, ScopesOK
<1>9. k.flights[f].done = flights[f].done
  BY <1>4 DEF Stage
<1>10. s.startup = "none" /\ s.disposal = "none" /\ i \in k.flights[f].done
  BY <1>1, <1>3, <1>4, <1>8, <1>9 DEF InFlight, ScopeOK, ScopeRecords
<1>11. ~s.op /\ (s.held <=> i \in Owning)
  BY <1>1, <1>3, <1>8, <1>10 DEF InFlight
<1>12. Publishable(k.flights, k.scopes, a, i)
  BY <1>1, <1>3, <1>8, <1>10, <1>11 DEF Publishable
<1>. QED
  BY <1>1, <1>3, <1>5, <1>7, <1>12

\* Effects of these activations failed.
Marked(sc, doubted) == [a \in DOMAIN sc |-> [sc[a] EXCEPT !.failed = @ \/ a \in doubted]]

(* A rollback that throws fails what nobody has disposed of, and flights    *)
(* fail with it.                                                            *)
LEMMA MarkedStage ==
    ASSUME NEW k, Stage(k), NEW failing, NEW doubted, \A a \in doubted : a \in DOMAIN k.scopes => k.scopes[a].disposal = "none"
    PROVE  /\ KernelOK(FailedFlights(k.flights, failing), Marked(k.scopes, doubted), k.owners, active)
           /\ Wanes(k.scopes, Marked(k.scopes, doubted))
           /\ \A a \in DOMAIN k.scopes : LET s == k.scopes[a]
                                             t == Marked(k.scopes, doubted)[a]
                                         IN /\ t.op = s.op /\ t.held = s.held /\ t.aborted = s.aborted
                                            /\ t.disposal = s.disposal /\ t.startup = s.startup
PROOF
<1> DEFINE sc2 == Marked(k.scopes, doubted)
           fl2 == FailedFlights(k.flights, failing)
<1>1. KernelOK(k.flights, k.scopes, k.owners, active) /\ FlightsOK(k.flights) /\ BoundOK(k.flights, active)
  BY DEF Stage, KernelOK
<1>2. FlightsMove(k.flights, fl2) /\ \A f \in DOMAIN k.flights : fl2[f].registered = k.flights[f].registered
  BY <1>1, FailingEases
<1>3. ASSUME NEW a \in DOMAIN k.scopes
      PROVE LET s == k.scopes[a]
                t == sc2[a]
            IN /\ Ages(s, t) /\ (Claims(t) => Claims(s))
               /\ t.op = s.op /\ t.held = s.held /\ t.aborted = s.aborted /\ t.disposal = s.disposal /\ t.startup = s.startup
  <2> DEFINE s == k.scopes[a]
             t == sc2[a]
             b == a \in doubted
  <2>1. t = [s EXCEPT !.failed = s.failed \/ b]
    BY DEF Marked
  <2>2. ScopeOK(s) /\ s \in ScopeRecords
    BY <1>1 DEF KernelOK, ScopesOK, ScopeOK
  <2>3. b => s.disposal = "none"
    OBVIOUS
  <2>4. b \in BOOLEAN
    OBVIOUS
  <2> HIDE DEF s, t, b
  <2>5. /\ t \in ScopeRecords
        /\ t.op = s.op /\ t.held = s.held /\ t.late = s.late /\ t.aborted = s.aborted /\ t.disposal = s.disposal
        /\ t.startup = s.startup /\ t.worker = s.worker
        /\ t.failed <=> s.failed \/ b
    BY <2>1, <2>2, <2>4 DEF ScopeRecords
  <2>6. (Working(t) <=> Working(s)) /\ (Claims(t) => Claims(s)) /\ (Confirmed(s) => Confirmed(t))
    BY <2>3, <2>5 DEF Working, Claims, Confirmed
  <2>7. ScopeOK(t)
    BY <2>2, <2>5, <2>6 DEF ScopeOK
  <2>8. Ages(s, t)
    BY <2>5, <2>6, <2>7 DEF Ages
  <2>. QED
    BY <2>5, <2>6, <2>8 DEF s, t
<1>4. DOMAIN sc2 = DOMAIN k.scopes /\ sc2 = [a \in DOMAIN k.scopes |-> sc2[a]]
  BY DEF Marked
<1> HIDE DEF sc2, fl2
<1>5. ScopesAge(k.scopes, sc2) /\ Wanes(k.scopes, sc2)
  BY <1>3, <1>4 DEF ScopesAge, Wanes
<1>6. GraphShrinks(active, active, sc2)
  BY <1>1, <1>3 DEF GraphShrinks, KernelOK, GraphOK
<1>7. OwnersStay(k.flights, k.scopes, k.owners, active, fl2, sc2, k.owners, active)
  <2>1. \A a \in DOMAIN k.scopes : FlightOf(a) \in DOMAIN k.flights
    BY <1>1 DEF KernelOK, ScopesOK
  <2>2. \A a \in DOMAIN k.scopes : Working(sc2[a]) => Working(k.scopes[a])
    BY <1>3 DEF Ages
  <2>. QED
    BY <1>1, <1>2, <2>1, <2>2 DEF OwnersStay, KernelOK, OwnersOK
<1>8. KernelOK(fl2, sc2, k.owners, active)
  BY <1>1, <1>2, <1>5, <1>6, <1>7, KernelAges
<1>. QED
  BY <1>3, <1>5, <1>8 DEF sc2, fl2

\* Nothing of these is disposed of.
Undisposed(sc, doubted) == \A a \in doubted : a \in DOMAIN sc => sc[a].disposal = "none"

(* markRetirementUnconfirmed: what a publication marks failed stays so.     *)
LEMMA DoubtIsKept ==
    ASSUME NEW plan, NEW k, Stage(k), NEW graph, NEW new, NEW failing, NEW doubted, NEW stands,
           Replaces(plan, k, graph, new, doubted, failing, stands), NEW a \in DOMAIN k.scopes, a \in doubted
    PROVE  scopes'[a].failed
PROOF
<1> DEFINE superseded == {active[i] : i \in {j \in Instances : active[j] # None /\ graph[j] # active[j]}}
           vain == {b \in UNION {Prepared(f) : f \in plan.ready} : graph[InstanceOf(b)] # b}
           published == {f \in plan.ready : \E i \in f[1] : graph[i] = ActivationOf(f, i)}
           fresh == {graph[i] : i \in new}
           S == superseded \cup vain
           sc1 == Marked(k.scopes, doubted)
           marked == [flights |-> Consumed(FailedFlights(k.flights, failing), published), scopes |-> sc1, owners |-> k.owners]
           after == Retire(marked, S)
<1>1. scopes' = [b \in DOMAIN after.scopes |->
                    IF b \in fresh THEN Started(after.scopes[b], InstanceOf(b), after.owners, after.scopes)
                    ELSE after.scopes[b]]
  BY DEF Replaces, Marked
<1>2. after.scopes = [b \in DOMAIN sc1 |-> IF b \in S THEN Dispose(sc1[b]) ELSE sc1[b]]
  BY DEF Retire
<1>3. ScopeOK(k.scopes[a])
  BY DEF Stage, KernelOK, ScopesOK
<1>4. k.scopes[a] \in ScopeRecords
  BY <1>3 DEF ScopeOK
<1>5. DOMAIN sc1 = DOMAIN k.scopes /\ sc1[a] = [k.scopes[a] EXCEPT !.failed = TRUE]
  BY <1>4 DEF Marked, ScopeRecords
<1> HIDE DEF after, S, fresh, sc1
<1>6. sc1[a].failed /\ sc1[a] \in ScopeRecords
  BY <1>4, <1>5 DEF ScopeRecords
<1>7. Dispose(sc1[a]).failed /\ Dispose(sc1[a]) \in ScopeRecords
  BY <1>6, ZenonT(40) DEF Dispose, ScopeRecords
<1>8. a \in DOMAIN after.scopes /\ after.scopes[a].failed /\ after.scopes[a] \in ScopeRecords
  BY <1>2, <1>5, <1>6, <1>7, ZenonT(40)
<1>9. ASSUME NEW s \in ScopeRecords, s.failed PROVE Started(s, InstanceOf(a), after.owners, after.scopes).failed
  BY <1>9 DEF Started, ScopeRecords
<1>. QED
  BY <1>1, <1>8, <1>9

\* What a publication leaves.
Replaced(graph, new) ==
    /\ KernelOK(flights', scopes', owners', active') /\ WorkersOK(scopes')
    /\ active' = graph /\ DOMAIN scopes' = DOMAIN scopes
    /\ \A a \in DOMAIN scopes : /\ scopes[a].aborted => scopes'[a].aborted
                                /\ scopes[a].startup = "failed" => scopes'[a].startup = "failed"
    /\ \A i \in Instances \ new : graph[i] # None => /\ graph[i] = active[i]
                                                     /\ scopes'[graph[i]].startup = scopes[graph[i]].startup
                                                     /\ scopes'[graph[i]].aborted = scopes[graph[i]].aborted
    /\ \A i \in new : ~scopes'[graph[i]].aborted /\ Finishing(finishing', graph[i])
    /\ finishing \subseteq finishing'
    /\ \A g \in finishing' : g \in finishing \/ g.started \subseteq DOMAIN scopes

(* What a publication leaves: the graph, bound and open; at most one worker *)
(* per instance; and what is published stays as it was or starts up.        *)
LEMMA ReplacesKernel ==
    ASSUME NEW p, NEW fl, NEW plan, NEW k, Stage(k), PlanOK(p, fl, plan, k), WorkersOK(scopes),
           NEW graph, NEW new, GraphReplaces(plan, k, graph, new), NEW failing,
           NEW doubted, Undisposed(k.scopes, doubted),
           NEW stands, new # {} => stands, Replaces(plan, k, graph, new, doubted, failing, stands)
    PROVE  Replaced(graph, new)
PROOF
<1> DEFINE superseded == {active[i] : i \in {j \in Instances : active[j] # None /\ graph[j] # active[j]}}
           vain == {a \in UNION {Prepared(f) : f \in plan.ready} : graph[InstanceOf(a)] # a}
           published == {f \in plan.ready : \E i \in f[1] : graph[i] = ActivationOf(f, i)}
           fresh == {graph[i] : i \in new}
           S == superseded \cup vain
           fl1 == FailedFlights(k.flights, failing)
           sc1 == Marked(k.scopes, doubted)
           k1 == [flights |-> fl1, scopes |-> sc1, owners |-> k.owners]
           k2 == Retire(k1, S)
           marked == [flights |-> Consumed(fl1, published), scopes |-> sc1, owners |-> k.owners]
           ac2 == [i \in Instances |-> IF graph[i] = active[i] THEN active[i] ELSE None]
<1>1. /\ KernelOK(k.flights, k.scopes, k.owners, active) /\ FlightsOK(k.flights) /\ BoundOK(k.flights, active)
      /\ active \in [Instances -> Activations \cup {None}] /\ DOMAIN k.scopes = DOMAIN scopes
  BY DEF Stage, KernelOK, GraphOK, Wanes
<1>2. /\ active' = graph
      /\ flights' = Retire(marked, S).flights /\ owners' = Retire(marked, S).owners
      /\ scopes' = [a \in DOMAIN Retire(marked, S).scopes |->
                       IF a \in fresh THEN Started(Retire(marked, S).scopes[a], InstanceOf(a), Retire(marked, S).owners, Retire(marked, S).scopes)
                       ELSE Retire(marked, S).scopes[a]]
      /\ finishing' = IF stands /\ (new # {} \/ superseded # {})
                      THEN finishing \cup {[started |-> fresh, retired |-> superseded]} ELSE finishing
  BY ZenonT(40) DEF Replaces, Marked
<1>3. /\ Retire(marked, S).flights = Consumed(fl1, published)
      /\ Retire(marked, S).owners = k2.owners /\ Retire(marked, S).scopes = k2.scopes
  BY DEF Retire
<1>4. /\ flights' = Consumed(fl1, published) /\ owners' = k2.owners
      /\ scopes' = [a \in DOMAIN k2.scopes |-> IF a \in fresh THEN Started(k2.scopes[a], InstanceOf(a), k2.owners, k2.scopes)
                                               ELSE k2.scopes[a]]
  BY <1>2, <1>3, ZenonT(40)
<1> HIDE DEF marked
<1>5. /\ KernelOK(fl1, sc1, k.owners, active) /\ Wanes(k.scopes, sc1)
      /\ \A a \in DOMAIN k.scopes : LET s == k.scopes[a]
                                        t == sc1[a]
                                    IN /\ t.op = s.op /\ t.held = s.held /\ t.aborted = s.aborted
                                       /\ t.disposal = s.disposal /\ t.startup = s.startup
  BY MarkedStage, ZenonT(40) DEF Undisposed
<1>6. /\ DOMAIN fl1 = DOMAIN k.flights /\ DOMAIN sc1 = DOMAIN scopes
      /\ \A f \in DOMAIN k.flights : /\ fl1[f].registered = k.flights[f].registered /\ fl1[f].state = k.flights[f].state
                                     /\ fl1[f].done = k.flights[f].done /\ fl1[f].external = k.flights[f].external
  <2>1. /\ FlightsMove(k.flights, fl1) /\ DOMAIN fl1 = DOMAIN k.flights
        /\ \A f \in DOMAIN k.flights : fl1[f].registered = k.flights[f].registered /\ fl1[f].state = k.flights[f].state
    BY <1>1, FailingEases
  <2>2. ASSUME NEW f \in DOMAIN k.flights PROVE fl1[f].done = k.flights[f].done /\ fl1[f].external = k.flights[f].external
    <3>1. Eases(k.flights[f], fl1[f])
      BY <2>1 DEF FlightsMove
    <3>. QED
      BY <3>1 DEF Eases
  <2>. QED
    BY <1>1, <1>5, <2>1, <2>2 DEF Wanes
<1> HIDE DEF fl1, sc1
<1>7. k1.flights = fl1 /\ k1.scopes = sc1 /\ k1.owners = k.owners
  OBVIOUS
<1> HIDE DEF k1
<1>8. ASSUME NEW i \in Instances, active[i] # None
      PROVE  active[i] \in DOMAIN scopes /\ InstanceOf(active[i]) = i /\ FlightOf(active[i]) \in DOMAIN k.flights
  <2>1. active[i] \in DOMAIN k.scopes /\ InstanceOf(active[i]) = i
    BY <1>1, <1>8 DEF KernelOK, GraphOK
  <2>. QED
    BY <1>1, <2>1 DEF KernelOK, ScopesOK
<1>9. ASSUME NEW f \in plan.ready
      PROVE  /\ f \in DOMAIN flights /\ k.flights[f].registered /\ k.flights[f].state = "settled" /\ flights[f].done = f[1]
             /\ f \in DOMAIN k.flights
             /\ Prepared(f) \subseteq DOMAIN scopes
             /\ \A i \in Instances : active[i] # None => active[i] \notin Prepared(f)
  <2>1. f \in DOMAIN flights /\ k.flights[f].registered /\ k.flights[f].state = "settled" /\ flights[f].done = f[1]
    BY DEF PlanOK
  <2>2. f \in DOMAIN k.flights
    BY <2>1 DEF Stage
  <2>. QED
    BY <2>1, <2>2, PreparedIsNotPublished
<1>10. ASSUME NEW i \in new
       PROVE  /\ i \in Instances
              /\ Publishable(k.flights, k.scopes, graph[i], i) /\ graph[i] \in DOMAIN scopes /\ graph[i] # active[i]
              /\ FlightOf(graph[i]) \in plan.ready /\ i \in FlightOf(graph[i])[1] /\ graph[i] = ActivationOf(FlightOf(graph[i]), i)
  <2>1. i \in Instances
    BY DEF GraphReplaces, Candidates
  <2>. QED
    BY <2>1, NewIsPublishable
<1>11. S \subseteq DOMAIN scopes /\ superseded \subseteq DOMAIN scopes
  BY <1>8, <1>9
<1>12. ASSUME NEW i \in Instances, active[i] # None, graph[i] = active[i] PROVE active[i] \notin S
  <2>1. active[i] \notin superseded
    BY <1>8, <1>12
  <2>2. active[i] \notin vain
    BY <1>9, <1>12
  <2>. QED
    BY <2>1, <2>2
<1>13. ASSUME NEW i \in Instances, active[i] # None, graph[i] # active[i] PROVE active[i] \in S
  BY <1>13
<1>14. ASSUME NEW i \in new PROVE graph[i] \notin S
  <2>1. InstanceOf(graph[i]) = i
    BY <1>10 DEF Publishable
  <2>2. graph[i] \notin superseded
    BY <1>8, <1>10, <2>1
  <2>. QED
    BY <2>1, <2>2
<1>15. ASSUME NEW a \in DOMAIN scopes, NEW f \in plan.ready, FlightOf(a) = f, graph[InstanceOf(a)] # a PROVE a \in S
  <2>1. a \in Activations /\ InstanceOf(a) \in a[1]
    BY <1>1 DEF KernelOK, ScopesOK
  <2>2. InstanceOf(a) \in flights[f].done /\ a = ActivationOf(f, InstanceOf(a))
    BY <1>9, <1>15, <2>1 DEF Activations, FlightOf, InstanceOf, ActivationOf
  <2>3. a \in Prepared(f)
    BY <2>2 DEF Prepared
  <2>. QED
    BY <1>15, <2>3
<1>16. published \subseteq plan.ready /\ \A i \in new : FlightOf(graph[i]) \in published
  BY <1>10
<1> HIDE DEF vain, superseded, published, S
<1>17. /\ ac2 = [i \in Instances |-> ac2[i]]
       /\ \A i \in Instances : ac2[i] = None \/ (ac2[i] = active[i] /\ active[i] \notin S)
       /\ \A i \in Instances : active[i] # None /\ ac2[i] # active[i] => active[i] \in S
       /\ \A i \in Instances : ac2[i] # None => ac2[i] = active[i] /\ graph[i] = active[i]
  BY <1>12, <1>13
<1>18. ASSUME NEW i \in Instances, graph[i] # None
       PROVE  \A j : Binding(fl1, graph[i], j) = Binding(k.flights, graph[i], j)
  <2>1. graph[i] = active[i] \/ i \in new
    BY <1>18 DEF GraphReplaces
  <2>2. FlightOf(graph[i]) \in DOMAIN k.flights
    BY <1>8, <1>9, <1>10, <1>18, <2>1
  <2>. QED
    BY <1>6, <2>2 DEF Binding
<1>19. BoundOK(fl1, graph)
  BY <1>18 DEF GraphReplaces, BoundOK
<1>20. BoundOK(fl1, ac2)
  <2>1. SUFFICES ASSUME NEW i \in Instances, ac2[i] # None, NEW j \in Requires[i]
                 PROVE  ac2[j] # None /\ Binding(fl1, ac2[i], j) = ac2[j]
    BY DEF BoundOK
  <2>2. ac2[i] = active[i] /\ graph[i] = active[i] /\ active[i] # None /\ j \in Instances
    BY <1>17, <2>1, GenerationsAssumption
  <2>3. graph[j] # None /\ Binding(fl1, active[i], j) = graph[j]
    BY <1>19, <2>1, <2>2 DEF BoundOK
  <2>4. active[j] # None /\ Binding(k.flights, active[i], j) = active[j]
    BY <1>1, <2>1, <2>2 DEF BoundOK
  <2>5. Binding(fl1, active[i], j) = Binding(k.flights, active[i], j)
    BY <1>18, <2>1, <2>2
  <2>6. graph[j] = active[j]
    BY <2>3, <2>4, <2>5
  <2>. QED
    BY <2>2, <2>3, <2>6
<1>21. KernelOK(k2.flights, k2.scopes, k2.owners, ac2)
  <2>1. KernelOK(k1.flights, k1.scopes, k1.owners, active) /\ S \subseteq DOMAIN k1.scopes /\ BoundOK(k1.flights, ac2)
    BY <1>5, <1>6, <1>7, <1>11, <1>20
  <2> HIDE DEF ac2
  <2>. QED
    BY <1>17, <2>1, RetireKernel
<1>22. /\ k2.flights = fl1 /\ Wanes(sc1, k2.scopes)
       /\ \A a \in DOMAIN scopes : IF a \in S THEN k2.scopes[a].aborted ELSE k2.scopes[a] = sc1[a]
       /\ k2.owners = Registered(k.owners, k2.scopes, S)
  <2>1. \A a \in DOMAIN k1.scopes : ScopeOK(k1.scopes[a])
    BY <1>5, <1>7 DEF KernelOK, ScopesOK
  <2>. QED
    BY <1>6, <1>7, <2>1, RetireWanes
<1> HIDE DEF k2
<1>23. Wanes(scopes, k2.scopes) /\ DOMAIN k2.scopes = DOMAIN scopes
  <2>1. Wanes(scopes, k.scopes) /\ Wanes(k.scopes, sc1) /\ Wanes(sc1, k2.scopes)
    BY <1>5, <1>22 DEF Stage
  <2>2. Wanes(scopes, sc1)
    BY <2>1, WaningIsTransitive
  <2>3. Wanes(scopes, k2.scopes)
    BY <2>1, <2>2, WaningIsTransitive
  <2>. QED
    BY <2>3 DEF Wanes
<1>24. WorkersOK(k2.scopes)
  <2>1. \A a \in DOMAIN scopes : Claims(k2.scopes[a]) => Claims(scopes[a])
    BY <1>23 DEF Wanes
  <2>. QED
    BY <1>23, <2>1, WorkersWane
<1>25. ASSUME NEW i \in new
       PROVE  ac2[i] = None /\ Publishable(fl1, k2.scopes, graph[i], i) /\ FlightOf(graph[i]) \in published
  <2>1. Publishable(k.flights, k.scopes, graph[i], i) /\ graph[i] \in DOMAIN scopes /\ graph[i] # active[i] /\ i \in Instances
    BY <1>10
  <2>2. k2.scopes[graph[i]] = sc1[graph[i]]
    BY <1>14, <1>22, <2>1
  <2>3. FlightOf(graph[i]) \in DOMAIN k.flights
    BY <1>9, <1>10
  <2>4. fl1[FlightOf(graph[i])].done = k.flights[FlightOf(graph[i])].done
    BY <1>6, <2>3
  <2>5. LET s == k.scopes[graph[i]]
            t == k2.scopes[graph[i]]
        IN t.op = s.op /\ t.held = s.held /\ t.aborted = s.aborted /\ t.disposal = s.disposal /\ t.startup = s.startup
    BY <1>1, <1>5, <2>1, <2>2
  <2>6. Publishable(fl1, k2.scopes, graph[i], i)
    BY <1>23, <2>1, <2>4, <2>5 DEF Publishable
  <2>. QED
    BY <1>16, <2>1, <2>6
<1>26. ASSUME NEW f \in published
       PROVE  /\ f \in DOMAIN fl1 /\ fl1[f].state = "settled"
              /\ \A a \in DOMAIN k2.scopes : FlightOf(a) = f /\ Working(k2.scopes[a]) =>
                     a \in k2.owners \/ graph[InstanceOf(a)] = a
  <2>1. f \in DOMAIN fl1 /\ fl1[f].state = "settled"
    BY <1>6, <1>9, <1>16
  <2>2. ASSUME NEW a \in DOMAIN scopes, FlightOf(a) = f, Working(k2.scopes[a]), graph[InstanceOf(a)] # a PROVE a \in k2.owners
    <3>1. a \in S
      BY <1>15, <1>16, <2>2
    <3>. QED
      BY <1>22, <2>2, <3>1 DEF Registered, Confirmed
  <2>. QED
    BY <1>23, <2>1, <2>2
<1>27. \A i \in Instances \ new : graph[i] = ac2[i]
  BY DEF GraphReplaces
<1>28. graph \in [Instances -> Activations \cup {None}] /\ new \in SUBSET Instances /\ published \in SUBSET DOMAIN fl1
  BY <1>10, <1>26 DEF GraphReplaces
<1>29. KernelOK(fl1, k2.scopes, k2.owners, ac2)
  BY <1>21, <1>22
<1> HIDE DEF ac2
<1>30. KernelOK(flights', scopes', owners', active') /\ WorkersOK(scopes')
  <2>1. StartsUp(k2.scopes, scopes', k2.owners, graph, new)
    BY <1>4 DEF StartsUp
  <2>2. \A i \in new : /\ ac2[i] = None /\ Publishable(fl1, k2.scopes, graph[i], i)
                       /\ FlightOf(graph[i]) \in published
    BY <1>25
  <2>3. \A f \in published : /\ fl1[f].state = "settled"
                             /\ \A a \in DOMAIN k2.scopes : FlightOf(a) = f /\ Working(k2.scopes[a]) =>
                                    a \in k2.owners \/ graph[InstanceOf(a)] = a
    BY <1>26
  <2>4. active \in [Instances -> Activations \cup {None}]
    BY <1>1
  <2> HIDE DEF fresh
  <2>5. Gains(fl1, k2.scopes, k2.owners, ac2, graph, new, published)
    BY <1>19, <1>27, <1>28, <2>2, <2>3, <2>4 DEF Gains
  <2>6. KernelOK(Consumed(fl1, published), scopes', k2.owners, graph) /\ WorkersOK(scopes')
    BY <1>24, <1>29, <2>1, <2>5, PublicationKernel
  <2>. QED
    BY <1>2, <1>4, <2>6
<1>31. DOMAIN scopes' = DOMAIN scopes
  BY <1>4, <1>23
<1>32. ASSUME NEW a \in DOMAIN scopes, a \notin fresh
       PROVE  /\ scopes'[a] = k2.scopes[a] /\ scopes'[a].startup = scopes[a].startup
              /\ scopes[a].aborted => scopes'[a].aborted
  BY <1>4, <1>23, <1>32 DEF Wanes, Ages
<1>33. ASSUME NEW i \in new
       PROVE  /\ graph[i] \in DOMAIN scopes /\ scopes[graph[i]].startup = "none" /\ ~scopes[graph[i]].aborted
              /\ ~scopes'[graph[i]].aborted
  <2> DEFINE a == graph[i]
  <2>1. Publishable(fl1, k2.scopes, a, i) /\ a \in fresh /\ i \in Instances /\ a \in DOMAIN scopes
    BY <1>10, <1>25
  <2>2. scopes'[a] = Started(k2.scopes[a], i, k2.owners, k2.scopes)
    BY <1>4, <1>23, <2>1 DEF Publishable
  <2>3. ScopeOK(k2.scopes[a]) /\ active[i] \in Activations \cup {None}
    BY <1>1, <1>23, <1>29, <2>1 DEF KernelOK, ScopesOK
  <2> HIDE DEF a
  <2>4. ~scopes'[a].aborted
    BY <2>1, <2>2, <2>3, StartedScope DEF Publishable
  <2>5. scopes[a].startup = "none" /\ ~scopes[a].aborted
    BY <1>23, <2>1 DEF Publishable, Wanes, Ages
  <2>. QED
    BY <2>1, <2>4, <2>5 DEF a
<1>34. ASSUME NEW i \in Instances \ new, graph[i] # None
       PROVE  /\ graph[i] = active[i]
              /\ scopes'[graph[i]].startup = scopes[graph[i]].startup
              /\ scopes'[graph[i]].aborted = scopes[graph[i]].aborted
  <2>1. graph[i] = active[i] /\ active[i] # None /\ i \in Instances
    BY <1>34 DEF GraphReplaces
  <2>2. active[i] \in DOMAIN scopes /\ InstanceOf(active[i]) = i /\ active[i] \notin S
    BY <1>8, <1>12, <2>1
  <2>3. active[i] \notin fresh
    <3>1. \A m \in new : InstanceOf(graph[m]) = m
      BY <1>10 DEF Publishable
    <3>. QED
      BY <1>34, <2>2, <3>1
  <2>4. scopes'[active[i]] = sc1[active[i]] /\ scopes'[active[i]].startup = scopes[active[i]].startup
    BY <1>22, <1>32, <2>2, <2>3
  <2>5. sc1[active[i]].aborted = k.scopes[active[i]].aborted
    BY <1>1, <1>5, <2>2
  <2>6. k.scopes[active[i]] = scopes[active[i]]
    BY <2>1 DEF Stage
  <2>. QED
    BY <2>1, <2>4, <2>5, <2>6
<1>35. finishing \subseteq finishing' /\ \A i \in new : Finishing(finishing', graph[i])
  <2>1. finishing \subseteq finishing'
    BY <1>2
  <2>2. ASSUME NEW i \in new PROVE Finishing(finishing', graph[i])
    <3> DEFINE g == [started |-> fresh, retired |-> superseded]
    <3>1. g \in finishing'
      BY <1>2
    <3>2. graph[i] \in g.started
      OBVIOUS
    <3>. QED
      BY <3>1, <3>2 DEF Finishing
  <2>. QED
    BY <2>1, <2>2
<1>37. \A g \in finishing' : g \in finishing \/ g.started \subseteq DOMAIN scopes
  <2>1. fresh \subseteq DOMAIN scopes
    BY <1>10
  <2> HIDE DEF fresh
  <2>. QED
    BY <1>2, <2>1
<1>36. ASSUME NEW a \in DOMAIN scopes
       PROVE /\ scopes[a].aborted => scopes'[a].aborted
             /\ scopes[a].startup = "failed" => scopes'[a].startup = "failed"
  BY <1>32, <1>33
<1>. QED
  BY <1>2, <1>30, <1>31, <1>33, <1>34, <1>35, <1>36, <1>37, ZenonT(40) DEF Replaced

\* A publication arrives at this graph: it keeps what bad does not withdraw,
\* and the old activations of seeds are uncertain.
Arrives(plan, k, seeds, bad, kept, base, graph) ==
    /\ bad \subseteq Candidates(plan.next) /\ kept = Candidates(plan.next) \ Withdrawn(plan, bad, Uncertain(seeds))
    /\ \A i \in Candidates(plan.next) : k.scopes[plan.next[i]].aborted => i \in bad
    /\ base = Left(plan.next, kept) \/ (base = active /\ kept = {})
    /\ graph = Without(base, Uncertain(seeds))

(* The graph that a publication arrives at (restoreFailedDomain and what    *)
(* follows it) is bound, and gains only what it keeps.                      *)
LEMMA PublishedGraph ==
    ASSUME NEW p, NEW fl, NEW plan, NEW k, Stage(k), PlanOK(p, fl, plan, k), NEW seeds, NEW bad, NEW kept, NEW base, NEW graph,
           Arrives(plan, k, seeds, bad, kept, base, graph)
    PROVE  /\ GraphReplaces(plan, k, graph, kept)
           /\ bad \subseteq Withdrawn(plan, bad, Uncertain(seeds)) /\ Withdrawn(plan, bad, Uncertain(seeds)) \subseteq Candidates(plan.next)
           /\ \A i \in Withdrawn(plan, bad, Uncertain(seeds)) :
                  plan.component[i] \subseteq Withdrawn(plan, bad, Uncertain(seeds))
PROOF
<1> DEFINE C == Candidates(plan.next)
           U == Uncertain(seeds)
           W == Withdrawn(plan, bad, U)
<1>0. /\ bad \in SUBSET Candidates(plan.next) /\ kept = Candidates(plan.next) \ Withdrawn(plan, bad, Uncertain(seeds))
      /\ \A i \in Candidates(plan.next) : k.scopes[plan.next[i]].aborted => i \in bad
      /\ base = Left(plan.next, kept) \/ (base = active /\ kept = {})
      /\ graph = Without(base, Uncertain(seeds))
  BY DEF Arrives
<1>1. /\ FlightsOK(fl) /\ BoundOK(fl, active) /\ plan.component = Components(p)
      /\ plan.next \in NextGraphs(p, fl, Components(p))
      /\ \A i \in Instances : active[i] # None => ~fl[FlightOf(active[i])].registered
  BY DEF PlanOK
<1>2. active \in [Instances -> Activations \cup {None}]
  BY DEF Stage, KernelOK, GraphOK
<1>3. W \subseteq C /\ WithdrawnClosed(p, plan.next, bad, U, W)
  BY <1>0, <1>1, <1>2, WithdrawnIsClosed
<1>4. bad \subseteq W /\ \A i \in W : plan.component[i] \subseteq W
  BY <1>1, <1>3 DEF WithdrawnClosed
<1>5. plan.next \in [Instances -> Activations \cup {None}]
  BY <1>1, <1>2, NextGraphIsPrepared
<1>6. kept = C \ W /\ kept \subseteq Instances
  BY <1>0 DEF Candidates
<1> HIDE DEF U, W
<1>7. ASSUME NEW i \in Instances
      PROVE  /\ graph[i] \in Activations \cup {None}
             /\ graph[i] = None \/ graph[i] = active[i] \/ (i \in kept /\ graph[i] = plan.next[i])
             /\ i \in kept => graph[i] = plan.next[i]
  <2>1. graph[i] = IF i \in U /\ base[i] = active[i] THEN None ELSE base[i]
    BY <1>0 DEF Without, U
  <2>2. CASE base = active /\ kept = {}
    <3>1. base[i] = active[i] /\ i \notin kept
      BY <2>2
    <3>. QED
      BY <1>2, <2>1, <3>1
  <2>3. CASE base = Left(plan.next, kept)
    <3>1. base[i] = IF i \in C \ kept THEN active[i] ELSE plan.next[i]
      BY <2>3 DEF Left
    <3>2. i \in C <=> plan.next[i] # None /\ plan.next[i] # active[i]
      BY DEF Candidates
    <3>. QED
      BY <1>2, <1>5, <1>6, <2>1, <3>1, <3>2
  <2>. QED
    BY <1>0, <2>2, <2>3
<1>8. graph = [i \in Instances |-> graph[i]]
  BY <1>0 DEF Without
<1>9. BoundOK(fl, graph)
  <2>1. CASE base = Left(plan.next, kept)
    <3>1. graph = Without(Left(plan.next, C \ W), U)
      BY <1>0, <1>6, <2>1 DEF U
    <3>2. W \in SUBSET C
      BY <1>3
    <3>3. BoundOK(fl, Without(Left(plan.next, C \ W), Uncertain(seeds)))
      BY <1>1, <1>2, <1>3, <3>2, LeftGraphIsBound DEF U
    <3>. QED
      BY <3>1, <3>3 DEF U
  <2>2. CASE base = active
    BY <1>0, <1>1, <2>2, OldGraphIsBound
  <2>. QED
    BY <1>0, <2>1, <2>2
<1>10. BoundOK(k.flights, graph)
  <2>1. SUFFICES ASSUME NEW i \in Instances, graph[i] # None, NEW j \in Requires[i]
                 PROVE  Binding(k.flights, graph[i], j) = Binding(fl, graph[i], j)
    BY <1>9 DEF BoundOK
  <2>2. FlightOf(graph[i]) \in DOMAIN flights
    <3>1. CASE graph[i] = active[i]
      BY <2>1, <3>1 DEF PlanOK
    <3>2. CASE graph[i] # active[i]
      <4>1. i \in C /\ graph[i] = plan.next[i]
        BY <1>6, <1>7, <2>1, <3>2
      <4>. QED
        BY <4>1 DEF PlanOK
    <3>. QED
      BY <3>1, <3>2
  <2>3. fl[FlightOf(graph[i])].external = k.flights[FlightOf(graph[i])].external
    BY <2>2 DEF PlanOK, Stage
  <2>. QED
    BY <2>3 DEF Binding
<1>11. GraphReplaces(plan, k, graph, kept)
  <2>1. \A i \in kept : i \in Instances /\ i \in C /\ i \notin bad
    BY <1>4, <1>6
  <2>2. graph \in [Instances -> Activations \cup {None}]
    BY <1>7, <1>8
  <2>. QED
    BY <1>0, <1>6, <1>7, <1>10, <2>1, <2>2 DEF GraphReplaces
<1>. QED
  BY <1>3, <1>4, <1>11 DEF W, U

\* What a switch or a pump leaves behind.
Switched ==
    /\ KernelOK(flights', scopes', owners', active') /\ WorkersOK(scopes')
    /\ failedRecords' \subseteq Instances /\ faults' \in 0..MaxFaults
    /\ DOMAIN scopes' = DOMAIN scopes
    /\ \A a \in DOMAIN scopes : /\ scopes[a].aborted => scopes'[a].aborted
                                /\ scopes[a].startup = "failed" => scopes'[a].startup = "failed"
    /\ \A i \in Instances : active'[i] # None =>
           \/ /\ active'[i] = active[i]
              /\ scopes'[active[i]].startup = scopes[active[i]].startup
              /\ scopes'[active[i]].aborted = scopes[active[i]].aborted
           \/ ~scopes'[active'[i]].aborted /\ Finishing(finishing', active'[i])
    /\ finishing \subseteq finishing'
    /\ \A g \in finishing' : g \in finishing \/ g.started \subseteq DOMAIN scopes

\* What leaves the graph that is still wanted and has what it requires failed,
\* or something that it requires did.
Losses(p) ==
    \A i \in Instances : active[i] # None /\ active'[i] = None /\ i \in Wanted(p) \ Waiting(p) =>
        \E j \in {i} \cup Upstream[i] :
            /\ active[j] # None
            /\ \/ scopes'[active[j]].failed \/ scopes'[active[j]].startup = "failed"
               \/ scopes[active[j]].aborted

(* A stage that the state becomes.                                          *)
LEMMA StageIsSwitched ==
    ASSUME NEW k, Stage(k), WorkersOK(scopes), Becomes(k), active' = active, finishing' = finishing,
           failedRecords' \subseteq Instances, faults' \in 0..MaxFaults
    PROVE  Switched
PROOF
<1>1. /\ KernelOK(k.flights, k.scopes, k.owners, active) /\ Wanes(scopes, k.scopes)
      /\ \A i \in Instances : active[i] # None => k.scopes[active[i]] = scopes[active[i]]
  BY DEF Stage
<1>2. DOMAIN k.scopes = DOMAIN scopes /\ \A a \in DOMAIN scopes : Claims(k.scopes[a]) => Claims(scopes[a])
  BY <1>1 DEF Wanes
<1>3. WorkersOK(k.scopes)
  BY <1>2, WorkersWane
<1>4. \A a \in DOMAIN scopes : /\ scopes[a].aborted => k.scopes[a].aborted
                               /\ scopes[a].startup = "failed" => k.scopes[a].startup = "failed"
  BY <1>1 DEF Wanes, Ages
<1>5. flights' = k.flights /\ scopes' = k.scopes /\ owners' = k.owners
  BY DEF Becomes
<1>. QED
  BY <1>1, <1>2, <1>3, <1>4, <1>5 DEF Switched

(* A rejected fence.                                                        *)
LEMMA FenceIsSwitched ==
    ASSUME NEW p, NEW fl, NEW plan, NEW k, Stage(k), PlanOK(p, fl, plan, k), WorkersOK(scopes),
           failedRecords \subseteq Instances, faults \in 0..MaxFaults, FenceRejects(plan, k)
    PROVE  Switched
PROOF
<1> DEFINE failed == [k EXCEPT !.flights = FailedFlights(k.flights, plan.ready)]
           given == UNION {Prepared(f) : f \in plan.ready}
<1>1. /\ faults < MaxFaults /\ faults' = faults + 1 /\ Becomes(Retire(failed, given))
      /\ active' = active /\ failedRecords' = failedRecords /\ finishing' = finishing
  BY DEF FenceRejects
<1>2. failed = [flights |-> FailedFlights(k.flights, plan.ready), scopes |-> k.scopes, owners |-> k.owners]
  BY DEF Stage, Works
<1>3. /\ Works(failed) /\ failed.flights = FailedFlights(k.flights, plan.ready)
      /\ failed.scopes = k.scopes /\ failed.owners = k.owners
  BY <1>2 DEF Works
<1> HIDE DEF failed
<1>4. FlightsOK(k.flights)
  BY DEF Stage, KernelOK
<1>5. /\ FlightsMove(k.flights, failed.flights)
      /\ \A f \in DOMAIN k.flights : k.flights[f].registered => failed.flights[f].registered
  BY <1>3, <1>4, FailingEases
<1>6. Stage(failed)
  BY <1>3, <1>5, FlightsMoveStage
<1>7. given \in SUBSET DOMAIN scopes /\ \A i \in Instances : active[i] # None => active[i] \notin given
  <2>1. ASSUME NEW f \in plan.ready
        PROVE Prepared(f) \subseteq DOMAIN scopes /\ \A i \in Instances : active[i] # None => active[i] \notin Prepared(f)
    <3>1. f \in DOMAIN flights /\ k.flights[f].registered
      BY DEF PlanOK
    <3>. QED
      BY <3>1, PreparedIsNotPublished
  <2>. QED
    BY <2>1
<1>8. Stage(Retire(failed, given))
  BY <1>6, <1>7, RetireStage
<1>9. faults' \in 0..MaxFaults
  BY <1>1, GenerationsAssumption
<1>. QED
  BY <1>1, <1>8, <1>9, StageIsSwitched

(* A publication, whatever of it fails.                                     *)
LEMMA PublicationIsSwitched ==
    ASSUME NEW p, NEW fl, NEW plan, NEW k, Stage(k), PlanOK(p, fl, plan, k), WorkersOK(scopes),
           failedRecords \subseteq Instances, faults \in 0..MaxFaults, Publishes(p, plan, k)
    PROVE  Switched /\ Losses(p)
PROOF
<1> DEFINE next == plan.next
           C == Candidates(next)
           aborted == {i \in C : k.scopes[next[i]].aborted}
           first(bad) == {i \in bad : Upstream[i] \cap bad = {}}
           attempted(bad) == UNION {plan.component[i] \cap ({i} \cup Upstream[i]) : i \in first(bad)}
           Choice(bad, tainted, seeds, uncertain, kept) ==
               LET stands == bad = {} \/ kept # {} \/ \E i \in Instances \ Wanted(p) : active[i] # None
                   doubted == {next[i] : i \in tainted} \cup {active[i] : i \in {j \in seeds : active[j] # None}}
                   failing == (IF stands THEN {} ELSE plan.ready)
                                  \cup Overlapping(k.flights, UNION {plan.component[i] : i \in first(bad)})
                   left == [i \in Instances |-> IF i \in C \ kept THEN active[i] ELSE next[i]]
               IN /\ aborted \subseteq bad
                  /\ Cardinality(tainted) <= 1
                  /\ faults' = faults + Cardinality(bad \ aborted) + Cardinality(tainted)
                  /\ faults' <= MaxFaults
                  /\ \E graph \in {Without(IF stands THEN left ELSE active, uncertain)} :
                         Replaces(plan, k, graph, kept, doubted, failing, stands)
                  /\ failedRecords' = IF stands THEN FailedNow(p, flights', active', (C \ kept) \cup uncertain)
                                      ELSE failedRecords \cup uncertain
<1>0. \E bad \in SUBSET C : \E tainted \in SUBSET (attempted(bad) \ aborted) : \E seeds \in {UNION {plan.component[i] : i \in tainted}} :
          \E uncertain \in {Uncertain(seeds)} : \E kept \in {C \ Withdrawn(plan, bad, uncertain)} :
              Choice(bad, tainted, seeds, uncertain, kept)
  BY Zenon DEF Publishes
<1> HIDE DEF Choice
<1>1. PICK bad \in SUBSET C : \E tainted \in SUBSET (attempted(bad) \ aborted) : \E seeds \in {UNION {plan.component[i] : i \in tainted}} :
          \E uncertain \in {Uncertain(seeds)} : \E kept \in {C \ Withdrawn(plan, bad, uncertain)} :
              Choice(bad, tainted, seeds, uncertain, kept)
  BY <1>0
<1>b. PICK tainted \in SUBSET (attempted(bad) \ aborted) : \E seeds \in {UNION {plan.component[i] : i \in tainted}} :
          \E uncertain \in {Uncertain(seeds)} : \E kept \in {C \ Withdrawn(plan, bad, uncertain)} :
              Choice(bad, tainted, seeds, uncertain, kept)
  BY <1>1
<1>c. PICK seeds, uncertain, kept : /\ seeds = UNION {plan.component[i] : i \in tainted}
                                   /\ uncertain = Uncertain(seeds) /\ kept = C \ Withdrawn(plan, bad, uncertain)
                                   /\ Choice(bad, tainted, seeds, uncertain, kept)
  BY <1>b
<1> DEFINE stands == bad = {} \/ kept # {} \/ \E i \in Instances \ Wanted(p) : active[i] # None
           doubted == {next[i] : i \in tainted} \cup {active[i] : i \in {j \in seeds : active[j] # None}}
           failing == (IF stands THEN {} ELSE plan.ready)
                            \cup Overlapping(k.flights, UNION {plan.component[i] : i \in first(bad)})
           W == Withdrawn(plan, bad, uncertain)
           graph == Without(IF stands THEN Left(next, kept) ELSE active, uncertain)
<1>2. /\ aborted \subseteq bad
      /\ faults' = faults + Cardinality(bad \ aborted) + Cardinality(tainted) /\ faults' <= MaxFaults
      /\ Replaces(plan, k, graph, kept, doubted, failing, stands)
      /\ failedRecords' = IF stands THEN FailedNow(p, flights', active', (C \ kept) \cup uncertain)
                          ELSE failedRecords \cup uncertain
  BY <1>c, ZenonT(40) DEF Choice, Left
<1>3. uncertain = Uncertain(seeds) /\ kept = C \ W /\ seeds = UNION {plan.component[i] : i \in tainted}
  BY <1>c
<1>4. \A i \in C : k.scopes[next[i]].aborted => i \in bad
  BY <1>2
<1>5. kept # {} => stands
  OBVIOUS
<1>d. stands \in BOOLEAN
  OBVIOUS
<1> HIDE DEF stands, failing, graph
<1>6. /\ GraphReplaces(plan, k, graph, kept) /\ bad \subseteq W /\ W \subseteq C
      /\ \A i \in W : plan.component[i] \subseteq W
  <2>1. W = Withdrawn(plan, bad, Uncertain(seeds)) /\ kept = C \ Withdrawn(plan, bad, Uncertain(seeds))
    BY <1>3
  <2> DEFINE base == IF stands THEN Left(next, kept) ELSE active
  <2>2. graph = Without(base, Uncertain(seeds)) /\ (base = Left(plan.next, kept) \/ (base = active /\ kept = {}))
    <3>1. graph = Without(base, uncertain)
      BY DEF graph
    <3>2. base = Left(plan.next, kept) \/ (base = active /\ kept = {})
      BY <1>5
    <3> HIDE DEF base
    <3>. QED
      BY <1>3, <3>1, <3>2
  <2>3. /\ bad \in SUBSET Candidates(plan.next) /\ kept = Candidates(plan.next) \ Withdrawn(plan, bad, Uncertain(seeds))
        /\ \A i \in Candidates(plan.next) : k.scopes[plan.next[i]].aborted => i \in bad
    BY <1>4, <2>1
  <2> HIDE DEF W, C, next, base, attempted, first, aborted, doubted
  <2>a. Arrives(plan, k, seeds, bad, kept, base, graph)
    BY <2>2, <2>3 DEF Arrives
  <2>4. /\ GraphReplaces(plan, k, graph, kept)
        /\ bad \subseteq Withdrawn(plan, bad, Uncertain(seeds)) /\ Withdrawn(plan, bad, Uncertain(seeds)) \subseteq Candidates(plan.next)
        /\ \A i \in Withdrawn(plan, bad, Uncertain(seeds)) :
               plan.component[i] \subseteq Withdrawn(plan, bad, Uncertain(seeds))
    BY <2>a, PublishedGraph
  <2>. QED
    BY <2>1, <2>4 DEF C, next
<1>7. C \subseteq Instances
  BY DEF Candidates
<1>8. tainted \subseteq W /\ tainted \cap aborted = {} /\ seeds \subseteq Instances
  <2>1. ASSUME NEW i \in tainted PROVE i \in W /\ i \notin aborted
    <3>1. PICK m \in first(bad) : i \in plan.component[m]
      OBVIOUS
    <3>2. m \in W
      BY <1>6
    <3>. QED
      BY <1>6, <3>1, <3>2
  <2> HIDE DEF W
  <2>2. ASSUME NEW s \in seeds PROVE s \in W
    <3>1. PICK m \in tainted : s \in plan.component[m]
      BY <1>3
    <3>. QED
      BY <1>6, <2>1, <3>1
  <2>. QED
    BY <1>6, <1>7, <2>1, <2>2
<1>9. \A a \in doubted : a \in DOMAIN k.scopes => k.scopes[a].disposal = "none"
  <2>1. ASSUME NEW i \in tainted, next[i] \in DOMAIN k.scopes PROVE k.scopes[next[i]].disposal = "none"
    <3>1. ~k.scopes[next[i]].aborted
      BY <1>6, <1>8
    <3>2. ScopeOK(k.scopes[next[i]])
      BY <2>1 DEF Stage, KernelOK, ScopesOK
    <3>. QED
      BY <3>1, <3>2 DEF ScopeOK, ScopeRecords
  <2>2. ASSUME NEW i \in seeds, active[i] # None PROVE k.scopes[active[i]].disposal = "none"
    BY <1>8, <2>2 DEF Stage, KernelOK, GraphOK
  <2>. QED
    BY <2>1, <2>2
<1> HIDE DEF doubted, W
<1>10. Replaced(graph, kept)
  <2>1. Replaces(plan, k, graph, kept, doubted, failing, stands)
    BY <1>2
  <2>2. GraphReplaces(plan, k, graph, kept)
    BY <1>6
  <2>3. Undisposed(k.scopes, doubted)
    BY <1>9 DEF Undisposed
  <2>. QED
    BY <1>5, <2>1, <2>2, <2>3, ReplacesKernel
<1>11. faults' \in 0..MaxFaults
  <2>1. bad \ aborted \in SUBSET Instances /\ tainted \in SUBSET Instances
    BY <1>6, <1>7, <1>8
  <2>2. IsFiniteSet(bad \ aborted) /\ IsFiniteSet(tainted)
    BY <2>1, FS_Subset, GenerationsAssumption
  <2>3. Cardinality(bad \ aborted) \in Nat /\ Cardinality(tainted) \in Nat
    BY <2>2, FS_CardinalityType
  <2>4. faults' = faults + Cardinality(bad \ aborted) + Cardinality(tainted) /\ faults' <= MaxFaults
    BY <1>2
  <2>5. MaxFaults \in Nat
    BY GenerationsAssumption
  <2> HIDE DEF aborted
  <2>6. \A m, n \in Nat : faults' = faults + m + n => faults' \in Nat
    BY <2>5
  <2>. QED
    BY <2>3, <2>4, <2>5, <2>6
<1>12. failedRecords' \subseteq Instances
  <2>1. FailedNow(p, flights', active', (C \ kept) \cup uncertain) \subseteq Instances
    BY DEF FailedNow, Wanted
  <2>2. uncertain \subseteq Instances
    BY <1>3 DEF Uncertain
  <2>. QED
    BY <1>2, <2>1, <2>2, ZenonT(40)
<1>13. Losses(p)
  <2>1. SUFFICES ASSUME NEW i \in Instances, active[i] # None, active'[i] = None, i \in Wanted(p) \ Waiting(p)
                 PROVE \E j \in {i} \cup Upstream[i] : active[j] # None /\ scopes'[active[j]].failed
    BY DEF Losses
  <2>2. graph[i] = None
    BY <1>10, <2>1 DEF Replaced
  <2> DEFINE g == IF stands THEN Left(next, kept) ELSE active
  <2>3. graph[i] = IF i \in uncertain /\ g[i] = active[i] THEN None ELSE g[i]
    BY DEF graph, Without
  <2>4. g[i] # None
    <3>1. FlightsOK(fl) /\ BoundOK(fl, active) /\ next \in NextGraphs(p, fl, Components(p))
      BY DEF PlanOK
    <3>2. next[i] # None
      BY <2>1, <3>1, SuccessorStays
    <3>. QED
      BY <2>1, <3>2 DEF Left
  <2>5. i \in uncertain
    BY <2>2, <2>3, <2>4
  <2>6. PICK j \in seeds \cap ({i} \cup Upstream[i]) : active[j] # None
    BY <1>3, <2>5 DEF Uncertain
  <2>7. active[j] \in doubted
    BY <2>6 DEF doubted
  <2>8. active[j] \in DOMAIN k.scopes
    BY <1>8, <2>6 DEF Stage, KernelOK, GraphOK
  <2>9. scopes'[active[j]].failed
    BY <1>2, <2>7, <2>8, DoubtIsKept
  <2>. QED
    BY <2>6, <2>9
<1>. QED
  BY <1>10, <1>11, <1>12, <1>13 DEF Switched, Replaced

(* switchNow, whatever it does.                                             *)
LEMMA SwitchIsSwitched ==
    ASSUME NEW p, NEW inBackground, NEW k, Stage(k), DOMAIN k.flights = DOMAIN flights, WorkersOK(scopes),
           failedRecords \subseteq Instances, faults \in 0..MaxFaults, SwitchNow(p, inBackground, k)
    PROVE  Switched /\ Losses(p)
PROOF
<1> DEFINE Outcome(next, plan, after) ==
               LET initializing == \E f \in DOMAIN after.flights : after.flights[f].registered /\ after.flights[f].state = "running"
               IN IF initializing /\ (~inBackground \/ next = active)
                  THEN /\ Becomes(after)
                       /\ failedRecords' = IF inBackground THEN FailedNow(p, after.flights, next, {}) ELSE failedRecords
                       /\ UNCHANGED <<active, finishing, faults>>
                  ELSE FenceRejects(plan, after) \/ Publishes(p, plan, after)
<1>1. \E component \in {Components(p)} :
      \E next \in NextGraphs(p, k.flights, component) :
      \E plan \in {Plan(p, k.flights, component, next)} :
      \E left \in {Cancel(k, plan.stale)} :
      \E begun \in {Begins(left, plan)} :
      \E after \in {Retire(begun, UNION {Prepared(f) : f \in plan.spent})} : Outcome(next, plan, after)
  BY Zenon DEF SwitchNow
<1> HIDE DEF Outcome
<1>2. PICK next \in NextGraphs(p, k.flights, Components(p)) :
         \E plan \in {Plan(p, k.flights, Components(p), next)} :
         \E left \in {Cancel(k, plan.stale)} :
         \E begun \in {Begins(left, plan)} :
         \E after \in {Retire(begun, UNION {Prepared(f) : f \in plan.spent})} : Outcome(next, plan, after)
  BY <1>1, ZenonT(40)
<1>3. PICK plan : /\ plan = Plan(p, k.flights, Components(p), next)
                  /\ \E left \in {Cancel(k, plan.stale)} :
                     \E begun \in {Begins(left, plan)} :
                     \E after \in {Retire(begun, UNION {Prepared(f) : f \in plan.spent})} : Outcome(next, plan, after)
  BY <1>2
<1>4. PICK left, begun, after : /\ left = Cancel(k, plan.stale) /\ begun = Begins(left, plan)
                                /\ after = Retire(begun, UNION {Prepared(f) : f \in plan.spent})
                                /\ Outcome(next, plan, after)
  BY <1>3
<1>5. Stage(after) /\ PlanOK(p, k.flights, plan, after)
  <2>1. plan = Plan(p, k.flights, Components(p), next)
    BY <1>3
  <2>. QED
    BY <1>4, <2>1, SwitchStage
<1>9. active' = active => Losses(p)
  BY DEF Losses
<1>6. CASE FenceRejects(plan, after)
  <2>1. active' = active
    BY <1>6 DEF FenceRejects
  <2>. QED
    BY <1>5, <1>6, <1>9, <2>1, FenceIsSwitched
<1>7. CASE Publishes(p, plan, after)
  BY <1>5, <1>7, PublicationIsSwitched
<1>8. CASE /\ Becomes(after)
           /\ failedRecords' = IF inBackground THEN FailedNow(p, after.flights, next, {}) ELSE failedRecords
           /\ UNCHANGED <<active, finishing, faults>>
  <2>1. failedRecords' \subseteq Instances
    <3>1. FailedNow(p, after.flights, next, {}) \subseteq Instances
      BY DEF FailedNow, Wanted
    <3>. QED
      BY <1>8, <3>1
  <2>. QED
    BY <1>5, <1>8, <1>9, <2>1, StageIsSwitched
<1>. QED
  BY <1>4, <1>6, <1>7, <1>8 DEF Outcome

(* A switch or a pump keeps the invariant.                                  *)
LEMMA SwitchedInvariant ==
    ASSUME IInv, Switched, queue # <<>>, Head(queue).op # "failure", queue' = Tail(queue), stop \in {"no", "called"},
           UNCHANGED stopVars, DOMAIN calls' = DOMAIN calls
    PROVE  IInv'
PROOF
<1>1. PendingOK(scopes', active', finishing', queue')
  <2>1. queue \in Seq(Entries)
    BY DEF IInv, PendingOK
  <2>2. queue' \in Seq(Entries) /\ \A a : Queued(queue', a) <=> Queued(queue, a)
    BY <2>1, QueueShrinks
  <2>3. ASSUME NEW i \in Instances, active'[i] # None
        PROVE LET s == scopes'[active'[i]] IN
              /\ s.startup \in StartingUp => Finishing(finishing', active'[i])
              /\ s.startup = "failed" => Finishing(finishing', active'[i]) \/ Queued(queue', active'[i])
              /\ s.aborted /\ s.startup # "failed" => Queued(queue', active'[i])
    <3>1. CASE /\ active'[i] = active[i]
               /\ scopes'[active[i]].startup = scopes[active[i]].startup
               /\ scopes'[active[i]].aborted = scopes[active[i]].aborted
      <4>1. Finishing(finishing, active[i]) => Finishing(finishing', active[i])
        BY DEF Switched, Finishing
      <4>. QED
        BY <2>2, <2>3, <3>1, <4>1 DEF IInv, PendingOK
    <3>2. CASE ~scopes'[active'[i]].aborted /\ Finishing(finishing', active'[i])
      BY <3>2
    <3>. QED
      BY <2>3, <3>1, <3>2 DEF Switched
  <2>4. ASSUME NEW n \in 1..Len(queue'), queue'[n].op = "failure", NEW a \in queue'[n].of
        PROVE a \in DOMAIN scopes' /\ (scopes'[a].aborted \/ scopes'[a].startup = "failed")
    <3>1. Queued(queue, a)
      BY <2>2, <2>4 DEF Queued
    <3>2. a \in DOMAIN scopes /\ (scopes[a].aborted \/ scopes[a].startup = "failed")
      BY <3>1 DEF IInv, PendingOK, Queued
    <3>. QED
      BY <3>2 DEF Switched
  <2>. QED
    BY <2>2, <2>3, <2>4 DEF PendingOK
<1>2. ShutdownOK(flights', scopes', active', queue', stop', stopStates')
  BY DEF IInv, ShutdownOK, Switched, stopVars
<1>. QED
  BY <1>1, <1>2 DEF IInv, Switched

-----------------------------------------------------------------------------
(* The mutation queue.                                                      *)

\* What the queue and its callers do to the rest: nothing.
Rests == UNCHANGED <<active, failedRecords, finishing, flights, scopes, owners, faults>> /\ DOMAIN calls' = DOMAIN calls

(* A step that only moves the queue, without a failure in it.               *)
LEMMA QueueMoves ==
    ASSUME IInv, Rests, queue' \in Seq(Entries), \A a : Queued(queue', a) <=> Queued(queue, a),
           ShutdownOK(flights, scopes, active, queue', stop', stopStates')
    PROVE  IInv'
PROOF
<1>1. PendingOK(scopes, active, finishing, queue')
  <2>1. PendingOK(scopes, active, finishing, queue)
    BY DEF IInv
  <2>. QED
    BY <2>1, PendingWanes
<1>2. /\ active' = active /\ failedRecords' = failedRecords /\ finishing' = finishing /\ flights' = flights
      /\ scopes' = scopes /\ owners' = owners /\ faults' = faults /\ DOMAIN calls' = DOMAIN calls
  BY DEF Rests
<1>. QED
  BY <1>1, <1>2 DEF IInv

(* A switch that is dropped after shutdown.                                 *)
LEMMA QueueDrops ==
    ASSUME IInv, Rests, UNCHANGED stopVars, queue # <<>>, Head(queue).op \notin {"failure", "dispose"}, queue' = Tail(queue)
    PROVE  IInv'
PROOF
<1>1. queue \in Seq(Entries)
  BY DEF IInv, PendingOK
<1>2. queue' \in Seq(Entries) /\ \A a : Queued(queue', a) <=> Queued(queue, a)
  BY <1>1, QueueShrinks
<1>3. ShutdownOK(flights, scopes, active, queue', stop', stopStates')
  BY DEF IInv, ShutdownOK, stopVars
<1>. QED
  BY <1>2, <1>3, QueueMoves

(* Flights that a switch cancels first.                                     *)
LEMMA RunSwitchInvariant == IInv /\ RunSwitch => IInv' /\ (active' = active \/ Losses(desired'))
PROOF
<1>1. SUFFICES ASSUME IInv, RunSwitch PROVE IInv' /\ (active' = active \/ Losses(desired'))
  OBVIOUS
<1> DEFINE c == First.call
           p == calls[c].request.profile
           stale == {f \in DOMAIN flights : flights[f].registered
                        /\ (flights[f].failed \/ \E k \in f[1] : flights[f].revision[k] # p[k])}
<1>2. /\ queue # <<>> /\ Head(queue).op = "switch" /\ queue' = Tail(queue) /\ UNCHANGED stopVars
      /\ DOMAIN calls' = DOMAIN calls
  BY <1>1 DEF RunSwitch, First, Later
<1>3. CASE Disposed
  <2>1. Rests
    BY <1>1, <1>2, <1>3 DEF RunSwitch, Rests, kernelVars
  <2>. QED
    BY <1>1, <1>2, <2>1, QueueDrops DEF Rests
<1>4. CASE ~Disposed
  <2>1. PICK k : k = Cancel(Now, stale) /\ SwitchNow(p, background', k)
    BY <1>1, <1>4, ZenonT(40) DEF RunSwitch
  <2>0. desired' = p
    BY <1>1, <1>4 DEF RunSwitch
  <2>2. Stage(Now) /\ Now.flights = flights
    BY <1>1, NowIsStage DEF IInv, Now
  <2>3. stale \in SUBSET DOMAIN flights /\ \A f \in stale : Now.flights[f].registered
    BY <2>2
  <2> HIDE DEF stale
  <2>4. Stage(k) /\ DOMAIN k.flights = DOMAIN flights
    BY <2>1, <2>2, <2>3, CancelStage
  <2> HIDE DEF p
  <2>5. PICK b : b = background'
    OBVIOUS
  <2>6. SwitchNow(p, b, k)
    BY <2>1, <2>5
  <2>7. WorkersOK(scopes) /\ failedRecords \subseteq Instances /\ faults \in 0..MaxFaults
    BY <1>1 DEF IInv
  <2>8. Switched /\ Losses(p)
    BY <2>4, <2>6, <2>7, SwitchIsSwitched
  <2>9. stop \in {"no", "called"}
    BY <1>4 DEF Disposed
  <2>. QED
    BY <1>1, <1>2, <2>0, <2>8, <2>9, SwitchedInvariant
<1>. QED
  BY <1>3, <1>4

(* continueInitialization.                                                  *)
LEMMA RunPumpInvariant == IInv /\ RunPump => IInv' /\ (active' = active \/ Losses(desired'))
PROOF
<1>1. SUFFICES ASSUME IInv, RunPump PROVE IInv' /\ (active' = active \/ Losses(desired'))
  OBVIOUS
<1>2. /\ queue # <<>> /\ Head(queue).op = "pump" /\ queue' = Tail(queue) /\ UNCHANGED stopVars /\ calls' = calls
  BY <1>1 DEF RunPump, First, Later
<1>3. CASE Disposed
  <2>1. Rests
    BY <1>1, <1>2, <1>3 DEF RunPump, Rests, kernelVars
  <2>. QED
    BY <1>1, <1>2, <2>1, QueueDrops DEF Rests
<1>4. CASE ~Disposed
  <2>1. SwitchNow(desired, background, Now)
    BY <1>1, <1>4 DEF RunPump
  <2>2. Stage(Now) /\ Now.flights = flights
    BY <1>1, NowIsStage DEF IInv, Now
  <2>3. WorkersOK(scopes) /\ failedRecords \subseteq Instances /\ faults \in 0..MaxFaults
    BY <1>1 DEF IInv
  <2>4. Switched /\ Losses(desired) /\ desired' = desired
    BY <1>1, <1>4, <2>1, <2>2, <2>3, SwitchIsSwitched DEF RunPump
  <2>5. stop \in {"no", "called"}
    BY <1>4 DEF Disposed
  <2>. QED
    BY <1>1, <1>2, <2>4, <2>5, SwitchedInvariant
<1>. QED
  BY <1>3, <1>4

(* Calls of switch() that queue it.                                         *)
LEMMA CallInvariant ==
    ASSUME NEW c \in DOMAIN calls, IInv, SwitchCalled(c) \/ SwitchQueued(c)
    PROVE  IInv'
PROOF
<1> DEFINE e == [op |-> "switch", call |-> c]
<1>1. e \in Entries /\ e.op = "switch"
  BY DEF IInv, Entries
<1>2. queue \in Seq(Entries) /\ ShutdownOK(flights, scopes, active, queue, stop, stopStates)
  BY DEF IInv, PendingOK
<1>3. queue' = queue \/ queue' = Append(queue, e)
  BY DEF SwitchCalled, SwitchQueued
<1> HIDE DEF e
<1>4. /\ queue' \in Seq(Entries) /\ \A a : Queued(queue', a) <=> Queued(queue, a)
      /\ queue # <<>> => queue' # <<>> /\ Head(queue') = Head(queue)
  BY <1>1, <1>2, <1>3, QueueGrows
<1>5. Rests /\ stop' = stop /\ stopStates' = stopStates
  BY DEF SwitchCalled, SwitchQueued, Rests, kernelVars, stopVars
<1>6. ShutdownOK(flights, scopes, active, queue', stop', stopStates')
  BY <1>2, <1>4, <1>5 DEF ShutdownOK
<1>. QED
  BY <1>4, <1>5, <1>6, QueueMoves

(* What shutdown() waits for, one after the other.                          *)
LEMMA StopInvariant == IInv /\ (DisposeEnds \/ DisposeJoins \/ ShutdownConfirms \/ ShutdownTimesOut) => IInv'
PROOF
<1>1. SUFFICES ASSUME IInv, DisposeEnds \/ DisposeJoins \/ ShutdownConfirms \/ ShutdownTimesOut PROVE IInv'
  OBVIOUS
<1>2. Rests
  BY <1>1 DEF DisposeEnds, DisposeJoins, ShutdownConfirms, ShutdownTimesOut, Rests, kernelVars
<1>3. queue \in Seq(Entries) /\ ShutdownOK(flights, scopes, active, queue, stop, stopStates)
  BY <1>1 DEF IInv, PendingOK
<1>4. stop' \in {"confirming"} => stop \notin {"no", "called"}
  BY <1>1 DEF DisposeEnds, DisposeJoins, ShutdownConfirms, ShutdownTimesOut
<1>5. /\ stop \notin {"no", "called"} => \A a \in DOMAIN scopes : Working(scopes[a]) => a \in ToConfirm
      /\ ToConfirm \subseteq DOMAIN scopes
  <2>1. OwnersOK(flights, scopes, owners, active) /\ ScopesOK(flights, scopes)
    BY <1>1 DEF IInv, KernelOK
  <2>2. ASSUME stop \notin {"no", "called"}, NEW a \in DOMAIN scopes, Working(scopes[a]) PROVE a \in owners
    <3>1. a # None /\ InstanceOf(a) \in Instances /\ FlightOf(a) \in DOMAIN flights
      BY <2>1, GenerationsAssumption DEF ScopesOK, Activations, InstanceOf
    <3>. QED
      BY <1>3, <2>1, <2>2, <3>1 DEF OwnersOK, ShutdownOK
  <2>. QED
    BY <1>3, <2>1, <2>2 DEF ToConfirm, OwnersOK, ShutdownOK
<1>6. CASE DisposeEnds
  <2>1. stop = "disposing" /\ queue # <<>> /\ Head(queue).op = "dispose" /\ queue' = Tail(queue)
    BY <1>3, <1>6 DEF DisposeEnds, ShutdownOK, Later
  <2>2. queue' \in Seq(Entries) /\ \A a : Queued(queue', a) <=> Queued(queue, a)
    BY <1>3, <2>1, QueueShrinks
  <2>3. ShutdownOK(flights, scopes, active, queue', stop', stopStates')
    BY <1>3, <1>5, <1>6, <2>1 DEF DisposeEnds, ShutdownOK
  <2>. QED
    BY <1>1, <1>2, <2>2, <2>3, QueueMoves
<1>7. CASE DisposeJoins
  <2>1. queue' = queue /\ ShutdownOK(flights, scopes, active, queue', stop', stopStates')
    BY <1>3, <1>5, <1>7 DEF DisposeJoins, ShutdownOK
  <2>. QED
    BY <1>1, <1>2, <1>3, <2>1, QueueMoves
<1>8. CASE ShutdownConfirms \/ ShutdownTimesOut
  <2>1. queue' = queue /\ ShutdownOK(flights, scopes, active, queue', stop', stopStates')
    BY <1>3, <1>8 DEF ShutdownConfirms, ShutdownTimesOut, ShutdownOK
  <2>. QED
    BY <1>1, <1>2, <1>3, <2>1, QueueMoves
<1>. QED
  BY <1>1, <1>6, <1>7, <1>8

-----------------------------------------------------------------------------
(* One activation.                                                          *)

\* A published activation whose startup ends, or that fails, is on its way out.
Leaves(a, t, q) ==
    LET s == scopes[a] IN
    /\ t.startup \in StartingUp => s.startup \in StartingUp
    /\ t.startup = "failed" => s.startup \in StartingUp \cup {"failed"}
    /\ t.aborted /\ t.startup # "failed" => (s.aborted /\ s.startup # "failed") \/ Queued(q, a)

\* One scope changes, and the owners that are confirmed may go.
OneScope(a, t) ==
    /\ Ages(scopes[a], t)
    /\ scopes[a].startup = "failed" => t.startup = "failed"
    /\ active[InstanceOf(a)] = a => t.disposal = "none" /\ Leaves(a, t, queue')
    /\ scopes' = [scopes EXCEPT ![a] = t]
    /\ owners' \subseteq DOMAIN scopes
    /\ \A b \in DOMAIN scopes : Working(scopes'[b]) => b \in owners' \/ b \notin owners
    /\ UNCHANGED <<kernelVars, flights, calls, stopVars>> /\ faults' \in 0..MaxFaults

\* Nothing is queued but the failure of an activation.
QueuesFailure(a, t) ==
    /\ queue' \in Seq(Entries)
    /\ queue # <<>> => queue' # <<>> /\ Head(queue') = Head(queue)
    /\ \A b : Queued(queue, b) => Queued(queue', b)
    /\ \A b : Queued(queue', b) => Queued(queue, b) \/ (b = a /\ t.aborted)

(* One activation ages and nothing else changes.                            *)
LEMMA OneScopeInvariant ==
    ASSUME IInv, NEW a \in DOMAIN scopes, NEW t, OneScope(a, t), QueuesFailure(a, t), WorkersOK(scopes')
    PROVE  IInv'
PROOF
<1>0. /\ Ages(scopes[a], t) /\ scopes' = [scopes EXCEPT ![a] = t]
      /\ active' = active /\ failedRecords' = failedRecords /\ finishing' = finishing /\ flights' = flights /\ calls' = calls
      /\ stop' = stop /\ stopStates' = stopStates /\ faults' \in 0..MaxFaults
  BY DEF OneScope, kernelVars, stopVars
<1>1. KernelOK(flights, scopes, owners, active) /\ PendingOK(scopes, active, finishing, queue)
      /\ ShutdownOK(flights, scopes, active, queue, stop, stopStates)
  BY DEF IInv
<1>2. /\ DOMAIN scopes' = DOMAIN scopes /\ scopes' = [b \in DOMAIN scopes |-> scopes'[b]]
      /\ scopes'[a] = t /\ \A b \in DOMAIN scopes : b # a => scopes'[b] = scopes[b]
  BY <1>0, <1>1 DEF KernelOK, ScopesOK
<1>3. ASSUME NEW b \in DOMAIN scopes PROVE Ages(scopes[b], scopes'[b])
  <2>1. CASE b = a
    BY <1>0, <1>2, <2>1
  <2>2. CASE b # a
    <3>1. ScopeOK(scopes[b])
      BY <1>1 DEF KernelOK, ScopesOK
    <3>. QED
      BY <1>2, <2>2, <3>1, RetiringAges
  <2>. QED
    BY <2>1, <2>2
<1>4. KernelOK(flights, scopes', owners', active)
  <2>1. ScopesAge(scopes, scopes')
    BY <1>2, <1>3 DEF ScopesAge
  <2>2. GraphShrinks(active, active, scopes')
    <3>1. ASSUME NEW i \in Instances, active[i] # None PROVE scopes'[active[i]].disposal = "none"
      <4>1. active[i] \in DOMAIN scopes /\ InstanceOf(active[i]) = i /\ scopes[active[i]].disposal = "none"
        BY <1>1, <3>1 DEF KernelOK, GraphOK
      <4>. QED
        BY <1>2, <4>1 DEF OneScope
    <3>2. active = [i \in Instances |-> active[i]]
      BY <1>1 DEF KernelOK, GraphOK
    <3>. QED
      BY <3>1, <3>2 DEF GraphShrinks
  <2>3. OwnersStay(flights, scopes, owners, active, flights, scopes', owners', active)
    BY DEF OneScope, OwnersStay
  <2>4. FlightsMove(flights, flights) /\ BoundOK(flights, active)
    BY <1>1, FlightsStay DEF KernelOK
  <2>. QED
    BY <1>1, <2>1, <2>2, <2>3, <2>4, KernelAges
<1>5. PendingOK(scopes', active, finishing, queue')
  <2>1. ASSUME NEW i \in Instances, active[i] # None
        PROVE LET s == scopes'[active[i]] IN
              /\ s.startup \in StartingUp => Finishing(finishing, active[i])
              /\ s.startup = "failed" => Finishing(finishing, active[i]) \/ Queued(queue', active[i])
              /\ s.aborted /\ s.startup # "failed" => Queued(queue', active[i])
    <3>1. active[i] \in DOMAIN scopes /\ InstanceOf(active[i]) = i
      BY <1>1, <2>1 DEF KernelOK, GraphOK
    <3>2. LET s == scopes[active[i]] IN
          /\ s.startup \in StartingUp => Finishing(finishing, active[i])
          /\ s.startup = "failed" => Finishing(finishing, active[i]) \/ Queued(queue, active[i])
          /\ s.aborted /\ s.startup # "failed" => Queued(queue, active[i])
      BY <1>1, <2>1 DEF PendingOK
    <3>3. Queued(queue, active[i]) => Queued(queue', active[i])
      BY DEF QueuesFailure
    <3>4. CASE active[i] = a
      <4>1. Leaves(a, t, queue')
        BY <3>1, <3>4 DEF OneScope
      <4>. QED
        BY <1>2, <3>2, <3>3, <3>4, <4>1 DEF Leaves
    <3>5. CASE active[i] # a
      BY <1>2, <3>1, <3>2, <3>3, <3>5
    <3>. QED
      BY <3>4, <3>5
  <2>2. ASSUME NEW n \in 1..Len(queue'), queue'[n].op = "failure", NEW b \in queue'[n].of
        PROVE b \in DOMAIN scopes' /\ (scopes'[b].aborted \/ scopes'[b].startup = "failed")
    <3>1. Queued(queue', b)
      BY <2>2 DEF Queued
    <3>2. Queued(queue, b) \/ (b = a /\ t.aborted)
      BY <3>1 DEF QueuesFailure
    <3>3. CASE b = a /\ t.aborted
      BY <1>2, <3>3
    <3>4. CASE Queued(queue, b)
      <4>1. b \in DOMAIN scopes /\ (scopes[b].aborted \/ scopes[b].startup = "failed")
        BY <1>1, <3>4 DEF PendingOK, Queued
      <4>2. scopes[b].aborted => scopes'[b].aborted
        BY <1>3, <4>1 DEF Ages
      <4>3. scopes[b].startup = "failed" => scopes'[b].startup = "failed"
        BY <1>2, <4>1 DEF OneScope
      <4>. QED
        BY <1>2, <4>1, <4>2, <4>3
    <3>. QED
      BY <3>2, <3>3, <3>4
  <2>3. queue' \in Seq(Entries)
    BY DEF QueuesFailure
  <2>. QED
    BY <2>1, <2>2, <2>3 DEF PendingOK
<1>6. ShutdownOK(flights, scopes', active, queue', stop, stopStates)
  <2>1. \A b \in DOMAIN scopes : /\ Working(scopes'[b]) => Working(scopes[b])
                                 /\ Confirmed(scopes[b]) => Confirmed(scopes'[b])
    BY <1>3 DEF Ages
  <2>2. stop = "disposing" => queue' # <<>> /\ Head(queue') = Head(queue)
    BY <1>1 DEF ShutdownOK, QueuesFailure
  <2>. QED
    BY <1>1, <1>2, <2>1, <2>2, ShutdownWanes
<1>. QED
  BY <1>0, <1>2, <1>4, <1>5, <1>6 DEF IInv

(* With the queue as it is.                                                 *)
LEMMA QueueStays ==
    ASSUME IInv, NEW a, NEW t, queue' = queue
    PROVE  QueuesFailure(a, t)
PROOF
<1>1. queue \in Seq(Entries)
  BY DEF IInv, PendingOK
<1>. QED
  BY <1>1 DEF QueuesFailure

(* A scope that claims no worker that it did not claim.                     *)
LEMMA NoNewClaim ==
    ASSUME IInv, NEW a \in DOMAIN scopes, NEW t, scopes' = [scopes EXCEPT ![a] = t], Claims(t) => Claims(scopes[a])
    PROVE  WorkersOK(scopes')
PROOF
<1>1. WorkersOK(scopes) /\ scopes = [b \in DOMAIN scopes |-> scopes[b]]
  BY DEF IInv, KernelOK, ScopesOK
<1>2. DOMAIN scopes' = DOMAIN scopes /\ \A b \in DOMAIN scopes : Claims(scopes'[b]) => Claims(scopes[b])
  BY <1>1
<1>. QED
  BY <1>1, <1>2, WorkersWane

(* What the invariant says of one scope.                                    *)
LEMMA ScopeFacts ==
    ASSUME IInv, NEW a \in DOMAIN scopes
    PROVE  /\ ScopeOK(scopes[a]) /\ scopes[a] \in ScopeRecords
           /\ a \in Activations /\ a # None /\ InstanceOf(a) \in Instances /\ FlightOf(a) \in DOMAIN flights
           /\ InFlight(a, scopes[a], flights[FlightOf(a)])
           /\ active[InstanceOf(a)] = a => scopes[a].disposal = "none" /\ scopes[a].startup # "none"
           /\ scopes[a].startup # "none" /\ ~scopes[a].aborted => active[InstanceOf(a)] = a
           /\ owners \subseteq DOMAIN scopes /\ faults \in 0..MaxFaults
PROOF
<1>1. ScopesOK(flights, scopes) /\ GraphOK(flights, scopes, active) /\ OwnersOK(flights, scopes, owners, active)
  BY DEF IInv, KernelOK
<1>2. ScopeOK(scopes[a]) /\ a \in Activations /\ FlightOf(a) \in DOMAIN flights /\ InFlight(a, scopes[a], flights[FlightOf(a)])
  BY <1>1 DEF ScopesOK
<1>3. a # None /\ InstanceOf(a) \in Instances
  BY <1>2, GenerationsAssumption DEF Activations, InstanceOf
<1>. QED
  BY <1>1, <1>2, <1>3 DEF GraphOK, OwnersOK, ScopeOK, IInv

(* Startups that go on, and what was given up before.                       *)
LEMMA StartupInvariant ==
    ASSUME IInv, NEW a \in DOMAIN scopes, WorkerStarts(a) \/ WorkerRuns(a) \/ StartupGivesUp(a) \/ OperationEnds(a)
    PROVE  IInv'
PROOF
<1> DEFINE s == scopes[a]
<1>1. ScopeOK(s) /\ s \in ScopeRecords /\ owners \subseteq DOMAIN scopes /\ faults \in 0..MaxFaults
      /\ (active[InstanceOf(a)] = a => s.disposal = "none" /\ s.startup # "none")
  BY ScopeFacts
<1>2. SUFFICES ASSUME NEW t, ScopeStep(a, t), owners' = owners, faults' \in 0..MaxFaults,
                      Ages(s, t), s.startup = "failed" => t.startup = "failed", t.disposal = s.disposal,
                      active[InstanceOf(a)] = a => Leaves(a, t, queue'), Claims(t) => Claims(s)
               PROVE  IInv'
  <2> DEFINE Suits(t) == /\ ScopeStep(a, t) /\ owners' = owners /\ faults' \in 0..MaxFaults
                         /\ Ages(s, t) /\ (s.startup = "failed" => t.startup = "failed") /\ t.disposal = s.disposal
                         /\ (active[InstanceOf(a)] = a => Leaves(a, t, queue')) /\ (Claims(t) => Claims(s))
  <2>1. ASSUME WorkerStarts(a) PROVE \E t : Suits(t)
    <3> DEFINE t == [s EXCEPT !.startup = "starting", !.worker = TRUE]
    <3>1. ScopeStep(a, t) /\ owners' = owners /\ faults' = faults /\ s.startup = "admitted" /\ ~s.aborted
      BY <2>1 DEF WorkerStarts
    <3>2. /\ Ages(s, t) /\ t.disposal = s.disposal /\ (Claims(t) => Claims(s))
          /\ t.startup \in StartingUp /\ t.startup = "starting" /\ ~t.aborted
      BY <1>1, <3>1 DEF Ages, ScopeOK, ScopeRecords, StartingUp, Working, Confirmed, Claims
    <3>3. Leaves(a, t, queue')
      BY <3>1, <3>2 DEF Leaves, StartingUp
    <3>. QED
      BY <1>1, <3>1, <3>2, <3>3
  <2>2. ASSUME WorkerRuns(a) PROVE \E t : Suits(t)
    <3> DEFINE t == [s EXCEPT !.startup = "running", !.op = FALSE]
    <3>1. ScopeStep(a, t) /\ owners' = owners /\ faults' = faults /\ s.startup = "starting" /\ ~s.aborted
      BY <2>2 DEF WorkerRuns
    <3>2. /\ Ages(s, t) /\ t.disposal = s.disposal /\ (Claims(t) => Claims(s))
          /\ t.startup = "running" /\ ~t.aborted
      BY <1>1, <3>1 DEF Ages, ScopeOK, ScopeRecords, StartingUp, Working, Confirmed, Claims
    <3>3. Leaves(a, t, queue')
      BY <3>1, <3>2 DEF Leaves, StartingUp
    <3>. QED
      BY <1>1, <3>1, <3>2, <3>3
  <2>3. ASSUME StartupGivesUp(a) PROVE \E t : Suits(t)
    <3> DEFINE t == [s EXCEPT !.startup = "failed", !.aborted = TRUE]
    <3>1. ScopeStep(a, t) /\ owners' = owners /\ faults' \in 0..MaxFaults /\ s.startup \in StartingUp
      BY <1>1, <2>3, GenerationsAssumption DEF StartupGivesUp, Fault, StartingUp
    <3>2. Ages(s, t) /\ t.disposal = s.disposal /\ (Claims(t) => Claims(s)) /\ t.startup = "failed"
      BY <1>1, <3>1, ZenonT(40) DEF Ages, ScopeOK, ScopeRecords, StartingUp, Working, Confirmed, Claims
    <3>3. Leaves(a, t, queue')
      BY <3>1, <3>2 DEF Leaves, StartingUp
    <3>. QED
      BY <3>1, <3>2, <3>3
  <2>4. ASSUME OperationEnds(a) PROVE \E t : Suits(t)
    <3>1. PICK acquired \in BOOLEAN :
             ScopeStep(a, [s EXCEPT !.op = FALSE, !.late = acquired, !.worker = @ /\ (acquired \/ s.held)])
      BY <2>4 DEF OperationEnds
    <3> DEFINE t == [s EXCEPT !.op = FALSE, !.late = acquired, !.worker = s.worker /\ (acquired \/ s.held)]
    <3>2. ScopeStep(a, t) /\ owners' = owners /\ faults' = faults /\ s.op /\ s.aborted /\ s.startup \in {"none", "failed"}
      BY <2>4, <3>1 DEF OperationEnds
    <3>3. /\ Ages(s, t) /\ t.disposal = s.disposal /\ (Claims(t) => Claims(s))
          /\ t.startup = s.startup /\ t.aborted
      <4> DEFINE w == s.worker /\ (acquired \/ s.held)
      <4>1. s \in ScopeRecords /\ ScopeOK(s) /\ w \in BOOLEAN /\ t = [s EXCEPT !.op = FALSE, !.late = acquired, !.worker = w]
        BY <1>1
      <4>2. w => s.worker /\ (acquired \/ s.held)
        OBVIOUS
      <4> HIDE DEF s, t, w
      <4>3. t \in ScopeRecords
        BY <4>1, ZenonT(40) DEF ScopeRecords
      <4>4. /\ t.op = FALSE /\ t.late = acquired /\ t.worker = w
            /\ t.held = s.held /\ t.aborted = s.aborted /\ t.failed = s.failed /\ t.startup = s.startup /\ t.disposal = s.disposal
        BY <4>1 DEF ScopeRecords
      <4>5. ScopeOK(t)
        BY <3>2, <4>1, <4>2, <4>3, <4>4 DEF ScopeOK, StartingUp, Working
      <4>6. Ages(s, t)
        BY <3>2, <4>4, <4>5 DEF Ages, Working, Confirmed
      <4>. QED
        BY <3>2, <4>2, <4>4, <4>6 DEF Claims
    <3>4. Leaves(a, t, queue')
      BY <3>2, <3>3 DEF Leaves, StartingUp
    <3>. QED
      BY <1>1, <3>2, <3>3, <3>4
  <2>. QED
    BY <2>1, <2>2, <2>3, <2>4
<1>3. OneScope(a, t)
  BY <1>1, <1>2 DEF OneScope, ScopeStep
<1>4. QueuesFailure(a, t)
  BY <1>2, QueueStays DEF ScopeStep
<1>5. WorkersOK(scopes')
  BY <1>2, NoNewClaim DEF ScopeStep
<1>. QED
  BY <1>3, <1>4, <1>5, OneScopeInvariant

(* Disposal of what is not published, in time and late.                     *)
LEMMA DisposalInvariant ==
    ASSUME IInv, NEW a \in DOMAIN scopes,
           DisposalEnds(a) \/ DisposalTimesOut(a) \/ LateDisposalEnds(a) \/ DisposerFails(a)
    PROVE  IInv'
PROOF
<1> DEFINE s == scopes[a]
<1>1. /\ ScopeOK(s) /\ s \in ScopeRecords /\ owners \subseteq DOMAIN scopes /\ faults \in 0..MaxFaults
      /\ active[InstanceOf(a)] = a => s.disposal = "none" /\ s.startup # "none"
      /\ scopes = [b \in DOMAIN scopes |-> scopes[b]]
  BY ScopeFacts DEF IInv, KernelOK, ScopesOK
<1>2. SUFFICES ASSUME NEW t, scopes' = [scopes EXCEPT ![a] = t],
                      UNCHANGED <<kernelVars, flights, queue, calls, stopVars>>,
                      owners' = owners \/ owners' = Registered(owners, scopes', {a}), faults' \in 0..MaxFaults,
                      Ages(s, t), t.startup = s.startup, t.aborted = s.aborted, s.disposal = "none" => t.disposal = "none",
                      Claims(t) => Claims(s)
               PROVE  IInv'
  <2> DEFINE Suits(t) == /\ scopes' = [scopes EXCEPT ![a] = t]
                         /\ UNCHANGED <<kernelVars, flights, queue, calls, stopVars>>
                         /\ owners' = owners \/ owners' = Registered(owners, scopes', {a})
                         /\ faults' \in 0..MaxFaults
                         /\ Ages(s, t) /\ t.startup = s.startup /\ t.aborted = s.aborted
                         /\ s.disposal = "none" => t.disposal = "none"
                         /\ Claims(t) => Claims(s)
  <2>1. ASSUME DisposalEnds(a) PROVE \E t : Suits(t)
    <3> DEFINE t == [s EXCEPT !.held = FALSE, !.worker = s.worker /\ (s.op \/ s.late), !.disposal = "over", !.clean = ~s.op /\ ~s.failed]
    <3>1. s.disposal = "running" /\ owners' = Registered(owners, scopes', {a}) /\ faults' = faults
      BY <2>1 DEF DisposalEnds
    <3>2. [[s EXCEPT !.held = FALSE, !.worker = s.worker /\ (s.op \/ s.late)] EXCEPT !.disposal = "over", !.clean = ~s.op /\ ~s.failed] = t
      BY <1>1 DEF ScopeRecords
    <3>3. ScopeStep(a, [[s EXCEPT !.held = FALSE, !.worker = s.worker /\ (s.op \/ s.late)] EXCEPT !.disposal = "over", !.clean = ~s.op /\ ~s.failed])
      BY <2>1 DEF DisposalEnds
    <3>4. ScopeStep(a, t)
      BY <3>2, <3>3
    <3>5. Ages(s, t) /\ t.startup = s.startup /\ t.aborted = s.aborted /\ (Claims(t) => Claims(s))
      <4> DEFINE w == s.worker /\ (s.op \/ s.late)
                 c == ~s.op /\ ~s.failed
      <4>1. /\ s \in ScopeRecords /\ ScopeOK(s) /\ w \in BOOLEAN /\ c \in BOOLEAN
            /\ t = [s EXCEPT !.held = FALSE, !.worker = w, !.disposal = "over", !.clean = c]
        BY <1>1
      <4>2. w => s.worker /\ (s.op \/ s.late)
        OBVIOUS
      <4> HIDE DEF s, t, w, c
      <4>3. t \in ScopeRecords
        BY <4>1, ZenonT(40) DEF ScopeRecords
      <4>4. /\ t.held = FALSE /\ t.worker = w /\ t.disposal = "over"
            /\ t.op = s.op /\ t.late = s.late /\ t.aborted = s.aborted /\ t.failed = s.failed /\ t.startup = s.startup
        BY <4>1 DEF ScopeRecords
      <4>5. ScopeOK(t)
        BY <3>1, <4>1, <4>2, <4>3, <4>4 DEF ScopeOK, Working
      <4>6. Ages(s, t)
        BY <3>1, <4>1, <4>4, <4>5 DEF Ages, ScopeOK, Working, Confirmed
      <4>. QED
        BY <4>2, <4>4, <4>6 DEF Claims
    <3>. QED
      BY <1>1, <3>1, <3>4, <3>5 DEF ScopeStep
  <2>2. ASSUME DisposalTimesOut(a) PROVE \E t : Suits(t)
    <3> DEFINE t == [s EXCEPT !.disposal = "over"]
    <3>1. s.disposal = "running" /\ owners' = owners /\ faults' \in 0..MaxFaults /\ ScopeStep(a, t)
      BY <1>1, <2>2, GenerationsAssumption DEF DisposalTimesOut, Fault
    <3>2. Ages(s, t) /\ t.startup = s.startup /\ t.aborted = s.aborted /\ (Claims(t) => Claims(s))
      BY <1>1, <3>1 DEF Ages, ScopeOK, ScopeRecords, StartingUp, Working, Confirmed, Claims
    <3>. QED
      BY <3>1, <3>2 DEF ScopeStep
  <2>3. ASSUME LateDisposalEnds(a) PROVE \E t : Suits(t)
    <3> DEFINE h == s.held /\ s.disposal # "over"
               t == [s EXCEPT !.late = FALSE, !.held = h, !.worker = s.worker /\ (s.op \/ h)]
               r == [s EXCEPT !.late = FALSE, !.held = h]
    <3>1. (s.late \/ s.held) /\ ~s.failed /\ owners' = owners /\ faults' = faults
      BY <2>3 DEF LateDisposalEnds
    <3>2. ScopeStep(a, [r EXCEPT !.worker = s.worker /\ (s.op \/ r.held)])
      BY <2>3 DEF LateDisposalEnds
    <3>3. [r EXCEPT !.worker = s.worker /\ (s.op \/ r.held)] = t
      BY <1>1 DEF ScopeRecords
    <3>4. ScopeStep(a, t)
      BY <3>2, <3>3
    <3>5. Ages(s, t) /\ t.startup = s.startup /\ t.aborted = s.aborted /\ t.disposal = s.disposal /\ (Claims(t) => Claims(s))
      <4> DEFINE w == s.worker /\ (s.op \/ h)
      <4>1. /\ s \in ScopeRecords /\ ScopeOK(s) /\ w \in BOOLEAN /\ h \in BOOLEAN
            /\ t = [s EXCEPT !.late = FALSE, !.held = h, !.worker = w]
        BY <1>1
      <4>2. /\ w => s.worker /\ (s.op \/ h)
            /\ h => s.held
            /\ s.disposal = "none" => (s.held => h)
        OBVIOUS
      <4> HIDE DEF s, t, w, h
      <4>3. t \in ScopeRecords
        BY <4>1, ZenonT(40) DEF ScopeRecords
      <4>4. /\ t.late = FALSE /\ t.held = h /\ t.worker = w
            /\ t.op = s.op /\ t.aborted = s.aborted /\ t.failed = s.failed /\ t.startup = s.startup /\ t.disposal = s.disposal
        BY <4>1 DEF ScopeRecords
      <4>5. ScopeOK(t)
        BY <4>1, <4>2, <4>3, <4>4 DEF ScopeOK, Working
      <4>6. (Working(t) => Working(s)) /\ (Confirmed(s) => Confirmed(t))
        BY <4>2, <4>4 DEF Working, Confirmed
      <4>7. s.startup = "none" /\ ~t.aborted => t.op = s.op /\ t.held = s.held
        <5>1. ~t.aborted => s.disposal = "none"
          BY <4>1, <4>4 DEF ScopeOK, ScopeRecords
        <5>2. s.held \in BOOLEAN /\ t.held \in BOOLEAN
          BY <4>1, <4>3 DEF ScopeRecords
        <5>. QED
          BY <4>2, <4>4, <5>1, <5>2
      <4>8. Ages(s, t)
        BY <4>4, <4>5, <4>6, <4>7 DEF Ages
      <4>. QED
        BY <4>2, <4>4, <4>8 DEF Claims
    <3>. QED
      BY <1>1, <3>1, <3>4, <3>5, ZenonT(40) DEF ScopeStep
  <2>4. ASSUME DisposerFails(a) PROVE \E t : Suits(t)
    <3> DEFINE t == [s EXCEPT !.failed = TRUE]
    <3>1. /\ s.disposal = "over" /\ (s.late \/ s.held) /\ faults' \in 0..MaxFaults /\ scopes' = [scopes EXCEPT ![a] = t]
          /\ UNCHANGED <<kernelVars, flights, queue, calls, stopVars>> /\ owners' = owners
      BY <1>1, <2>4, GenerationsAssumption DEF DisposerFails
    <3>2. Ages(s, t) /\ t.startup = s.startup /\ t.aborted = s.aborted /\ t.disposal = s.disposal /\ (Claims(t) => Claims(s))
      BY <1>1, <3>1, ZenonT(40) DEF Ages, ScopeOK, ScopeRecords, StartingUp, Working, Confirmed, Claims
    <3>. QED
      BY <3>1, <3>2
  <2>. QED
    BY <2>1, <2>2, <2>3, <2>4
<1>3. DOMAIN scopes' = DOMAIN scopes
  BY <1>1, <1>2
<1>4. owners' \subseteq DOMAIN scopes /\ \A b \in DOMAIN scopes : Working(scopes'[b]) => b \in owners' \/ b \notin owners
  BY <1>1, <1>2, <1>3 DEF Registered, Confirmed
<1>5. Leaves(a, t, queue')
  BY <1>2 DEF Leaves, StartingUp
<1>6. OneScope(a, t)
  BY <1>1, <1>2, <1>4, <1>5 DEF OneScope
<1>7. QueuesFailure(a, t)
  BY <1>2, QueueStays
<1>8. WorkersOK(scopes')
  BY <1>2, NoNewClaim
<1>. QED
  BY <1>6, <1>7, <1>8, OneScopeInvariant

(* A plugin that reports its own failure.                                   *)
LEMMA PluginFailsInvariant ==
    ASSUME IInv, NEW a \in DOMAIN scopes, PluginFails(a)
    PROVE  IInv'
PROOF
<1> DEFINE s == scopes[a]
           t == [s EXCEPT !.aborted = TRUE]
           e == [op |-> "failure", of |-> {a}]
<1>1. /\ ScopeOK(s) /\ s \in ScopeRecords /\ a \in Activations /\ owners \subseteq DOMAIN scopes /\ faults \in 0..MaxFaults
      /\ active[InstanceOf(a)] = a => s.disposal = "none" /\ s.startup # "none"
      /\ scopes = [b \in DOMAIN scopes |-> scopes[b]]
  BY ScopeFacts DEF IInv, KernelOK, ScopesOK
<1>2. /\ scopes' = [scopes EXCEPT ![a] = t] /\ queue' = Append(queue, e) /\ owners' = owners /\ ~s.aborted
      /\ UNCHANGED <<kernelVars, flights, calls, stopVars>> /\ faults' \in 0..MaxFaults
  BY <1>1, GenerationsAssumption DEF PluginFails
<1>3. /\ Ages(s, t) /\ t.startup = s.startup /\ t.disposal = s.disposal /\ t.aborted /\ (Claims(t) => Claims(s))
  BY <1>1, ZenonT(40) DEF Ages, ScopeOK, ScopeRecords, StartingUp, Working, Confirmed, Claims
<1>4. e \in Entries /\ e.op = "failure" /\ e.of = {a}
  BY <1>1 DEF Entries
<1>5. queue \in Seq(Entries)
  BY DEF IInv, PendingOK
<1> HIDE DEF e, t
<1>6. /\ queue' \in Seq(Entries) /\ (queue # <<>> => queue' # <<>> /\ Head(queue') = Head(queue))
      /\ \A b : Queued(queue', b) <=> Queued(queue, b) \/ b = a
  BY <1>2, <1>4, <1>5, QueueGrows
<1>7. QueuesFailure(a, t)
  BY <1>3, <1>6 DEF QueuesFailure
<1>8. Leaves(a, t, queue')
  BY <1>3, <1>6 DEF Leaves
<1>9. OneScope(a, t)
  <2>1. owners' \subseteq DOMAIN scopes /\ \A b \in DOMAIN scopes : Working(scopes'[b]) => b \in owners' \/ b \notin owners
    BY <1>1, <1>2
  <2>. QED
    BY <1>1, <1>2, <1>3, <1>8, <2>1 DEF OneScope
<1>10. WorkersOK(scopes')
  BY <1>2, <1>3, NoNewClaim
<1>. QED
  BY <1>7, <1>9, <1>10, OneScopeInvariant

(* A worker that waited for the activation it replaces: it may start only   *)
(* where nobody else of its instance is at work or may start.               *)
LEMMA BarrierInvariant ==
    ASSUME IInv, NEW a \in DOMAIN scopes, BarrierSettles(a)
    PROVE  IInv'
PROOF
<1> DEFINE s == scopes[a]
           i == InstanceOf(a)
           gate == scopes[s.prior].clean /\ GateOpen(i, owners, scopes)
           t == IF gate THEN [s EXCEPT !.startup = "admitted"] ELSE [s EXCEPT !.startup = "failed", !.op = FALSE]
<1>1. /\ ScopeOK(s) /\ s \in ScopeRecords /\ a \in Activations /\ owners \subseteq DOMAIN scopes /\ faults \in 0..MaxFaults
      /\ active[i] = a => s.disposal = "none" /\ s.startup # "none"
      /\ s.startup # "none" /\ ~s.aborted => active[i] = a
      /\ scopes = [b \in DOMAIN scopes |-> scopes[b]]
  BY ScopeFacts DEF IInv, KernelOK, ScopesOK
<1>2. s.startup = "waiting" /\ ScopeStep(a, t) /\ faults' = faults
  BY DEF BarrierSettles
<1>3. owners' = owners \/ owners' = Pruned(i, owners, scopes)
  BY DEF BarrierSettles
<1>4. /\ Ages(s, t) /\ t.disposal = s.disposal /\ t.aborted = s.aborted /\ t.startup \in {"admitted", "failed"}
      /\ Claims(t) => gate /\ ~s.aborted
      /\ Working(s)
  <2>1. CASE gate
    BY <1>1, <1>2, <2>1 DEF Ages, ScopeOK, ScopeRecords, StartingUp, Working, Confirmed, Claims
  <2>2. CASE ~gate
    BY <1>1, <1>2, <2>2, ZenonT(40) DEF Ages, ScopeOK, ScopeRecords, StartingUp, Working, Confirmed, Claims
  <2>. QED
    BY <2>1, <2>2
<1> HIDE DEF t
<1>5. scopes' = [scopes EXCEPT ![a] = t] /\ queue' = queue
  BY <1>2 DEF ScopeStep
<1>6. Leaves(a, t, queue')
  BY <1>2, <1>4 DEF Leaves, StartingUp
<1>7. OneScope(a, t)
  <2>1. owners' \subseteq DOMAIN scopes
    BY <1>1, <1>3 DEF Pruned
  <2>2. ASSUME NEW b \in DOMAIN scopes, Working(scopes'[b]) PROVE b \in owners' \/ b \notin owners
    <3>1. CASE b = a
      BY <1>3, <1>4, <3>1 DEF Pruned, Confirmed
    <3>2. CASE b # a
      <4>1. Working(scopes[b])
        BY <1>1, <1>5, <2>2, <3>2
      <4>. QED
        BY <1>3, <4>1 DEF Pruned, Confirmed
    <3>. QED
      BY <3>1, <3>2
  <2>. QED
    BY <1>1, <1>2, <1>4, <1>5, <1>6, <2>1, <2>2 DEF OneScope, ScopeStep
<1>8. QueuesFailure(a, t)
  BY <1>5, QueueStays
<1>9. WorkersOK(scopes')
  <2>1. WorkersOK(scopes) /\ KernelOK(flights, scopes, owners, active)
    BY DEF IInv
  <2>2. DOMAIN scopes' = DOMAIN scopes /\ scopes'[a] = t /\ \A b \in DOMAIN scopes : b # a => scopes'[b] = scopes[b]
    BY <1>1, <1>5
  <2>3. ASSUME NEW b \in DOMAIN scopes, b # a, InstanceOf(b) = i, Claims(t) PROVE ~Claims(scopes[b])
    <3>1. active[i] # b /\ GateOpen(i, owners, scopes)
      BY <1>1, <1>2, <1>4, <2>3
    <3>. QED
      BY <2>1, <2>3, <3>1, OpenGate
  <2>. QED
    BY <2>1, <2>2, <2>3 DEF WorkersOK
<1>. QED
  BY <1>7, <1>8, <1>9, OneScopeInvariant

-----------------------------------------------------------------------------
(* Failures, and shutdown.                                                  *)

(* The startups of a publication settle.                                    *)
LEMMA StartupsInvariant ==
    ASSUME IInv, NEW g \in finishing, StartupsSettled(g)
    PROVE  IInv'
PROOF
<1> DEFINE e == [op |-> "failure", of |-> StartupFailures(g)]
<1>1. /\ \A a \in g.started : scopes[a].startup \in {"running", "failed"}
      /\ finishing' = finishing \ {g} /\ queue' = Append(queue, e)
      /\ UNCHANGED <<desired, background, active, failedRecords, flights, scopes, owners, calls, stopVars, faults>>
  BY DEF StartupsSettled
<1>2. /\ queue \in Seq(Entries) /\ PendingOK(scopes, active, finishing, queue)
      /\ ShutdownOK(flights, scopes, active, queue, stop, stopStates)
      /\ g.started \subseteq DOMAIN scopes
  BY DEF IInv, PendingOK
<1>3. e \in Entries /\ e.op = "failure" /\ e.of = StartupFailures(g)
  <2>1. DOMAIN scopes \subseteq Activations
    BY DEF IInv, KernelOK, ScopesOK
  <2>2. StartupFailures(g) \subseteq Activations
    BY <1>2, <2>1 DEF StartupFailures
  <2>. QED
    BY <2>2 DEF Entries
<1> HIDE DEF e
<1>4. /\ queue' \in Seq(Entries) /\ queue' # <<>> /\ (queue # <<>> => Head(queue') = Head(queue))
      /\ \A a : Queued(queue', a) <=> Queued(queue, a) \/ a \in StartupFailures(g)
  BY <1>1, <1>2, <1>3, QueueGrows
<1>5. PendingOK(scopes, active, finishing', queue')
  <2>1. ASSUME NEW i \in Instances, active[i] # None
        PROVE LET s == scopes[active[i]] IN
              /\ s.startup \in StartingUp => Finishing(finishing', active[i])
              /\ s.startup = "failed" => Finishing(finishing', active[i]) \/ Queued(queue', active[i])
              /\ s.aborted /\ s.startup # "failed" => Queued(queue', active[i])
    <3> DEFINE s == scopes[active[i]]
    <3>1. /\ s.startup \in StartingUp => Finishing(finishing, active[i])
          /\ s.startup = "failed" => Finishing(finishing, active[i]) \/ Queued(queue, active[i])
          /\ s.aborted /\ s.startup # "failed" => Queued(queue, active[i])
      BY <1>2, <2>1 DEF PendingOK
    <3>2. ASSUME Finishing(finishing, active[i]) PROVE Finishing(finishing', active[i]) \/ active[i] \in g.started
      BY <1>1, <3>2 DEF Finishing
    <3>3. active[i] \in g.started => s.startup \notin StartingUp
      BY <1>1 DEF StartingUp
    <3>4. active[i] \in g.started /\ s.startup = "failed" => Queued(queue', active[i])
      BY <1>4 DEF StartupFailures
    <3>. QED
      BY <1>4, <3>1, <3>2, <3>3, <3>4
  <2>2. ASSUME NEW n \in 1..Len(queue'), queue'[n].op = "failure", NEW a \in queue'[n].of
        PROVE a \in DOMAIN scopes /\ (scopes[a].aborted \/ scopes[a].startup = "failed")
    <3>1. Queued(queue', a)
      BY <2>2 DEF Queued
    <3>2. CASE Queued(queue, a)
      BY <1>2, <3>2 DEF PendingOK, Queued
    <3>3. CASE a \in StartupFailures(g)
      BY <1>2, <3>3 DEF StartupFailures
    <3>. QED
      BY <1>4, <3>1, <3>2, <3>3
  <2>. QED
    BY <1>4, <2>1, <2>2 DEF PendingOK
<1>6. ShutdownOK(flights, scopes, active, queue', stop, stopStates)
  BY <1>2, <1>4 DEF ShutdownOK
<1>. QED
  BY <1>1, <1>5, <1>6 DEF IInv, stopVars

(* handleRuntimeFailure takes what failed out of the graph, with everything *)
(* that depends on it.                                                      *)
LEMMA RunFailureInvariant == IInv /\ RunFailure => IInv'
PROOF
<1>1. SUFFICES ASSUME IInv, RunFailure PROVE IInv'
  OBVIOUS
<1>2. /\ queue # <<>> /\ Head(queue).op = "failure" /\ queue' = Tail(queue) /\ RuntimeFailure(Head(queue).of)
      /\ finishing' = finishing /\ calls' = calls /\ stop' = stop /\ stopStates' = stopStates /\ faults' = faults
  BY <1>1 DEF RunFailure, First, Later, stopVars
<1>3. /\ queue \in Seq(Entries) /\ PendingOK(scopes, active, finishing, queue) /\ WorkersOK(scopes)
      /\ KernelOK(flights, scopes, owners, active) /\ ShutdownOK(flights, scopes, active, queue, stop, stopStates)
  BY <1>1 DEF IInv, PendingOK
<1>4. /\ queue' \in Seq(Entries)
      /\ \A a : Queued(queue, a) <=> (Queued(queue', a) \/ a \in Head(queue).of)
  BY <1>2, <1>3, QueueShrinks
<1>5. CASE Disposed
  <2>1. UNCHANGED <<active, failedRecords, flights, scopes, owners>>
    BY <1>2, <1>5 DEF RuntimeFailure
  <2>2. \A i \in Instances : active[i] = None
    BY <1>3, <1>5 DEF ShutdownOK, Disposed
  <2>3. PendingOK(scopes, active, finishing, queue')
    BY <1>3, <1>4, <2>2, PendingWanes
  <2>4. ShutdownOK(flights, scopes, active, queue', stop, stopStates)
    BY <1>2, <1>3 DEF ShutdownOK
  <2>. QED
    BY <1>1, <1>2, <2>1, <2>3, <2>4 DEF IInv
<1>6. CASE ~Disposed
  <2> DEFINE as == Head(queue).of
             hit == {i \in Instances : active[i] # None /\ active[i] \in as}
             removed == {i \in Instances : active[i] # None /\ ({i} \cup Upstream[i]) \cap hit # {}}
             gone == {active[i] : i \in removed}
             ac2 == [i \in Instances |-> IF i \in removed THEN None ELSE active[i]]
             k2 == Retire(Now, gone)
  <2>1. /\ active' = ac2 /\ failedRecords' = (failedRecords \ removed) \cup {i \in hit : Upstream[i] \cap hit = {}}
        /\ flights' = k2.flights /\ scopes' = k2.scopes /\ owners' = k2.owners
    BY <1>2, <1>6 DEF RuntimeFailure, Becomes
  <2>2. Now.flights = flights /\ Now.scopes = scopes /\ Now.owners = owners
    BY DEF Now
  <2>3. ASSUME NEW i \in Instances, active[i] # None
        PROVE /\ active[i] \in DOMAIN scopes /\ InstanceOf(active[i]) = i
              /\ active[i] \in gone <=> i \in removed
    BY <1>3, <2>3 DEF KernelOK, GraphOK
  <2>4. BoundOK(flights, ac2)
    <3>1. ASSUME NEW i \in Instances, ac2[i] # None, NEW j \in Requires[i]
          PROVE  ac2[j] # None /\ Binding(flights, ac2[i], j) = ac2[j]
      <4>1. i \notin removed /\ active[i] # None /\ ac2[i] = active[i]
        BY <3>1
      <4>2. active[j] # None /\ Binding(flights, active[i], j) = active[j] /\ j \in Instances
        BY <1>3, <3>1, <4>1, GenerationsAssumption DEF KernelOK, BoundOK
      <4>3. j \in Upstream[i] /\ Upstream[j] \subseteq Upstream[i]
        BY <3>1, UpstreamIsTransitive
      <4>4. j \notin removed
        BY <4>1, <4>2, <4>3
      <4>. QED
        BY <4>1, <4>2, <4>4
    <3>. QED
      BY <3>1 DEF BoundOK
  <2>5. /\ ac2 = [i \in Instances |-> ac2[i]] /\ gone \subseteq DOMAIN scopes
        /\ \A i \in Instances : ac2[i] = None \/ (ac2[i] = active[i] /\ active[i] \notin gone)
        /\ \A i \in Instances : active[i] # None /\ ac2[i] # active[i] => active[i] \in gone
    BY <2>3
  <2>6. \A i \in Instances : ac2[i] # None => ac2[i] = active[i] /\ active[i] # None /\ active[i] \notin as
    OBVIOUS
  <2>7. failedRecords' \subseteq Instances
    BY <1>1, <2>1 DEF IInv
  <2> HIDE DEF ac2, gone, removed, hit
  <2>8. KernelOK(k2.flights, k2.scopes, k2.owners, ac2)
    <3>1. KernelOK(Now.flights, Now.scopes, Now.owners, active) /\ gone \subseteq DOMAIN Now.scopes /\ BoundOK(Now.flights, ac2)
      BY <1>3, <2>2, <2>4, <2>5
    <3>. QED
      BY <2>5, <3>1, RetireKernel
  <2>9. /\ k2.flights = flights /\ Wanes(scopes, k2.scopes)
        /\ \A a \in DOMAIN scopes : IF a \in gone THEN k2.scopes[a].aborted ELSE k2.scopes[a] = scopes[a]
    <3>1. \A a \in DOMAIN Now.scopes : ScopeOK(Now.scopes[a])
      BY <1>3, <2>2 DEF KernelOK, ScopesOK
    <3>. QED
      BY <2>2, <3>1, RetireWanes
  <2> HIDE DEF k2
  <2>10. DOMAIN k2.scopes = DOMAIN scopes /\ \A a \in DOMAIN scopes : Claims(k2.scopes[a]) => Claims(scopes[a])
    BY <2>9 DEF Wanes
  <2>11. WorkersOK(k2.scopes)
    BY <1>3, <2>10, WorkersWane
  <2>12. PendingOK(k2.scopes, ac2, finishing, queue')
    <3>1. ASSUME NEW i \in Instances, ac2[i] # None
          PROVE /\ ac2[i] = active[i]
                /\ k2.scopes[active[i]].startup = scopes[active[i]].startup
                /\ k2.scopes[active[i]].aborted = scopes[active[i]].aborted
                /\ Queued(queue, active[i]) => Queued(queue', active[i])
      <4>1. ac2[i] = active[i] /\ active[i] # None /\ active[i] \notin as /\ active[i] \notin gone
        BY <2>5, <2>6, <3>1
      <4>2. k2.scopes[active[i]] = scopes[active[i]]
        BY <2>3, <2>9, <4>1
      <4>. QED
        BY <1>4, <4>1, <4>2
    <3>2. \A a \in DOMAIN scopes : a \in DOMAIN k2.scopes /\ (scopes[a].aborted => k2.scopes[a].aborted)
                                   /\ (scopes[a].startup = "failed" => k2.scopes[a].startup = "failed")
      BY <2>9, <2>10 DEF Wanes, Ages
    <3>3. \A a : Queued(queue', a) => Queued(queue, a)
      BY <1>4
    <3>. QED
      BY <1>3, <1>4, <3>1, <3>2, <3>3, PendingWanes
  <2>13. ShutdownOK(k2.flights, k2.scopes, ac2, queue', stop, stopStates)
    <3>1. stop \in {"no", "called"}
      BY <1>6 DEF Disposed
    <3>. QED
      BY <1>3, <2>10, <3>1 DEF ShutdownOK
  <2>. QED
    BY <1>1, <1>2, <2>1, <2>7, <2>8, <2>10, <2>11, <2>12, <2>13 DEF IInv
<1>. QED
  BY <1>5, <1>6

-----------------------------------------------------------------------------
(* Shutdown.                                                                *)

(* Shutdown cancels every flight of the map.                                *)
LEMMA CancelAllStage ==
    ASSUME IInv
    PROVE  /\ Stage(CancelAll) /\ DOMAIN CancelAll.flights = DOMAIN flights
           /\ \A f \in DOMAIN CancelAll.flights : ~CancelAll.flights[f].registered
PROOF
<1> DEFINE fs == {f \in DOMAIN flights : flights[f].registered}
<1>1. Stage(Now) /\ Now.flights = flights
  BY NowIsStage DEF IInv, Now
<1>2. fs \in SUBSET DOMAIN flights /\ \A f \in fs : Now.flights[f].registered
  BY <1>1
<1>3. CancelAll = Cancel(Now, fs)
  BY DEF CancelAll
<1>4. \A f \in DOMAIN flights : flights[f].registered => f \in fs
  OBVIOUS
<1> HIDE DEF fs
<1>5. /\ Stage(Cancel(Now, fs)) /\ DOMAIN Cancel(Now, fs).flights = DOMAIN Now.flights
      /\ \A f \in DOMAIN Now.flights : Cancel(Now, fs).flights[f].registered <=> Now.flights[f].registered /\ f \notin fs
  BY <1>1, <1>2, CancelStage
<1>. QED
  BY <1>1, <1>3, <1>4, <1>5

(* shutdown() is called.                                                    *)
LEMMA ShutdownInvariant ==
    ASSUME NEW c \in DOMAIN calls, IInv, ShutdownCalled(c)
    PROVE  IInv'
PROOF
<1> DEFINE e == [op |-> "dispose"]
<1>1. e \in Entries /\ e.op = "dispose"
  BY DEF Entries
<1>2. /\ queue \in Seq(Entries) /\ PendingOK(scopes, active, finishing, queue) /\ WorkersOK(scopes)
      /\ ShutdownOK(flights, scopes, active, queue, stop, stopStates)
  BY DEF IInv, PendingOK
<1>3. /\ active' = active /\ failedRecords' = failedRecords /\ finishing' = finishing /\ stopStates' = stopStates
      /\ faults' = faults /\ DOMAIN calls' = DOMAIN calls
  BY DEF ShutdownCalled, kernelVars
<1>4. CASE stop = "no"
  <2>1. stop' = "called" /\ Becomes(CancelAll) /\ queue' = Append(queue, e)
    BY <1>4 DEF ShutdownCalled
  <2>2. Stage(CancelAll)
    BY CancelAllStage
  <2>3. PICK k : k = CancelAll
    OBVIOUS
  <2>4. Stage(k) /\ Becomes(k)
    BY <2>1, <2>2, <2>3
  <2>5. failedRecords' \subseteq Instances /\ faults' \in 0..MaxFaults
    BY <1>3 DEF IInv
  <2>6. Switched
    BY <1>2, <1>3, <2>4, <2>5, StageIsSwitched
  <2>7. \A i \in Instances : active[i] # None => k.scopes[active[i]] = scopes[active[i]]
    BY <2>4 DEF Stage
  <2>8. scopes' = k.scopes
    BY <2>4 DEF Becomes
  <2> HIDE DEF e
  <2>9. queue' \in Seq(Entries) /\ \A a : Queued(queue', a) <=> Queued(queue, a)
    BY <1>1, <1>2, <2>1, QueueGrows
  <2>10. PendingOK(scopes', active, finishing, queue')
    <3>1. \A a \in DOMAIN scopes : /\ a \in DOMAIN scopes' /\ (scopes[a].aborted => scopes'[a].aborted)
                                   /\ (scopes[a].startup = "failed" => scopes'[a].startup = "failed")
      BY <2>6 DEF Switched
    <3>2. \A i \in Instances : active[i] # None => scopes'[active[i]] = scopes[active[i]]
      BY <2>7, <2>8
    <3>. QED
      BY <1>2, <2>9, <3>1, <3>2, PendingWanes
  <2>11. ShutdownOK(flights', scopes', active, queue', stop', stopStates)
    BY <1>2, <2>1, <2>6 DEF ShutdownOK, Switched
  <2>. QED
    BY <1>3, <2>6, <2>10, <2>11 DEF IInv, Switched
<1>5. CASE stop # "no"
  <2>1. queue' = queue /\ stop' = stop /\ Rests
    BY <1>3, <1>5 DEF ShutdownCalled, Rests
  <2>. QED
    BY <1>2, <1>3, <2>1, QueueMoves
<1>. QED
  BY <1>4, <1>5

(* disposeNow empties the graph and retires all that was in it, with every  *)
(* owner that is not confirmed.                                             *)
LEMMA RunDisposeInvariant == IInv /\ RunDispose => IInv'
PROOF
<1>1. SUFFICES ASSUME IInv, RunDispose PROVE IInv'
  OBVIOUS
<1> DEFINE gone == {active[i] : i \in {j \in Instances : active[j] # None}}
                       \cup {a \in CancelAll.owners : ~Confirmed(CancelAll.scopes[a])}
           ac2 == [i \in Instances |-> None]
<1>2. /\ queue # <<>> /\ Head(queue).op = "dispose" /\ stop' = "disposing" /\ active' = ac2
      /\ Becomes(Retire(CancelAll, gone)) /\ stopStates' = gone
      /\ failedRecords' = failedRecords /\ finishing' = finishing /\ queue' = queue /\ calls' = calls /\ faults' = faults
  BY <1>1 DEF RunDispose, First
<1>3. PICK k : k = CancelAll
  OBVIOUS
<1>4. Stage(k) /\ DOMAIN k.flights = DOMAIN flights /\ \A f \in DOMAIN k.flights : ~k.flights[f].registered
  BY <1>1, <1>3, CancelAllStage
<1>5. KernelOK(k.flights, k.scopes, k.owners, active) /\ Wanes(scopes, k.scopes)
  BY <1>4 DEF Stage
<1>6. gone \subseteq DOMAIN k.scopes /\ \A i \in Instances : active[i] # None => active[i] \in gone
  BY <1>3, <1>5 DEF KernelOK, GraphOK, OwnersOK
<1>7. /\ ac2 = [i \in Instances |-> ac2[i]] /\ BoundOK(k.flights, ac2) /\ \A i \in Instances : ac2[i] = None
  BY DEF BoundOK
<1> HIDE DEF gone, ac2
<1> DEFINE k2 == Retire(k, gone)
<1>8. KernelOK(k2.flights, k2.scopes, k2.owners, ac2)
  BY <1>5, <1>6, <1>7, RetireKernel
<1>9. k2.flights = k.flights /\ Wanes(k.scopes, k2.scopes)
  <2>1. \A a \in DOMAIN k.scopes : ScopeOK(k.scopes[a])
    BY <1>5 DEF KernelOK, ScopesOK
  <2>. QED
    BY <2>1, RetireWanes
<1>10. flights' = k2.flights /\ scopes' = k2.scopes /\ owners' = k2.owners
  BY <1>2, <1>3 DEF Becomes
<1> HIDE DEF k2
<1>11. Wanes(scopes, k2.scopes)
  BY <1>5, <1>9, WaningIsTransitive
<1>12. DOMAIN k2.scopes = DOMAIN scopes /\ DOMAIN k.scopes = DOMAIN scopes
       /\ \A a \in DOMAIN scopes : Claims(k2.scopes[a]) => Claims(scopes[a])
  BY <1>5, <1>11 DEF Wanes
<1>13. WorkersOK(k2.scopes)
  BY <1>1, <1>12, WorkersWane DEF IInv
<1>14. PendingOK(k2.scopes, ac2, finishing, queue)
  <2>1. PendingOK(scopes, active, finishing, queue) /\ queue \in Seq(Entries)
    BY <1>1 DEF IInv, PendingOK
  <2>2. \A a \in DOMAIN scopes : /\ a \in DOMAIN k2.scopes /\ (scopes[a].aborted => k2.scopes[a].aborted)
                                 /\ (scopes[a].startup = "failed" => k2.scopes[a].startup = "failed")
    BY <1>11, <1>12 DEF Wanes, Ages
  <2>. QED
    BY <1>7, <2>1, <2>2, PendingWanes
<1>15. ShutdownOK(k2.flights, k2.scopes, ac2, queue, stop', gone)
  BY <1>2, <1>4, <1>6, <1>7, <1>9, <1>12 DEF ShutdownOK
<1>. QED
  BY <1>1, <1>2, <1>8, <1>10, <1>12, <1>13, <1>14, <1>15 DEF IInv

-----------------------------------------------------------------------------
(* Flights that run.                                                        *)

\* A running flight goes on or ends, with what that does to its activations.
FlightStep(fl, sc, ow, f, q, sc2, ow2) ==
    /\ FlightOK(f, q) /\ fl[f].state = "running"
    /\ q.external = fl[f].external /\ q.registered = fl[f].registered
    /\ sc2 = [a \in DOMAIN sc2 |-> sc2[a]] /\ DOMAIN sc \subseteq DOMAIN sc2
    /\ \A a \in DOMAIN sc2 :
           \/ a \in DOMAIN sc /\ sc2[a] = sc[a]
           \/ /\ a \in Activations /\ InstanceOf(a) \in a[1] /\ FlightOf(a) = f
              /\ ScopeOK(sc2[a]) /\ sc2[a].startup = "none"
              /\ Working(sc2[a]) => a \in ow2 \/ q.registered
    /\ \A a \in DOMAIN sc2 : FlightOf(a) = f => InFlight(a, sc2[a], q)
    /\ \A i \in q.done : ActivationOf(f, i) \in DOMAIN sc2
    /\ q.current # None => ActivationOf(f, q.current) \in DOMAIN sc2 /\ q.current \notin q.done
    /\ ow2 \subseteq DOMAIN sc2 /\ \A a \in ow : a \in ow2 \/ ~Working(sc[a])

(* It keeps the kernel's invariants.                                        *)
LEMMA FlightKernel ==
    ASSUME NEW fl, NEW sc, NEW ow, NEW ac, KernelOK(fl, sc, ow, ac), NEW f \in DOMAIN fl, NEW q, NEW sc2, NEW ow2,
           FlightStep(fl, sc, ow, f, q, sc2, ow2)
    PROVE  KernelOK([fl EXCEPT ![f] = q], sc2, ow2, ac)
PROOF
<1> DEFINE fl2 == [fl EXCEPT ![f] = q]
<1>1. /\ DOMAIN fl2 = DOMAIN fl /\ fl2 = [g \in DOMAIN fl |-> fl2[g]] /\ fl2[f] = q
      /\ \A g \in DOMAIN fl : g # f => fl2[g] = fl[g]
  BY DEF KernelOK, FlightsOK
<1> HIDE DEF fl2
<1>2. \A g \in DOMAIN fl : fl2[g].registered = fl[g].registered /\ fl2[g].external = fl[g].external
  BY <1>1 DEF FlightStep
<1>3. FlightsOK(fl2)
  <2>1. \A g \in DOMAIN fl : FlightOK(g, fl2[g])
    BY <1>1 DEF KernelOK, FlightsOK, FlightStep
  <2>. QED
    BY <1>1, <1>2, <2>1 DEF KernelOK, FlightsOK
<1>4. ScopesOK(fl2, sc2)
  <2>1. ASSUME NEW a \in DOMAIN sc2
        PROVE /\ a \in Activations /\ InstanceOf(a) \in a[1] /\ FlightOf(a) \in DOMAIN fl2
              /\ ScopeOK(sc2[a]) /\ InFlight(a, sc2[a], fl2[FlightOf(a)])
    <3>1. CASE a \in DOMAIN sc /\ sc2[a] = sc[a]
      <4>1. /\ a \in Activations /\ InstanceOf(a) \in a[1] /\ FlightOf(a) \in DOMAIN fl
            /\ ScopeOK(sc2[a]) /\ InFlight(a, sc2[a], fl[FlightOf(a)])
        BY <3>1 DEF KernelOK, ScopesOK
      <4>2. FlightOf(a) = f => InFlight(a, sc2[a], q)
        BY DEF FlightStep
      <4>. QED
        BY <1>1, <4>1, <4>2
    <3>2. CASE ~(a \in DOMAIN sc /\ sc2[a] = sc[a])
      <4>1. /\ a \in Activations /\ InstanceOf(a) \in a[1] /\ FlightOf(a) = f /\ ScopeOK(sc2[a])
            /\ InFlight(a, sc2[a], q)
        BY <3>2 DEF FlightStep
      <4>. QED
        BY <1>1, <4>1
    <3>. QED
      BY <3>1, <3>2
  <2>2. ASSUME NEW g \in DOMAIN fl
        PROVE /\ \A i \in fl2[g].done : ActivationOf(g, i) \in DOMAIN sc2
              /\ fl2[g].current # None => ActivationOf(g, fl2[g].current) \in DOMAIN sc2 /\ fl2[g].current \notin fl2[g].done
    <3>1. CASE g = f
      BY <1>1, <3>1 DEF FlightStep
    <3>2. CASE g # f
      BY <1>1, <3>2 DEF FlightStep, KernelOK, ScopesOK
    <3>. QED
      BY <3>1, <3>2
  <2>3. sc2 = [a \in DOMAIN sc2 |-> sc2[a]]
    BY DEF FlightStep
  <2>. QED
    BY <1>1, <2>1, <2>2, <2>3 DEF ScopesOK
<1>5. ASSUME NEW i \in Instances, ac[i] # None PROVE ac[i] \in DOMAIN sc /\ ac[i] \in DOMAIN sc2 /\ sc2[ac[i]] = sc[ac[i]]
  <2>1. FlightOf(ac[i]) # f
    BY <1>5, FlyingIsNotPublished DEF FlightStep
  <2>2. ac[i] \in DOMAIN sc
    BY <1>5 DEF KernelOK, GraphOK
  <2>. QED
    BY <2>1, <2>2 DEF FlightStep
<1>6. GraphOK(fl2, sc2, ac)
  <2>1. GraphOK(fl, sc, ac)
    BY DEF KernelOK
  <2>2. ASSUME NEW a \in DOMAIN sc2, sc2[a].startup # "none", ac[InstanceOf(a)] # a PROVE sc2[a].aborted
    <3>1. a \in DOMAIN sc /\ sc2[a] = sc[a]
      BY <2>2 DEF FlightStep
    <3>. QED
      BY <2>1, <2>2, <3>1 DEF GraphOK
  <2>. QED
    BY <1>5, <2>1, <2>2 DEF GraphOK
<1>7. OwnersOK(fl2, sc2, ow2, ac)
  <2>1. ASSUME NEW a \in DOMAIN sc2, Working(sc2[a])
        PROVE a \in ow2 \/ ac[InstanceOf(a)] = a \/ fl2[FlightOf(a)].registered
    <3>1. CASE a \in DOMAIN sc /\ sc2[a] = sc[a]
      <4>1. a \in ow \/ ac[InstanceOf(a)] = a \/ fl[FlightOf(a)].registered
        BY <2>1, <3>1 DEF KernelOK, OwnersOK
      <4>2. a \in ow => a \in ow2
        BY <2>1, <3>1 DEF FlightStep
      <4>3. FlightOf(a) \in DOMAIN fl
        BY <3>1 DEF KernelOK, ScopesOK
      <4>. QED
        BY <1>2, <4>1, <4>2, <4>3
    <3>2. CASE ~(a \in DOMAIN sc /\ sc2[a] = sc[a])
      BY <1>1, <2>1, <3>2 DEF FlightStep
    <3>. QED
      BY <3>1, <3>2
  <2>. QED
    BY <2>1 DEF OwnersOK, FlightStep
<1>8. BoundOK(fl2, ac)
  <2>1. ASSUME NEW i \in Instances, ac[i] # None, NEW j \in Requires[i] PROVE ac[j] # None /\ Binding(fl2, ac[i], j) = ac[j]
    <3>1. ac[j] # None /\ Binding(fl, ac[i], j) = ac[j]
      BY <2>1 DEF KernelOK, BoundOK
    <3>2. FlightOf(ac[i]) \in DOMAIN fl
      BY <1>5, <2>1 DEF KernelOK, ScopesOK
    <3>. QED
      BY <1>2, <3>1, <3>2 DEF Binding
  <2>. QED
    BY <2>1 DEF BoundOK
<1>9. KernelOK(fl2, sc2, ow2, ac)
  BY <1>3, <1>4, <1>6, <1>7, <1>8 DEF KernelOK
<1>. QED
  BY <1>9 DEF fl2

\* The fields of a flight that has not settled yet.
FlightRecord(f, r) ==
    /\ r = [revision |-> r.revision, external |-> r.external, state |-> r.state, cancelled |-> r.cancelled,
            failed |-> r.failed, registered |-> r.registered, current |-> r.current, done |-> r.done]
    /\ r.cancelled \in BOOLEAN /\ r.registered \in BOOLEAN /\ r.done \subseteq f[1]

(* What it does to the activations of the flight: nothing.                  *)
LEMMA EndingFlight ==
    ASSUME NEW f, NEW r, FlightRecord(f, r), NEW b \in BOOLEAN, b \/ r.done = f[1]
    PROVE  /\ FlightOK(f, Ended(r, b))
           /\ Ended(r, b).external = r.external /\ Ended(r, b).registered = r.registered /\ Ended(r, b).cancelled = r.cancelled
           /\ Ended(r, b).done = r.done /\ Ended(r, b).current = None /\ Ended(r, b).state = "settled"
           /\ \A a, s : InFlight(a, s, r) => InFlight(a, s, Ended(r, b))
PROOF
<1>1. Ended(r, b) = [revision |-> r.revision, external |-> r.external, state |-> "settled", cancelled |-> r.cancelled,
                     failed |-> b, registered |-> r.registered, current |-> None, done |-> r.done]
  <2>1. r = [revision |-> r.revision, external |-> r.external, state |-> r.state, cancelled |-> r.cancelled,
             failed |-> r.failed, registered |-> r.registered, current |-> r.current, done |-> r.done]
    BY DEF FlightRecord
  <2>2. r \in [revision : {r.revision}, external : {r.external}, state : {r.state}, cancelled : {r.cancelled},
               failed : {r.failed}, registered : {r.registered}, current : {r.current}, done : {r.done}]
    BY <2>1
  <2>3. Ended(r, b) \in [revision : {r.revision}, external : {r.external}, state : {"settled"}, cancelled : {r.cancelled},
                         failed : {b}, registered : {r.registered}, current : {None}, done : {r.done}]
    BY <2>2 DEF Ended
  <2>. QED
    BY <2>3
<1>3. /\ Ended(r, b).external = r.external /\ Ended(r, b).registered = r.registered /\ Ended(r, b).cancelled = r.cancelled
      /\ Ended(r, b).done = r.done /\ Ended(r, b).current = None /\ Ended(r, b).state = "settled"
      /\ Ended(r, b).failed = b /\ Ended(r, b).revision = r.revision
  BY <1>1
<1>2. FlightOK(f, Ended(r, b))
  <2>1. Ended(r, b) = [revision |-> Ended(r, b).revision, external |-> Ended(r, b).external, state |-> Ended(r, b).state,
                       cancelled |-> Ended(r, b).cancelled, failed |-> Ended(r, b).failed,
                       registered |-> Ended(r, b).registered, current |-> Ended(r, b).current, done |-> Ended(r, b).done]
    BY <1>1
  <2>2. /\ r.cancelled \in BOOLEAN /\ r.registered \in BOOLEAN /\ r.done \subseteq f[1]
    BY DEF FlightRecord
  <2>. QED
    BY <1>3, <2>1, <2>2 DEF FlightOK
<1>4. ASSUME NEW a, NEW s, InFlight(a, s, r) PROVE InFlight(a, s, Ended(r, b))
  BY <1>3, <1>4 DEF InFlight
<1>. QED
  BY <1>2, <1>3, <1>4

\* What a running flight does to the scopes.
ScopesMove(sc, sc2, f) ==
    /\ DOMAIN sc \subseteq DOMAIN sc2
    /\ \A a \in DOMAIN sc : /\ sc[a].aborted => sc2[a].aborted
                            /\ sc[a].startup = "failed" => sc2[a].startup = "failed"
                            /\ Confirmed(sc[a]) => Confirmed(sc2[a])
                            /\ FlightOf(a) # f => sc2[a] = sc[a]
    /\ \A a \in DOMAIN sc2 : /\ Claims(sc2[a]) => a \in DOMAIN sc /\ Claims(sc[a])
                             /\ Working(sc2[a]) => (a \in DOMAIN sc /\ Working(sc[a])) \/ flights[f].registered

\* What one of its members leaves behind.
FlightMoves(f) ==
    /\ KernelOK(flights', scopes', owners', active)
    /\ flights[f].state = "running" /\ ScopesMove(scopes, scopes', f)
    /\ DOMAIN flights' = DOMAIN flights /\ \A g \in DOMAIN flights : flights'[g].registered = flights[g].registered
    /\ queue' = queue \/ queue' = Append(queue, [op |-> "pump"])
    /\ UNCHANGED <<kernelVars, calls, stopVars>> /\ faults' \in 0..MaxFaults

(* A member of a flight keeps the invariant: what it begins nobody has      *)
(* published, and after shutdown was called no flight of the map is left.   *)
LEMMA FlightInvariant ==
    ASSUME IInv, NEW f \in DOMAIN flights, FlightMoves(f)
    PROVE  IInv'
PROOF
<1>1. /\ KernelOK(flights, scopes, owners, active) /\ WorkersOK(scopes) /\ PendingOK(scopes, active, finishing, queue)
      /\ queue \in Seq(Entries) /\ ShutdownOK(flights, scopes, active, queue, stop, stopStates)
  BY DEF IInv, PendingOK
<1>2. /\ active' = active /\ failedRecords' = failedRecords /\ finishing' = finishing /\ calls' = calls
      /\ stop' = stop /\ stopStates' = stopStates
  BY DEF FlightMoves, kernelVars, stopVars
<1>3. ScopesMove(scopes, scopes', f)
  BY DEF FlightMoves
<1>4. WorkersOK(scopes')
  BY <1>1, <1>3 DEF WorkersOK, ScopesMove
<1>5. /\ queue' \in Seq(Entries) /\ \A a : Queued(queue', a) <=> Queued(queue, a)
      /\ queue # <<>> => queue' # <<>> /\ Head(queue') = Head(queue)
  <2> DEFINE e == [op |-> "pump"]
  <2>1. e \in Entries /\ e.op = "pump" /\ (queue' = queue \/ queue' = Append(queue, e))
    BY DEF Entries, FlightMoves
  <2> HIDE DEF e
  <2>. QED
    BY <1>1, <2>1, QueueGrows
<1>6. ASSUME NEW i \in Instances, active[i] # None PROVE scopes'[active[i]] = scopes[active[i]]
  <2>1. active[i] \in DOMAIN scopes
    BY <1>1, <1>6 DEF KernelOK, GraphOK
  <2>2. FlightOf(active[i]) # f
    BY <1>1, <1>6, FlyingIsNotPublished DEF FlightMoves
  <2>. QED
    BY <1>3, <2>1, <2>2 DEF ScopesMove
<1>7. PendingOK(scopes', active, finishing, queue')
  <2>1. \A a \in DOMAIN scopes : /\ a \in DOMAIN scopes' /\ (scopes[a].aborted => scopes'[a].aborted)
                                 /\ (scopes[a].startup = "failed" => scopes'[a].startup = "failed")
    BY <1>3 DEF ScopesMove
  <2>. QED
    BY <1>1, <1>5, <1>6, <2>1, PendingWanes
<1>8. ShutdownOK(flights', scopes', active, queue', stop, stopStates)
  <2>1. DOMAIN scopes \subseteq DOMAIN scopes'
    BY <1>3 DEF ScopesMove
  <2>2. CASE stop \in {"no", "called"}
    BY <1>1, <2>1, <2>2 DEF ShutdownOK
  <2>3. CASE stop \notin {"no", "called"}
    <3>1. \A g \in DOMAIN flights : ~flights[g].registered
      BY <1>1, <2>3 DEF ShutdownOK
    <3>2. \A a \in DOMAIN scopes' : Working(scopes'[a]) => a \in DOMAIN scopes /\ Working(scopes[a])
      BY <1>3, <3>1 DEF ScopesMove
    <3>3. \A a \in DOMAIN scopes : Confirmed(scopes[a]) => Confirmed(scopes'[a])
      BY <1>3 DEF ScopesMove
    <3>4. \A g \in DOMAIN flights' : flights'[g].registered => g \in DOMAIN flights /\ flights[g].registered
      BY DEF FlightMoves
    <3>5. stop = "disposing" => queue' # <<>> /\ Head(queue') = Head(queue)
      BY <1>1, <1>5 DEF ShutdownOK
    <3>. QED
      BY <1>1, <2>1, <3>2, <3>3, <3>4, <3>5, ShutdownWanes
  <2>. QED
    BY <2>2, <2>3
<1>9. /\ KernelOK(flights', scopes', owners', active) /\ faults' \in 0..MaxFaults
      /\ \A g \in finishing : g.started \subseteq DOMAIN scopes'
      /\ failedRecords \subseteq Instances /\ DOMAIN calls \subseteq Nat
  BY <1>3 DEF IInv, FlightMoves, ScopesMove
<1>. QED
  BY <1>2, <1>4, <1>7, <1>8, <1>9 DEF IInv

\* A flight that ends: what it has become, and the flights then.
Ending(f, k, r, b, fl) ==
    /\ k.flights = [flights EXCEPT ![f] = r] /\ r.registered = flights[f].registered
    /\ fl = [k.flights EXCEPT ![f] = Ended(r, b)]
    /\ KernelOK(fl, k.scopes, k.owners, active) /\ ScopesMove(scopes, k.scopes, f)
    /\ Ended(r, b).registered = r.registered /\ Ended(r, b).done = r.done
    /\ UNCHANGED <<kernelVars, calls, stopVars>> /\ faults' \in 0..MaxFaults

(* The end of a flight retires what it prepared, if nobody wants it.        *)
LEMMA EndFlightMoves ==
    ASSUME NEW f \in DOMAIN flights, KernelOK(flights, scopes, owners, active), flights[f].state = "running",
           NEW k, Works(k), NEW r, NEW b \in BOOLEAN, NEW fl, Ending(f, k, r, b, fl), EndFlight(f, k, b)
    PROVE  FlightMoves(f)
PROOF
<1>0. f \in (SUBSET Instances) \X Nat
  BY DEF KernelOK, FlightsOK
<1>2. f = <<f[1], f[2]>> /\ flights = [g \in DOMAIN flights |-> flights[g]]
  BY <1>0 DEF KernelOK, FlightsOK
<1>7. ASSUME NEW i \in Instances, active[i] # None PROVE FlightOf(active[i]) # f
  BY <1>7, FlyingIsNotPublished
<1> DEFINE prepared == {ActivationOf(f, i) : i \in k.flights[f].done}
           ended == [k EXCEPT !.flights[f] = Ended(k.flights[f], b)]
           dropped == k.flights[f].cancelled \/ ~k.flights[f].registered \/ Disposed
<1>1. /\ Becomes(IF dropped THEN Retire(ended, prepared) ELSE ended)
      /\ queue' = queue \/ queue' = Append(queue, [op |-> "pump"])
  BY DEF EndFlight
<1>3. DOMAIN k.flights = DOMAIN flights /\ k.flights[f] = r /\ \A g \in DOMAIN flights : g # f => k.flights[g] = flights[g]
  BY <1>2, ZenonT(40) DEF Ending
<1>4. /\ DOMAIN fl = DOMAIN flights /\ fl[f] = Ended(r, b) /\ \A g \in DOMAIN flights : g # f => fl[g] = flights[g]
  BY <1>2, <1>3, ZenonT(40) DEF Ending
<1>5. /\ Works(ended) /\ ended.flights = fl /\ ended.scopes = k.scopes /\ ended.owners = k.owners
  <2>1. k = [flights |-> k.flights, scopes |-> k.scopes, owners |-> k.owners]
    BY DEF Works
  <2>2. ended \in [flights : {[k.flights EXCEPT ![f] = Ended(k.flights[f], b)]},
                   scopes : {k.scopes}, owners : {k.owners}]
    BY <2>1
  <2>3. ended \in [flights : {fl}, scopes : {k.scopes}, owners : {k.owners}]
    BY <1>3, <2>2, ZenonT(40) DEF Ending
  <2> HIDE DEF ended
  <2>. QED
    BY <2>3 DEF Works
<1>6. /\ prepared \subseteq DOMAIN k.scopes /\ \A a \in prepared : FlightOf(a) = f
  <2>1. \A i \in fl[f].done : ActivationOf(f, i) \in DOMAIN k.scopes
    BY <1>4, ZenonT(40) DEF Ending, KernelOK, ScopesOK
  <2>2. fl[f].done = k.flights[f].done
    BY <1>3, <1>4, ZenonT(40) DEF Ending
  <2>3. \A i : FlightOf(ActivationOf(f, i)) = f
    BY <1>2 DEF ActivationOf, FlightOf
  <2>. QED
    BY <2>1, <2>2, <2>3
<1> HIDE DEF ended, prepared
<1>8. \A a \in DOMAIN k.scopes : ScopeOK(k.scopes[a])
  BY ZenonT(40) DEF Ending, KernelOK, ScopesOK
<1>9. PICK last : last = (IF dropped THEN Retire(ended, prepared) ELSE ended)
  OBVIOUS
<1>10. /\ last.flights = fl /\ KernelOK(fl, last.scopes, last.owners, active) /\ Wanes(k.scopes, last.scopes)
       /\ \A a \in DOMAIN k.scopes : FlightOf(a) # f => last.scopes[a] = k.scopes[a]
  <2>0. KernelOK(ended.flights, ended.scopes, ended.owners, active)
    BY <1>5, ZenonT(40) DEF Ending
  <2>1. CASE dropped
    <3>1. last = Retire(ended, prepared)
      BY <1>9, <2>1
    <3>2. \A a \in DOMAIN ended.scopes : ScopeOK(ended.scopes[a])
      BY <1>5, <1>8
    <3>3. /\ Retire(ended, prepared).flights = ended.flights /\ Wanes(ended.scopes, Retire(ended, prepared).scopes)
          /\ \A a \in DOMAIN ended.scopes :
                 IF a \in prepared THEN Retire(ended, prepared).scopes[a].aborted
                 ELSE Retire(ended, prepared).scopes[a] = ended.scopes[a]
      BY <3>2, RetireWanes
    <3>4. prepared \subseteq DOMAIN ended.scopes /\ \A i \in Instances : active[i] = None \/ active[i] \notin prepared
      BY <1>5, <1>6, <1>7
    <3>5. BoundOK(ended.flights, active) /\ active = [i \in Instances |-> active[i]]
      BY <2>0 DEF KernelOK, GraphOK
    <3>6. KernelOK(Retire(ended, prepared).flights, Retire(ended, prepared).scopes, Retire(ended, prepared).owners, active)
      BY <2>0, <3>4, <3>5, RetireKernel
    <3>. QED
      BY <1>5, <1>6, <3>1, <3>3, <3>6
  <2>2. CASE ~dropped
    <3>1. last = ended
      BY <1>9, <2>2
    <3>2. Wanes(k.scopes, k.scopes)
      BY <1>8, RetiringAges, ZenonT(40) DEF Wanes, Ending, KernelOK, ScopesOK
    <3>. QED
      BY <1>5, <2>0, <3>1, <3>2
  <2>. QED
    BY <2>1, <2>2
<1>11. flights' = fl /\ scopes' = last.scopes /\ owners' = last.owners
  BY <1>1, <1>9, <1>10 DEF Becomes
<1>12. ScopesMove(scopes, last.scopes, f)
  <2>1. DOMAIN last.scopes = DOMAIN k.scopes
    BY <1>10 DEF Wanes
  <2>2. \A a \in DOMAIN k.scopes : /\ k.scopes[a].aborted => last.scopes[a].aborted
                                   /\ last.scopes[a].startup = k.scopes[a].startup
                                   /\ Confirmed(k.scopes[a]) => Confirmed(last.scopes[a])
                                   /\ Claims(last.scopes[a]) => Claims(k.scopes[a])
                                   /\ Working(last.scopes[a]) => Working(k.scopes[a])
    <3>1. ASSUME NEW a \in DOMAIN k.scopes
          PROVE  /\ Ages(k.scopes[a], last.scopes[a]) /\ last.scopes[a].startup = k.scopes[a].startup
                 /\ Claims(last.scopes[a]) => Claims(k.scopes[a])
      BY <1>10 DEF Wanes
    <3>. QED
      BY <3>1 DEF Ages
  <2>. QED
    BY <1>10, <2>1, <2>2, ZenonT(40) DEF Ending, ScopesMove
<1>. QED
  BY <1>1, <1>4, <1>10, <1>11, <1>12, ZenonT(40) DEF Ending, FlightMoves

(* A running flight that ends, with its activations as they are.            *)
LEMMA SettlesKernel ==
    ASSUME NEW fl, NEW sc, NEW ow, NEW ac, KernelOK(fl, sc, ow, ac), NEW f \in DOMAIN fl, fl[f].state = "running"
    PROVE  KernelOK([fl EXCEPT ![f] = Ended(fl[f], TRUE)], sc, ow, ac)
PROOF
<1> DEFINE q == Ended(fl[f], TRUE)
<1>1. FlightOK(f, fl[f]) /\ ScopesOK(fl, sc) /\ ow \subseteq DOMAIN sc
  BY DEF KernelOK, FlightsOK, OwnersOK
<1>0. FlightRecord(f, fl[f])
  BY <1>1 DEF FlightOK, FlightRecord
<1>2. /\ FlightOK(f, q) /\ q.external = fl[f].external /\ q.registered = fl[f].registered
      /\ q.done = fl[f].done /\ q.current = None
      /\ \A a, s : InFlight(a, s, fl[f]) => InFlight(a, s, q)
  <2>1. TRUE \in BOOLEAN
    OBVIOUS
  <2>. QED
    BY <1>0, <2>1, EndingFlight
<1> HIDE DEF q
<1>3. FlightStep(fl, sc, ow, f, q, sc, ow)
  <2>1. sc = [a \in DOMAIN sc |-> sc[a]] /\ \A i \in fl[f].done : ActivationOf(f, i) \in DOMAIN sc
    BY <1>1 DEF ScopesOK
  <2>2. \A a \in DOMAIN sc : FlightOf(a) = f => InFlight(a, sc[a], q)
    BY <1>1, <1>2 DEF ScopesOK
  <2>. QED
    BY <1>1, <1>2, <2>1, <2>2 DEF FlightStep
<1>. QED
  BY <1>3, FlightKernel DEF q

(* What the invariant says of a flight with a member under way.             *)
LEMMA CurrentMember ==
    ASSUME IInv, NEW f \in DOMAIN flights, flights[f].current # None
    PROVE  LET a == ActivationOf(f, flights[f].current) IN
           /\ flights[f].state = "running" /\ flights[f].current \in f[1] /\ flights[f].current \notin flights[f].done
           /\ a \in DOMAIN scopes /\ FlightOf(a) = f /\ InstanceOf(a) = flights[f].current
           /\ \A i \in Instances : active[i] # None => active[i] # a
           /\ f = <<f[1], f[2]>>
PROOF
<1>1. KernelOK(flights, scopes, owners, active)
  BY DEF IInv
<1>2. FlightOK(f, flights[f]) /\ f \in (SUBSET Instances) \X Nat
  BY <1>1 DEF KernelOK, FlightsOK
<1>3. f = <<f[1], f[2]>>
  BY <1>2
<1>4. flights[f].state = "running" /\ flights[f].current \in f[1]
  BY <1>2 DEF FlightOK
<1>5. ActivationOf(f, flights[f].current) \in DOMAIN scopes /\ flights[f].current \notin flights[f].done
  BY <1>1 DEF KernelOK, ScopesOK
<1>6. \A i : FlightOf(ActivationOf(f, i)) = f /\ InstanceOf(ActivationOf(f, i)) = i
  BY <1>3 DEF ActivationOf, FlightOf, InstanceOf
<1>7. ASSUME NEW i \in Instances, active[i] # None PROVE FlightOf(active[i]) # f
  BY <1>1, <1>4, <1>7, FlyingIsNotPublished
<1>. QED
  BY <1>3, <1>4, <1>5, <1>6, <1>7

(* A member that fails, times out or is aborted.                            *)
LEMMA MemberGivesUpInvariant ==
    ASSUME NEW f \in DOMAIN flights, IInv, MemberGivesUp(f)
    PROVE  IInv'
PROOF
<1> DEFINE a == ActivationOf(f, flights[f].current)
<1>0. KernelOK(flights, scopes, owners, active) /\ faults \in 0..MaxFaults
  BY DEF IInv
<1>1. /\ flights[f].current # None /\ EndFlight(f, Retire(Now, {a}), TRUE)
      /\ UNCHANGED <<kernelVars, calls, stopVars>> /\ faults' \in 0..MaxFaults
  <2>1. /\ flights[f].current # None /\ EndFlight(f, Retire(Now, {a}), TRUE)
        /\ UNCHANGED <<kernelVars, calls, stopVars>> /\ Fault(scopes[a].aborted)
    BY Zenon DEF MemberGivesUp
  <2>2. faults' \in 0..MaxFaults
    BY <1>0, <2>1, GenerationsAssumption DEF Fault
  <2>. QED
    BY <2>1, <2>2
<1>2. /\ flights[f].state = "running" /\ a \in DOMAIN scopes /\ FlightOf(a) = f
      /\ \A i \in Instances : active[i] # None => active[i] # a
  BY <1>1, CurrentMember
<1> HIDE DEF a
<1>3. PICK k : k = Retire(Now, {a})
  OBVIOUS
<1>4. /\ Stage(k) /\ k.flights = flights /\ \A b \in DOMAIN scopes : b # a => k.scopes[b] = scopes[b]
  <2>1. Stage(Now) /\ Now.flights = flights /\ Now.scopes = scopes
    BY <1>0, NowIsStage DEF Now
  <2>2. {a} \in SUBSET DOMAIN scopes /\ \A i \in Instances : active[i] # None => active[i] \notin {a}
    BY <1>2
  <2>. QED
    BY <1>3, <2>1, <2>2, RetireStage
<1>5. /\ Works(k) /\ Wanes(scopes, k.scopes) /\ KernelOK(flights, k.scopes, k.owners, active)
  BY <1>4 DEF Stage
<1>6. KernelOK([flights EXCEPT ![f] = Ended(flights[f], TRUE)], k.scopes, k.owners, active)
  BY <1>2, <1>5, SettlesKernel
<1>7. ScopesMove(scopes, k.scopes, f)
  <2>1. DOMAIN k.scopes = DOMAIN scopes
    BY <1>5 DEF Wanes
  <2>2. \A b \in DOMAIN scopes : /\ scopes[b].aborted => k.scopes[b].aborted
                                 /\ k.scopes[b].startup = scopes[b].startup
                                 /\ Confirmed(scopes[b]) => Confirmed(k.scopes[b])
                                 /\ Claims(k.scopes[b]) => Claims(scopes[b])
                                 /\ Working(k.scopes[b]) => Working(scopes[b])
    BY <1>5 DEF Wanes, Ages
  <2>. QED
    BY <1>2, <1>4, <2>1, <2>2 DEF ScopesMove
<1>8. FlightRecord(f, flights[f])
  BY <1>0 DEF KernelOK, FlightsOK, FlightOK, FlightRecord
<1>9. Ended(flights[f], TRUE).registered = flights[f].registered /\ Ended(flights[f], TRUE).done = flights[f].done
  BY <1>2, <1>8, EndingFlight, ZenonT(40)
<1>10. flights = [flights EXCEPT ![f] = flights[f]]
  BY <1>0 DEF KernelOK, FlightsOK
<1>11. Ending(f, k, flights[f], TRUE, [flights EXCEPT ![f] = Ended(flights[f], TRUE)])
  BY <1>1, <1>4, <1>6, <1>7, <1>9, <1>10 DEF Ending
<1>12. EndFlight(f, k, TRUE)
  BY <1>1, <1>3
<1>13. FlightMoves(f)
  BY <1>0, <1>2, <1>5, <1>11, <1>12, EndFlightMoves
<1>. QED
  BY <1>13, FlightInvariant

(* The next member of a flight: nobody has begun it.                        *)
LEMMA NextMemberIsNew ==
    ASSUME IInv, NEW f \in DOMAIN flights, flights[f].state = "running", flights[f].current = None
    PROVE  LET a == ActivationOf(f, NextMember(f)) IN
           /\ NextMember(f) \in f[1] /\ NextMember(f) \notin flights[f].done
           /\ a \notin DOMAIN scopes /\ a \in Activations /\ InstanceOf(a) = NextMember(f) /\ a[1] = f[1] /\ FlightOf(a) = f
PROOF
<1> DEFINE i == NextMember(f)
           S == f[1] \ flights[f].done
<1>1. KernelOK(flights, scopes, owners, active)
  BY DEF IInv
<1>2. FlightOK(f, flights[f]) /\ f \in (SUBSET Instances) \X Nat
  BY <1>1 DEF KernelOK, FlightsOK
<1>3. S \in SUBSET Instances /\ S # {}
  BY <1>2 DEF FlightOK
<1>4. PICK j \in S : Requires[j] \cap S = {}
  BY <1>3, GenerationsAssumption
<1>5. j \in f[1] \ flights[f].done /\ Requires[j] \cap f[1] \subseteq flights[f].done
  BY <1>4
<1>6. i \in f[1] /\ i \notin flights[f].done
  BY <1>5 DEF NextMember
<1> HIDE DEF i, S
<1>7. f = <<f[1], f[2]>> /\ f[1] \in SUBSET Instances /\ f[2] \in Nat
  BY <1>2
<1> DEFINE a == ActivationOf(f, i)
<1>8. a = <<f[1], f[2], i>> /\ i \in Instances
  BY <1>6, <1>7 DEF ActivationOf
<1>9. a \in Activations
  BY <1>7, <1>8 DEF Activations
<1>10. InstanceOf(a) = i /\ a[1] = f[1] /\ FlightOf(a) = f
  BY <1>7, <1>8 DEF InstanceOf, FlightOf
<1> HIDE DEF a
<1>11. a \notin DOMAIN scopes
  <2>1. SUFFICES ASSUME a \in DOMAIN scopes PROVE FALSE
    OBVIOUS
  <2>2. InFlight(a, scopes[a], flights[f])
    BY <1>1, <1>10, <2>1 DEF KernelOK, ScopesOK
  <2>3. i # None
    BY <1>8, GenerationsAssumption
  <2>. QED
    BY <1>6, <1>10, <2>2, <2>3 DEF InFlight
<1>. QED
  BY <1>6, <1>9, <1>10, <1>11 DEF i, a

\* A new scope, and the one of an activation that the gate refuses.
Refused == Dispose([NewScope EXCEPT !.op = FALSE])

(* They are in order, and nothing is published or claimed with them.        *)
LEMMA NewScopes ==
    /\ ScopeOK(NewScope) /\ NewScope.startup = "none" /\ ~NewScope.worker
    /\ ScopeOK(Refused) /\ Refused.startup = "none" /\ ~Working(Refused) /\ ~Refused.worker
PROOF
<1>1. NewScope \in ScopeRecords /\ NewScope.op /\ NewScope.disposal = "none" /\ NewScope.startup = "none" /\ ~NewScope.worker
      /\ ~NewScope.held /\ ~NewScope.late
  BY DEF NewScope, ScopeRecords
<1>2. ScopeOK(NewScope)
  BY <1>1 DEF ScopeOK, StartingUp
<1> DEFINE s == [NewScope EXCEPT !.op = FALSE]
<1>3. /\ s \in ScopeRecords /\ ~s.op /\ s.disposal = "none" /\ s.startup = "none" /\ ~s.worker /\ ~s.held /\ ~s.late
  BY <1>1 DEF ScopeRecords
<1> HIDE DEF s
<1>4. ScopeOK(s)
  BY <1>3 DEF ScopeOK, StartingUp
<1>5. ScopeOK(Dispose(s)) /\ Dispose(s).startup = "none" /\ ~Working(Dispose(s))
  BY <1>3, <1>4, RetiringAges DEF Ages, Working
<1>6. ~Dispose(s).worker
  BY <1>5 DEF ScopeOK
<1>7. Refused = Dispose(s)
  BY DEF Refused, s
<1>. QED
  BY <1>1, <1>2, <1>5, <1>6, <1>7

(* The scope of a new activation enters, and confirmed owners go.           *)
LEMMA EnteredStep ==
    ASSUME IInv, NEW f \in DOMAIN flights, flights[f].state = "running", NEW a, a \notin DOMAIN scopes, a \in Activations,
           InstanceOf(a) \in a[1], FlightOf(a) = f, NEW s, ScopeOK(s), s.startup = "none", ~s.worker,
           Working(s) => flights[f].registered,
           NEW q, FlightOK(f, q), q.external = flights[f].external, q.registered = flights[f].registered,
           q.done = flights[f].done, InFlight(a, s, q), \A b \in DOMAIN scopes : InFlight(b, scopes[b], flights[f]) => InFlight(b, scopes[b], q),
           q.current = None \/ (ActivationOf(f, q.current) = a /\ q.current \notin q.done), NEW i
    PROVE  /\ KernelOK([flights EXCEPT ![f] = q], Entered(scopes, a, s), Pruned(i, owners, scopes), active)
           /\ ScopesMove(scopes, Entered(scopes, a, s), f)
PROOF
<1> DEFINE sc == Entered(scopes, a, s)
           ow == Pruned(i, owners, scopes)
<1>1. KernelOK(flights, scopes, owners, active)
  BY DEF IInv
<1>2. /\ DOMAIN sc = DOMAIN scopes \cup {a} /\ sc = [b \in DOMAIN sc |-> sc[b]]
      /\ sc[a] = s /\ \A b \in DOMAIN scopes : sc[b] = scopes[b]
  BY DEF Entered
<1>3. ow \subseteq owners /\ \A b \in owners : b \in ow \/ ~Working(scopes[b])
  BY DEF Pruned, Confirmed
<1> HIDE DEF sc, ow
<1>4. FlightStep(flights, scopes, owners, f, q, sc, ow)
  <2>1. ASSUME NEW b \in DOMAIN sc, FlightOf(b) = f PROVE InFlight(b, sc[b], q)
    <3>1. CASE b = a
      BY <1>2, <3>1
    <3>2. CASE b # a
      <4>1. b \in DOMAIN scopes /\ sc[b] = scopes[b]
        BY <1>2, <3>2
      <4>2. InFlight(b, scopes[b], flights[f])
        BY <1>1, <2>1, <4>1 DEF KernelOK, ScopesOK
      <4>. QED
        BY <4>1, <4>2
    <3>. QED
      BY <3>1, <3>2
  <2>2. \A j \in q.done : ActivationOf(f, j) \in DOMAIN sc
    BY <1>1, <1>2 DEF KernelOK, ScopesOK
  <2>3. ow \subseteq DOMAIN sc
    BY <1>1, <1>2, <1>3 DEF KernelOK, OwnersOK
  <2>4. \A b \in DOMAIN sc : \/ b \in DOMAIN scopes /\ sc[b] = scopes[b]
                             \/ /\ b \in Activations /\ InstanceOf(b) \in b[1] /\ FlightOf(b) = f
                                /\ ScopeOK(sc[b]) /\ sc[b].startup = "none"
                                /\ Working(sc[b]) => b \in ow \/ q.registered
    BY <1>2
  <2>5. q.current # None => ActivationOf(f, q.current) \in DOMAIN sc /\ q.current \notin q.done
    BY <1>2
  <2>6. DOMAIN scopes \subseteq DOMAIN sc
    BY <1>2
  <2>. QED
    BY <1>2, <1>3, <2>1, <2>2, <2>3, <2>4, <2>5, <2>6 DEF FlightStep
<1>5. KernelOK([flights EXCEPT ![f] = q], sc, ow, active)
  BY <1>1, <1>4, FlightKernel
<1>6. ScopesMove(scopes, sc, f)
  <2>1. ~Claims(s)
    BY DEF Claims
  <2>. QED
    BY <1>2, <2>1 DEF ScopesMove
<1>. QED
  BY <1>5, <1>6 DEF sc, ow

(* A member that begins, or that the gate refuses; a cancelled flight ends. *)
LEMMA MemberBeginsInvariant ==
    ASSUME NEW f \in DOMAIN flights, IInv, MemberBegins(f)
    PROVE  IInv'
PROOF
<1> DEFINE i == NextMember(f)
           a == ActivationOf(f, i)
           begun(s) == [flights |-> flights, scopes |-> Entered(scopes, a, s), owners |-> Pruned(i, owners, scopes)]
<1>0. KernelOK(flights, scopes, owners, active) /\ faults \in 0..MaxFaults
  BY DEF IInv
<1>1. /\ flights[f].state = "running" /\ flights[f].current = None
      /\ IF flights[f].cancelled THEN EndFlight(f, Now, TRUE)
         ELSE IF GateOpen(i, owners, scopes)
         THEN Becomes([begun(NewScope) EXCEPT !.flights[f].current = i]) /\ queue' = queue
         ELSE EndFlight(f, begun(Refused), TRUE)
      /\ UNCHANGED <<kernelVars, calls, stopVars>> /\ faults' = faults
  BY DEF MemberBegins, Refused
<1>2. FlightOK(f, flights[f]) /\ FlightRecord(f, flights[f]) /\ ScopesOK(flights, scopes)
  BY <1>0 DEF KernelOK, FlightsOK, FlightOK, FlightRecord
<1>3. /\ FlightOK(f, Ended(flights[f], TRUE)) /\ Ended(flights[f], TRUE).external = flights[f].external
      /\ Ended(flights[f], TRUE).registered = flights[f].registered /\ Ended(flights[f], TRUE).done = flights[f].done
      /\ Ended(flights[f], TRUE).current = None /\ Ended(flights[f], TRUE).state = "settled"
      /\ \A b, s : InFlight(b, s, flights[f]) => InFlight(b, s, Ended(flights[f], TRUE))
  <2>1. FlightRecord(f, flights[f])
    BY <1>2
  <2>2. TRUE \in BOOLEAN
    OBVIOUS
  <2>. QED
    BY <2>1, <2>2, EndingFlight, ZenonT(40)
<1>4. flights = [flights EXCEPT ![f] = flights[f]]
  BY <1>0 DEF KernelOK, FlightsOK
<1>5. CASE flights[f].cancelled
  <2>1. EndFlight(f, Now, TRUE)
    BY <1>1, <1>5
  <2>2. Works(Now) /\ Now.flights = flights /\ Now.scopes = scopes /\ Now.owners = owners
    BY DEF Now, Works
  <2>3. KernelOK([flights EXCEPT ![f] = Ended(flights[f], TRUE)], scopes, owners, active)
    BY <1>0, <1>1, SettlesKernel
  <2>4. ScopesMove(scopes, scopes, f)
    BY DEF ScopesMove
  <2>5. Ending(f, Now, flights[f], TRUE, [flights EXCEPT ![f] = Ended(flights[f], TRUE)])
    BY <1>0, <1>1, <1>3, <1>4, <2>2, <2>3, <2>4 DEF Ending
  <2>6. FlightMoves(f)
    BY <1>0, <1>1, <2>1, <2>2, <2>5, EndFlightMoves
  <2>. QED
    BY <2>6, FlightInvariant
<1>6. /\ i \in f[1] /\ i \notin flights[f].done
      /\ a \notin DOMAIN scopes /\ a \in Activations /\ InstanceOf(a) = i /\ a[1] = f[1] /\ FlightOf(a) = f
  BY <1>1, NextMemberIsNew
<1>7. i # None
  BY <1>6, GenerationsAssumption DEF Activations, InstanceOf
<1>8. CASE ~flights[f].cancelled /\ GateOpen(i, owners, scopes)
  <2> DEFINE q == [flights[f] EXCEPT !.current = i]
             sc == Entered(scopes, a, NewScope)
             ow == Pruned(i, owners, scopes)
             fl == [flights EXCEPT ![f] = q]
  <2>1. flights[f].registered
    BY <1>1, <1>2, <1>8 DEF FlightOK
  <2>2. /\ q.external = flights[f].external /\ q.registered = flights[f].registered /\ q.done = flights[f].done
        /\ q.current = i /\ q.state = "running" /\ FlightOK(f, q)
    <3>1. flights[f] = [revision |-> flights[f].revision, external |-> flights[f].external, state |-> flights[f].state,
                        cancelled |-> flights[f].cancelled, failed |-> flights[f].failed,
                        registered |-> flights[f].registered, current |-> flights[f].current, done |-> flights[f].done]
      BY <1>2 DEF FlightOK
    <3>2. q = [revision |-> flights[f].revision, external |-> flights[f].external, state |-> flights[f].state,
               cancelled |-> flights[f].cancelled, failed |-> flights[f].failed,
               registered |-> flights[f].registered, current |-> i, done |-> flights[f].done]
      BY <3>1
    <3> HIDE DEF q
    <3>3. /\ q.external = flights[f].external /\ q.registered = flights[f].registered /\ q.done = flights[f].done
          /\ q.current = i /\ q.state = "running" /\ q.revision = flights[f].revision
          /\ q.cancelled = flights[f].cancelled /\ q.failed = flights[f].failed
      BY <1>1, <3>2
    <3>4. q = [revision |-> q.revision, external |-> q.external, state |-> q.state, cancelled |-> q.cancelled,
               failed |-> q.failed, registered |-> q.registered, current |-> q.current, done |-> q.done]
      BY <3>2
    <3>. QED
      BY <1>2, <1>6, <1>7, <2>1, <3>3, <3>4 DEF FlightOK
  <2>3. Becomes([begun(NewScope) EXCEPT !.flights[f].current = i]) /\ queue' = queue
    BY <1>1, <1>8
  <2>4. flights' = fl /\ scopes' = sc /\ owners' = ow
    <3>1. [begun(NewScope) EXCEPT !.flights[f].current = i] \in [flights : {fl}, scopes : {sc}, owners : {ow}]
      OBVIOUS
    <3> HIDE DEF begun, fl, sc, ow
    <3>. QED
      BY <2>3, <3>1 DEF Becomes
  <2>5. DOMAIN fl = DOMAIN flights /\ \A g \in DOMAIN flights : fl[g].registered = flights[g].registered
    BY <1>4, <2>2
  <2>6. KernelOK(fl, sc, ow, active) /\ ScopesMove(scopes, sc, f)
    <3>1. InFlight(a, NewScope, q)
      BY <1>6, <2>2, NewScopes DEF InFlight
    <3>2. \A b \in DOMAIN scopes : InFlight(b, scopes[b], flights[f]) => InFlight(b, scopes[b], q)
      <4>1. SUFFICES ASSUME NEW b \in DOMAIN scopes, InFlight(b, scopes[b], flights[f]) PROVE InFlight(b, scopes[b], q)
        OBVIOUS
      <4> HIDE DEF q
      <4>2. InstanceOf(b) \in Instances
        BY <1>2 DEF ScopesOK, Activations, InstanceOf
      <4>. QED
        BY <1>1, <2>2, <4>1, <4>2, GenerationsAssumption DEF InFlight
    <3>3. ActivationOf(f, q.current) = a /\ q.current \notin q.done /\ InstanceOf(a) \in a[1]
      BY <1>6, <2>2
    <3> HIDE DEF q
    <3>. QED
      BY <1>1, <1>6, <2>1, <2>2, <3>1, <3>2, <3>3, NewScopes, EnteredStep
  <2> HIDE DEF fl, sc, ow, q
  <2>7. FlightMoves(f)
    BY <1>0, <1>1, <2>3, <2>4, <2>5, <2>6 DEF FlightMoves, kernelVars
  <2>. QED
    BY <2>7, FlightInvariant
<1>9. CASE ~flights[f].cancelled /\ ~GateOpen(i, owners, scopes)
  <2> DEFINE q == Ended(flights[f], TRUE)
             sc == Entered(scopes, a, Refused)
             ow == Pruned(i, owners, scopes)
  <2>1. EndFlight(f, begun(Refused), TRUE)
    BY <1>1, <1>9
  <2>2. PICK k : k = begun(Refused)
    OBVIOUS
  <2>3. /\ Works(k) /\ k.flights = flights /\ k.scopes = sc /\ k.owners = ow
    BY <2>2 DEF Works
  <2>4. EndFlight(f, k, TRUE)
    BY <2>1, <2>2
  <2> HIDE DEF begun
  <2>5. KernelOK([flights EXCEPT ![f] = q], sc, ow, active) /\ ScopesMove(scopes, sc, f)
    <3>1. InFlight(a, Refused, q)
      <4>1. i \notin q.done
        BY <1>3, <1>6
      <4>. QED
        BY <1>3, <1>6, <4>1, NewScopes DEF InFlight
    <3>2. \A b \in DOMAIN scopes : InFlight(b, scopes[b], flights[f]) => InFlight(b, scopes[b], q)
      BY <1>3
    <3>3. InstanceOf(a) \in a[1]
      BY <1>6
    <3> HIDE DEF q
    <3>4. /\ FlightOK(f, q) /\ q.external = flights[f].external
          /\ q.registered = flights[f].registered /\ q.done = flights[f].done /\ q.current = None
      BY <1>3 DEF q
    <3>. QED
      BY <1>1, <1>6, <3>1, <3>2, <3>3, <3>4, NewScopes, EnteredStep
  <2>6. Ending(f, k, flights[f], TRUE, [flights EXCEPT ![f] = q])
    BY <1>0, <1>1, <1>3, <1>4, <2>3, <2>5 DEF Ending
  <2>7. FlightMoves(f)
    BY <1>0, <1>1, <2>3, <2>4, <2>6, EndFlightMoves
  <2>. QED
    BY <2>7, FlightInvariant
<1>. QED
  BY <1>5, <1>8, <1>9

(* A member that is done: its activation is prepared.                       *)
LEMMA DoneStep ==
    ASSUME IInv, NEW f \in DOMAIN flights, flights[f].current # None, NEW a, a = ActivationOf(f, flights[f].current),
           scopes[a].op, ~scopes[a].aborted, NEW sc,
           sc = [scopes EXCEPT ![a] = [scopes[a] EXCEPT !.op = FALSE, !.held = flights[f].current \in Owning]],
           NEW q, FlightOK(f, q), q.external = flights[f].external, q.registered = flights[f].registered,
           q.done = flights[f].done \cup {flights[f].current}, q.current = None
    PROVE  KernelOK([flights EXCEPT ![f] = q], sc, owners, active) /\ ScopesMove(scopes, sc, f)
PROOF
<1> DEFINE i == flights[f].current
           s == scopes[a]
           t == [s EXCEPT !.op = FALSE, !.held = i \in Owning]
<1>1. /\ KernelOK(flights, scopes, owners, active) /\ FlightsOK(flights) /\ ScopesOK(flights, scopes)
      /\ OwnersOK(flights, scopes, owners, active)
  BY DEF IInv, KernelOK
<1>2. /\ flights[f].state = "running" /\ i \in f[1] /\ i \notin flights[f].done
      /\ a \in DOMAIN scopes /\ FlightOf(a) = f /\ InstanceOf(a) = i
      /\ \A j \in Instances : active[j] # None => active[j] # a
  BY CurrentMember
<1>3. /\ a \in Activations /\ InstanceOf(a) \in a[1] /\ ScopeOK(s) /\ InFlight(a, s, flights[f])
  BY <1>1, <1>2 DEF ScopesOK
<1>4. s \in ScopeRecords /\ s.startup = "none" /\ ~s.worker /\ s.disposal = "none"
  BY <1>2, <1>3 DEF ScopeOK, InFlight
<1>5. /\ ScopeOK(t) /\ t.startup = "none" /\ ~Claims(t) /\ ~t.aborted /\ ~t.op /\ (t.held <=> i \in Owning)
  <2> DEFINE h == i \in Owning
  <2>1. h \in BOOLEAN /\ t = [s EXCEPT !.op = FALSE, !.held = h] /\ ~s.aborted
    OBVIOUS
  <2> HIDE DEF h, t, s
  <2>2. /\ t \in ScopeRecords /\ t.startup = "none" /\ ~t.worker /\ t.disposal = "none" /\ ~t.aborted /\ ~t.op
        /\ t.held = h
    BY <1>4, <2>1 DEF ScopeRecords
  <2>3. ScopeOK(t)
    BY <2>2 DEF ScopeOK, StartingUp
  <2>. QED
    BY <2>2, <2>3 DEF Claims, StartingUp, h
<1>6. /\ DOMAIN sc = DOMAIN scopes /\ sc = [b \in DOMAIN sc |-> sc[b]] /\ sc[a] = t
      /\ \A b \in DOMAIN scopes : b # a => sc[b] = scopes[b]
  BY <1>1, <1>2 DEF ScopesOK
<1>7. Working(s) /\ ~Confirmed(s)
  BY DEF Working, Confirmed
<1> HIDE DEF t
<1>8. a \in owners \/ flights[f].registered
  <2>1. a \in owners \/ active[InstanceOf(a)] = a \/ flights[f].registered
    BY <1>1, <1>2, <1>7 DEF OwnersOK
  <2>2. InstanceOf(a) \in Instances /\ a # None
    BY <1>3, GenerationsAssumption DEF Activations, InstanceOf
  <2>. QED
    BY <1>2, <2>1, <2>2
<1>9. ASSUME NEW b \in DOMAIN sc, FlightOf(b) = f PROVE InFlight(b, sc[b], q)
  <2>1. CASE b = a
    BY <1>2, <1>5, <1>6, <2>1 DEF InFlight
  <2>2. CASE b # a
    <3>1. InFlight(b, scopes[b], flights[f]) /\ b \in Activations
      BY <1>1, <1>6, <1>9 DEF ScopesOK
    <3>2. InstanceOf(b) # i
      BY <1>2, <1>3, <1>9, <2>2, <3>1 DEF Activations, FlightOf, InstanceOf
    <3>3. InstanceOf(b) \in q.done <=> InstanceOf(b) \in flights[f].done
      BY <3>2
    <3>4. /\ InstanceOf(b) \in flights[f].done
          /\ scopes[b].startup = "none" /\ ~scopes[b].aborted => ~scopes[b].op /\ (scopes[b].held <=> InstanceOf(b) \in Owning)
          /\ scopes[b].startup = "none"
      BY <1>2, <3>1, <3>2 DEF InFlight
    <3>5. sc[b] = scopes[b]
      BY <1>6, <1>9, <2>2
    <3>. QED
      BY <3>3, <3>4, <3>5 DEF InFlight
  <2>. QED
    BY <2>1, <2>2
<1>10. FlightStep(flights, scopes, owners, f, q, sc, owners)
  <2>1. \A j \in q.done : ActivationOf(f, j) \in DOMAIN sc
    <3>1. \A j \in flights[f].done : ActivationOf(f, j) \in DOMAIN scopes
      BY <1>1 DEF ScopesOK
    <3>. QED
      BY <1>2, <1>6, <3>1
  <2>2. \A b \in DOMAIN sc : \/ b \in DOMAIN scopes /\ sc[b] = scopes[b]
                             \/ /\ b \in Activations /\ InstanceOf(b) \in b[1] /\ FlightOf(b) = f
                                /\ ScopeOK(sc[b]) /\ sc[b].startup = "none"
                                /\ Working(sc[b]) => b \in owners \/ q.registered
    BY <1>2, <1>3, <1>5, <1>6, <1>8, ZenonT(40)
  <2>3. owners \subseteq DOMAIN sc
    BY <1>1, <1>6 DEF OwnersOK
  <2>4. /\ FlightOK(f, q) /\ flights[f].state = "running" /\ q.current = None
        /\ q.external = flights[f].external /\ q.registered = flights[f].registered
    BY <1>2
  <2>5. \A b \in DOMAIN sc : FlightOf(b) = f => InFlight(b, sc[b], q)
    BY <1>9
  <2>6. sc = [b \in DOMAIN sc |-> sc[b]] /\ DOMAIN scopes \subseteq DOMAIN sc
    BY <1>6
  <2> HIDE DEF i, s
  <2>. QED
    BY <2>1, <2>2, <2>3, <2>4, <2>5, <2>6 DEF FlightStep
<1>11. KernelOK([flights EXCEPT ![f] = q], sc, owners, active)
  BY <1>1, <1>10, FlightKernel
<1>12. ScopesMove(scopes, sc, f)
  BY <1>2, <1>4, <1>5, <1>6, <1>7 DEF ScopesMove
<1>. QED
  BY <1>11, <1>12

(* A member is done; the last one ends the flight.                          *)
LEMMA MemberDoneInvariant ==
    ASSUME NEW f \in DOMAIN flights, IInv, MemberDone(f)
    PROVE  IInv'
PROOF
<1> DEFINE i == flights[f].current
           a == ActivationOf(f, i)
           k == [flights |-> [flights EXCEPT ![f] = [flights[f] EXCEPT !.current = None, !.done = @ \cup {i}]],
                 scopes |-> [scopes EXCEPT ![a] = [scopes[a] EXCEPT !.op = FALSE, !.held = i \in Owning]],
                 owners |-> owners]
           r == [flights[f] EXCEPT !.current = None, !.done = @ \cup {i}]
           sc == [scopes EXCEPT ![a] = [scopes[a] EXCEPT !.op = FALSE, !.held = i \in Owning]]
           fl == [flights EXCEPT ![f] = r]
<1>0. KernelOK(flights, scopes, owners, active) /\ faults \in 0..MaxFaults
  BY DEF IInv
<1>1. /\ i # None /\ scopes[a].op /\ ~scopes[a].aborted
      /\ IF k.flights[f].done = f[1] THEN EndFlight(f, k, FALSE) ELSE Becomes(k) /\ queue' = queue
      /\ UNCHANGED <<kernelVars, calls, stopVars>> /\ faults' = faults
  BY DEF MemberDone
<1>2. Works(k) /\ k.flights = fl /\ k.scopes = sc /\ k.owners = owners
  <2>1. k = [flights |-> fl, scopes |-> sc, owners |-> owners]
    OBVIOUS
  <2> HIDE DEF k, fl, sc
  <2>. QED
    BY <2>1 DEF Works
<1>3. FlightOK(f, flights[f]) /\ flights = [g \in DOMAIN flights |-> flights[g]]
  BY <1>0 DEF KernelOK, FlightsOK
<1>4. flights[f].state = "running" /\ i \in f[1] /\ f = <<f[1], f[2]>>
  BY <1>1, CurrentMember
<1>5. r = [revision |-> flights[f].revision, external |-> flights[f].external, state |-> flights[f].state,
           cancelled |-> flights[f].cancelled, failed |-> flights[f].failed,
           registered |-> flights[f].registered, current |-> None, done |-> flights[f].done \cup {i}]
  <2>1. flights[f] = [revision |-> flights[f].revision, external |-> flights[f].external, state |-> flights[f].state,
                      cancelled |-> flights[f].cancelled, failed |-> flights[f].failed,
                      registered |-> flights[f].registered, current |-> flights[f].current, done |-> flights[f].done]
    BY <1>3 DEF FlightOK
  <2>2. flights[f] \in [revision : {flights[f].revision}, external : {flights[f].external}, state : {flights[f].state},
                        cancelled : {flights[f].cancelled}, failed : {flights[f].failed},
                        registered : {flights[f].registered}, current : {flights[f].current}, done : {flights[f].done}]
    BY <2>1
  <2>3. r \in [revision : {flights[f].revision}, external : {flights[f].external}, state : {flights[f].state},
               cancelled : {flights[f].cancelled}, failed : {flights[f].failed},
               registered : {flights[f].registered}, current : {None}, done : {flights[f].done \cup {i}}]
    BY <2>2
  <2> HIDE DEF r
  <2>. QED
    BY <2>3
<1> HIDE DEF k
<1>6. k.flights[f] = r
  BY <1>2, <1>3
<1> HIDE DEF r
<1>7. /\ r.external = flights[f].external /\ r.registered = flights[f].registered /\ r.state = "running"
      /\ r.done = flights[f].done \cup {i} /\ r.current = None /\ r.cancelled = flights[f].cancelled
      /\ r.failed = flights[f].failed /\ r.done \subseteq f[1]
      /\ r = [revision |-> r.revision, external |-> r.external, state |-> r.state, cancelled |-> r.cancelled,
              failed |-> r.failed, registered |-> r.registered, current |-> r.current, done |-> r.done]
  BY <1>3, <1>4, <1>5 DEF FlightOK
<1> HIDE DEF fl, sc, a
<1>8. CASE r.done = f[1]
  <2> DEFINE q == Ended(r, FALSE)
  <2>1. EndFlight(f, k, FALSE)
    BY <1>1, <1>6, <1>8
  <2>2. FlightRecord(f, r)
    BY <1>3, <1>7 DEF FlightRecord, FlightOK
  <2>3. /\ FlightOK(f, q) /\ q.external = r.external /\ q.registered = r.registered /\ q.done = r.done /\ q.current = None
    BY <1>8, <2>2, EndingFlight
  <2> HIDE DEF q
  <2>4. KernelOK([flights EXCEPT ![f] = q], sc, owners, active) /\ ScopesMove(scopes, sc, f)
    BY <1>1, <1>7, <2>3, DoneStep, ZenonT(40) DEF sc, a
  <2>5. [flights EXCEPT ![f] = q] = [k.flights EXCEPT ![f] = q]
    BY <1>2, <1>3 DEF fl
  <2>6. Ending(f, k, r, FALSE, [flights EXCEPT ![f] = q])
    BY <1>0, <1>1, <1>2, <1>7, <2>3, <2>4, <2>5 DEF Ending, fl, q
  <2>7. FlightMoves(f)
    BY <1>0, <1>2, <1>4, <2>1, <2>6, EndFlightMoves
  <2>. QED
    BY <2>7, FlightInvariant
<1>9. CASE r.done # f[1]
  <2>1. Becomes(k) /\ queue' = queue
    BY <1>1, <1>6, <1>9
  <2>2. FlightOK(f, r)
    BY <1>3, <1>4, <1>7, <1>9 DEF FlightOK
  <2>3. KernelOK([flights EXCEPT ![f] = r], sc, owners, active) /\ ScopesMove(scopes, sc, f)
    BY <1>1, <1>7, <2>2, DoneStep, ZenonT(40) DEF sc, a
  <2>4. flights' = fl /\ scopes' = sc /\ owners' = owners
    BY <1>2, <2>1 DEF Becomes
  <2>5. DOMAIN fl = DOMAIN flights /\ \A g \in DOMAIN flights : fl[g].registered = flights[g].registered
    BY <1>3, <1>7 DEF fl
  <2>6. FlightMoves(f)
    BY <1>0, <1>1, <1>4, <2>1, <2>3, <2>4, <2>5 DEF FlightMoves, kernelVars, fl
  <2>. QED
    BY <2>6, FlightInvariant
<1>. QED
  BY <1>8, <1>9

-----------------------------------------------------------------------------
(* The invariant of the runtime.                                            *)

(* Nothing has been asked for yet.                                          *)
LEMMA InitInvariant == Init => IInv
PROOF
<1>1. SUFFICES ASSUME Init PROVE IInv
  OBVIOUS
<1>2. /\ DOMAIN flights = {} /\ flights = [f \in {} |-> None] /\ DOMAIN scopes = {} /\ scopes = [a \in {} |-> None]
      /\ owners = {} /\ queue = <<>> /\ finishing = {} /\ failedRecords = {} /\ faults = 0
      /\ stop = "no" /\ stopStates = {} /\ active = [i \in Instances |-> None]
  BY <1>1 DEF Init
<1>3. FlightsOK(flights)
  BY <1>2, FS_EmptySet DEF FlightsOK
<1>4. ScopesOK(flights, scopes) /\ OwnersOK(flights, scopes, owners, active)
  BY <1>2 DEF ScopesOK, OwnersOK
<1>5. GraphOK(flights, scopes, active) /\ BoundOK(flights, active)
  BY <1>2 DEF GraphOK, BoundOK
<1>6. WorkersOK(scopes)
  BY <1>2 DEF WorkersOK
<1>7. PendingOK(scopes, active, finishing, queue)
  <2>1. queue \in Seq(Entries) /\ 1..Len(queue) = {}
    BY <1>2
  <2>. QED
    BY <1>2, <2>1 DEF PendingOK
<1>8. ShutdownOK(flights, scopes, active, queue, stop, stopStates)
  BY <1>2 DEF ShutdownOK
<1>9. DOMAIN calls \subseteq Nat
  <2>1. PICK s \in Scenarios : calls = [c \in DOMAIN s |-> [pc |-> "idle", request |-> s[c], retry |-> {}]]
    BY <1>1 DEF Init
  <2>2. DOMAIN s \subseteq Nat
    BY GenerationsAssumption
  <2>. QED
    BY <2>1, <2>2
<1>10. faults \in 0..MaxFaults
  BY <1>2, GenerationsAssumption
<1>. QED
  BY <1>2, <1>3, <1>4, <1>5, <1>6, <1>7, <1>8, <1>9, <1>10 DEF IInv, KernelOK

(* Every step keeps it.                                                     *)
LEMMA NextInvariant == IInv /\ [Next]_vars => IInv'
PROOF
<1>1. SUFFICES ASSUME IInv, [Next]_vars PROVE IInv'
  OBVIOUS
<1>2. CASE UNCHANGED vars
  BY <1>1, <1>2 DEF vars, kernelVars, stopVars, IInv
<1>3. ASSUME NEW c \in DOMAIN calls, SwitchCalled(c) \/ ShutdownCalled(c) \/ SwitchQueued(c) PROVE IInv'
  BY <1>1, <1>3, CallInvariant, ShutdownInvariant
<1>4. CASE RunSwitch \/ RunPump \/ RunFailure \/ RunDispose \/ DisposeEnds \/ DisposeJoins \/ ShutdownConfirms \/ ShutdownTimesOut
  BY <1>1, <1>4, RunSwitchInvariant, RunPumpInvariant, RunFailureInvariant, RunDisposeInvariant, StopInvariant
<1>5. ASSUME NEW g \in finishing, StartupsSettled(g) PROVE IInv'
  BY <1>1, <1>5, StartupsInvariant
<1>6. ASSUME NEW f \in DOMAIN flights, MemberBegins(f) \/ MemberGivesUp(f) \/ MemberDone(f) PROVE IInv'
  BY <1>1, <1>6, MemberBeginsInvariant, MemberGivesUpInvariant, MemberDoneInvariant
<1>7. ASSUME NEW a \in DOMAIN scopes,
             \/ BarrierSettles(a) \/ WorkerStarts(a) \/ WorkerRuns(a) \/ StartupGivesUp(a) \/ OperationEnds(a)
             \/ DisposalEnds(a) \/ DisposalTimesOut(a) \/ LateDisposalEnds(a) \/ DisposerFails(a) \/ PluginFails(a)
      PROVE IInv'
  BY <1>1, <1>7, BarrierInvariant, StartupInvariant, DisposalInvariant, PluginFailsInvariant
<1>. QED
  BY <1>1, <1>2, <1>3, <1>4, <1>5, <1>6, <1>7 DEF Next, Kernel, Timers, Plugins

(* What is in the graph, in flight, owned, pending and shut down is always  *)
(* in order: the inductive invariant.                                       *)
THEOREM GenerationsInvariant == Spec => []IInv
PROOF
<1>. QED
  BY InitInvariant, NextInvariant, PTL DEF Spec

(* What the invariant says, in the words of the properties.                 *)
LEMMA InvariantIsSafe == IInv => GraphIsConsistent /\ OneWorker /\ NoLostOwner /\ ShutdownIsQuiet
PROOF
<1>1. SUFFICES ASSUME IInv PROVE GraphIsConsistent /\ OneWorker /\ NoLostOwner /\ ShutdownIsQuiet
  OBVIOUS
<1>2. /\ FlightsOK(flights) /\ ScopesOK(flights, scopes) /\ GraphOK(flights, scopes, active)
      /\ OwnersOK(flights, scopes, owners, active) /\ BoundOK(flights, active)
      /\ WorkersOK(scopes) /\ PendingOK(scopes, active, finishing, queue)
      /\ ShutdownOK(flights, scopes, active, queue, stop, stopStates)
      /\ failedRecords \subseteq Instances /\ faults \in 0..MaxFaults
  BY <1>1 DEF IInv, KernelOK
<1>3. TypeOK
  <2>1. \A f, g \in DOMAIN flights : flights[f].registered /\ flights[g].registered /\ f[1] = g[1] => f = g
    BY <1>2 DEF FlightsOK
  <2>2. \A i \in Instances : active[i] # None => active[i] \in DOMAIN scopes /\ InstanceOf(active[i]) = i
    BY <1>2 DEF GraphOK
  <2>3. owners \cup stopStates \subseteq DOMAIN scopes
        /\ stop \in {"no", "called", "disposing", "joining", "confirming", "confirmed", "unconfirmed"}
    BY <1>2 DEF OwnersOK, ShutdownOK
  <2>. QED
    BY <1>2, <2>1, <2>2, <2>3 DEF TypeOK
<1>4. NoStaleReference
  BY <1>2 DEF NoStaleReference, BoundOK, BoundTo, Binding
<1>5. PublishedIsOpen
  BY <1>2 DEF PublishedIsOpen, GraphOK
<1>6. FailureIsPending
  BY <1>2 DEF FailureIsPending, PendingOK, Queued, Finishing
<1>7. OneWorker
  BY <1>2 DEF OneWorker, WorkersOK, Claims
<1>8. NoLostOwner
  BY <1>2 DEF NoLostOwner, OwnersOK
<1>9. ShutdownIsQuiet
  <2>1. ASSUME stop = "confirmed", NEW a \in DOMAIN scopes PROVE ~Working(scopes[a]) /\ ~scopes[a].worker
    <3>1. ~Working(scopes[a])
      BY <1>2, <2>1 DEF ShutdownOK, Confirmed
    <3>. QED
      BY <1>2, <3>1 DEF ScopesOK, ScopeOK
  <2>. QED
    BY <2>1 DEF ShutdownIsQuiet
<1>. QED
  BY <1>3, <1>4, <1>5, <1>6, <1>7, <1>8, <1>9 DEF GraphIsConsistent

(* switchNow, publish and handleRuntimeFailure: the published graph is      *)
(* consistent.  Every consumer in it is bound to the published activation   *)
(* of what it requires, nothing in it is retired, and a failure in it is on *)
(* its way out.                                                             *)
THEOREM GenerationsGraphIsConsistent == Spec => []GraphIsConsistent
PROOF
<1>. QED
  BY GenerationsInvariant, InvariantIsSafe, PTL

(* retirementBarrier and assertRetirementConfirmed: no two activations of   *)
(* one instance ever have an exclusive worker at the same time.             *)
THEOREM GenerationsOneWorker == Spec => []OneWorker
PROOF
<1>. QED
  BY GenerationsInvariant, InvariantIsSafe, PTL

(* retireStates, cancelInitialization and startupAfterPublish: plugin code  *)
(* that may still be at work is published, in a flight of the map, or an    *)
(* unconfirmed retirement.                                                  *)
THEOREM GenerationsNoLostOwner == Spec => []NoLostOwner
PROOF
<1>. QED
  BY GenerationsInvariant, InvariantIsSafe, PTL

(* shutdownNow: a shutdown that reports success has left no plugin at work. *)
THEOREM GenerationsShutdownIsQuiet == Spec => []ShutdownIsQuiet
PROOF
<1>. QED
  BY GenerationsInvariant, InvariantIsSafe, PTL

-----------------------------------------------------------------------------
(* What leaves the graph.                                                   *)

(* handleRuntimeFailure removes only what depends on a failure in the graph. *)
LEMMA FailureHasCause ==
    ASSUME IInv, RunFailure, NEW i \in Instances, active[i] # None, active'[i] = None
    PROVE  \E j \in {i} \cup Upstream[i] :
               active[j] # None /\ (scopes[active[j]].aborted \/ scopes'[active[j]].startup = "failed")
PROOF
<1> DEFINE as == Head(queue).of
           hit == {j \in Instances : active[j] # None /\ active[j] \in as}
           removed == {j \in Instances : active[j] # None /\ ({j} \cup Upstream[j]) \cap hit # {}}
           gone == {active[j] : j \in removed}
<1>1. queue # <<>> /\ Head(queue).op = "failure" /\ RuntimeFailure(as)
  BY DEF RunFailure, First
<1>2. /\ active' = [j \in Instances |-> IF j \in removed THEN None ELSE active[j]]
      /\ scopes' = Retire(Now, gone).scopes
  BY <1>1 DEF RuntimeFailure, Becomes
<1>3. i \in removed
  BY <1>2
<1>4. PICK j \in {i} \cup Upstream[i] : j \in Instances /\ active[j] # None /\ active[j] \in as
  BY <1>3
<1>5. queue \in Seq(Entries) /\ Head(queue) = queue[1] /\ 1 \in 1..Len(queue)
  BY <1>1 DEF IInv, PendingOK
<1>6. active[j] \in DOMAIN scopes /\ (scopes[active[j]].aborted \/ scopes[active[j]].startup = "failed")
  BY <1>1, <1>4, <1>5 DEF IInv, PendingOK
<1>7. Dispose(scopes[active[j]]).startup = scopes[active[j]].startup
  <2>1. ScopeOK(scopes[active[j]])
    BY <1>6 DEF IInv, KernelOK, ScopesOK
  <2>. QED
    BY <2>1, RetiringAges
<1> HIDE DEF gone
<1>8. scopes'[active[j]].startup = scopes[active[j]].startup
  BY <1>2, <1>6, <1>7 DEF Retire, Now
<1>. QED
  BY <1>4, <1>6, <1>8

(* Only these steps change the graph.                                       *)
LEMMA GraphChanges ==
    ASSUME [Next]_vars, ~RunSwitch, ~RunPump, ~RunFailure, ~RunDispose
    PROVE  active' = active
PROOF
<1>1. CASE UNCHANGED vars
  BY <1>1 DEF vars, kernelVars
<1>2. ASSUME NEW c \in DOMAIN calls, SwitchCalled(c) \/ ShutdownCalled(c) \/ SwitchQueued(c) PROVE active' = active
  BY <1>2 DEF SwitchCalled, ShutdownCalled, SwitchQueued, kernelVars
<1>3. CASE DisposeEnds \/ DisposeJoins \/ ShutdownConfirms \/ ShutdownTimesOut
  BY <1>3 DEF DisposeEnds, DisposeJoins, ShutdownConfirms, ShutdownTimesOut, kernelVars
<1>4. ASSUME NEW g \in finishing, StartupsSettled(g) PROVE active' = active
  BY <1>4 DEF StartupsSettled
<1>5. ASSUME NEW f \in DOMAIN flights, MemberBegins(f) \/ MemberGivesUp(f) \/ MemberDone(f) PROVE active' = active
  BY <1>5 DEF MemberBegins, MemberGivesUp, MemberDone, kernelVars
<1>6. ASSUME NEW a \in DOMAIN scopes,
             \/ BarrierSettles(a) \/ WorkerStarts(a) \/ WorkerRuns(a) \/ StartupGivesUp(a) \/ OperationEnds(a)
             \/ DisposalEnds(a) \/ DisposalTimesOut(a) \/ LateDisposalEnds(a) \/ DisposerFails(a) \/ PluginFails(a)
      PROVE active' = active
  <2>1. \A s : ScopeStep(a, s) => active' = active
    BY DEF ScopeStep, kernelVars
  <2>2. CASE WorkerStarts(a) \/ WorkerRuns(a) \/ StartupGivesUp(a) \/ DisposalTimesOut(a)
    BY <2>1, <2>2 DEF WorkerStarts, WorkerRuns, StartupGivesUp, DisposalTimesOut
  <2>3. CASE BarrierSettles(a)
    BY <2>1, <2>3 DEF BarrierSettles
  <2>4. CASE OperationEnds(a)
    BY <2>1, <2>4 DEF OperationEnds
  <2>5. CASE DisposalEnds(a) \/ LateDisposalEnds(a)
    BY <2>1, <2>5 DEF DisposalEnds, LateDisposalEnds
  <2>6. CASE DisposerFails(a) \/ PluginFails(a)
    BY <2>6 DEF DisposerFails, PluginFails, kernelVars
  <2>. QED
    BY <1>6, <2>2, <2>3, <2>4, <2>5, <2>6
<1>. QED
  BY <1>1, <1>2, <1>3, <1>4, <1>5, <1>6 DEF Next, Kernel, Timers, Plugins

(* switchNow and handleRuntimeFailure: whatever is published stays so until *)
(* it is shut down, unwanted or without its requirements, or until it or    *)
(* something that it requires fails.                                        *)
THEOREM GenerationsLossHasCause == Spec => LossHasCause
PROOF
<1> DEFINE Caused == \A i \in Instances : active[i] # None /\ active'[i] = None =>
               \/ stop' = "disposing"
               \/ desired'[i] = None
               \/ i \in Waiting(desired')
               \/ \E j \in {i} \cup Upstream[i] :
                      active[j] # None /\ LET s == scopes'[active[j]] IN
                          \/ s.failed \/ s.startup = "failed"
                          \/ scopes[active[j]].aborted
<1>1. ASSUME IInv, [Next]_vars PROVE Caused
  <2>1. CASE active' = active
    BY <2>1
  <2>2. CASE RunSwitch \/ RunPump
    <3>1. active' = active \/ Losses(desired')
      BY <1>1, <2>2, RunSwitchInvariant, RunPumpInvariant
    <3>2. Losses(desired') => Caused
      BY DEF Losses, Wanted
    <3>. QED
      BY <2>1, <3>1, <3>2
  <2>3. CASE RunFailure
    BY <1>1, <2>3, FailureHasCause
  <2>4. CASE RunDispose
    BY <2>4 DEF RunDispose
  <2>. QED
    BY <1>1, <2>1, <2>2, <2>3, <2>4, GraphChanges
<1>2. IInv /\ [Next]_vars => [Caused]_vars
  BY <1>1
<1>. QED
  BY <1>2, GenerationsInvariant, PTL DEF Spec, LossHasCause
=============================================================================
