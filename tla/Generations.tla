---------------------------- MODULE Generations ----------------------------
(* The plugin generation runtime (src/plugin-kernel/generationRuntime.ts)    *)
(* with the effect scopes of its activations (effectScope.ts): the graph of  *)
(* published activations, the initialisations that prepare the next ones,    *)
(* publication with its rollbacks, the retirement of what was replaced, and  *)
(* shutdown.                                                                 *)
(*                                                                           *)
(* A flight is the initialisation of one component, named by its members and *)
(* a number; an activation is a flight and an instance.  Everything that is  *)
(* enqueued runs alone and without a real await, as one step; plugin code    *)
(* runs between such steps, may hang, and may end after it was given up.     *)
EXTENDS Naturals, FiniteSets, Sequences

CONSTANTS Instances,    \* plugin instances
          Requires,     \* the instances that each one requires
          Owning,       \* those with effects to dispose of and an exclusive worker
          Scenarios,    \* sequences of calls: what switch() is asked for, or Shutdown
          Shutdown,
          None,
          MaxFaults     \* bound on what plugins and fences do wrong

\* A component of the graph, a number, and an instance.
Activations == (SUBSET Instances) \X Nat \X Instances

\* planCapabilityGraph refuses cycles: of every set of instances, one requires
\* none of the others.
ASSUME GenerationsAssumption ==
    /\ IsFiniteSet(Instances)
    /\ Requires \in [Instances -> SUBSET Instances]
    /\ \A S \in SUBSET Instances : S # {} => \E i \in S : Requires[i] \cap S = {}
    /\ Owning \subseteq Instances
    /\ None \notin Instances \cup Activations
    /\ \A s \in Scenarios :
           /\ DOMAIN s \subseteq Nat
           /\ \A n \in DOMAIN s : s[n] # Shutdown =>
                  DOMAIN s[n].profile = Instances /\ s[n].background \in BOOLEAN
    /\ MaxFaults \in Nat

VARIABLES
    desired,        \* the profile of the last switch: a revision per instance
    background,     \* its initialization option
    active,         \* the published graph: an activation per instance
    failedRecords,  \* the instances the current generation records as failed
    flights,        \* #initializations, past flights included
    scopes,         \* the EffectScope of every activation begun so far
    owners,         \* #unconfirmedRetirements
    queue,          \* #mutationTail
    finishing,      \* publications whose startups and retirements are awaited
    calls,          \* callers of switch() and shutdown()
    stop,           \* shutdown()
    stopStates,     \* #shutdownStates
    faults

kernelVars == <<desired, background, active, failedRecords, finishing>>
stopVars == <<stop, stopStates>>
vars == <<kernelVars, flights, scopes, owners, queue, calls, stopVars, faults>>

-----------------------------------------------------------------------------
(* Activations and their scopes.                                           *)

InstanceOf(a) == a[3]
FlightOf(a) == <<a[1], a[2]>>
ActivationOf(f, i) == <<f[1], f[2], i>>
Revision(a) == flights[FlightOf(a)].revision[InstanceOf(a)]

\* The activation that a uses for a required instance j.
BoundTo(a, j) == IF j \in a[1] THEN <<a[1], a[2], j>> ELSE flights[FlightOf(a)].external[j]

Begun(f) == {a \in DOMAIN scopes : FlightOf(a) = f}
Prepared(f) == {ActivationOf(f, i) : i \in flights[f].done}

\* An operation of the plugin has entered and not settled; effects whose
\* disposers are registered; a resource acquired after the scope closed.
NewScope == [op |-> TRUE, held |-> FALSE, late |-> FALSE, aborted |-> FALSE, failed |-> FALSE,
             disposal |-> "none", clean |-> FALSE, startup |-> "none", prior |-> None, worker |-> FALSE]

Working(s) == s.op \/ s.held \/ s.late

(* Mutant: disposal that is over counts as a confirmed retirement. *)
DisposalOver(s) == s.disposal = "over"

\* retirementConfirmed
Confirmed(s) == s.disposal = "over" /\ ~Working(s) /\ ~s.failed

\* dispose: with nothing to dispose of, it is over at once.
Dispose(s) ==
    IF s.disposal # "none" THEN [s EXCEPT !.aborted = TRUE]
    ELSE IF s.held THEN [s EXCEPT !.aborted = TRUE, !.disposal = "running"]
    ELSE [s EXCEPT !.aborted = TRUE, !.disposal = "over", !.clean = ~s.op /\ ~s.failed]

(* Mutant: what is retired is not registered as an unconfirmed owner. *)
RegisteredNot(ow, sc, as) == ow \ {a \in as : Confirmed(sc[a])}

\* retireStates and scheduleRetirement register what they retire, and drop it
\* again when its retirement is confirmed.
Registered(ow, sc, as) == (ow \cup as) \ {a \in as : Confirmed(sc[a])}

\* What the operations below work on, one after the other.
Now == [flights |-> flights, scopes |-> scopes, owners |-> owners]
Becomes(k) == flights' = k.flights /\ scopes' = k.scopes /\ owners' = k.owners

Retire(k, as) ==
    LET sc == [a \in DOMAIN k.scopes |-> IF a \in as THEN Dispose(k.scopes[a]) ELSE k.scopes[a]]
    IN [flights |-> k.flights, scopes |-> sc, owners |-> Registered(k.owners, sc, as)]

Entered(sc, a, s) == [b \in DOMAIN sc \cup {a} |-> IF b = a THEN s ELSE sc[b]]

\* assertRetirementConfirmed
GateOpen(i, ow, sc) == \A a \in ow : InstanceOf(a) = i => Confirmed(sc[a])
Pruned(i, ow, sc) == {a \in ow : InstanceOf(a) = i => ~Confirmed(sc[a])}

-----------------------------------------------------------------------------
(* The capability graph: every instance provides what is named after it.   *)

\* What an instance requires, directly or through others.
Upstream ==
    [i \in Instances |->
        {j \in Instances : \A S \in SUBSET Instances :
            Requires[i] \subseteq S /\ (\A k \in S : Requires[k] \subseteq S) => j \in S}]

Wanted(p) == {i \in Instances : p[i] # None}
Waiting(p) == {i \in Wanted(p) : ~(Upstream[i] \subseteq Wanted(p))}
Changed(p, i) == active[i] = None \/ Revision(active[i]) # p[i]

\* dependencyComponents, rebuilding: changed instances, and what depends on a
\* changed or removed one.
Rebuilding(p) ==
    {i \in Wanted(p) :
        \/ Changed(p, i)
        \/ \E j \in Upstream[i] : IF j \in Wanted(p) THEN Changed(p, j) ELSE active[j] # None}

(* Mutant: consumers are never rebuilt in one component with their provider. *)
AloneComponent(p, i) == {i}

\* dependencyComponents, components: an active consumer that is rebuilt is
\* joined with the rebuilt providers it needs, directly or through others.
Component(p, i) ==
    LET movable == Rebuilding(p) \ Waiting(p)
        pulled == {k \in movable : active[k] # None} \cup
                  {j \in movable : \E k \in movable : active[k] # None /\ j \in Upstream[k]}
        closed(S) == \A k \in pulled : \A j \in movable \cap Requires[k] : k \in S <=> j \in S
    IN {k \in Instances : \A S \in SUBSET Instances : i \in S /\ closed(S) => k \in S}

External(component) == (UNION {Requires[k] : k \in component}) \ component

Init ==
    /\ desired = [i \in Instances |-> None]
    /\ background = FALSE
    /\ active = [i \in Instances |-> None]
    /\ failedRecords = {}
    /\ flights = [f \in {} |-> None]
    /\ scopes = [a \in {} |-> None]
    /\ owners = {}
    /\ queue = <<>>
    /\ finishing = {}
    /\ \E s \in Scenarios : calls = [c \in DOMAIN s |-> [pc |-> "idle", request |-> s[c], retry |-> {}]]
    /\ stop = "no"
    /\ stopStates = {}
    /\ faults = 0

-----------------------------------------------------------------------------
(* Initialisations.                                                        *)

\* cancelInitialization: begun activations are aborted and registered, and a
\* settled flight's prepared ones are retired.
Cancel(k, fs) ==
    LET begun == UNION {Begun(f) : f \in fs}
        settled == UNION {Prepared(f) : f \in {g \in fs : k.flights[g].state = "settled"}}
        sc == [a \in DOMAIN k.scopes |-> IF a \in settled THEN Dispose(k.scopes[a])
                                         ELSE [k.scopes[a] EXCEPT !.aborted = @ \/ a \in begun]]
    IN [flights |-> [f \in DOMAIN k.flights |->
                        IF f \in fs THEN [k.flights[f] EXCEPT !.cancelled = TRUE, !.registered = FALSE] ELSE k.flights[f]],
        scopes |-> sc,
        owners |-> Registered(k.owners \cup begun, sc, settled)]

\* Flights leave the map when one of their activations is published.
Consumed(fl, fs) == [f \in DOMAIN fl |-> [fl[f] EXCEPT !.registered = @ /\ f \notin fs]]

\* The registered flights that initialise one of these instances.
Overlapping(fl, is) == {f \in DOMAIN fl : fl[f].registered /\ f[1] \cap is # {}}

FailedFlights(fl, fs) == [f \in DOMAIN fl |-> [fl[f] EXCEPT !.failed = @ \/ f \in fs]]

\* The flight that initialises a component for this profile and these
\* external services, if there is one.
Fits(p, fl, f, external) ==
    /\ \A k \in f[1] : fl[f].revision[k] = p[k]
    /\ fl[f].external = external

FlightsOf(fl, component) == {f \in DOMAIN fl : f[1] = component /\ fl[f].registered}

NewFlight(p, component, external) ==
    [revision |-> [k \in component |-> p[k]], external |-> external, state |-> "running", cancelled |-> FALSE,
     failed |-> FALSE, registered |-> TRUE, current |-> None, done |-> {}]

Components(p) ==
    [i \in Instances |-> IF i \in Rebuilding(p) \ Waiting(p) THEN Component(p, i) ELSE {i}]

Bindings(c, next) == [j \in External(c) |-> next[j]]

\* The flights that have prepared a component for these providers.
Ready(p, fl, c, next) ==
    {f \in FlightsOf(fl, c) : Fits(p, fl, f, Bindings(c, next)) /\ fl[f].state = "settled" /\ ~fl[f].failed}

(* Mutant: a component that still initialises leaves the graph. *)
SuccessorWithoutOld(p, fl, component, next, i) ==
    LET c == component[i]
        ready == Ready(p, fl, c, next)
    IN IF i \notin Wanted(p) \ Waiting(p) THEN None
       ELSE IF i \notin Rebuilding(p) THEN active[i]
       ELSE IF \E j \in External(c) : next[j] = None THEN None
       ELSE IF ready = {} THEN None
       ELSE ActivationOf(CHOOSE f \in ready : TRUE, i)

\* What takes the place of an instance when next takes that of its providers:
\* a prepared activation where a flight is ready, otherwise what is published.
Successor(p, fl, component, next, i) ==
    LET c == component[i]
        ready == Ready(p, fl, c, next)
    IN IF i \notin Wanted(p) \ Waiting(p) THEN None
       ELSE IF i \notin Rebuilding(p) THEN active[i]
       ELSE IF \E j \in External(c) : next[j] = None THEN None
       ELSE IF ready = {} THEN active[i]
       ELSE ActivationOf(CHOOSE f \in ready : TRUE, i)

\* The graph that switchNow arrives at, providers first: without cycles there
\* is one solution.
NextGraphs(p, fl, component) ==
    LET settled == {f \in DOMAIN fl : fl[f].registered /\ fl[f].state = "settled" /\ ~fl[f].failed}
        prepared == UNION {{ActivationOf(f, i) : i \in f[1]} : f \in settled}
    IN {next \in [Instances -> {None} \cup {active[i] : i \in Instances} \cup prepared] :
           \A i \in Instances : next[i] = Successor(p, fl, component, next, i)}

\* What switchNow does with the flights of the components that it can build.
Plan(p, fl, component, next) ==
    LET tried == {c \in {component[i] : i \in Rebuilding(p) \ Waiting(p)} : \A j \in External(c) : next[j] # None}
        fitting(c) == {f \in FlightsOf(fl, c) : Fits(p, fl, f, Bindings(c, next))}
        number(c) == 1 + Cardinality({f \in DOMAIN fl : f[1] = c})
        fits == UNION {fitting(c) : c \in tried}
        fresh == {<<c, number(c)>> : c \in {d \in tried : fitting(d) = {}}}
    IN [next |-> next,
        component |-> component,
        stale |-> (UNION {FlightsOf(fl, c) : c \in tried}) \ fits,
        fresh |-> [f \in fresh |-> NewFlight(p, f[1], Bindings(f[1], next))],
        ready |-> {f \in fits : fl[f].state = "settled" /\ ~fl[f].failed},
        spent |-> {f \in fits : fl[f].state = "settled" /\ fl[f].failed}]

\* Failed flights are given up, new ones begin.
Begins(k, plan) ==
    LET failed == FailedFlights(k.flights, Overlapping(k.flights, UNION {f[1] : f \in plan.spent}))
    IN [k EXCEPT !.flights = [f \in DOMAIN failed \cup DOMAIN plan.fresh |->
                                 IF f \in DOMAIN failed THEN failed[f] ELSE plan.fresh[f]]]

-----------------------------------------------------------------------------
(* Publication.                                                            *)

FailedNow(p, fl, next, withdrawn) ==
    {i \in Wanted(p) : next[i] = None
        /\ (i \in withdrawn \/ \E f \in DOMAIN fl : fl[f].registered /\ fl[f].failed /\ i \in f[1])}

\* The fence (beforePublish) rejects: every prepared candidate is retired.
FenceRejects(plan, k) ==
    /\ faults < MaxFaults
    /\ faults' = faults + 1
    /\ \E failed \in {[k EXCEPT !.flights = FailedFlights(@, plan.ready)]} :
          Becomes(Retire(failed, UNION {Prepared(f) : f \in plan.ready}))
    /\ UNCHANGED <<active, failedRecords, finishing>>

\* Startup after publication: an exclusive worker waits for the activation it
\* replaces; without one, the gate is read at once.
Started(s, i, ow, sc) ==
    IF i \notin Owning THEN [s EXCEPT !.startup = "running"]
    ELSE [s EXCEPT !.prior = active[i],
                   !.op = active[i] # None \/ GateOpen(i, ow, sc),
                   !.startup = IF active[i] # None THEN "waiting"
                               ELSE IF GateOpen(i, ow, sc) THEN "admitted" ELSE "failed"]

\* What switchNow publishes, and the old activations that a rollback that
\* throws, on one of these components, leaves uncertain.
Candidates(next) == {i \in Instances : next[i] # None /\ next[i] # active[i]}

Uncertain(seeds) ==
    {i \in Instances : active[i] # None /\ \E j \in seeds \cap ({i} \cup Upstream[i]) : active[j] # None}

\* What a failed publication withdraws: its component and what is bound to it,
\* or to an uncertain old activation.
Withdrawn(plan, bad, uncertain) ==
    LET candidates == Candidates(plan.next)
        closed(S) == /\ bad \subseteq S
                     /\ \A i \in S : plan.component[i] \subseteq S
                     /\ \A i \in candidates : \A j \in Requires[i] :
                            j \in S \/ (j \in uncertain /\ plan.next[j] = active[j]) => i \in S
    IN {i \in candidates : \A S \in SUBSET candidates : closed(S) => i \in S}

Without(graph, uncertain) == [i \in Instances |-> IF i \in uncertain /\ graph[i] = active[i] THEN None ELSE graph[i]]

\* A graph takes the place of the published one: what it replaces, and what was
\* prepared for it in vain, is retired; a worker starts for what is new in it.
Replaces(plan, k, graph, new, doubted, failing, stands) ==
    LET superseded == {active[i] : i \in {j \in Instances : active[j] # None /\ graph[j] # active[j]}}
        vain == {a \in UNION {Prepared(f) : f \in plan.ready} : graph[InstanceOf(a)] # a}
        published == {f \in plan.ready : \E i \in f[1] : graph[i] = ActivationOf(f, i)}
        fresh == {graph[i] : i \in new}
    IN \E marked \in {[flights |-> Consumed(FailedFlights(k.flights, failing), published),
                       scopes |-> [a \in DOMAIN k.scopes |-> [k.scopes[a] EXCEPT !.failed = @ \/ a \in doubted]],
                       owners |-> k.owners]} :
       \E after \in {Retire(marked, superseded \cup vain)} :
          /\ active' = graph
          /\ flights' = after.flights
          /\ owners' = after.owners
          /\ scopes' = [a \in DOMAIN after.scopes |->
                           IF a \in fresh THEN Started(after.scopes[a], InstanceOf(a), after.owners, after.scopes)
                           ELSE after.scopes[a]]
          /\ finishing' = IF stands /\ (new # {} \/ superseded # {})
                          THEN finishing \cup {[started |-> fresh, retired |-> superseded]} ELSE finishing

\* bad: publish() throws, as it does for a scope that is aborted; tainted: its
\* rollback throws as well, so that the old graph is uncertain too.
Publishes(p, plan, k) ==
    LET next == plan.next
        candidates == Candidates(next)
        aborted == {i \in candidates : k.scopes[next[i]].aborted}
        first(bad) == {i \in bad : Upstream[i] \cap bad = {}}
        attempted(bad) == UNION {plan.component[i] \cap ({i} \cup Upstream[i]) : i \in first(bad)}
    IN \E bad \in SUBSET candidates : \E tainted \in SUBSET (attempted(bad) \ aborted) :
       \E seeds \in {UNION {plan.component[i] : i \in tainted}} :
       \E uncertain \in {Uncertain(seeds)} :
       \E kept \in {candidates \ Withdrawn(plan, bad, uncertain)} :
       LET stands == bad = {} \/ kept # {} \/ \E i \in Instances \ Wanted(p) : active[i] # None
           doubted == {next[i] : i \in tainted} \cup {active[i] : i \in {j \in seeds : active[j] # None}}
           failing == (IF stands THEN {} ELSE plan.ready)
                          \cup Overlapping(k.flights, UNION {plan.component[i] : i \in first(bad)})
           left == [i \in Instances |-> IF i \in candidates \ kept THEN active[i] ELSE next[i]]
       IN /\ aborted \subseteq bad
          /\ Cardinality(tainted) <= 1
          /\ faults' = faults + Cardinality(bad \ aborted) + Cardinality(tainted)
          /\ faults' <= MaxFaults
          /\ \E graph \in {Without(IF stands THEN left ELSE active, uncertain)} :
                 Replaces(plan, k, graph, kept, doubted, failing, stands)
          /\ failedRecords' = IF stands THEN FailedNow(p, flights', active', (candidates \ kept) \cup uncertain)
                              ELSE failedRecords \cup uncertain

\* switchNow
SwitchNow(p, inBackground, k) ==
    \E component \in {Components(p)} :
    \E next \in NextGraphs(p, k.flights, component) :
    \E plan \in {Plan(p, k.flights, component, next)} :
    \E left \in {Cancel(k, plan.stale)} :
    \E begun \in {Begins(left, plan)} :
    \E after \in {Retire(begun, UNION {Prepared(f) : f \in plan.spent})} :
    LET initializing == \E f \in DOMAIN after.flights : after.flights[f].registered /\ after.flights[f].state = "running"
    IN IF initializing /\ (~inBackground \/ next = active)
       THEN /\ Becomes(after)
            /\ failedRecords' = IF inBackground THEN FailedNow(p, after.flights, next, {}) ELSE failedRecords
            /\ UNCHANGED <<active, finishing, faults>>
       ELSE FenceRejects(plan, after) \/ Publishes(p, plan, after)

-----------------------------------------------------------------------------
(* The mutation queue.                                                     *)

First == Head(queue)
Later == Tail(queue)
Disposed == stop \notin {"no", "called"}

\* Calls are made in the order of the scenario, at any time.
Called(c) == calls[c].pc = "idle" /\ (c > 1 => calls[c - 1].pc # "idle")

\* A caller of switch(): failed instances that it wants again are joined first.
SwitchCalled(c) ==
    LET retry == Wanted(calls[c].request.profile) \cap failedRecords
    IN /\ Called(c) /\ calls[c].request # Shutdown
       /\ calls' = [calls EXCEPT ![c].pc = IF retry = {} THEN "queued" ELSE "joining", ![c].retry = retry]
       /\ queue' = IF retry = {} THEN Append(queue, [op |-> "switch", call |-> c]) ELSE queue
       /\ UNCHANGED <<kernelVars, flights, scopes, owners, stopVars, faults>>

\* ownedWork
WorkOn(i) ==
    \/ \E f \in DOMAIN flights : i \in f[1] /\ flights[f].state = "running"
    \/ \E a \in DOMAIN scopes : InstanceOf(a) = i /\ scopes[a].disposal = "running"
    \/ \E g \in finishing : \E a \in g.started \cup g.retired : InstanceOf(a) = i

\* joinWork
SwitchQueued(c) ==
    /\ calls[c].pc = "joining"
    /\ queue = <<>>
    /\ \A i \in calls[c].retry : ~WorkOn(i)
    /\ calls' = [calls EXCEPT ![c].pc = "queued"]
    /\ queue' = Append(queue, [op |-> "switch", call |-> c])
    /\ UNCHANGED <<kernelVars, flights, scopes, owners, stopVars, faults>>

\* switch: flights that failed or that the new profile does not want as they
\* are, are cancelled first.
RunSwitch ==
    /\ queue # <<>> /\ First.op = "switch"
    /\ queue' = Later
    /\ LET c == First.call
           p == calls[c].request.profile
           stale == {f \in DOMAIN flights : flights[f].registered
                        /\ (flights[f].failed \/ \E k \in f[1] : flights[f].revision[k] # p[k])}
       IN /\ calls' = [calls EXCEPT ![c].pc = "done", ![c].retry = {}]
          /\ IF Disposed THEN UNCHANGED <<kernelVars, flights, scopes, owners, faults>>
             ELSE /\ desired' = p
                  /\ background' = calls[c].request.background
                  /\ \E k \in {Cancel(Now, stale)} : SwitchNow(p, background', k)
    /\ UNCHANGED stopVars

\* continueInitialization
RunPump ==
    /\ queue # <<>> /\ First.op = "pump"
    /\ queue' = Later
    /\ IF Disposed THEN UNCHANGED <<kernelVars, flights, scopes, owners, faults>>
       ELSE /\ SwitchNow(desired, background, Now)
            /\ UNCHANGED <<desired, background>>
    /\ UNCHANGED <<calls, stopVars>>

\* handleRuntimeFailure of those activations that are still published: they
\* and their required consumers leave the graph and are retired.
RuntimeFailure(as) ==
    LET hit == {i \in Instances : active[i] # None /\ active[i] \in as}
        removed == {i \in Instances : active[i] # None /\ ({i} \cup Upstream[i]) \cap hit # {}}
        gone == {active[i] : i \in removed}
    IN IF Disposed THEN UNCHANGED <<active, failedRecords, flights, scopes, owners>>
       ELSE /\ active' = [i \in Instances |-> IF i \in removed THEN None ELSE active[i]]
            /\ failedRecords' = (failedRecords \ removed) \cup {i \in hit : Upstream[i] \cap hit = {}}
            /\ Becomes(Retire(Now, gone))

RunFailure ==
    /\ queue # <<>> /\ First.op = "failure"
    /\ queue' = Later
    /\ RuntimeFailure(First.of)
    /\ UNCHANGED <<desired, background, finishing, calls, stopVars, faults>>

(* Mutant: a publication waits until what it replaced is confirmed retired. *)
ReplacedIsConfirmed(g) == \A a \in g.retired : Confirmed(scopes[a])

\* What a publication replaced is retired, or its retirement was given up.
ReplacedIsOver(g) == \A a \in g.retired : scopes[a].disposal = "over"

StartupFailures(g) == {a \in g.started : scopes[a].startup = "failed"}

\* The startups of a publication have ended and so have its retirements: only
\* then are failed startups handled.
StartupsSettled(g) ==
    /\ g \in finishing
    /\ \A a \in g.started : scopes[a].startup \in {"running", "failed"}
    /\ ReplacedIsOver(g)
    /\ finishing' = finishing \ {g}
    /\ queue' = Append(queue, [op |-> "failure", of |-> StartupFailures(g)])
    /\ UNCHANGED <<desired, background, active, failedRecords, flights, scopes, owners, calls, stopVars, faults>>

-----------------------------------------------------------------------------
(* A flight: its members are activated one after the other.                *)

\* A flight that has settled.
Ended(r, failed) == [r EXCEPT !.state = "settled", !.failed = failed, !.current = None]

\* The end of a flight: what was prepared waits for the pump or, in a flight
\* that is no longer wanted, is retired.
EndFlight(f, k, failed) ==
    LET prepared == {ActivationOf(f, i) : i \in k.flights[f].done}
        dropped == k.flights[f].cancelled \/ ~k.flights[f].registered \/ Disposed
    IN /\ \E ended \in {[k EXCEPT !.flights[f] = Ended(@, failed)]} :
             Becomes(IF dropped THEN Retire(ended, prepared) ELSE ended)
       /\ queue' = IF dropped THEN queue ELSE Append(queue, [op |-> "pump"])

NextMember(f) ==
    CHOOSE i \in f[1] \ flights[f].done : Requires[i] \cap f[1] \subseteq flights[f].done

\* The next member: an activation of the instance that may still be at work
\* after its retirement fails it.
MemberBegins(f) ==
    LET i == NextMember(f)
        a == ActivationOf(f, i)
        begun(s) == [flights |-> flights, scopes |-> Entered(scopes, a, s), owners |-> Pruned(i, owners, scopes)]
    IN /\ flights[f].state = "running" /\ flights[f].current = None
       /\ IF flights[f].cancelled THEN EndFlight(f, Now, TRUE)
          ELSE IF GateOpen(i, owners, scopes)
          THEN /\ Becomes([begun(NewScope) EXCEPT !.flights[f].current = i])
               /\ UNCHANGED queue
          ELSE EndFlight(f, begun(Dispose([NewScope EXCEPT !.op = FALSE])), TRUE)
       /\ UNCHANGED <<kernelVars, calls, stopVars, faults>>

\* Preparation, activation and effect startup of one plugin.
MemberDone(f) ==
    LET i == flights[f].current
        a == ActivationOf(f, i)
        k == [flights |-> [flights EXCEPT ![f] = [flights[f] EXCEPT !.current = None, !.done = @ \cup {i}]],
              scopes |-> [scopes EXCEPT ![a] = [scopes[a] EXCEPT !.op = FALSE, !.held = i \in Owning]],
              owners |-> owners]
    IN /\ i # None
       /\ scopes[a].op /\ ~scopes[a].aborted
       /\ IF k.flights[f].done = f[1] THEN EndFlight(f, k, FALSE) ELSE Becomes(k) /\ UNCHANGED queue
       /\ UNCHANGED <<kernelVars, calls, stopVars, faults>>

\* An operation or a disposer that nobody cancelled fails or times out.
Fault(cancelled) ==
    /\ faults' = faults + (IF cancelled THEN 0 ELSE 1)
    /\ faults' <= MaxFaults

\* It fails, times out, or is aborted; its operation may go on.
MemberGivesUp(f) ==
    LET a == ActivationOf(f, flights[f].current)
    IN /\ flights[f].current # None
       /\ Fault(scopes[a].aborted)
       /\ EndFlight(f, Retire(Now, {a}), TRUE)
       /\ UNCHANGED <<kernelVars, calls, stopVars>>

-----------------------------------------------------------------------------
(* An activation: startup after publication, failures, disposal.           *)

ScopeStep(a, s) ==
    /\ scopes' = [scopes EXCEPT ![a] = s]
    /\ UNCHANGED <<kernelVars, flights, queue, calls, stopVars>>

\* previousRetirement settles for an exclusive worker that awaits it.
BarrierSettles(a) ==
    LET s == scopes[a]
        i == InstanceOf(a)
    IN /\ s.startup = "waiting"
       /\ scopes[s.prior].disposal = "over"
       /\ IF scopes[s.prior].clean /\ GateOpen(i, owners, scopes)
          THEN ScopeStep(a, [s EXCEPT !.startup = "admitted"])
          ELSE ScopeStep(a, [s EXCEPT !.startup = "failed", !.op = FALSE])
       /\ owners' = IF scopes[s.prior].clean THEN Pruned(i, owners, scopes) ELSE owners
       /\ UNCHANGED faults

\* The plugin checks its signal and starts the worker.
WorkerStarts(a) ==
    /\ scopes[a].startup = "admitted" /\ ~scopes[a].aborted
    /\ ScopeStep(a, [scopes[a] EXCEPT !.startup = "starting", !.worker = TRUE])
    /\ UNCHANGED <<owners, faults>>

WorkerRuns(a) ==
    /\ scopes[a].startup = "starting" /\ ~scopes[a].aborted
    /\ ScopeStep(a, [scopes[a] EXCEPT !.startup = "running", !.op = FALSE])
    /\ UNCHANGED <<owners, faults>>

\* The startup fails, times out, or is aborted.
StartupGivesUp(a) ==
    /\ scopes[a].startup \in {"waiting", "admitted", "starting"}
    /\ Fault(scopes[a].aborted)
    /\ ScopeStep(a, [scopes[a] EXCEPT !.startup = "failed", !.aborted = TRUE])
    /\ UNCHANGED owners

\* An operation that was given up ends, with or without a resource, which is
\* disposed of at once.
OperationEnds(a) ==
    /\ scopes[a].op /\ scopes[a].aborted
    /\ scopes[a].startup \in {"none", "failed"}
    /\ \E acquired \in BOOLEAN :
           ScopeStep(a, [scopes[a] EXCEPT !.op = FALSE, !.late = acquired, !.worker = @ /\ (acquired \/ scopes[a].held)])
    /\ UNCHANGED <<owners, faults>>

\* The registered effects are disposed of.
DisposalEnds(a) ==
    /\ scopes[a].disposal = "running"
    /\ LET s == scopes[a]
           released == [s EXCEPT !.held = FALSE, !.worker = s.worker /\ (s.op \/ s.late)]
       IN ScopeStep(a, [released EXCEPT !.disposal = "over", !.clean = ~s.op /\ ~s.failed])
    /\ owners' = Registered(owners, scopes', {a})
    /\ UNCHANGED faults

DisposalTimesOut(a) ==
    /\ scopes[a].disposal = "running"
    /\ Fault(FALSE)
    /\ ScopeStep(a, [scopes[a] EXCEPT !.disposal = "over"])
    /\ UNCHANGED owners

\* Disposers that outlive their deadline, or the scope, end or fail.
LateDisposalEnds(a) ==
    /\ scopes[a].disposal = "over" \/ scopes[a].late
    /\ scopes[a].late \/ scopes[a].held
    /\ ~scopes[a].failed
    /\ LET s == scopes[a]
           released == [s EXCEPT !.late = FALSE, !.held = s.held /\ s.disposal # "over"]
       IN ScopeStep(a, [released EXCEPT !.worker = s.worker /\ (s.op \/ released.held)])
    /\ UNCHANGED <<owners, faults>>

DisposerFails(a) ==
    /\ scopes[a].disposal = "over"
    /\ scopes[a].late \/ scopes[a].held
    /\ ~scopes[a].failed
    /\ faults < MaxFaults
    /\ faults' = faults + 1
    /\ scopes' = [scopes EXCEPT ![a].failed = TRUE]
    /\ UNCHANGED <<kernelVars, flights, owners, queue, calls, stopVars>>

\* lifecycle.fail
PluginFails(a) ==
    /\ InstanceOf(a) \in flights[FlightOf(a)].done /\ ~scopes[a].aborted
    /\ faults < MaxFaults
    /\ faults' = faults + 1
    /\ scopes' = [scopes EXCEPT ![a].aborted = TRUE]
    /\ queue' = Append(queue, [op |-> "failure", of |-> {a}])
    /\ UNCHANGED <<kernelVars, flights, owners, calls, stopVars>>

-----------------------------------------------------------------------------
(* Shutdown.                                                               *)

CancelAll == Cancel(Now, {f \in DOMAIN flights : flights[f].registered})

\* shutdown, dispose: later callers share the first shutdown.
ShutdownCalled(c) ==
    /\ Called(c) /\ calls[c].request = Shutdown
    /\ calls' = [calls EXCEPT ![c].pc = "done"]
    /\ IF stop = "no"
       THEN /\ stop' = "called"
            /\ Becomes(CancelAll)
            /\ queue' = Append(queue, [op |-> "dispose"])
       ELSE UNCHANGED <<stop, flights, scopes, owners, queue>>
    /\ UNCHANGED <<kernelVars, stopStates, faults>>

\* disposeNow holds the queue until everything it retires is over.
RunDispose ==
    LET all == CancelAll
        gone == {active[i] : i \in {j \in Instances : active[j] # None}}
                    \cup {a \in all.owners : ~Confirmed(all.scopes[a])}
    IN /\ queue # <<>> /\ First.op = "dispose"
       /\ stop = "called"
       /\ stop' = "disposing"
       /\ active' = [i \in Instances |-> None]
       /\ Becomes(Retire(all, gone))
       /\ stopStates' = gone
       /\ UNCHANGED <<desired, background, failedRecords, finishing, queue, calls, faults>>

(* Mutant: shutdown takes the end of its disposal for the end of the plugins. *)
ToConfirmNothing == {}

\* shutdownNow waits for what was disposed of and every unconfirmed owner.
ToConfirm == stopStates \cup owners

DisposeEnds ==
    /\ stop = "disposing"
    /\ \A a \in stopStates : scopes[a].disposal = "over"
    /\ queue' = Later
    /\ IF \A a \in stopStates : scopes[a].clean
       THEN stop' = "joining" /\ UNCHANGED stopStates
       ELSE stop' = "confirming" /\ stopStates' = ToConfirm
    /\ UNCHANGED <<kernelVars, flights, scopes, owners, calls, faults>>

DisposeJoins ==
    /\ stop = "joining"
    /\ \A i \in Instances : ~WorkOn(i)
    /\ stop' = "confirming"
    /\ stopStates' = ToConfirm
    /\ UNCHANGED <<kernelVars, flights, scopes, owners, queue, calls, faults>>

ShutdownConfirms ==
    /\ stop = "confirming"
    /\ \A a \in stopStates : Confirmed(scopes[a])
    /\ stop' = "confirmed"
    /\ UNCHANGED <<kernelVars, flights, scopes, owners, queue, calls, stopStates, faults>>

ShutdownTimesOut ==
    /\ stop \in {"joining", "confirming"}
    /\ stop' = "unconfirmed"
    /\ UNCHANGED <<kernelVars, flights, scopes, owners, queue, calls, stopStates, faults>>

-----------------------------------------------------------------------------
Kernel ==
    \/ RunSwitch \/ RunPump \/ RunFailure \/ RunDispose \/ DisposeEnds \/ DisposeJoins
    \/ \E c \in DOMAIN calls : SwitchQueued(c)
    \/ \E g \in finishing : StartupsSettled(g)
    \/ \E f \in DOMAIN flights : MemberBegins(f)

Timers ==
    \/ \E f \in DOMAIN flights : MemberGivesUp(f)
    \/ \E a \in DOMAIN scopes : StartupGivesUp(a) \/ DisposalTimesOut(a)
    \/ ShutdownTimesOut

Plugins ==
    \/ \E f \in DOMAIN flights : MemberDone(f)
    \/ \E a \in DOMAIN scopes :
           \/ BarrierSettles(a) \/ WorkerStarts(a) \/ WorkerRuns(a) \/ OperationEnds(a)
           \/ DisposalEnds(a) \/ LateDisposalEnds(a) \/ DisposerFails(a) \/ PluginFails(a)

Next ==
    \/ \E c \in DOMAIN calls : SwitchCalled(c) \/ ShutdownCalled(c)
    \/ ShutdownConfirms
    \/ Kernel \/ Timers \/ Plugins

Spec == Init /\ [][Next]_vars

\* Plugin code that the kernel waits for ends, or is given up by a timer.
Awaited ==
    \/ Timers
    \/ \E f \in DOMAIN flights : MemberDone(f)
    \/ \E a \in DOMAIN scopes : BarrierSettles(a) \/ WorkerStarts(a) \/ WorkerRuns(a) \/ DisposalEnds(a)

\* The kernel's own continuations run and its deadlines fire.  Nothing is
\* assumed of plugin code that nobody waits for any more.
FairSpec == Spec /\ WF_vars(Kernel) /\ WF_vars(Awaited)

-----------------------------------------------------------------------------
(* The map of initialisations has one flight per component (key), the graph *)
(* one activation per instance, and every owner is an activation.           *)
TypeOK ==
    /\ \A f, g \in DOMAIN flights : flights[f].registered /\ flights[g].registered /\ f[1] = g[1] => f = g
    /\ \A i \in Instances : active[i] # None => active[i] \in DOMAIN scopes /\ InstanceOf(active[i]) = i
    /\ owners \cup stopStates \subseteq DOMAIN scopes
    /\ failedRecords \subseteq Instances
    /\ stop \in {"no", "called", "disposing", "joining", "confirming", "confirmed", "unconfirmed"}
    /\ faults \in 0..MaxFaults

(* retirementBarrier and assertRetirementConfirmed: two activations of one  *)
(* instance never both have an exclusive worker, whatever timed out, was    *)
(* cancelled or superseded, or ends late.                                   *)
OneWorker ==
    \A a, b \in DOMAIN scopes :
        a # b /\ InstanceOf(a) = InstanceOf(b) => ~(scopes[a].worker /\ scopes[b].worker)

(* "Only existing consumers retain references that must move atomically     *)
(* with a replaced provider" (dependencyComponents): a published consumer   *)
(* is bound to the published activation of every instance it requires, also *)
(* after a failed publication, its rollback, and a runtime failure.         *)
NoStaleReference ==
    \A i \in Instances : active[i] # None =>
        \A j \in Requires[i] : active[j] # None /\ BoundTo(active[i], j) = active[j]

(* No step retires what is published: a cancelled flight, a rejected fence  *)
(* or a rollback never disposes of an activation that stays in the graph.   *)
PublishedIsOpen ==
    \A i \in Instances : active[i] # None => scopes[active[i]].disposal = "none"

(* Plugin code that may still be at work is always an owner somebody looks  *)
(* at: published, in a registered flight, or an unconfirmed retirement.     *)
NoLostOwner ==
    \A a \in DOMAIN scopes : Working(scopes[a]) =>
        \/ a \in owners
        \/ active[InstanceOf(a)] = a
        \/ flights[FlightOf(a)].registered

(* A published activation that failed, at startup or later, is about to     *)
(* leave the graph: its failure is queued or its publication is finishing.  *)
FailureIsPending ==
    \A i \in Instances : active[i] # None /\ (scopes[active[i]].aborted \/ scopes[active[i]].startup = "failed") =>
        \/ \E n \in 1..Len(queue) : queue[n].op = "failure" /\ active[i] \in queue[n].of
        \/ \E g \in finishing : active[i] \in g.started

(* The published graph is consistent between any two steps of the kernel:   *)
(* consumers are bound to published providers, nothing in it is retired and *)
(* a failure in it is on its way out.                                       *)
GraphIsConsistent == TypeOK /\ NoStaleReference /\ PublishedIsOpen /\ FailureIsPending

(* A shutdown that reports success has left no plugin at work, not even one *)
(* given up or superseded long before ("An empty active graph is not a      *)
(* completed shutdown").                                                    *)
ShutdownIsQuiet ==
    stop = "confirmed" => \A a \in DOMAIN scopes : ~Working(scopes[a]) /\ ~scopes[a].worker

(* What is published stays published until it is shut down, no longer       *)
(* wanted or without its requirements, or fails, or a provider of it does:  *)
(* never because a successor is initialising or could not be published.     *)
LossHasCause ==
    [][\A i \in Instances : active[i] # None /\ active'[i] = None =>
           \/ stop' = "disposing"
           \/ desired'[i] = None
           \/ i \in Waiting(desired')
           \/ \E j \in {i} \cup Upstream[i] :
                  active[j] # None /\ LET s == scopes'[active[j]] IN
                      \/ s.failed \/ s.startup = "failed"
                      \/ scopes[active[j]].aborted]_vars

Quiet ==
    /\ queue = <<>> /\ finishing = {}
    /\ \A f \in DOMAIN flights : flights[f].state = "settled"
    /\ \A a \in DOMAIN scopes : scopes[a].disposal # "running" /\ scopes[a].startup \notin {"waiting", "admitted", "starting"}
    /\ \A c \in DOMAIN calls : calls[c].pc # "joining"
    /\ stop \in {"no", "confirming", "confirmed", "unconfirmed"}

(* The mutation queue, the joins of switch() and shutdown() and the chain   *)
(* of publication, retirement and startup never wait on one another for     *)
(* ever, although a plugin that was given up may hang.                      *)
Settles == []<>Quiet
=============================================================================
