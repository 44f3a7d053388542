---------------------------- MODULE ProcessLeases ----------------------------
(***************************************************************************)
(* ProcessLeaseRegistry, src/runtime/processLeaseRegistry.ts: the children *)
(* that plugin activations run, and the calls that drain and stop them.    *)
(*                                                                         *)
(* A lease is one successful launch(); a call is one drainOwner,           *)
(* terminateOwner, terminate or disposeAll, which awaits promises and is   *)
(* therefore two or more steps.  Everything between two awaits is one step *)
(* of the single JavaScript thread.  proc is the operating system's view   *)
(* of a child (of the whole job for a Windows tree lease), registered the  *)
(* registry's; a lease's promise "settled" is resolved exactly when it     *)
(* leaves registered.  A launch that throws (no pid included) registers    *)
(* nothing and is not a step.                                              *)
(***************************************************************************)
EXTENDS Naturals, FiniteSets

CONSTANTS
    Owners,        \* processLeaseOwnerKey values
    Leases,        \* the launches there may be
    OwnerOf, KeyOf,\* owner and process key of each launch
    Trees,         \* launches that come with a ProtectedProcessTree
    ExclusiveKeys, \* keys that are launched with exclusiveAcrossOwners
    MaxChildren,   \* maxChildProcesses of each owner
    Calls,         \* the calls there may be
    KindOf,        \* what each call is
    TargetOf,      \* the owner of a drain or terminateOwner, a terminate's lease
    Unkillable     \* children that do not end when they are told to

ASSUME ProcessLeasesAssumption ==
    /\ OwnerOf \in [Leases -> Owners]
    /\ DOMAIN KeyOf = Leases
    /\ Trees \subseteq Leases /\ Unkillable \subseteq Leases
    /\ MaxChildren \in [Owners -> Nat]
    /\ KindOf \in [Calls -> {"drain", "terminateOwner", "terminate", "dispose"}]
    /\ \A c \in Calls :
          /\ KindOf[c] \in {"drain", "terminateOwner"} => TargetOf[c] \in Owners
          /\ KindOf[c] = "terminate" => TargetOf[c] \in Leases

VARIABLES
    proc,        \* the child of each lease
    registered,  \* #leases
    stop,        \* stopPromise: none, where its attempt is, or resolved
    told,        \* children that got SIGKILL, leases whose tree got terminate()
    quiescing,   \* #quiescingOwners
    stoppingAll, \* #stoppingAll
    call,        \* where each call is
    waits,       \* the leases a call waits for
    released     \* history: calls whose owner was released while they waited

leaseVars == <<proc, registered, stop, told, quiescing, stoppingAll, call, waits, released>>

(* Types, and: only launched leases are registered or stopped, and a stop   *)
(* attempt is only resolved when its lease has settled.                     *)
LeaseTypeOK ==
    /\ proc \in [Leases -> {"none", "running", "dead"}]
    /\ registered \subseteq Leases
    /\ stop \in [Leases -> {"none", "graceful", "confirm", "resolved"}]
    /\ told \subseteq Leases
    /\ quiescing \subseteq Owners
    /\ stoppingAll \in BOOLEAN
    /\ call \in [Calls -> {"idle", "waiting", "done", "failed"}]
    /\ waits \in [Calls -> SUBSET Leases]
    /\ released \subseteq Calls
    /\ \A l \in Leases : /\ proc[l] = "none" => l \notin registered /\ stop[l] = "none"
                         /\ stop[l] = "resolved" => l \notin registered

LeaseInit ==
    /\ proc = [l \in Leases |-> "none"]
    /\ registered = {} /\ told = {} /\ quiescing = {} /\ released = {}
    /\ stop = [l \in Leases |-> "none"]
    /\ stoppingAll = FALSE
    /\ call = [c \in Calls |-> "idle"]
    /\ waits = [c \in Calls |-> {}]

Of(o) == {l \in Leases : OwnerOf[l] = o}
Active(o) == registered \cap Of(o)

-----------------------------------------------------------------------------
(* launch *)

CanLaunchUnlessStopping(l) ==
    /\ ~stoppingAll
    /\ Cardinality(Active(OwnerOf[l])) < MaxChildren[OwnerOf[l]]
    /\ KeyOf[l] \in ExclusiveKeys => \A m \in registered : KeyOf[m] # KeyOf[l]
    /\ \A m \in Active(OwnerOf[l]) : KeyOf[m] # KeyOf[l]

(* The checks before the child is started. *)
CanLaunch(l) ==
    /\ ~stoppingAll /\ OwnerOf[l] \notin quiescing
    /\ Cardinality(Active(OwnerOf[l])) < MaxChildren[OwnerOf[l]]
    /\ KeyOf[l] \in ExclusiveKeys => \A m \in registered : KeyOf[m] # KeyOf[l]
    /\ \A m \in Active(OwnerOf[l]) : KeyOf[m] # KeyOf[l]

(* A started child with a pid is registered, unless it has already exited.  *)
Launch(l) ==
    /\ proc[l] = "none"
    /\ CanLaunch(l)
    /\ \/ /\ proc' = [proc EXCEPT ![l] = "running"]
          /\ registered' = registered \cup {l}
       \/ /\ proc' = [proc EXCEPT ![l] = "dead"]
          /\ registered' = registered
    /\ UNCHANGED <<stop, told, quiescing, stoppingAll, call, waits, released>>

-----------------------------------------------------------------------------
(* The child ends, on its own or because it was told to. *)
Exit(l) ==
    /\ proc[l] = "running"
    /\ proc' = [proc EXCEPT ![l] = "dead"]
    /\ UNCHANGED <<registered, stop, told, quiescing, stoppingAll, call, waits, released>>

(* The exit, close or error event that proves it, or the tree's settled     *)
(* promise: #complete.                                                      *)
Complete(l) ==
    /\ l \in registered /\ proc[l] = "dead"
    /\ registered' = registered \ {l}
    /\ UNCHANGED <<proc, stop, told, quiescing, stoppingAll, call, waits, released>>

-----------------------------------------------------------------------------
(* #stop *)

(* The part of #stop before its first await, for the leases of S: a running *)
(* attempt is joined, otherwise a tree is told to terminate and a plain     *)
(* child is asked to.                                                       *)
StopEach(S) ==
    /\ stop' = [l \in Leases |-> IF l \in S /\ stop[l] = "none"
                                   THEN IF l \in Trees THEN "confirm" ELSE "graceful"
                                   ELSE stop[l]]
    /\ told' = told \cup {l \in S \cap Trees : stop[l] = "none"}

GracefulDeadlineWithoutKill(l) ==
    /\ stop[l] = "graceful" /\ l \in registered
    /\ stop' = [stop EXCEPT ![l] = "confirm"]
    /\ UNCHANGED <<proc, registered, told, quiescing, stoppingAll, call, waits, released>>

GracefulDeadlineForgets(l) ==
    /\ stop[l] = "graceful" /\ l \in registered
    /\ stop' = [stop EXCEPT ![l] = "confirm"]
    /\ told' = told \cup {l}
    /\ registered' = registered \ {l}
    /\ UNCHANGED <<proc, quiescing, stoppingAll, call, waits, released>>

(* Half the time is over and the child has not settled: SIGKILL. *)
GracefulDeadline(l) ==
    /\ stop[l] = "graceful" /\ l \in registered
    /\ stop' = [stop EXCEPT ![l] = "confirm"]
    /\ told' = told \cup {l}
    /\ UNCHANGED <<proc, registered, quiescing, stoppingAll, call, waits, released>>

(* settled is resolved before the deadline, and so is the attempt. *)
StopSucceeds(l) ==
    /\ stop[l] \in {"graceful", "confirm"} /\ l \notin registered
    /\ stop' = [stop EXCEPT ![l] = "resolved"]
    /\ UNCHANGED <<proc, registered, told, quiescing, stoppingAll, call, waits, released>>

StopHangs(l) ==
    /\ stop[l] = "confirm" /\ l \in registered
    /\ UNCHANGED leaseVars

(* The deadline passes: the attempt rejects, which first clears stopPromise  *)
(* and then rejects the Promise.all of every call that waits for it;        *)
(* disposeAll clears the quiescing owners on its way out.                   *)
StopTimesOut(l) ==
    /\ stop[l] = "confirm" /\ l \in registered
    /\ stop' = [stop EXCEPT ![l] = "none"]
    /\ LET rejected == {c \in Calls : /\ call[c] = "waiting" /\ KindOf[c] # "drain"
                                      /\ l \in waits[c]}
       IN  /\ call' = [c \in Calls |-> IF c \in rejected THEN "failed" ELSE call[c]]
           /\ quiescing' = IF \E c \in rejected : KindOf[c] = "dispose"
                             THEN {} ELSE quiescing
    /\ UNCHANGED <<proc, registered, told, stoppingAll, waits, released>>

-----------------------------------------------------------------------------
(* The calls *)

Begin(c, S) ==
    /\ call[c] = "idle"
    /\ call' = [call EXCEPT ![c] = "waiting"]
    /\ waits' = [waits EXCEPT ![c] = S]

DrainOwner(c) ==
    /\ KindOf[c] = "drain"
    /\ Begin(c, Active(TargetOf[c]))
    /\ quiescing' = quiescing \cup {TargetOf[c]}
    /\ UNCHANGED <<proc, registered, stop, told, stoppingAll, released>>

TerminateOwner(c) ==
    /\ KindOf[c] = "terminateOwner"
    /\ Begin(c, Active(TargetOf[c]))
    /\ StopEach(Active(TargetOf[c]))
    /\ quiescing' = quiescing \cup {TargetOf[c]}
    /\ UNCHANGED <<proc, registered, stoppingAll, released>>

(* terminate finds its lease by id, and returns at once if it is gone. *)
Terminate(c) ==
    /\ KindOf[c] = "terminate" /\ proc[TargetOf[c]] # "none"
    /\ Begin(c, registered \cap {TargetOf[c]})
    /\ StopEach(registered \cap {TargetOf[c]})
    /\ UNCHANGED <<proc, registered, quiescing, stoppingAll, released>>

DisposeAll(c) ==
    /\ KindOf[c] = "dispose"
    /\ Begin(c, registered)
    /\ StopEach(registered)
    /\ stoppingAll' = TRUE
    /\ UNCHANGED <<proc, registered, quiescing, released>>

(* Every settled promise (drainOwner), or every attempt, is resolved. *)
CallReturns(c) ==
    /\ call[c] = "waiting"
    /\ IF KindOf[c] = "drain" THEN waits[c] \cap registered = {}
                              ELSE \A l \in waits[c] : stop[l] = "resolved"
    /\ call' = [call EXCEPT ![c] = "done"]
    /\ quiescing' = IF KindOf[c] = "dispose" THEN {} ELSE quiescing
    /\ UNCHANGED <<proc, registered, stop, told, stoppingAll, waits, released>>

(* drainOwner returns false. *)
DrainTimesOut(c) ==
    /\ call[c] = "waiting" /\ KindOf[c] = "drain"
    /\ waits[c] \cap registered # {}
    /\ call' = [call EXCEPT ![c] = "failed"]
    /\ UNCHANGED <<proc, registered, stop, told, quiescing, stoppingAll, waits, released>>

ReleaseActiveOwner(o) ==
    /\ o \in quiescing
    /\ quiescing' = quiescing \ {o}
    /\ UNCHANGED <<proc, registered, stop, told, stoppingAll, call, waits, released>>

(* releaseOwner throws while the owner has registered children. *)
ReleaseOwner(o) ==
    /\ o \in quiescing /\ Active(o) = {}
    /\ quiescing' = quiescing \ {o}
    /\ released' = released \cup {c \in Calls : call[c] = "waiting" /\ TargetOf[c] = o}
    /\ UNCHANGED <<proc, registered, stop, told, stoppingAll, call, waits>>

-----------------------------------------------------------------------------
StopStep(l) == GracefulDeadline(l) \/ StopSucceeds(l) \/ StopTimesOut(l)

CallStep(c) == CallReturns(c) \/ DrainTimesOut(c)

LeaseNext ==
    \/ \E l \in Leases : Launch(l) \/ Exit(l) \/ Complete(l) \/ StopStep(l)
    \/ \E c \in Calls : DrainOwner(c) \/ TerminateOwner(c) \/ Terminate(c)
                        \/ DisposeAll(c) \/ CallStep(c)
    \/ \E o \in Owners : ReleaseOwner(o)

LeaseSpec == LeaseInit /\ [][LeaseNext]_leaseVars

(* Timers fire, resolved promises run their continuations, Node reports     *)
(* exits, and a killable child that was told to end does.                   *)
LeaseFairSpec ==
    /\ LeaseSpec
    /\ \A l \in Leases : WF_leaseVars(Complete(l)) /\ WF_leaseVars(StopStep(l))
    /\ \A c \in Calls : WF_leaseVars(CallStep(c))
    /\ \A l \in Leases \ Unkillable : WF_leaseVars(l \in told /\ Exit(l))

-----------------------------------------------------------------------------
(* Properties *)

Runs(l) == proc[l] = "running"

(* A child that runs is in the registry, however its stop attempts ended:   *)
(* the registry never loses the handle by which a child can be stopped.     *)
NoOrphan == \A l \in Leases : Runs(l) => l \in registered

(* Two children of an exclusive key, of whatever owners, never run at the   *)
(* same time, not even while one of them is being stopped (launch).         *)
ExclusiveProcess ==
    \A l, m \in Leases :
        Runs(l) /\ Runs(m) /\ KeyOf[l] = KeyOf[m] /\ KeyOf[l] \in ExclusiveKeys => l = m

(* An owner never runs more children than its maxChildProcesses. *)
ChildLimit ==
    \A o \in Owners : Cardinality({l \in Of(o) : Runs(l)}) <= MaxChildren[o]

(* When a drainOwner answers true, or a terminateOwner returns, none of the *)
(* owner's children runs, not even one launched while the call waited,      *)
(* unless somebody released the owner meanwhile.                            *)
OwnerIsQuiet ==
    [][\A c \in Calls :
          /\ KindOf[c] \in {"drain", "terminateOwner"} /\ c \notin released
          /\ call[c] = "waiting" /\ call'[c] = "done"
          => \A l \in Of(TargetOf[c]) : ~Runs(l)]_leaseVars

(* After a disposeAll that returned no child runs, or is ever launched.     *)
DisposedForGood ==
    (\E c \in Calls : KindOf[c] = "dispose" /\ call[c] = "done")
        => \A l \in Leases : ~Runs(l)

(* The registry speaks for the processes: it loses no child, and what it    *)
(* promises of keys, limits and disposal holds of the children themselves,  *)
(* also while stop attempts fail, are shared or are retried.                *)
ChildrenAreHeld == NoOrphan /\ ExclusiveProcess /\ ChildLimit /\ DisposedForGood

(* Every call returns, with stop attempts that time out included. *)
CallsReturn == \A c \in Calls : call[c] = "waiting" ~> call[c] # "waiting"

(* Once disposal has begun every killable child ends, also one whose        *)
(* earlier stop attempt failed, without a further call (#stop retries).     *)
DisposalReclaims ==
    \A l \in Leases \ Unkillable : stoppingAll ~> ~Runs(l)

(* Why they hold.  Registered children of an exclusive key are unique, and  *)
(* an owner's are within its limit; a child outside the registry does not   *)
(* run; a call that closed the launches of an owner, or all of them, waits  *)
(* for everything that is registered there.                                 *)
RegistryInv ==
    /\ NoOrphan
    /\ \A l, m \in registered :
          KeyOf[l] = KeyOf[m] /\ KeyOf[l] \in ExclusiveKeys => l = m
    /\ \A o \in Owners : IsFiniteSet(Active(o)) /\ Cardinality(Active(o)) <= MaxChildren[o]

CallInv ==
    \A c \in Calls :
        /\ KindOf[c] = "dispose" /\ call[c] # "idle" => stoppingAll
        /\ KindOf[c] = "dispose" /\ call[c] = "waiting" => registered \subseteq waits[c]
        /\ KindOf[c] = "dispose" /\ call[c] = "done" => registered = {}
        /\ KindOf[c] \in {"drain", "terminateOwner"} /\ call[c] = "waiting" /\ c \notin released
             => /\ TargetOf[c] \in quiescing \/ stoppingAll
                /\ Active(TargetOf[c]) \subseteq waits[c]
=============================================================================
