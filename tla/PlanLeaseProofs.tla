-------------------------- MODULE PlanLeaseProofs --------------------------
(***************************************************************************)
(* Proofs about PlanLease, for every set of calls, processes and hosts.    *)
(*                                                                         *)
(* Everything rests on the fence: as long as none is lost, one call at a   *)
(* time moves files behind it (FenceHeld), and what it moves is its own    *)
(* lease or one that has ended or lapsed (MovesKnown).  So a lease whose   *)
(* heartbeat has begun to renew stays at lockPath until it lapses          *)
(* (ConfirmedPublished), a release without an error finds its own file     *)
(* (CleanReleases), and of two calls that were in their sections together  *)
(* one has lost its file for good and cannot report success (MetDoomed).   *)
(***************************************************************************)
EXTENDS PlanLease, TLAPS

-----------------------------------------------------------------------------
(* The inductive invariant *)

\* The shape of the state.
Types ==
    /\ lock \in Calls \cup {None} /\ expired \subseteq Calls
    /\ fence \in Fence \cup {None} /\ fenceOld \in BOOLEAN
    /\ pc \in [Calls -> PCs]
    /\ role \in [Calls -> {"reclaim", "release"}]
    /\ after \in [Calls -> {"gate", "beat", "end", "failed"}]
    /\ obs \in [Calls -> Calls \cup {None}]
    /\ held \in [Calls -> Calls \cup {None}]
    /\ hb \in [Calls -> Worker]
    /\ threw \subseteq Calls /\ lapsed \subseteq Calls
    /\ alive \subseteq Procs /\ fenceLost \in BOOLEAN
    /\ met \in [Calls -> SUBSET Calls]

\* The steps of a call before it has a heartbeat, with it, and at the fence.
Early == {"idle", "gate", "gateUnlink", "link", "publish", "confirm", "reread", "undo",
          "undoUnlink", "relink", "beat"}
Late == {"starting", "enter", "entering", "entered", "working", "leaving", "left", "stopping", "release"}
AtTheFence == {"fence", "fenceUnlink", "fenceAgain"} \cup Fencing

\* A lease that may be taken from its call: it has ended, or is lapsed.
Displaceable(i) == pc[i] \in Ended \/ i \in lapsed

\* What the variables of one call say of each other.
Fit(c) ==
    /\ pc[c] \notin Ended => Live(c)
    /\ held[c] # None => pc[c] \in {"renamed", "discard", "putBack", "publish", "confirm",
                                    "reread", "undo", "undoUnlink", "relink"}
    /\ Serving(c) \/ pc[c] = "stopping" => hb[c].phase # "off"
    /\ pc[c] \in Early \cup Late => role[c] = "reclaim"
    /\ pc[c] \in {"discard", "putBack"} => role[c] = "release"
    /\ pc[c] \in {"unfence", "unfenceUnlink"} =>
          IF role[c] = "release" THEN after[c] \in {"end", "failed"}
                                 ELSE after[c] \in {"gate", "beat", "failed"}
    /\ pc[c] \in Early \cup AtTheFence /\ role[c] = "reclaim" => hb[c] = Off
    /\ pc[c] \in {"enter", "entering", "entered", "working", "leaving", "left"} => hb[c].phase = "next"
    /\ hb[c].phase = "last" => ~Serving(c)
    /\ hb[c].at = "stopped" => hb[c].phase = "last"
    /\ pc[c] \in AtTheFence /\ role[c] = "release" => obs[c] \in {c, None}
    /\ c \in expired => Displaceable(c)

BaseInv == Types /\ \A c \in Calls : Fit(c)

\* What a step of call c leaves alone of another call d.
SameCall(c, d) ==
    /\ pc'[d] = pc[d] /\ role'[d] = role[d] /\ after'[d] = after[d] /\ hb'[d] = hb[d] /\ met'[d] = met[d]
    /\ (d \in threw' <=> d \in threw) /\ (d \in lapsed' <=> d \in lapsed) /\ (d \in expired' <=> d \in expired)
    /\ held'[d] \in {held[d], None} /\ obs'[d] \in {obs[d], None} /\ (obs[d] # c => obs'[d] = obs[d])

CallStep(c) ==
    Acquiring(c) \/ AtFence(c) \/ Replacing(c) \/ Beating(c) \/ Holding(c) \/ Expire(c)

\* A step of one call leaves the others as they are, but for a .stale file it
\* removes and a snapshot its renewal outdates.
LEMMA OthersSame ==
    ASSUME Types, NEW c \in Calls, CallStep(c), NEW d \in Calls, d # c
    PROVE  SameCall(c, d) /\ alive' = alive
<1> USE PlanLeaseAssumption DEF Types, SameCall, Goto, At, fileVars, fenceVars, callVars
<1>1. CASE Acquiring(c)
  BY <1>1 DEF Acquiring, Start, GateFenced, GateUnlink, RemoveFence, GateOpen, Link,
      PublishExclusively, LinkExists, TimeOut
<1>2. CASE AtFence(c)
  BY <1>2 DEF AtFence, FenceOpens, FenceToRemove, FenceUnlink, RemoveFence, FenceTaken, Verdict,
      FenceWritten, FenceWriteFails, Unfence, Onward, UnfenceUnlink
<1>3. CASE Replacing(c)
  BY <1>3 DEF Replacing, Check, Unfenced, Rename, Renamed, ReleaseRenamed, Released, ReleaseThrows,
      Publish, PublishExclusively, Confirm, Reread, Undo, UndoUnlink, Relink
<1>4. CASE Beating(c)
  BY <1>4 DEF Beating, Look, Worked, Running, Touch, Verify, WorkerEnds
<1>5. CASE Holding(c)
  BY <1>5 DEF Holding, Beat, Worked, CandidateStays, Throws, Started, StartFails, Enter, Asserted,
      Entered, Leave, LeaveThrowing, Stopped, Release, Verdict
<1>6. CASE Expire(c)
  BY <1>6 DEF Expire
<1> QED
  BY <1>1, <1>2, <1>3, <1>4, <1>5, <1>6 DEF CallStep

\* A fence that a call has opened is a file.
LEMMA FenceFacts ==
    ASSUME NEW c \in Calls, NEW r \in {"reclaim", "release"}, NEW b \in BOOLEAN
    PROVE  LET f == [by |-> c, role |-> r, written |-> b]
           IN  f \in Fence /\ f # None /\ f.by = c /\ f.written = b
BY PlanLeaseAssumption DEF Fence

\* What a call makes of the file at reclaimFencePath.
LEMMA AtFenceFence ==
    ASSUME Types, NEW c \in Calls, AtFence(c)
    PROVE  fence' \in Fence \cup {None} /\ fenceOld' \in BOOLEAN /\ fenceLost' \in BOOLEAN
<1>1. CASE FenceWritten(c)
  <2>1. CASE fence = [by |-> c, role |-> role[c], written |-> FALSE]
    <3>1. fence' = [by |-> c, role |-> role[c], written |-> TRUE]
      BY <1>1, <2>1 DEF FenceWritten
    <3>2. role[c] \in {"reclaim", "release"}
      BY DEF Types
    <3>3. fence' \in Fence
      BY <3>1, <3>2, FenceFacts
    <3>4. fenceOld' \in BOOLEAN /\ fenceLost' \in BOOLEAN
      BY <1>1 DEF FenceWritten, Types
    <3> QED BY <3>3, <3>4
  <2>2. CASE fence # [by |-> c, role |-> role[c], written |-> FALSE]
    BY <1>1, <2>2 DEF FenceWritten, Types
  <2> QED BY <2>1, <2>2
<1>2. CASE FenceOpens(c)
  <2>1. role[c] \in {"reclaim", "release"}
    BY DEF Types
  <2> QED BY <1>2, <2>1, FenceFacts DEF FenceOpens, Types
<1>3. CASE FenceUnlink(c) \/ UnfenceUnlink(c)
  BY <1>3 DEF FenceUnlink, UnfenceUnlink, RemoveFence, Types
<1>4. CASE FenceToRemove(c) \/ FenceTaken(c) \/ FenceWriteFails(c) \/ Unfence(c)
  BY <1>4 DEF FenceToRemove, FenceTaken, FenceWriteFails, Unfence, Types, fenceVars
<1> QED
  BY <1>1, <1>2, <1>3, <1>4 DEF AtFence

\* The shape of the state is kept by the steps of a call,
LEMMA TypesCallStep == ASSUME Types, NEW c \in Calls, CallStep(c) PROVE Types'
<1> USE PlanLeaseAssumption DEF Types, Goto, At, fileVars, fenceVars, callVars
<1>1. CASE Acquiring(c)
  <2> USE <1>1
      DEF Acquiring, Start, GateFenced, GateUnlink, RemoveFence, GateOpen, Link, PublishExclusively,
      LinkExists, TimeOut
  <2>1. pc' \in [Calls -> PCs]
    BY DEF PCs
  <2>2. /\ lock' \in Calls \cup {None} /\ expired' \subseteq Calls /\ held' \in [Calls -> Calls \cup {None}]
      /\ threw' \subseteq Calls /\ lapsed' \subseteq Calls /\ alive' \subseteq Procs
    OBVIOUS
  <2>3. /\ role' \in [Calls -> {"reclaim", "release"}]
      /\ after' \in [Calls -> {"gate", "beat", "end", "failed"}]
      /\ obs' \in [Calls -> Calls \cup {None}] /\ met' \in [Calls -> SUBSET Calls]
    OBVIOUS
  <2>4. hb' \in [Calls -> Worker]
    BY DEF Worker, Off
  <2>5. fence' \in Fence \cup {None} /\ fenceOld' \in BOOLEAN /\ fenceLost' \in BOOLEAN
    BY DEF Fence
  <2> QED BY <2>1, <2>2, <2>3, <2>4, <2>5
<1>2. CASE AtFence(c)
  <2> USE <1>2
      DEF AtFence, FenceOpens, FenceToRemove, FenceUnlink, RemoveFence, FenceTaken, Verdict,
      FenceWritten, FenceWriteFails, Unfence, Onward, UnfenceUnlink
  <2>1. pc' \in [Calls -> PCs]
    BY DEF PCs
  <2>2. /\ lock' \in Calls \cup {None} /\ expired' \subseteq Calls /\ held' \in [Calls -> Calls \cup {None}]
      /\ threw' \subseteq Calls /\ lapsed' \subseteq Calls /\ alive' \subseteq Procs
    OBVIOUS
  <2>3. /\ role' \in [Calls -> {"reclaim", "release"}]
      /\ after' \in [Calls -> {"gate", "beat", "end", "failed"}]
      /\ obs' \in [Calls -> Calls \cup {None}] /\ met' \in [Calls -> SUBSET Calls]
    OBVIOUS
  <2>4. hb' \in [Calls -> Worker]
    BY DEF Worker, Off
  <2>5. fence' \in Fence \cup {None} /\ fenceOld' \in BOOLEAN /\ fenceLost' \in BOOLEAN
    BY AtFenceFence
  <2> QED BY <2>1, <2>2, <2>3, <2>4, <2>5
<1>3. CASE Replacing(c)
  <2> USE <1>3
      DEF Replacing, Check, Unfenced, Rename, Renamed, ReleaseRenamed, Released, ReleaseThrows,
      Publish, PublishExclusively, Confirm, Reread, Undo, UndoUnlink, Relink
  <2>1. pc' \in [Calls -> PCs]
    BY DEF PCs
  <2>2. /\ lock' \in Calls \cup {None} /\ expired' \subseteq Calls /\ held' \in [Calls -> Calls \cup {None}]
      /\ threw' \subseteq Calls /\ lapsed' \subseteq Calls /\ alive' \subseteq Procs
    OBVIOUS
  <2>3. /\ role' \in [Calls -> {"reclaim", "release"}]
      /\ after' \in [Calls -> {"gate", "beat", "end", "failed"}]
      /\ obs' \in [Calls -> Calls \cup {None}] /\ met' \in [Calls -> SUBSET Calls]
    OBVIOUS
  <2>4. hb' \in [Calls -> Worker]
    BY DEF Worker, Off
  <2>5. fence' \in Fence \cup {None} /\ fenceOld' \in BOOLEAN /\ fenceLost' \in BOOLEAN
    BY DEF Fence
  <2> QED BY <2>1, <2>2, <2>3, <2>4, <2>5
<1>4. CASE Beating(c)
  <2> USE <1>4
      DEF Beating, Look, Worked, Running, Touch, Verify, WorkerEnds
  <2>1. pc' \in [Calls -> PCs]
    BY DEF PCs
  <2>2. /\ lock' \in Calls \cup {None} /\ expired' \subseteq Calls /\ held' \in [Calls -> Calls \cup {None}]
      /\ threw' \subseteq Calls /\ lapsed' \subseteq Calls /\ alive' \subseteq Procs
    OBVIOUS
  <2>3. /\ role' \in [Calls -> {"reclaim", "release"}]
      /\ after' \in [Calls -> {"gate", "beat", "end", "failed"}]
      /\ obs' \in [Calls -> Calls \cup {None}] /\ met' \in [Calls -> SUBSET Calls]
    OBVIOUS
  <2>4. hb' \in [Calls -> Worker]
    BY DEF Worker, Off
  <2>5. fence' \in Fence \cup {None} /\ fenceOld' \in BOOLEAN /\ fenceLost' \in BOOLEAN
    BY DEF Fence
  <2> QED BY <2>1, <2>2, <2>3, <2>4, <2>5
<1>5. CASE Holding(c)
  <2> USE <1>5
      DEF Holding, Beat, Worked, CandidateStays, Throws, Started, StartFails, Enter, Asserted,
      Entered, Leave, LeaveThrowing, Stopped, Release, Verdict
  <2>1. pc' \in [Calls -> PCs]
    BY DEF PCs
  <2>2. /\ lock' \in Calls \cup {None} /\ expired' \subseteq Calls /\ held' \in [Calls -> Calls \cup {None}]
      /\ threw' \subseteq Calls /\ lapsed' \subseteq Calls /\ alive' \subseteq Procs
    OBVIOUS
  <2>3. /\ role' \in [Calls -> {"reclaim", "release"}]
      /\ after' \in [Calls -> {"gate", "beat", "end", "failed"}]
      /\ obs' \in [Calls -> Calls \cup {None}] /\ met' \in [Calls -> SUBSET Calls]
    OBVIOUS
  <2>4. hb' \in [Calls -> Worker]
    BY DEF Worker, Off
  <2>5. fence' \in Fence \cup {None} /\ fenceOld' \in BOOLEAN /\ fenceLost' \in BOOLEAN
    BY DEF Fence
  <2> QED BY <2>1, <2>2, <2>3, <2>4, <2>5
<1>6. CASE Expire(c)
  BY <1>6 DEF Expire
<1> QED
  BY <1>1, <1>2, <1>3, <1>4, <1>5, <1>6 DEF CallStep

\* and by every other step.
LEMMA TypesStep == Types /\ [Next]_vars => Types'
<1>1. ASSUME Types, FenceAges PROVE Types'
  BY <1>1 DEF Types, FenceAges, fileVars, callVars
<1>2. ASSUME Types, NEW p \in Procs, Crash(p) PROVE Types'
  BY <1>2, PlanLeaseAssumption DEF Types, Crash, PCs, Worker, Off, fenceVars
<1>3. ASSUME Types, UNCHANGED vars PROVE Types'
  BY <1>3 DEF Types, vars, fileVars, fenceVars, callVars
<1> QED
  BY <1>1, <1>2, <1>3, TypesCallStep DEF Next, CallStep

\* A call keeps fitting through its own steps.
LEMMA OwnFit ==
    ASSUME Types, NEW c \in Calls, Fit(c), CallStep(c)
    PROVE  Fit(c)'
<1> USE PlanLeaseAssumption
    DEF Types, Fit, Early, Late, AtTheFence, Fencing, Ended, Displaceable, Serving, Live, Worker, Off,
        Goto, At, fileVars, fenceVars, callVars
<1>1. CASE Acquiring(c)
  BY <1>1 DEF Acquiring, Start, GateFenced, GateUnlink, RemoveFence, GateOpen, Link,
      PublishExclusively, LinkExists, TimeOut
<1>2. CASE AtFence(c)
  BY <1>2 DEF AtFence, FenceOpens, FenceToRemove, FenceUnlink, RemoveFence, FenceTaken, Verdict,
      FenceWritten, FenceWriteFails, Unfence, Onward, UnfenceUnlink
<1>3. CASE Replacing(c)
  BY <1>3 DEF Replacing, Check, Unfenced, Rename, Renamed, ReleaseRenamed, Released, ReleaseThrows,
      Publish, PublishExclusively, Confirm, Reread, Undo, UndoUnlink, Relink
<1>4. CASE Beating(c)
  BY <1>4 DEF Beating, Look, Worked, Running, Touch, Verify, WorkerEnds
<1>5. CASE Holding(c)
  BY <1>5 DEF Holding, Beat, Worked, CandidateStays, Throws, Started, StartFails, Enter, Asserted,
      Entered, Leave, LeaveThrowing, Stopped, Release, Verdict
<1>6. CASE Expire(c)
  BY <1>6 DEF Expire
<1> QED
  BY <1>1, <1>2, <1>3, <1>4, <1>5, <1>6 DEF CallStep

\* ... through the steps of the others, a crash and what happens to the fence.
LEMMA FitStep == BaseInv /\ [Next]_vars => BaseInv'
<1> SUFFICES ASSUME BaseInv, [Next]_vars, NEW d \in Calls PROVE Fit(d)'
  BY TypesStep DEF BaseInv
<1>1. Types /\ Fit(d)
  BY DEF BaseInv
<1>2. ASSUME NEW c \in Calls, CallStep(c) PROVE Fit(d)'
  <2>1. CASE c = d
    BY <1>1, <1>2, <2>1, OwnFit
  <2>2. CASE c # d
    <3>1. SameCall(c, d) /\ alive' = alive
      BY <1>1, <1>2, <2>2, OthersSame
    <3> QED BY <1>1, <2>2, <3>1 DEF SameCall, Fit, Displaceable, Serving, Live
  <2> QED BY <2>1, <2>2
<1>3. CASE FenceAges
  BY <1>1, <1>3 DEF FenceAges, Fit, Displaceable, Serving, Live, fileVars, callVars
<1>4. ASSUME NEW p \in Procs, Crash(p) PROVE Fit(d)'
  BY <1>1, <1>4, PlanLeaseAssumption
     DEF Crash, Types, Fit, Early, Late, AtTheFence, Fencing, Ended, Displaceable, Serving, Live, Worker, Off
<1>5. CASE UNCHANGED vars
  BY <1>1, <1>5 DEF vars, fileVars, fenceVars, callVars, Fit, Displaceable, Serving, Live
<1> QED
  BY <1>2, <1>3, <1>4, <1>5 DEF Next, CallStep

-----------------------------------------------------------------------------
(* The fence *)

\* A call behind the fence has it, and a fence nobody is behind was left by a
\* call that failed or crashed.
Behind(c) ==
    pc[c] \in Fencing => fence = [by |-> c, role |-> role[c], written |-> pc[c] # "fenceWrite"]

FenceHeld ==
    /\ \A c \in Calls : Behind(c)
    /\ fence # None => pc[fence.by] \in Fencing \cup {"failed", "crashed"}

\* One call at a time is behind the fence, and none while there is no fence.
LEMMA OneBehind ==
    ASSUME Types, FenceHeld, NEW c \in Calls, pc[c] \in Fencing
    PROVE  fence # None /\ fence.by = c /\ \A d \in Calls : pc[d] \in Fencing => d = c
<1>1. role[c] \in {"reclaim", "release"}
  BY DEF Types
<1>2. fence # None /\ fence.by = c
  <2>1. fence = [by |-> c, role |-> role[c], written |-> pc[c] # "fenceWrite"]
    BY DEF FenceHeld, Behind
  <2>2. (pc[c] # "fenceWrite") \in BOOLEAN
    OBVIOUS
  <2> QED BY <1>1, <2>1, <2>2, FenceFacts
<1>3. ASSUME NEW d \in Calls, pc[d] \in Fencing PROVE d = c
  <2>1. fence = [by |-> d, role |-> role[d], written |-> pc[d] # "fenceWrite"]
    BY <1>3 DEF FenceHeld, Behind
  <2> QED BY <1>2, <2>1
<1> QED BY <1>2, <1>3

\* What a step of a call does about the fence.
Removes(c) == RemoveFence(c) /\ pc[c] \notin {"failed", "crashed"} /\ pc'[c] \notin Fencing
Keeps(c) ==
    /\ fence' = fence /\ fenceLost' = fenceLost
    /\ pc'[c] \in Fencing => /\ pc[c] \in Fencing /\ role'[c] = role[c]
                             /\ pc'[c] = "fenceWrite" <=> pc[c] = "fenceWrite"
    /\ pc[c] \in Fencing \cup {"failed", "crashed"} => pc'[c] \in Fencing \cup {"failed", "crashed"}

\* These are all.
LEMMA FenceMoves ==
    ASSUME Types, NEW c \in Calls, Fit(c), Behind(c), CallStep(c)
    PROVE  Removes(c) \/ FenceOpens(c) \/ FenceWritten(c) \/ Keeps(c)
<1> USE DEF Types, Removes, Keeps, Fencing, Goto, At, fileVars, fenceVars, callVars
<1>1. CASE Acquiring(c)
  BY <1>1 DEF Acquiring, Start, GateFenced, GateUnlink, GateOpen, Link, PublishExclusively, LinkExists, TimeOut
<1>2. CASE Unfence(c)
  BY <1>2 DEF Unfence, Behind, OwnFence
<1>3. CASE AtFence(c) /\ ~Unfence(c)
  BY <1>3 DEF AtFence, FenceToRemove, FenceUnlink, FenceTaken, Verdict, FenceWriteFails, UnfenceUnlink, Onward
<1>4. CASE Replacing(c)
  BY <1>4 DEF Replacing, Check, Unfenced, Rename, Renamed, ReleaseRenamed, Released, ReleaseThrows, Publish,
              PublishExclusively, Confirm, Reread, Undo, UndoUnlink, Relink
<1>5. CASE Beating(c)
  BY <1>5 DEF Beating, Look, Worked, Touch, Verify, WorkerEnds
<1>6. CASE Holding(c)
  BY <1>6 DEF Holding, Beat, Worked, CandidateStays, Throws, Started, StartFails, Enter, Asserted, Entered,
              Leave, LeaveThrowing, Stopped, Release, Verdict
<1>7. CASE Expire(c)
  BY <1>7 DEF Expire
<1> QED
  BY <1>1, <1>2, <1>3, <1>4, <1>5, <1>6, <1>7 DEF CallStep

\* A lost fence stays lost.
LEMMA FenceLostStays == Types /\ [Next]_vars /\ fenceLost => fenceLost'
<1> SUFFICES ASSUME Types, [Next]_vars, fenceLost PROVE fenceLost'
  OBVIOUS
<1> USE DEF fenceVars, RemoveFence
<1>1. ASSUME NEW c \in Calls, CallStep(c) PROVE fenceLost'
  <2>1. CASE Acquiring(c)
    BY <2>1 DEF Acquiring, Start, GateFenced, GateUnlink, GateOpen, Link, LinkExists, TimeOut
  <2>2. CASE AtFence(c)
    BY <2>2 DEF AtFence, FenceOpens, FenceToRemove, FenceUnlink, FenceTaken, FenceWritten, FenceWriteFails,
                Unfence, UnfenceUnlink
  <2>3. CASE Replacing(c)
    BY <2>3 DEF Replacing, Check, Rename, Renamed, ReleaseRenamed, Released, ReleaseThrows, Publish, Confirm,
                Reread, Undo, UndoUnlink, Relink
  <2>4. CASE Beating(c) \/ Expire(c)
    BY <2>4 DEF Beating, Look, Touch, Verify, WorkerEnds, Expire
  <2>5. CASE Holding(c)
    BY <2>5 DEF Holding, Beat, CandidateStays, Started, StartFails, Enter, Entered, Leave, LeaveThrowing,
                Stopped, Release
  <2> QED
    BY <1>1, <2>1, <2>2, <2>3, <2>4, <2>5 DEF CallStep
<1> QED
  BY <1>1 DEF Next, CallStep, FenceAges, Crash, vars

\* As long as no fence is lost, every step keeps the fence with its call.
LEMMA FenceHeldStep == BaseInv /\ FenceHeld /\ [Next]_vars /\ ~fenceLost' => FenceHeld'
<1> SUFFICES ASSUME BaseInv, FenceHeld, [Next]_vars, ~fenceLost' PROVE FenceHeld'
  OBVIOUS
<1>1. Types /\ Types' /\ \A c \in Calls : Fit(c)
  BY TypesStep DEF BaseInv
<1>2. fence # None => fence.by \in Calls
  BY <1>1 DEF Types, Fence
<1>3. ASSUME NEW c \in Calls, CallStep(c) PROVE FenceHeld'
  <2>1. \A d \in Calls \ {c} : pc'[d] = pc[d] /\ role'[d] = role[d]
    BY <1>1, <1>3, OthersSame DEF SameCall
  <2>2. CASE Removes(c)
    <3>1. fence' = None
      BY <2>2 DEF Removes, RemoveFence
    <3>2. ASSUME NEW d \in Calls \ {c}, pc[d] \in Fencing PROVE FALSE
      <4>1. fence # None /\ fence.by = d
        BY <1>1, <3>2, OneBehind
      <4>2. Live(d)
        BY <1>1, <3>2 DEF Fit, Fencing, Ended
      <4> QED BY <2>2, <3>2, <4>1, <4>2 DEF Removes, RemoveFence
    <3> QED BY <2>1, <2>2, <3>1, <3>2 DEF Removes, FenceHeld, Behind
  <2>3. CASE FenceOpens(c)
    <3>1. fence = None /\ pc'[c] = "fenceWrite" /\ role'[c] = role[c]
      BY <1>1, <2>3 DEF FenceOpens, Goto, Types, callVars
    <3>2. fence' = [by |-> c, role |-> role'[c], written |-> pc'[c] # "fenceWrite"]
      BY <2>3, <3>1 DEF FenceOpens
    <3>3. \A d \in Calls \ {c} : pc'[d] \notin Fencing
      BY <1>1, <2>1, <3>1, OneBehind
    <3> QED BY <3>1, <3>2, <3>3 DEF FenceHeld, Behind, Fencing
  <2>4. CASE FenceWritten(c)
    <3>1. pc[c] = "fenceWrite" /\ pc'[c] = "check" /\ role'[c] = role[c]
      BY <1>1, <2>4 DEF FenceWritten, At, Goto, Types, callVars
    <3>2. fence = [by |-> c, role |-> role[c], written |-> FALSE]
      BY <3>1 DEF FenceHeld, Behind, Fencing
    <3>3. fence' = [by |-> c, role |-> role'[c], written |-> pc'[c] # "fenceWrite"]
      BY <2>4, <3>1, <3>2 DEF FenceWritten
    <3>4. \A d \in Calls \ {c} : pc'[d] \notin Fencing
      BY <1>1, <2>1, <3>1, OneBehind DEF Fencing
    <3> QED BY <3>1, <3>3, <3>4 DEF FenceHeld, Behind, Fencing
  <2>5. CASE Keeps(c)
    <3>1. \A d \in Calls : Behind(d)'
      BY <2>1, <2>5 DEF FenceHeld, Behind, Keeps
    <3>2. fence # None => pc'[fence.by] \in Fencing \cup {"failed", "crashed"}
      BY <1>2, <2>1, <2>5 DEF FenceHeld, Keeps
    <3> QED BY <2>5, <3>1, <3>2 DEF FenceHeld, Keeps
  <2> QED BY <1>1, <1>3, <2>2, <2>3, <2>4, <2>5, FenceMoves DEF FenceHeld
<1>4. CASE FenceAges
  BY <1>4 DEF FenceAges, FenceHeld, Behind, callVars
<1>5. ASSUME NEW p \in Procs, Crash(p) PROVE FenceHeld'
  <2>1. fence' = fence
    BY <1>5 DEF Crash, fenceVars
  <2>2. \A d \in Calls : pc'[d] \in {pc[d], "crashed"} /\ (pc'[d] # "crashed" => pc[d] \in Ended \/ role'[d] = role[d])
    BY <1>1, <1>5 DEF Crash, Types, Ended
  <2>3. "crashed" \notin Fencing /\ \A l \in Ended : l \notin Fencing
    BY DEF Fencing, Ended
  <2> QED BY <1>2, <2>1, <2>2, <2>3 DEF FenceHeld, Behind
<1>6. CASE UNCHANGED vars
  BY <1>6 DEF vars, fenceVars, callVars, FenceHeld, Behind
<1> QED
  BY <1>3, <1>4, <1>5, <1>6 DEF Next, CallStep

-----------------------------------------------------------------------------
(* What is moved behind the fence *)

\* The file a call is about to rename is its own or nobody's any more, and so
\* is the file it has renamed; a call that has published behind the fence is
\* at lockPath.
Moving(c) ==
    /\ pc[c] = "rename" => /\ lock # None
                           /\ IF role[c] = "release" THEN lock = c ELSE Displaceable(lock)
    /\ held[c] # None => IF role[c] = "release" THEN held[c] = c ELSE Displaceable(held[c])
    /\ pc[c] \in {"confirm", "reread", "undo", "undoUnlink"} => lock = c

MovesKnown == \A c \in Calls : Moving(c)

\* A lease that may be taken stays so.
LEMMA DisplaceableStays ==
    ASSUME Types, [Next]_vars, NEW i \in Calls, Displaceable(i)
    PROVE  Displaceable(i)'
<1>1. ASSUME CallStep(i) PROVE Displaceable(i)'
  <2> USE DEF Types, Displaceable, Ended, Goto, At, fileVars, fenceVars, callVars
  <2>1. CASE Acquiring(i)
    BY <2>1 DEF Acquiring, Start, GateFenced, GateUnlink, GateOpen, Link, LinkExists, TimeOut
  <2>2. CASE AtFence(i)
    BY <2>2 DEF AtFence, FenceOpens, FenceToRemove, FenceUnlink, FenceTaken, FenceWritten, FenceWriteFails,
                Unfence, UnfenceUnlink
  <2>3. CASE Replacing(i)
    BY <2>3 DEF Replacing, Check, Rename, Renamed, ReleaseRenamed, Released, ReleaseThrows, Publish, Confirm,
                Reread, Undo, UndoUnlink, Relink
  <2>4. CASE Beating(i) \/ Expire(i)
    BY <2>4 DEF Beating, Look, Touch, Verify, WorkerEnds, Expire
  <2>5. CASE Holding(i)
    BY <2>5 DEF Holding, Beat, CandidateStays, Started, StartFails, Enter, Entered, Leave, LeaveThrowing,
                Stopped, Release
  <2> QED
    BY <1>1, <2>1, <2>2, <2>3, <2>4, <2>5 DEF CallStep
<1>2. ASSUME NEW c \in Calls, c # i, CallStep(c) PROVE Displaceable(i)'
  BY <1>2, OthersSame DEF SameCall, Displaceable
<1>3. ASSUME NEW p \in Procs, Crash(p) PROVE Displaceable(i)'
  BY <1>3 DEF Crash, Types, Displaceable, Ended
<1>4. CASE FenceAges \/ UNCHANGED vars
  BY <1>4 DEF FenceAges, vars, Displaceable
<1> QED
  BY <1>1, <1>2, <1>3, <1>4 DEF Next, CallStep

\* Where the lock file and the .stale files of a step come from.
LEMMA FileMoves ==
    ASSUME Types, NEW c \in Calls, CallStep(c)
    PROVE  /\ \/ lock' = lock
              \/ lock = None /\ lock' = c /\ pc[c] \in {"link", "publish"}
              \/ pc[c] \in {"rename", "undoUnlink"} /\ lock' = None
              \/ pc[c] = "putBack" /\ lock' = held[c] /\ held[c] # None
              \/ pc[c] = "relink" /\ lock = None /\ lock' = held[c]
           /\ \A r \in Calls : \/ held'[r] \in {held[r], None}
                               \/ r = c /\ pc[c] = "rename" /\ held'[r] = lock
<1> USE DEF Types, Goto, At, fileVars, fenceVars, callVars
<1>1. CASE Acquiring(c)
  BY <1>1 DEF Acquiring, Start, GateFenced, GateUnlink, GateOpen, Link, PublishExclusively, LinkExists, TimeOut
<1>2. CASE AtFence(c)
  BY <1>2 DEF AtFence, FenceOpens, FenceToRemove, FenceUnlink, FenceTaken, FenceWritten, FenceWriteFails,
              Unfence, UnfenceUnlink
<1>3. CASE Replacing(c)
  BY <1>3 DEF Replacing, Check, Rename, Renamed, ReleaseRenamed, Released, ReleaseThrows, Publish,
              PublishExclusively, Confirm, Reread, Undo, UndoUnlink, Relink
<1>4. CASE Beating(c) \/ Expire(c)
  BY <1>4 DEF Beating, Look, Touch, Verify, WorkerEnds, Expire
<1>5. CASE Holding(c)
  BY <1>5 DEF Holding, Beat, CandidateStays, Started, StartFails, Enter, Entered, Leave, LeaveThrowing,
              Stopped, Release
<1> QED
  BY <1>1, <1>2, <1>3, <1>4, <1>5 DEF CallStep

\* A reclaimer judges only a lease recoverable that may be taken.
LEMMA RecoverableIsDisplaceable ==
    ASSUME BaseInv, NEW c \in Calls, NEW i \in Calls, Recoverable(c, i)
    PROVE  Displaceable(i)
BY DEF Recoverable, BaseInv, Fit, Displaceable

\* A call keeps to this in its own steps.
LEMMA OwnMoving ==
    ASSUME BaseInv, NEW c \in Calls, Moving(c), CallStep(c), [Next]_vars
    PROVE  Moving(c)'
<1>1. Types /\ Fit(c)
  BY DEF BaseInv
<1>2. \A i \in Calls : Displaceable(i) => Displaceable(i)'
  BY <1>1, DisplaceableStays
<1>3. CASE Acquiring(c) \/ AtFence(c) \/ Holding(c)
  <2>1. held'[c] = None /\ pc'[c] \notin {"rename", "confirm", "reread", "undo", "undoUnlink"}
    <3> USE DEF Types, Fit, Goto, At, fileVars, fenceVars, callVars
    <3>1. CASE Acquiring(c)
      BY <1>1, <3>1 DEF Acquiring, Start, GateFenced, GateUnlink, GateOpen, Link, LinkExists, TimeOut
    <3>2. CASE AtFence(c)
      BY <1>1, <3>2 DEF AtFence, FenceOpens, FenceToRemove, FenceUnlink, FenceTaken, Verdict, FenceWritten,
                        FenceWriteFails, Unfence, UnfenceUnlink, Onward
    <3>3. CASE Holding(c)
      BY <1>1, <3>3 DEF Holding, Beat, CandidateStays, Throws, Started, StartFails, Enter, Asserted, Entered,
                        Leave, LeaveThrowing, Stopped, Release, Verdict
    <3> QED BY <1>3, <3>1, <3>2, <3>3
  <2> QED BY <2>1 DEF Moving
<1>4. CASE Beating(c) \/ Expire(c)
  <2>1. pc' = pc /\ role' = role /\ lock' = lock /\ held' = held
    BY <1>4 DEF Beating, Look, Touch, Verify, WorkerEnds, Expire, fileVars, callVars
  <2>2. (lock # None => lock \in Calls) /\ (held[c] # None => held[c] \in Calls)
    BY <1>1 DEF Types
  <2> QED BY <1>2, <2>1, <2>2 DEF Moving
<1>5. CASE Check(c)
  <2>1. pc[c] = "check" /\ held[c] = None
    BY <1>1, <1>5 DEF Check, At, Fit
  <2>2. lock' = lock /\ held' = held /\ role' = role
    BY <1>5 DEF Check, fileVars
  <2>3. CASE Checked(c)
    <3>1. lock # None /\ lock \in Calls
      BY <1>1, <2>3 DEF Checked, Types
    <3>2. role[c] = "release" => lock = c
      BY <1>1, <2>1, <2>3 DEF Checked, Fit, AtTheFence, Fencing
    <3>3. role[c] # "release" => Displaceable(lock)'
      BY <1>1, <1>2, <2>2, <2>3, <3>1, RecoverableIsDisplaceable DEF Checked, Types
    <3>4. pc'[c] = "rename"
      BY <1>1, <1>5, <2>3 DEF Check, Goto, Types
    <3> QED BY <2>1, <2>2, <3>1, <3>2, <3>3, <3>4 DEF Moving
  <2>4. CASE ~Checked(c)
    <3>1. pc'[c] = "unfence"
      BY <1>1, <1>5, <2>4 DEF Check, Unfenced, Goto, Types
    <3> QED BY <2>1, <2>2, <3>1 DEF Moving
  <2> QED BY <2>3, <2>4
<1>6. CASE Rename(c)
  <2>1. /\ pc[c] = "rename" /\ held'[c] = lock /\ role' = role
        /\ pc'[c] \in {"renamed", "unfence"}
    BY <1>1, <1>6 DEF Rename, Unfenced, Goto, At, Types
  <2>2. lock # None => lock \in Calls
    BY <1>1 DEF Types
  <2>3. Displaceable(lock) => (pc'[lock] \in Ended \/ lock \in lapsed')
    BY <1>2, <2>1, <2>2 DEF Moving, Displaceable
  <2> QED BY <2>1, <2>2, <2>3 DEF Moving, Displaceable
<1>7. CASE Replacing(c) /\ ~Check(c) /\ ~Rename(c)
  <2>1. /\ role' = role /\ held'[c] \in {held[c], None} /\ pc'[c] # "rename"
        /\ pc'[c] \in {"confirm", "reread", "undo", "undoUnlink"} => lock' = c
    BY <1>1, <1>7 DEF Replacing, Renamed, ReleaseRenamed, Released, ReleaseThrows, Publish, PublishExclusively,
          Confirm, Reread, Undo, UndoUnlink, Relink, Unfenced, Goto, At, Types, Moving, fileVars, callVars
  <2>2. held[c] # None => held[c] \in Calls
    BY <1>1 DEF Types
  <2> QED BY <1>2, <2>1, <2>2 DEF Moving, Displaceable
<1> QED
  BY <1>3, <1>4, <1>5, <1>6, <1>7 DEF CallStep

\* ... and the steps of the others do not disturb it.
LEMMA MovesKnownStep == BaseInv /\ FenceHeld /\ MovesKnown /\ [Next]_vars => MovesKnown'
<1> SUFFICES ASSUME BaseInv, FenceHeld, MovesKnown, [Next]_vars, NEW d \in Calls PROVE Moving(d)'
  BY DEF MovesKnown
<1>1. Types /\ Moving(d)
  BY DEF BaseInv, MovesKnown
<1>2. \A i \in Calls : Displaceable(i) => Displaceable(i)'
  BY <1>1, DisplaceableStays
<1>3. (lock # None => lock \in Calls) /\ (held[d] # None => held[d] \in Calls)
  BY <1>1 DEF Types
<1>4. ASSUME NEW c \in Calls, CallStep(c) PROVE Moving(d)'
  <2>1. CASE c = d
    BY <1>1, <1>4, <2>1, OwnMoving
  <2>2. CASE c # d
    <3>1. pc'[d] = pc[d] /\ role'[d] = role[d] /\ held'[d] \in {held[d], None}
      BY <1>1, <1>4, <2>2, OthersSame DEF SameCall
    <3>2. pc[d] \in {"rename", "confirm", "reread", "undo", "undoUnlink"} => lock' = lock /\ lock # None
      <4>1. pc[d] \in {"rename", "confirm", "reread", "undo", "undoUnlink"} => pc[c] \notin Fencing /\ lock # None
        BY <1>1, <2>2, OneBehind, PlanLeaseAssumption DEF Fencing, Moving
      <4> QED BY <1>1, <1>4, <4>1, FileMoves DEF Fencing
    <3> QED BY <1>1, <1>2, <1>3, <3>1, <3>2 DEF Moving, Displaceable
  <2> QED BY <2>1, <2>2
<1>5. CASE FenceAges \/ UNCHANGED vars
  <2>1. pc' = pc /\ role' = role /\ lock' = lock /\ held' = held
    BY <1>5 DEF FenceAges, vars, fileVars, callVars
  <2> QED BY <1>1, <1>2, <1>3, <2>1 DEF Moving
<1>6. ASSUME NEW p \in Procs, Crash(p) PROVE Moving(d)'
  <2>1. /\ lock' = lock /\ held'[d] \in {held[d], None}
        /\ pc'[d] \in {pc[d], "crashed"} /\ (pc'[d] # "crashed" /\ pc[d] \notin Ended => role'[d] = role[d])
    BY <1>1, <1>6 DEF Crash, Types, Ended
  <2>2. held'[d] # None => role'[d] = role[d]
    BY <1>1, <1>6 DEF Crash, Types
  <2> QED BY <1>1, <1>2, <1>3, <2>1, <2>2 DEF Moving, Ended
<1> QED
  BY <1>4, <1>5, <1>6 DEF Next, CallStep

-----------------------------------------------------------------------------
(* A heartbeat that has begun its first renewal found its lease published *)

Confirmed(c) ==
    /\ Serving(c) \/ pc[c] = "stopping"
    /\ hb[c].phase \in {"next", "last"} \/ hb[c].at \in {"touch", "verify"}

\* Such a lease is at lockPath unless it lapsed; in particular a releaser that
\* may put its file back can only meet a contender without a heartbeat.
ConfirmedPublished ==
    /\ \A c \in Calls : Confirmed(c) => lock = c \/ c \in lapsed
    /\ \A r, c \in Calls : pc[r] \in {"renamed", "discard", "putBack"} /\ role[r] = "release" /\ Confirmed(c)
            => c \in lapsed

\* A heartbeat begins to renew only a published lease, and no fence.
LEMMA OwnConfirmed ==
    ASSUME Types, NEW c \in Calls, Fit(c), CallStep(c), Confirmed(c)'
    PROVE  /\ lock' = lock /\ (c \in lapsed => c \in lapsed')
           /\ Confirmed(c) \/ (lock = c /\ fence = None)
<1> USE DEF Types, Confirmed, Serving, Goto, At, fileVars, fenceVars, callVars
<1>1. CASE Acquiring(c)
  BY <1>1 DEF Acquiring, Start, GateFenced, GateUnlink, GateOpen, Link, LinkExists, TimeOut
<1>2. CASE AtFence(c)
  BY <1>2 DEF AtFence, FenceOpens, FenceToRemove, FenceUnlink, FenceTaken, Verdict, FenceWritten,
              FenceWriteFails, Unfence, UnfenceUnlink, Onward
<1>3. CASE Replacing(c)
  BY <1>3 DEF Replacing, Check, Unfenced, Rename, Renamed, ReleaseRenamed, Released, ReleaseThrows, Publish,
              Confirm, Reread, Undo, UndoUnlink, Relink
<1>4. CASE Look(c)
  BY <1>4 DEF Look, Worked, Running, Renewable
<1>5. CASE Touch(c) \/ Verify(c) \/ WorkerEnds(c) \/ Expire(c)
  BY <1>5 DEF Touch, Verify, Worked, WorkerEnds, Off, Expire
<1>6. CASE Holding(c)
  BY <1>6 DEF Holding, Beat, Worked, CandidateStays, Throws, Started, StartFails, Enter, Asserted, Entered,
              Leave, LeaveThrowing, Stopped, Release, Verdict
<1> QED
  BY <1>1, <1>2, <1>3, <1>4, <1>5, <1>6 DEF CallStep, Beating

\* The lock file of a running call is taken away only from a lapsed one, or by
\* a releaser that puts its own back.
LEMMA LockLost ==
    ASSUME Types, MovesKnown, NEW c \in Calls, NEW d \in Calls, c # d, Fit(d), CallStep(d),
           lock = c, lock' # c, pc[c] \notin Ended
    PROVE  c \in lapsed \/ (pc[d] = "putBack" /\ role[d] = "release" /\ lock' = d)
<1>1. Moving(d)
  BY DEF MovesKnown
<1>2. lock # None
  BY PlanLeaseAssumption
<1>3. \/ pc[d] = "rename"
      \/ pc[d] = "undoUnlink"
      \/ pc[d] = "putBack" /\ lock' = held[d] /\ held[d] # None
  BY <1>2, FileMoves
<1>4. CASE pc[d] = "rename"
  BY <1>1, <1>4 DEF Moving, Displaceable
<1>5. CASE pc[d] = "undoUnlink"
  BY <1>1, <1>5 DEF Moving
<1>6. CASE pc[d] = "putBack" /\ lock' = held[d] /\ held[d] # None
  <2>1. role[d] = "release"
    BY <1>6 DEF Fit
  <2> QED BY <1>1, <1>6, <2>1 DEF Moving
<1> QED
  BY <1>3, <1>4, <1>5, <1>6

\* A call has renamed its file, or is about to decide what becomes of it, only
\* after a rename.
LEMMA RenamedFrom ==
    ASSUME Types, NEW c \in Calls, Fit(c), CallStep(c),
           pc'[c] \in {"renamed", "discard", "putBack"}, role'[c] = "release"
    PROVE  pc[c] \in {"rename", "renamed", "discard", "putBack"} /\ role[c] = "release"
<1> USE DEF Types, Goto, At, fileVars, fenceVars, callVars
<1>1. CASE Acquiring(c)
  BY <1>1 DEF Acquiring, Start, GateFenced, GateUnlink, GateOpen, Link, LinkExists, TimeOut
<1>2. CASE AtFence(c)
  BY <1>2 DEF AtFence, FenceOpens, FenceToRemove, FenceUnlink, FenceTaken, Verdict, FenceWritten,
              FenceWriteFails, Unfence, UnfenceUnlink, Onward
<1>3. CASE Replacing(c)
  BY <1>3 DEF Replacing, Check, Unfenced, Rename, Renamed, ReleaseRenamed, Released, ReleaseThrows, Publish,
              Confirm, Reread, Undo, UndoUnlink, Relink
<1>4. CASE Beating(c) \/ Expire(c)
  BY <1>4 DEF Beating, Look, Touch, Verify, WorkerEnds, Expire
<1>5. CASE Holding(c)
  BY <1>5 DEF Holding, Beat, CandidateStays, Throws, Started, StartFails, Enter, Asserted, Entered,
              Leave, LeaveThrowing, Stopped, Release, Verdict
<1> QED
  BY <1>1, <1>2, <1>3, <1>4, <1>5 DEF CallStep

\* Every step keeps the confirmed leases published.
LEMMA ConfirmedStep ==
    BaseInv /\ FenceHeld /\ MovesKnown /\ ConfirmedPublished /\ [Next]_vars => ConfirmedPublished'
<1> SUFFICES ASSUME BaseInv, FenceHeld, MovesKnown, ConfirmedPublished, [Next]_vars PROVE ConfirmedPublished'
  OBVIOUS
<1>1. Types /\ \A c \in Calls : Fit(c)
  BY DEF BaseInv
<1>2. ASSUME NEW c \in Calls, Confirmed(c) PROVE pc[c] \notin Ended
  BY <1>2 DEF Confirmed, Serving, Ended
<1>3. ASSUME NEW x \in Calls, CallStep(x), NEW c \in Calls, Confirmed(c)' PROVE lock' = c \/ c \in lapsed'
  <2>1. CASE x = c
    BY <1>1, <1>3, <2>1, OwnConfirmed DEF ConfirmedPublished
  <2>2. CASE x # c
    <3>1. SameCall(x, c)
      BY <1>1, <1>3, <2>2, OthersSame
    <3>2. Confirmed(c)
      BY <1>3, <3>1 DEF SameCall, Confirmed, Serving
    <3>3. CASE c \in lapsed
      BY <3>1, <3>3 DEF SameCall
    <3>4. CASE lock = c /\ lock' # c /\ c \notin lapsed
      <4>1. pc[x] = "putBack" /\ role[x] = "release"
        BY <1>1, <1>2, <1>3, <2>2, <3>2, <3>4, LockLost
      <4> QED BY <3>2, <3>4, <4>1 DEF ConfirmedPublished
    <3> QED BY <3>2, <3>3, <3>4 DEF ConfirmedPublished
  <2> QED BY <2>1, <2>2
<1>4. ASSUME NEW x \in Calls, CallStep(x), NEW r \in Calls, NEW c \in Calls,
             pc'[r] \in {"renamed", "discard", "putBack"}, role'[r] = "release", Confirmed(c)'
      PROVE  c \in lapsed'
  <2>1. c # r
    BY <1>4 DEF Confirmed, Serving
  <2>2. (pc'[r] = pc[r] /\ role'[r] = role[r]) \/ x = r
    BY <1>1, <1>4, OthersSame DEF SameCall
  <2>3. CASE pc[r] \in {"renamed", "discard", "putBack"} /\ role[r] = "release"
    <3>1. fence # None
      BY <1>1, <2>3, OneBehind DEF Fencing
    <3>2. CASE x = c
      BY <1>1, <1>4, <2>3, <3>1, <3>2, OwnConfirmed DEF ConfirmedPublished
    <3>3. CASE x # c
      <4>1. SameCall(x, c)
        BY <1>1, <1>4, <3>3, OthersSame
      <4>2. Confirmed(c)
        BY <1>4, <4>1 DEF SameCall, Confirmed, Serving
      <4> QED BY <2>3, <4>1, <4>2 DEF SameCall, ConfirmedPublished
    <3> QED BY <3>2, <3>3
  <2>4. CASE x = r /\ ~(pc[r] \in {"renamed", "discard", "putBack"} /\ role[r] = "release")
    <3>1. pc[r] = "rename" /\ role[r] = "release"
      BY <1>1, <1>4, <2>4, RenamedFrom
    <3>2. lock = r
      BY <3>1 DEF MovesKnown, Moving
    <3>3. SameCall(x, c)
      BY <1>1, <1>4, <2>1, <2>4, OthersSame
    <3>4. Confirmed(c)
      BY <1>4, <3>3 DEF SameCall, Confirmed, Serving
    <3> QED BY <2>1, <3>2, <3>3, <3>4 DEF SameCall, ConfirmedPublished
  <2> QED BY <1>4, <2>2, <2>3, <2>4
<1>5. CASE FenceAges \/ UNCHANGED vars
  <2>1. pc' = pc /\ role' = role /\ lock' = lock /\ hb' = hb /\ lapsed' = lapsed
    BY <1>5 DEF FenceAges, vars, fileVars, callVars
  <2> QED BY <2>1 DEF ConfirmedPublished, Confirmed, Serving
<1>6. ASSUME NEW p \in Procs, Crash(p) PROVE ConfirmedPublished'
  <2>1. lock' = lock
    BY <1>6 DEF Crash
  <2>2. ASSUME NEW c \in Calls, pc'[c] \notin Ended
        PROVE  /\ pc'[c] = pc[c] /\ role'[c] = role[c] /\ hb'[c] = hb[c]
               /\ c \in lapsed => c \in lapsed'
    BY <1>1, <1>6, <2>2 DEF Crash, Types, Ended
  <2>3. ASSUME NEW c \in Calls, Confirmed(c)' PROVE Confirmed(c) /\ (c \in lapsed => c \in lapsed')
    BY <2>2, <2>3 DEF Confirmed, Serving, Ended
  <2>4. ASSUME NEW r \in Calls, pc'[r] \in {"renamed", "discard", "putBack"}
        PROVE  pc'[r] = pc[r] /\ role'[r] = role[r]
    BY <2>2, <2>4 DEF Ended
  <2> QED BY <2>1, <2>3, <2>4 DEF ConfirmedPublished
<1> QED
  BY <1>3, <1>4, <1>5, <1>6 DEF Next, CallStep, ConfirmedPublished

-----------------------------------------------------------------------------
(* A release without an error *)

\* Its heartbeat has stopped, so its snapshot stays good; a file it could not
\* remove has been removed already, and once it gives the fence back its lease
\* is not at lockPath.
ReleasesCleanly(c) ==
    /\ pc[c] = "release" \/ (pc[c] \in AtTheFence /\ role[c] = "release") =>
          hb[c] = Off \/ hb[c].at = "stopped"
    /\ pc[c] \in AtTheFence \ {"unfence", "unfenceUnlink"} /\ role[c] = "release" => obs[c] = c
    /\ pc[c] \in {"renamed", "discard"} /\ role[c] = "release" => lock # c
    /\ pc[c] = "putBack" => held[c] = None
    /\ pc[c] \in {"unfence", "unfenceUnlink"} /\ after[c] = "end" => lock # c

CleanReleases == \A c \in Calls \ threw : ReleasesCleanly(c)

\* A release stays clean through its call's own steps.
LEMMA OwnRelease ==
    ASSUME BaseInv, NEW c \in Calls, Moving(c), c \in threw \/ ReleasesCleanly(c), CallStep(c), c \notin threw'
    PROVE  ReleasesCleanly(c)'
<1>1. Types /\ Fit(c)
  BY DEF BaseInv
<1>2. c \notin threw
  <2>1. SUFFICES ASSUME c \in threw PROVE c \in threw'
    OBVIOUS
  <2> USE <2>1 DEF callVars
  <2>2. CASE Acquiring(c)
    BY <2>2 DEF Acquiring, Start, GateFenced, GateUnlink, GateOpen, Link, LinkExists, TimeOut
  <2>3. CASE AtFence(c)
    BY <2>3 DEF AtFence, FenceOpens, FenceToRemove, FenceUnlink, FenceTaken, FenceWritten, FenceWriteFails,
                Unfence, UnfenceUnlink
  <2>4. CASE Replacing(c)
    BY <2>4 DEF Replacing, Check, Rename, Renamed, ReleaseRenamed, Released, ReleaseThrows, Publish, Confirm,
                Reread, Undo, UndoUnlink, Relink
  <2>5. CASE Beating(c) \/ Expire(c)
    BY <2>5 DEF Beating, Look, Touch, Verify, WorkerEnds, Expire
  <2>6. CASE Holding(c)
    BY <2>6 DEF Holding, Beat, CandidateStays, Throws, Started, StartFails, Enter, Asserted, Entered, Leave,
                LeaveThrowing, Stopped, Release
  <2> QED
    BY <2>2, <2>3, <2>4, <2>5, <2>6 DEF CallStep
<1> USE <1>1, <1>2, PlanLeaseAssumption
    DEF Types, Fit, Moving, ReleasesCleanly, AtTheFence, Fencing, Early, Late, Off, Goto, At, fileVars, fenceVars,
        callVars
<1>3. CASE Acquiring(c)
  BY <1>3 DEF Acquiring, Start, GateFenced, GateUnlink, GateOpen, Link, LinkExists, TimeOut
<1>4. CASE AtFence(c)
  BY <1>4 DEF AtFence, FenceOpens, FenceToRemove, FenceUnlink, FenceTaken, Verdict, FenceWritten,
              FenceWriteFails, Unfence, UnfenceUnlink, Onward
<1>5. CASE Replacing(c)
  BY <1>5 DEF Replacing, Check, Checked, Unfenced, Rename, Renamed, ReleaseRenamed, Unrenewed, Released,
              ReleaseThrows, Publish, Confirm, Reread, Undo, UndoUnlink, Relink
<1>6. CASE Beating(c) \/ Expire(c)
  BY <1>6 DEF Beating, Look, Worked, Running, Touch, Verify, WorkerEnds, Expire
<1>7. CASE Holding(c)
  BY <1>7 DEF Holding, Beat, Worked, CandidateStays, Throws, Started, StartFails, Enter, Asserted, Entered,
              Leave, LeaveThrowing, Stopped, Release, Verdict
<1> QED
  BY <1>3, <1>4, <1>5, <1>6, <1>7 DEF CallStep

\* Every step keeps the releases clean.
LEMMA CleanReleasesStep ==
    BaseInv /\ FenceHeld /\ MovesKnown /\ CleanReleases /\ [Next]_vars => CleanReleases'
<1> SUFFICES ASSUME BaseInv, FenceHeld, MovesKnown, CleanReleases, [Next]_vars, NEW d \in Calls, d \notin threw'
             PROVE  ReleasesCleanly(d)'
  BY DEF CleanReleases
<1>1. Types /\ Moving(d) /\ Fit(d)
  BY DEF BaseInv, MovesKnown
<1>2. ASSUME NEW c \in Calls, CallStep(c) PROVE ReleasesCleanly(d)'
  <2>1. CASE c = d
    BY <1>1, <1>2, <2>1, OwnRelease DEF CleanReleases
  <2>2. CASE c # d
    <3>1. SameCall(c, d)
      BY <1>1, <1>2, <2>2, OthersSame
    <3>2. ReleasesCleanly(d)
      BY <3>1 DEF SameCall, CleanReleases
    <3>3. pc[d] \in Fencing => lock' \in {lock, c}
      <4>1. pc[d] \in Fencing => pc[c] \notin Fencing
        BY <1>1, <2>2, OneBehind
      <4> QED BY <1>1, <1>2, <4>1, FileMoves DEF Fencing
    <3> QED BY <2>2, <3>1, <3>2, <3>3 DEF SameCall, ReleasesCleanly, AtTheFence, Fencing
  <2> QED BY <2>1, <2>2
<1>3. CASE FenceAges \/ UNCHANGED vars
  <2>1. pc' = pc /\ role' = role /\ after' = after /\ obs' = obs /\ threw' = threw /\ hb' = hb /\ lock' = lock /\ held' = held
    BY <1>3 DEF FenceAges, vars, fileVars, callVars
  <2> QED BY <2>1 DEF CleanReleases, ReleasesCleanly
<1>4. ASSUME NEW p \in Procs, Crash(p) PROVE ReleasesCleanly(d)'
  <2>1. CASE ProcOf[d] = p
    <3>1. pc'[d] \in Ended
      BY <1>1, <1>4, <2>1 DEF Crash, Types, Ended
    <3> QED BY <3>1 DEF Ended, ReleasesCleanly, AtTheFence, Fencing
  <2>2. CASE ProcOf[d] # p
    <3>1. /\ pc'[d] = pc[d] /\ role'[d] = role[d] /\ after'[d] = after[d] /\ obs'[d] = obs[d]
          /\ hb'[d] = hb[d] /\ lock' = lock /\ held'[d] = held[d] /\ d \notin threw
      BY <1>1, <1>4, <2>2 DEF Crash, Types
    <3> QED BY <3>1 DEF CleanReleases, ReleasesCleanly
  <2> QED BY <2>1, <2>2
<1> QED
  BY <1>2, <1>3, <1>4 DEF Next, CallStep

-----------------------------------------------------------------------------
(* Of two calls that met, one is lost *)

Gone(c) == lock # c /\ \A r \in Calls : held[r] # c

\* A call that cannot report success: it has failed, will throw, or is in its
\* section without a file that its assertion or its last renewal could find.
Doomed(c) ==
    \/ pc[c] \in {"failed", "crashed"}
    \/ pc[c] # "done" /\ c \in threw
    \/ pc[c] \in {"working", "leaving", "left", "stopping"} /\ Gone(c) /\ hb[c].at # "stopped"

MetDoomed == \A c \in Calls : \A d \in met[c] : Doomed(c) \/ Doomed(d)

\* A call without its file does not come to success in its own steps.
LEMMA OwnDoom ==
    ASSUME Types, NEW c \in Calls, Fit(c), CallStep(c), Doomed(c)
    PROVE  \/ pc'[c] \in {"failed", "crashed"}
           \/ pc'[c] # "done" /\ c \in threw'
           \/ /\ pc[c] \in {"working", "leaving", "left", "stopping"} /\ Gone(c)
              /\ pc'[c] \in {"working", "leaving", "left", "stopping"} /\ hb'[c].at # "stopped"
<1> USE DEF Types, Doomed, Gone, Goto, At, fileVars, fenceVars, callVars
<1>1. CASE Acquiring(c)
  BY <1>1 DEF Acquiring, Start, GateFenced, GateUnlink, GateOpen, Link, LinkExists, TimeOut
<1>2. CASE AtFence(c)
  BY <1>2 DEF AtFence, FenceOpens, FenceToRemove, FenceUnlink, FenceTaken, Verdict, FenceWritten,
              FenceWriteFails, Unfence, UnfenceUnlink, Onward
<1>3. CASE Replacing(c)
  BY <1>3 DEF Replacing, Check, Unfenced, Rename, Renamed, ReleaseRenamed, Released, ReleaseThrows, Publish,
              Confirm, Reread, Undo, UndoUnlink, Relink
<1>4. CASE Beating(c) \/ Expire(c)
  BY <1>4 DEF Beating, Look, Worked, Touch, Verify, StillPublished, WorkerEnds, Off, Expire
<1>5. CASE Holding(c)
  BY <1>5 DEF Holding, Beat, Worked, CandidateStays, Throws, Started, StartFails, Enter, Asserted, Entered,
              Leave, Owns, LeaveThrowing, Stopped, Release, Verdict
<1> QED
  BY <1>1, <1>2, <1>3, <1>4, <1>5 DEF CallStep

\* Every step keeps the doomed calls doomed.
LEMMA DoomStays ==
    ASSUME BaseInv, [Next]_vars, NEW d \in Calls, Doomed(d)
    PROVE  Doomed(d)'
<1>1. Types /\ Fit(d)
  BY DEF BaseInv
<1>2. ASSUME NEW c \in Calls, CallStep(c) PROVE Doomed(d)'
  <2>1. ASSUME pc[d] \in {"working", "leaving", "left", "stopping"}, Gone(d) PROVE Gone(d)'
    <3>1. lock' # d
      BY <1>1, <1>2, <2>1, FileMoves, PlanLeaseAssumption DEF Gone
    <3>2. \A r \in Calls : held'[r] # d
      BY <1>1, <1>2, <2>1, FileMoves, PlanLeaseAssumption DEF Gone
    <3> QED BY <3>1, <3>2 DEF Gone
  <2>2. CASE c = d
    BY <1>1, <1>2, <2>1, <2>2, OwnDoom DEF Doomed
  <2>3. CASE c # d
    <3>1. SameCall(c, d)
      BY <1>1, <1>2, <2>3, OthersSame
    <3> QED BY <2>1, <3>1 DEF SameCall, Doomed
  <2> QED BY <2>2, <2>3
<1>3. CASE FenceAges \/ UNCHANGED vars
  <2>1. pc' = pc /\ threw' = threw /\ hb' = hb /\ lock' = lock /\ held' = held
    BY <1>3 DEF FenceAges, vars, fileVars, callVars
  <2> QED BY <2>1 DEF Doomed, Gone
<1>4. ASSUME NEW p \in Procs, Crash(p) PROVE Doomed(d)'
  <2>1. CASE ProcOf[d] = p
    BY <1>1, <1>4, <2>1 DEF Crash, Types, Doomed
  <2>2. CASE ProcOf[d] # p
    <3>1. pc'[d] = pc[d] /\ hb'[d] = hb[d] /\ lock' = lock /\ (d \in threw => d \in threw')
      BY <1>1, <1>4, <2>2 DEF Crash, Types
    <3>2. \A r \in Calls : held'[r] \in {held[r], None}
      BY <1>1, <1>4 DEF Crash, Types
    <3> QED BY <3>1, <3>2, PlanLeaseAssumption DEF Doomed, Gone
  <2> QED BY <2>1, <2>2
<1> QED
  BY <1>2, <1>3, <1>4 DEF Next, CallStep

\* The steps that say who met whom.
LEMMA MetMoves ==
    ASSUME Types, NEW c \in Calls, CallStep(c)
    PROVE  met' = met \/ (Entered(c) /\ Healthy(c))
<1> USE DEF callVars
<1>1. CASE Acquiring(c)
  BY <1>1 DEF Acquiring, Start, GateFenced, GateUnlink, GateOpen, Link, LinkExists, TimeOut
<1>2. CASE AtFence(c)
  BY <1>2 DEF AtFence, FenceOpens, FenceToRemove, FenceUnlink, FenceTaken, FenceWritten, FenceWriteFails,
              Unfence, UnfenceUnlink
<1>3. CASE Replacing(c)
  BY <1>3 DEF Replacing, Check, Rename, Renamed, ReleaseRenamed, Released, ReleaseThrows, Publish, Confirm,
              Reread, Undo, UndoUnlink, Relink
<1>4. CASE Beating(c) \/ Expire(c)
  BY <1>4 DEF Beating, Look, Touch, Verify, WorkerEnds, Expire
<1>5. CASE Holding(c)
  BY <1>5 DEF Holding, Beat, CandidateStays, Started, StartFails, Enter, Entered, Leave, LeaveThrowing,
              Stopped, Release
<1> QED
  BY <1>1, <1>2, <1>3, <1>4, <1>5 DEF CallStep

\* A call enters its section only when there is no fence, and then nobody has a
\* file under its .stale name: one of two calls has no file at all.
LEMMA MetDoomedStep == BaseInv /\ FenceHeld /\ MetDoomed /\ [Next]_vars => MetDoomed'
<1> SUFFICES ASSUME BaseInv, FenceHeld, MetDoomed, [Next]_vars, NEW e \in Calls, NEW d \in met'[e]
             PROVE  Doomed(e)' \/ Doomed(d)'
  BY DEF MetDoomed
<1>1. Types /\ \A c \in Calls : Fit(c)
  BY DEF BaseInv
<1>2. d \in Calls
  BY TypesStep, <1>1 DEF Types
<1>3. CASE d \in met[e]
  BY <1>2, <1>3, DoomStays DEF MetDoomed
<1>4. ASSUME NEW c \in Calls, CallStep(c), d \notin met[e] PROVE Doomed(e)' \/ Doomed(d)'
  <2>1. Entered(c) /\ Healthy(c)
    BY <1>1, <1>4, MetMoves
  <2>2. c = e /\ InSection(d)
    BY <1>1, <1>4, <2>1 DEF Entered, Types
  <2>3. pc[e] = "entered" /\ fence = None
    BY <2>1, <2>2 DEF Entered, Healthy, At
  <2>4. d # e /\ pc[d] \in {"working", "leaving", "left"}
    BY <2>2, <2>3 DEF InSection
  <2>5. \A r \in Calls : held[r] = None
    BY <1>1, <2>3, OneBehind DEF Fit, Fencing
  <2>6. hb[e].at # "stopped" /\ hb[d].at # "stopped"
    BY <1>1, <1>2, <2>3, <2>4 DEF Fit, Serving
  <2>7. /\ pc'[e] = "working" /\ pc'[d] = pc[d]
        /\ lock' = lock /\ held' = held /\ hb' = hb
    BY <1>1, <1>2, <2>1, <2>2, <2>4 DEF Entered, Asserted, Goto, Types, fileVars
  <2>8. Gone(e)' \/ Gone(d)'
    BY <1>2, <2>4, <2>5, <2>7, PlanLeaseAssumption DEF Gone
  <2> QED BY <2>4, <2>6, <2>7, <2>8 DEF Doomed
<1>5. CASE FenceAges \/ UNCHANGED vars
  BY <1>3, <1>5 DEF FenceAges, vars, callVars
<1>6. ASSUME NEW p \in Procs, Crash(p) PROVE d \in met[e]
  BY <1>1, <1>6 DEF Crash, Types
<1> QED
  BY <1>3, <1>4, <1>5, <1>6 DEF Next, CallStep

-----------------------------------------------------------------------------
(* The invariant, and what it says *)

FencedInv == FenceHeld /\ MovesKnown /\ ConfirmedPublished /\ CleanReleases /\ MetDoomed

PlanInv == BaseInv /\ (~fenceLost => FencedInv)

\* The types are the shape and two of the things that fit.
LEMMA BaseInvTypes == BaseInv => TypeOK
BY DEF BaseInv, Types, Fit, TypeOK

\* What is true of no call holds initially.
LEMMA PlanInit == Init => PlanInv
<1> SUFFICES ASSUME Init PROVE PlanInv
  OBVIOUS
<1>1. Types
  BY PlanLeaseAssumption DEF Init, Types, PCs, Worker, Off
<1>2. ASSUME NEW c \in Calls PROVE Fit(c)
  BY <1>2, PlanLeaseAssumption
     DEF Init, Fit, Early, Late, AtTheFence, Fencing, Ended, Displaceable, Serving, Live, Off
<1>3. FenceHeld /\ MovesKnown /\ ConfirmedPublished
  BY DEF Init, FenceHeld, Behind, Fencing, MovesKnown, Moving, ConfirmedPublished, Confirmed, Serving
<1>4. CleanReleases /\ MetDoomed
  BY DEF Init, CleanReleases, ReleasesCleanly, AtTheFence, Fencing, MetDoomed
<1> QED
  BY <1>1, <1>2, <1>3, <1>4 DEF PlanInv, BaseInv, FencedInv

\* Every step keeps it.
LEMMA PlanStep == PlanInv /\ [Next]_vars => PlanInv'
<1> SUFFICES ASSUME PlanInv, [Next]_vars PROVE PlanInv'
  OBVIOUS
<1>1. BaseInv /\ BaseInv'
  BY FitStep DEF PlanInv
<1>2. ASSUME ~fenceLost' PROVE FencedInv'
  <2>1. FencedInv
    BY <1>1, <1>2, FenceLostStays DEF PlanInv, BaseInv
  <2> QED
    BY <1>1, <1>2, <2>1, FenceHeldStep, MovesKnownStep, ConfirmedStep, CleanReleasesStep, MetDoomedStep
       DEF FencedInv
<1> QED
  BY <1>1, <1>2 DEF PlanInv

\* The lease excludes, unless a fence was lost.
LEMMA PlanInvExcludes == PlanInv => LeaseExcludes
<1> SUFFICES ASSUME PlanInv PROVE LeaseExcludes
  OBVIOUS
<1>1. BaseInv
  BY DEF PlanInv
<1>2. SectionsExclude
  <2> SUFFICES ASSUME NEW c \in Calls, NEW d \in Calls, c # d, InSection(c), InSection(d), ~fenceLost,
                      c \notin lapsed, d \notin lapsed
               PROVE  FALSE
    BY DEF SectionsExclude
  <2>1. Confirmed(c) /\ Confirmed(d)
    BY <1>1 DEF BaseInv, Fit, InSection, Confirmed, Serving
  <2> QED BY <2>1 DEF PlanInv, FencedInv, ConfirmedPublished
<1>3. SuccessWasAlone
  <2> SUFFICES ASSUME NEW c \in Calls, NEW d \in Calls, pc[c] = "done", pc[d] = "done", d \in met[c], ~fenceLost
               PROVE  FALSE
    BY DEF SuccessWasAlone
  <2>1. Doomed(c) \/ Doomed(d)
    BY DEF PlanInv, FencedInv, MetDoomed
  <2> QED BY <2>1 DEF Doomed
<1> QED
  BY <1>1, <1>2, <1>3, BaseInvTypes DEF LeaseExcludes

\* The invariant behind the properties of the lease.
THEOREM PlanInvariant == Spec => []PlanInv
BY PlanInit, PlanStep, PTL DEF Spec

\* For any calls, processes and hosts, suspended or crashing anywhere: two
\* sections overlap only after a lease lapsed or a fence was lost, and of two
\* calls that met at most one reports success unless a fence was lost
\* (isRecoverableSnapshot, the snapshots behind the fence,
\* assertPlanStorageLeaseOwner, renew).
THEOREM LeaseIsExclusive == Spec => []LeaseExcludes
BY PlanInvariant, PlanInvExcludes, PTL

\* A call that moves the lock file moves on itself.
LEMMA FileStepMoves ==
    ASSUME Types, NEW c \in Calls, CallStep(c), lock' # lock
    PROVE  pc'[c] # pc[c]
<1> USE DEF Types, Goto, At, fileVars
<1>1. CASE Acquiring(c)
  BY <1>1 DEF Acquiring, Start, GateFenced, GateUnlink, GateOpen, Link, LinkExists, TimeOut
<1>2. CASE AtFence(c)
  BY <1>2 DEF AtFence, FenceOpens, FenceToRemove, FenceUnlink, FenceTaken, FenceWritten, FenceWriteFails,
              Unfence, UnfenceUnlink
<1>3. CASE Replacing(c)
  BY <1>3 DEF Replacing, Check, Rename, Renamed, ReleaseRenamed, Released, ReleaseThrows, Publish, Confirm,
              Reread, Undo, UndoUnlink, Relink, Unfenced
<1>4. CASE Beating(c) \/ Expire(c)
  BY <1>4 DEF Beating, Look, Touch, Verify, WorkerEnds, Expire
<1>5. CASE Holding(c)
  BY <1>5 DEF Holding, Beat, CandidateStays, Started, StartFails, Enter, Entered, Leave, LeaveThrowing,
              Stopped, Release
<1> QED
  BY <1>1, <1>2, <1>3, <1>4, <1>5 DEF CallStep

\* The lock file of a live call goes away under it only when its lease ran out,
\* when a fence was lost, or under a releaser that puts its own file back
\* (replaceRecoverableLock, releaseOwnedLease).
THEOREM DisplacementIsCaused == Spec => DisplacementHasCause
<1> DEFINE Caused == \A c \in Calls :
              lock = c /\ lock' # c /\ Live(c) /\ pc[c] \notin Ended /\ pc'[c] = pc[c]
              => \/ c \in lapsed \/ fenceLost
                 \/ \E d \in Calls \ {c} : pc[d] = "putBack" /\ lock' = d
<1>1. ASSUME PlanInv, [Next]_vars PROVE Caused
  <2> SUFFICES ASSUME NEW c \in Calls, lock = c, lock' # c, Live(c), pc[c] \notin Ended, pc'[c] = pc[c],
                      c \notin lapsed, ~fenceLost
               PROVE  \E d \in Calls \ {c} : pc[d] = "putBack" /\ lock' = d
    OBVIOUS
  <2>1. Types /\ MovesKnown /\ \A d \in Calls : Fit(d)
    BY <1>1 DEF PlanInv, BaseInv, FencedInv
  <2>2. ASSUME CallStep(c) PROVE FALSE
    BY <2>1, <2>2, FileStepMoves
  <2>3. ASSUME NEW d \in Calls, d # c, CallStep(d) PROVE pc[d] = "putBack" /\ lock' = d
    BY <2>1, <2>3, LockLost
  <2>4. FenceAges \/ (\E p \in Procs : Crash(p)) \/ UNCHANGED vars => lock' = lock
    BY DEF FenceAges, Crash, vars, fileVars
  <2> QED BY <1>1, <2>2, <2>3, <2>4 DEF Next, CallStep
<1> QED
  BY <1>1, PlanInvariant, PTL DEF Spec, DisplacementHasCause

\* The steps in which a call reports success.
LEMMA SuccessSteps ==
    ASSUME Types, NEW c \in Calls, Fit(c), Behind(c), CallStep(c), pc[c] # "done", pc'[c] = "done"
    PROVE  /\ lock' = lock
           /\ \/ FenceTaken(c)
              \/ pc[c] = "unfenceUnlink" /\ after[c] = "end" /\ c \notin threw
              \/ lock # c
<1> USE DEF Types, Goto, At, fileVars, fenceVars, callVars
<1>1. CASE Acquiring(c)
  BY <1>1 DEF Acquiring, Start, GateFenced, GateUnlink, GateOpen, Link, LinkExists, TimeOut
<1>2. CASE Unfence(c)
  BY <1>2 DEF Unfence, Behind, OwnFence, Fencing
<1>3. CASE AtFence(c) /\ ~Unfence(c)
  BY <1>3 DEF AtFence, FenceOpens, FenceToRemove, FenceUnlink, FenceTaken, Verdict, FenceWritten,
              FenceWriteFails, UnfenceUnlink, Onward
<1>4. CASE Replacing(c)
  BY <1>4 DEF Replacing, Check, Unfenced, Rename, Renamed, ReleaseRenamed, Released, ReleaseThrows, Publish,
              Confirm, Reread, Undo, UndoUnlink, Relink
<1>5. CASE Beating(c) \/ Expire(c)
  BY <1>5 DEF Beating, Look, Touch, Verify, WorkerEnds, Expire
<1>6. CASE Holding(c)
  BY <1>6 DEF Holding, Beat, CandidateStays, Throws, Started, StartFails, Enter, Asserted, Entered, Leave,
              LeaveThrowing, Stopped, Release
<1> QED
  BY <1>1, <1>2, <1>3, <1>4, <1>5, <1>6 DEF CallStep

\* A call that returns its result leaves its lock file behind only because
\* somebody else had the fence, or a fence was lost (releaseOwnedLease).
THEOREM LeakIsCaused == Spec => LeakHasCause
<1> DEFINE Caused == \A c \in Calls :
              pc[c] # "done" /\ pc'[c] = "done" /\ lock' = c => (fence # None /\ fence.by # c) \/ fenceLost
<1>1. ASSUME PlanInv, [Next]_vars PROVE Caused
  <2> SUFFICES ASSUME NEW c \in Calls, pc[c] # "done", pc'[c] = "done", lock' = c, ~fenceLost
               PROVE  fence # None /\ fence.by # c
    OBVIOUS
  <2>1. BaseInv /\ Types /\ FencedInv /\ \A d \in Calls : Fit(d)
    BY <1>1 DEF PlanInv, BaseInv
  <2>2. ASSUME CallStep(c) PROVE fence # None /\ fence.by # c
    <3>1. /\ lock = c
          /\ FenceTaken(c) \/ (pc[c] = "unfenceUnlink" /\ after[c] = "end" /\ c \notin threw)
      BY <2>1, <2>2, SuccessSteps DEF FencedInv, FenceHeld
    <3>2. ASSUME FenceTaken(c) PROVE fence # None /\ fence.by # c
      BY <2>1, <3>2 DEF FenceTaken, FencedInv, FenceHeld, Fencing
    <3>3. ~(pc[c] = "unfenceUnlink" /\ after[c] = "end" /\ c \notin threw)
      BY <2>1, <3>1 DEF FencedInv, CleanReleases, ReleasesCleanly
    <3> QED BY <3>1, <3>2, <3>3
  <2>3. ASSUME NEW d \in Calls, d # c, CallStep(d) PROVE FALSE
    BY <2>1, <2>3, OthersSame DEF SameCall
  <2>4. ASSUME NEW p \in Procs, Crash(p) PROVE FALSE
    BY <2>1, <2>4 DEF Crash, Types
  <2>5. FenceAges \/ UNCHANGED vars => FALSE
    BY DEF FenceAges, vars
  <2> QED BY <1>1, <2>2, <2>3, <2>4, <2>5 DEF Next, CallStep
<1> QED
  BY <1>1, PlanInvariant, PTL DEF Spec, LeakHasCause

=============================================================================
