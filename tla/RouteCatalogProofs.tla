------------------------- MODULE RouteCatalogProofs -------------------------
(***************************************************************************)
(* The route catalog implements AtomicCatalog and tells its callers the    *)
(* truth, for any requests, files and failures.  The inductive invariant   *)
(* has one part for the files (types, journals, and what a child at each   *)
(* of its steps relies on) and one for the lifecycle (queue, answers, and  *)
(* what a resolution was told).  A step of the lifecycle leaves the files  *)
(* alone: it keeps the child, ends it, or forks one.                       *)
(***************************************************************************)
EXTENDS RouteCatalog, TLAPS

(* Types of what the child and its files keep.                             *)
FilesTypes ==
    /\ disk \in [Targets -> Content \cup {Torn}]
    /\ pending \in [OpIds -> Journal \cup {None}]
    /\ receipt \in [OpIds -> {Operation[r] : r \in Requests} \cup {None}]
    /\ job \in Requests \cup {None} /\ pc \in PCs
    /\ todo \subseteq Targets /\ undo \in OpIds \cup {None}
    /\ job = None <=> pc = "off"

(* There is at most one journal.  It is a mutation's, taken of a readable  *)
(* catalog, and its operation has no receipt of anybody else's.            *)
NoJournal == \A o \in OpIds : pending[o] = None

JournalOf(o, r) ==
    /\ OpId[r] = o
    /\ pending[o].digest = Operation[r]
    /\ pending[o].scope = Scope(r)

JournalInv ==
    /\ \A o, p \in OpIds : pending[o] # None /\ pending[p] # None => o = p
    /\ \A o \in OpIds : pending[o] # None =>
          /\ \E r \in Mutations : JournalOf(o, r)
          /\ \A f \in Files : pending[o].backup[f] \in Content
          /\ receipt[o] \in {None, pending[o].digest}

(* A route file is torn only while a journal that is not committed can     *)
(* restore it.                                                             *)
TornIsCovered ==
    \A f \in Files : disk[f] = Torn => \E o \in Uncommitted : f \in pending[o].scope

(* The files of a journal that are no longer to be restored are restored.  *)
RestoredBut(o) ==
    /\ todo \subseteq pending[o].scope
    /\ \A f \in Files : f \in pending[o].scope /\ f \notin todo => disk[f] = pending[o].backup[f]

(* What a mutation has made of each route file so far.                     *)
FileProgress(f) ==
    IF f \in todo THEN disk[f] \in {Base[f], Torn}
    ELSE \/ disk[f] = Desired(job, Base)[f]
         \/ disk[f] = Base[f] /\ f \in Removed(job, Base) /\ ~Scoped(job)

MutationProgress ==
    IF Kind(job) = "ensure_persona" THEN todo \subseteq Roles /\ Routes = Base
    ELSE todo \subseteq Files /\ \A f \in Files : FileProgress(f)

(* What the child relies on, wherever it is.                               *)
Journaled ==
    /\ job \in Mutations
    /\ pending[OpId[job]] # None
    /\ JournalOf(OpId[job], job)

ChildInv ==
    /\ pc \in {"begin", "journal"} => NoJournal
    /\ pc = "journal" => job \in Mutations /\ receipt[OpId[job]] = None /\ Accepts(job, Routes)
    /\ pc \in {"mutate", "cleanup", "rollback"} => Journaled
    /\ pc \in {"mutate", "rollback"} => receipt[OpId[job]] = None
    /\ pc = "mutate" => Accepts(job, Base) /\ MutationProgress
    /\ pc = "cleanup" => receipt[OpId[job]] = Operation[job]
    /\ pc = "rollback" => RestoredBut(OpId[job])
    /\ pc \in {"restore", "drop"} => undo # None /\ pending[undo] # None
    /\ pc = "restore" => receipt[undo] = None /\ RestoredBut(undo)
    /\ pc = "drop" => receipt[undo] = pending[undo].digest

(* What it has reported when it exits.                                     *)
AnswerInv ==
    pc = "exit" =>
        /\ answer.kind = "ok" =>
              /\ NoJournal
              /\ answer.snapshot = Routes
              /\ answer.state \in {"committed", "not_committed", None}
              /\ job \in Mutations => receipt[OpId[job]] = Operation[job]
              /\ answer.state = "not_committed" =>
                    job \notin Mutations /\ Operation[job].resolve # None
        /\ answer.kind = "conflict" => job \in Mutations /\ receipt[OpId[job]] = None

FilesInv == FilesTypes /\ JournalInv /\ TornIsCovered /\ ChildInv /\ AnswerInv

-----------------------------------------------------------------------------
In(r, q) == \E i \in 1..Len(q) : q[i] = r

Waiting(r) == In(r, queue)

(* Types of the lifecycle.  Every request is in the queue once.            *)
QueueInv ==
    /\ queue \in Seq(Requests)
    /\ \A i, j \in 1..Len(queue) : queue[i] = queue[j] => i = j
    /\ \A i \in 1..Len(queue) : queue[i] # active /\ outcome[queue[i]] = "queued"

LifeTypes ==
    /\ active \in Requests \cup {None} /\ timer \in Requests \cup {None}
    /\ leaked \subseteq Requests
    /\ tries \in Nat
    /\ attempt \in Attempts /\ applying \subseteq Application
    /\ outcome \in [Requests -> Verdicts]
    /\ fenced \subseteq Requests \ Mutations
    /\ attempt = "none" <=> pc = "off"

(* What a new request has not reached.                                     *)
Untouched(r) ==
    /\ ~Waiting(r) /\ r \notin {active, job, timer} \cup leaked
    /\ r \notin fenced
    /\ \A a \in applying : a.entry # r

NewIsUntouched == \A r \in Requests : outcome[r] = "new" => Untouched(r)

(* A mutation whose snapshot is being applied, or was, has its receipt.    *)
SavedInv ==
    /\ \A a \in applying : a.entry \in Mutations => receipt[OpId[a.entry]] = Operation[a.entry]
    /\ \A r \in Mutations : outcome[r] = "ok" => receipt[OpId[r]] = Operation[r]

(* Whether an entry may still be executed.                                 *)
Reachable(m, q) == In(m, q) \/ m \in {active, job, timer} \cup leaked

Of(r) == {m \in Mutations : OpId[m] = Operation[r].resolve}

(* Nothing submitted before the resolution r can commit its operation.     *)
Cleared(r, q) ==
    \/ receipt[Operation[r].resolve] # None
    \/ \A m \in Of(r) : ~Reachable(m, q)

(* r has found no receipt, and is about to tell its caller, or has.        *)
FoundAbsent(r) ==
    \/ job = r /\ pc = "exit" /\ answer.kind = "ok" /\ answer.state = "not_committed"
    \/ \E a \in applying : a.entry = r /\ a.state = "not_committed"
    \/ outcome[r] = "absent"

Attempted(r) ==
    \/ r \in {job, timer} \cup leaked
    \/ \E a \in applying : a.entry = r

(* A resolution waits behind the mutations it asks about, and is attempted *)
(* when they are done.                                                     *)
FenceOf(r, q) ==
    /\ \A i, j \in 1..Len(q) : q[i] = r /\ q[j] \in Of(r) => j < i
    /\ r = active => \A m \in Of(r) : ~In(m, q)
    /\ (Attempted(r) \/ outcome[r] = "absent") => Cleared(r, q)
    /\ FoundAbsent(r) => receipt[Operation[r].resolve] = None

Fenced(r) == r \in fenced /\ Operation[r].resolve # None /\ Operation[r].resolve \notin astray

LeakedIsAstray == \A m \in leaked \cap Mutations : OpId[m] \in astray

FenceInv == \A r \in Requests : Fenced(r) => FenceOf(r, queue)

AbsentIsResolution == \A r \in Requests :
    /\ outcome[r] = "absent" => r \notin Mutations /\ Operation[r].resolve # None
    /\ \A a \in applying : a.entry = r /\ a.state = "not_committed" =>
          r \notin Mutations /\ Operation[r].resolve # None

LifeInv == LifeTypes /\ QueueInv /\ NewIsUntouched /\ SavedInv /\ LeakedIsAstray
           /\ AbsentIsResolution /\ FenceInv

CatalogInv == FilesInv /\ LifeInv

-----------------------------------------------------------------------------
(* The operations.                                                         *)

(* A mutation's journal covers every route file, or none of them.          *)
LEMMA ScopeFacts ==
  ASSUME NEW r \in Mutations
  PROVE  /\ r \in Requests
         /\ Scope(r) \subseteq Targets
         /\ Kind(r) # "ensure_persona" => Scope(r) = Targets
         /\ Kind(r) = "ensure_persona" =>
              Scope(r) = {Operation[r].target} /\ Operation[r].target \in Roles
BY RouteCatalogAssumption DEF Mutations, Scope, FullSet, Targets, Kind

(* What an operation asks for is a catalog.                                *)
LEMMA DesiredType ==
  ASSUME NEW r \in Requests, NEW c \in Catalog
  PROVE  Desired(r, c) \in Catalog
<1> DEFINE o == Operation[r]
<1>1. CASE o.kind = "replace"
  BY <1>1, RouteCatalogAssumption DEF Desired, Kind
<1>2. CASE o.kind = "upsert"
  <2>1. o.content \in Contents
    BY <1>2, RouteCatalogAssumption DEF Kind
  <2>2. Desired(r, c) = [f \in Files |-> IF f = o.target THEN o.content
                                         ELSE IF f = o.previous THEN Absent ELSE c[f]]
    BY <1>2 DEF Desired
  <2> QED BY <2>1, <2>2 DEF Catalog, Content
<1>3. CASE o.kind = "remove"
  <2>1. Desired(r, c) = [c EXCEPT ![o.target] = Absent]
    BY <1>3 DEF Desired
  <2> QED BY <2>1 DEF Catalog, Content
<1>4. CASE o.kind \in {"capture", "ensure_persona"}
  BY <1>4 DEF Desired
<1> QED BY <1>1, <1>2, <1>3, <1>4, RouteCatalogAssumption DEF Kind

(* A readable catalog is a catalog.                                        *)
LEMMA RoutesType ==
  ASSUME FilesTypes, Readable
  PROVE  Routes \in Catalog
BY DEF FilesTypes, Readable, Routes, Catalog, Targets

(* Every field of a journal.                                               *)
LEMMA JournalFacts ==
  ASSUME FilesTypes, NEW o \in OpIds, pending[o] # None
  PROVE  /\ pending[o] \in Journal
         /\ pending[o].scope \subseteq Targets
         /\ pending[o].backup \in [Targets -> Content \cup {Torn}]
BY DEF FilesTypes, Journal

-----------------------------------------------------------------------------
(* The catalog a recovery would leave.                                     *)

Restored(j, d) == [f \in Files |-> IF f \in j.scope THEN j.backup[f] ELSE d[f]]

BarOf(d, p, rc) ==
    LET U == {o \in OpIds : p[o] # None /\ rc[o] # p[o].digest}
    IN  IF U = {} THEN [f \in Files |-> d[f]] ELSE Restored(p[CHOOSE o \in U : TRUE], d)

LEMMA BarDefs ==
  /\ CatalogBar = BarOf(disk, pending, receipt)
  /\ CatalogBar' = BarOf(disk', pending', receipt')
BY DEF CatalogBar, BarOf, Restored, Uncommitted, Routes

(* Without an uncommitted journal it is what the disk holds ...            *)
LEMMA BarRoutes ==
  ASSUME NEW d, NEW p, NEW rc,
         \A o \in OpIds : p[o] # None => rc[o] = p[o].digest
  PROVE  BarOf(d, p, rc) = [f \in Files |-> d[f]]
BY DEF BarOf

(* ... and with one, what the journal restores.                            *)
LEMMA BarJournal ==
  ASSUME NEW d, NEW p, NEW rc, NEW o \in OpIds,
         \A q \in OpIds : p[q] # None => q = o,
         p[o] # None, rc[o] # p[o].digest
  PROVE  BarOf(d, p, rc) = Restored(p[o], d)
<1> DEFINE U == {q \in OpIds : p[q] # None /\ rc[q] # p[q].digest}
<1>1. U = {o}
  OBVIOUS
<1>2. (CHOOSE q \in U : TRUE) = o
  BY <1>1
<1> QED BY <1>1, <1>2 DEF BarOf

(* Nothing is torn when no journal is uncommitted.                         *)
LEMMA CommittedIsReadable ==
  ASSUME TornIsCovered, Uncommitted = {}
  PROVE  Readable
BY DEF TornIsCovered, Readable

(* The digest of a journal is an operation, never "no receipt".            *)
LEMMA DigestFacts ==
  ASSUME JournalInv, NEW o \in OpIds, pending[o] # None
  PROVE  /\ pending[o].digest # None
         /\ \A q \in OpIds : pending[q] # None => q = o
         /\ receipt[o] = None => o \in Uncommitted
         /\ receipt[o] \in {None, pending[o].digest}
         /\ \A f \in Files : pending[o].backup[f] \in Content
<1>1. PICK r \in Mutations : JournalOf(o, r)
  BY DEF JournalInv
<1>2. pending[o].digest = Operation[r] /\ Operation[r] # None
  BY <1>1, NoneAssumption DEF JournalOf, Mutations
<1>3. /\ \A q \in OpIds : pending[q] # None => q = o
      /\ receipt[o] \in {None, pending[o].digest}
      /\ \A f \in Files : pending[o].backup[f] \in Content
  BY DEF JournalInv
<1> QED BY <1>2, <1>3 DEF Uncommitted

(* The receipt of a journal that is not uncommitted is its digest: then    *)
(* there is nothing to recover.                                            *)
LEMMA CommittedIsAll ==
  ASSUME JournalInv, NEW o \in OpIds, pending[o] # None, receipt[o] # None
  PROVE  Uncommitted = {} /\ receipt[o] = pending[o].digest
BY DigestFacts DEF Uncommitted

-----------------------------------------------------------------------------
(* Steps that leave journals, receipts and disk alone.                     *)

StorageKept == UNCHANGED <<disk, pending, receipt>>

LEMMA KeptStorage ==
  ASSUME FilesInv, StorageKept
  PROVE  /\ JournalInv' /\ TornIsCovered' /\ CatalogBar' = CatalogBar
         /\ (NoJournal' <=> NoJournal) /\ Routes' = Routes
<1> USE DEF StorageKept
<1>1. JournalInv'
  BY DEF FilesInv, JournalInv, JournalOf
<1>2. TornIsCovered'
  BY DEF FilesInv, TornIsCovered, Uncommitted
<1>3. CatalogBar' = CatalogBar
  BY BarDefs
<1>4. (NoJournal' <=> NoJournal) /\ Routes' = Routes
  BY DEF NoJournal, Routes
<1> QED BY <1>1, <1>2, <1>3, <1>4

LEMMA RecoverJournalFiles ==
  ASSUME FilesInv, NEW o \in OpIds, RecoverJournal(o)
  PROVE  FilesInv' /\ CatalogBar' = CatalogBar
<1> USE DEF RecoverJournal, Goto
<1>1. StorageKept /\ job' = job /\ answer' = answer /\ undo' = o /\ pending[o] # None
  BY DEF StorageKept
<1>2. FilesTypes'
  <2>1. todo' \in {{}, pending[o].scope}
    OBVIOUS
  <2>2. pending[o].scope \subseteq Targets
    BY <1>1, JournalFacts DEF FilesInv
  <2> QED BY <2>1, <2>2 DEF FilesInv, FilesTypes, PCs
<1>3. ChildInv'
  <2>1. receipt[o] = pending[o].digest \/ receipt[o] = None
    BY <1>1, DigestFacts DEF FilesInv
  <2>2. CASE receipt[o] = pending[o].digest
    BY <1>1, <2>2, NoneAssumption DEF ChildInv, StorageKept
  <2>3. CASE receipt[o] # pending[o].digest
    <3>1. pc' = "restore" /\ todo' = pending[o].scope
      BY <2>3
    <3>2. RestoredBut(undo)'
      BY <1>1, <3>1 DEF RestoredBut, StorageKept
    <3> QED BY <1>1, <2>1, <2>3, <3>1, <3>2, NoneAssumption DEF ChildInv, StorageKept
  <2> QED BY <2>2, <2>3
<1>4. AnswerInv'
  BY DEF AnswerInv
<1> QED BY <1>1, <1>2, <1>3, <1>4, KeptStorage DEF FilesInv

LEMMA RecoverDoneFiles ==
  ASSUME FilesInv, RecoverDone
  PROVE  FilesInv' /\ CatalogBar' = CatalogBar
<1> USE DEF RecoverDone, Goto
<1>1. StorageKept
  BY DEF StorageKept
<1>2. FilesTypes'
  BY DEF FilesInv, FilesTypes, PCs
<1>3. ChildInv'
  BY <1>1 DEF ChildInv, NoJournal, StorageKept
<1>4. AnswerInv'
  BY DEF AnswerInv
<1> QED BY <1>1, <1>2, <1>3, <1>4, KeptStorage DEF FilesInv

(* Killed, or started: nothing is known of the child.                      *)
LEMMA ChildReset ==
  ASSUME FilesInv, StorageKept, pc' \in {"off", "dead", "recover"},
         job' \in Requests \cup {None}, job' = None <=> pc' = "off",
         todo' \subseteq Targets, undo' \in OpIds \cup {None}
  PROVE  FilesInv' /\ CatalogBar' = CatalogBar
<1>1. FilesTypes'
  BY DEF FilesInv, FilesTypes, PCs, StorageKept
<1>2. ChildInv' /\ AnswerInv'
  BY DEF ChildInv, AnswerInv
<1> QED BY <1>1, <1>2, KeptStorage DEF FilesInv

LEMMA KilledFiles ==
  ASSUME FilesInv, Killed
  PROVE  FilesInv' /\ CatalogBar' = CatalogBar
<1>1. /\ StorageKept /\ pc' = "dead" /\ job' = job /\ todo' = todo /\ undo' = undo /\ pc # "off"
  BY DEF Killed, StorageKept, Closed
<1>2. job \in Requests \cup {None} /\ job # None /\ todo \subseteq Targets
      /\ undo \in OpIds \cup {None}
  BY <1>1 DEF FilesInv, FilesTypes
<1> QED BY <1>1, <1>2, ChildReset

LEMMA NoChildFiles ==
  ASSUME FilesInv, NoChild
  PROVE  FilesInv' /\ CatalogBar' = CatalogBar
<1>1. StorageKept /\ pc' = "off" /\ job' = None /\ todo' = {} /\ undo' = None
  BY DEF NoChild, StorageKept
<1> QED BY <1>1, ChildReset

LEMMA ForkFiles ==
  ASSUME FilesInv, NEW e \in Requests, Fork(e)
  PROVE  FilesInv' /\ CatalogBar' = CatalogBar
<1>1. StorageKept /\ pc' = "recover" /\ job' = e /\ todo' = {} /\ undo' = None
  BY DEF Fork, StorageKept
<1>2. e # None
  BY NoneAssumption
<1> QED BY <1>1, <1>2, ChildReset

LEMMA BeginFiles ==
  ASSUME FilesInv, Begin
  PROVE  FilesInv' /\ CatalogBar' = CatalogBar
<1>1. /\ StorageKept /\ job' = job /\ todo' = todo /\ undo' = undo
      /\ pc = "begin" /\ pc' \in {"exit", "journal"}
  BY DEF Begin, StorageKept, Exit, Goto, Snapshot
<1>2. FilesTypes'
  BY <1>1 DEF FilesInv, FilesTypes, PCs, StorageKept
<1>3. NoJournal' /\ Routes' = Routes
  BY <1>1, KeptStorage DEF FilesInv, ChildInv
<1>4. CASE pc' = "journal"
  <2>1. job \in Mutations /\ receipt[OpId[job]] = None /\ Accepts(job, Routes)
    BY <1>4 DEF Begin, Exit, Snapshot, Goto, Accepts
  <2>2. receipt' = receipt
    BY <1>1 DEF StorageKept
  <2>3. ChildInv'
    BY <1>1, <1>3, <1>4, <2>1, <2>2 DEF ChildInv
  <2>4. AnswerInv'
    BY <1>4 DEF AnswerInv
  <2> QED BY <1>1, <1>2, <2>3, <2>4, KeptStorage DEF FilesInv
<1>5. CASE pc' = "exit"
  <2>1. \/ job \notin Mutations /\ answer' = Answer("ok", Routes, Resolved)
        \/ job \in Mutations /\ receipt[OpId[job]] # None
           /\ receipt[OpId[job]] = Operation[job] /\ answer' = Answer("ok", Routes, None)
        \/ answer' = Answer("failed", None, None)
        \/ job \in Mutations /\ receipt[OpId[job]] = None
           /\ answer' = Answer("conflict", None, None)
    BY <1>5 DEF Begin, Exit, Snapshot, Goto
  <2>2. /\ Resolved \in {"committed", "not_committed", None}
        /\ Resolved = "not_committed" => Operation[job].resolve # None
        /\ None # "not_committed"
    BY NoneAssumption DEF Resolved
  <2>3. AnswerInv'
    BY <1>1, <1>3, <2>1, <2>2 DEF AnswerInv, Answer, StorageKept
  <2>4. ChildInv'
    BY <1>5 DEF ChildInv
  <2> QED BY <1>1, <1>2, <2>3, <2>4, KeptStorage DEF FilesInv
<1> QED BY <1>1, <1>4, <1>5

LEMMA ThrowsFiles ==
  ASSUME FilesInv, Throws
  PROVE  FilesInv' /\ CatalogBar' = CatalogBar
<1>1. /\ StorageKept /\ job' = job /\ undo' = undo /\ pc # "off"
      /\ \/ pc' = "exit" /\ answer' = Answer("failed", None, None) /\ todo' = {}
         \/ pc = "mutate" /\ pc' = "rollback" /\ todo' = pending[OpId[job]].scope
  BY DEF Throws, StorageKept, Exit, Goto
<1>2. CASE pc' = "exit"
  <2>1. todo' = {} /\ answer' = Answer("failed", None, None)
    BY <1>1, <1>2
  <2>2. FilesTypes'
    BY <1>1, <1>2, <2>1 DEF FilesInv, FilesTypes, PCs, StorageKept
  <2>3. ChildInv' /\ AnswerInv'
    BY <1>2, <2>1 DEF ChildInv, AnswerInv, Answer
  <2> QED BY <1>1, <2>2, <2>3, KeptStorage DEF FilesInv
<1>3. CASE pc = "mutate" /\ pc' = "rollback" /\ todo' = pending[OpId[job]].scope
  <2>1. Journaled /\ receipt[OpId[job]] = None
    BY <1>3 DEF FilesInv, ChildInv
  <2>2. OpId[job] \in OpIds
    BY <2>1, RouteCatalogAssumption DEF Journaled, Mutations
  <2>3. todo' \subseteq Targets
    BY <1>3, <2>1, <2>2, JournalFacts DEF FilesInv, Journaled
  <2>4. FilesTypes'
    BY <1>1, <1>3, <2>3 DEF FilesInv, FilesTypes, PCs, StorageKept
  <2>5. Journaled' /\ RestoredBut(OpId[job])'
    BY <1>1, <1>3, <2>1 DEF Journaled, JournalOf, RestoredBut, StorageKept
  <2>6. ChildInv' /\ AnswerInv'
    BY <1>1, <1>3, <2>1, <2>5 DEF ChildInv, AnswerInv, StorageKept
  <2> QED BY <1>1, <2>4, <2>6, KeptStorage DEF FilesInv
<1> QED BY <1>1, <1>2, <1>3

-----------------------------------------------------------------------------
(* Steps that write one file.                                              *)

(* A write covered by the journal leaves what a recovery would restore.    *)
LEMMA WriteOne ==
  ASSUME FilesInv, NEW f \in Targets, NEW v \in Content \cup {Torn},
         disk' = [disk EXCEPT ![f] = v], UNCHANGED <<pending, receipt>>,
         f \in Files => \E o \in Uncommitted : f \in pending[o].scope
  PROVE  /\ disk' \in [Targets -> Content \cup {Torn}]
         /\ disk'[f] = v /\ \A g \in Targets \ {f} : disk'[g] = disk[g]
         /\ JournalInv' /\ TornIsCovered' /\ CatalogBar' = CatalogBar
<1>1. /\ disk' \in [Targets -> Content \cup {Torn}]
      /\ disk'[f] = v /\ \A g \in Targets \ {f} : disk'[g] = disk[g]
  BY DEF FilesInv, FilesTypes
<1>2. JournalInv'
  BY DEF FilesInv, JournalInv, JournalOf
<1>3. TornIsCovered'
  BY <1>1 DEF FilesInv, TornIsCovered, Uncommitted, Targets
<1>4. CASE f \notin Files
  <2>1. \A g \in Files : disk'[g] = disk[g]
    BY <1>1, <1>4 DEF Targets
  <2>2. \A j : Restored(j, disk') = Restored(j, disk)
    BY <2>1 DEF Restored
  <2>3. CatalogBar' = CatalogBar
    BY <2>1, <2>2, BarDefs DEF BarOf
  <2> QED BY <1>1, <1>2, <1>3, <2>3
<1>5. CASE f \in Files
  <2>1. PICK o \in Uncommitted : f \in pending[o].scope
    BY <1>5
  <2>2. /\ o \in OpIds /\ pending[o] # None /\ receipt[o] # pending[o].digest
        /\ \A q \in OpIds : pending[q] # None => q = o
    BY <2>1, DigestFacts DEF Uncommitted, FilesInv
  <2>3. BarOf(disk, pending, receipt) = Restored(pending[o], disk)
    BY <2>2, BarJournal
  <2>4. BarOf(disk', pending, receipt) = Restored(pending[o], disk')
    BY <2>2, BarJournal
  <2>5. Restored(pending[o], disk') = Restored(pending[o], disk)
    BY <1>1, <2>1 DEF Targets, Restored
  <2>6. CatalogBar' = CatalogBar
    BY <2>3, <2>4, <2>5, BarDefs
  <2> QED BY <1>1, <1>2, <1>3, <2>6
<1> QED BY <1>4, <1>5

(* A restored file.                                                        *)
LEMMA RestoreOne ==
  ASSUME FilesInv, NEW o \in OpIds, pending[o] # None, receipt[o] = None,
         RestoredBut(o), NEW f \in Targets, f \in todo,
         disk' = [disk EXCEPT ![f] = pending[o].backup[f]],
         todo' = todo \ {f},
         UNCHANGED <<pending, receipt, job, pc, undo, answer>>
  PROVE  /\ FilesTypes' /\ JournalInv' /\ TornIsCovered' /\ CatalogBar' = CatalogBar
         /\ RestoredBut(o)'
<1>1. o \in Uncommitted
  BY DigestFacts DEF FilesInv
<1>2. pending[o].backup[f] \in Content \cup {Torn}
  BY JournalFacts DEF FilesInv
<1>0. f \in pending[o].scope
  BY DEF RestoredBut
<1>3. /\ disk' \in [Targets -> Content \cup {Torn}]
      /\ disk'[f] = pending[o].backup[f] /\ \A g \in Targets \ {f} : disk'[g] = disk[g]
      /\ JournalInv' /\ TornIsCovered' /\ CatalogBar' = CatalogBar
  BY <1>0, <1>1, <1>2, WriteOne
<1>4. FilesTypes'
  BY <1>3 DEF FilesInv, FilesTypes
<1>5. RestoredBut(o)'
  <2>1. todo' \subseteq pending'[o].scope
    BY DEF RestoredBut
  <2>2. ASSUME NEW g \in Files, g \in pending[o].scope, g \notin todo'
        PROVE  disk'[g] = pending[o].backup[g]
    BY <1>3, <2>2 DEF RestoredBut, Targets
  <2> QED BY <2>1, <2>2 DEF RestoredBut
<1> QED BY <1>3, <1>4, <1>5

LEMMA RestoreFileFiles ==
  ASSUME FilesInv, NEW f \in Targets, RestoreFile(f)
  PROVE  FilesInv' /\ CatalogBar' = CatalogBar
<1>1. /\ pc = "restore" /\ f \in todo /\ todo' = todo \ {f}
      /\ disk' = [disk EXCEPT ![f] = pending[undo].backup[f]]
      /\ UNCHANGED <<pending, receipt, job, pc, undo, answer>>
  BY DEF RestoreFile
<1>2. undo \in OpIds /\ pending[undo] # None /\ receipt[undo] = None /\ RestoredBut(undo)
  BY <1>1 DEF FilesInv, ChildInv, FilesTypes
<1>3. /\ FilesTypes' /\ JournalInv' /\ TornIsCovered' /\ CatalogBar' = CatalogBar
      /\ RestoredBut(undo)'
  <2>1. ASSUME NEW o \in OpIds, o = undo
        PROVE  /\ FilesTypes' /\ JournalInv' /\ TornIsCovered' /\ CatalogBar' = CatalogBar
               /\ RestoredBut(o)'
    BY <1>1, <1>2, <2>1, RestoreOne
  <2>2. undo' = undo
    BY <1>1
  <2> QED BY <1>2, <2>1, <2>2 DEF RestoredBut
<1>4. ChildInv' /\ AnswerInv'
  BY <1>1, <1>2, <1>3, NoneAssumption DEF ChildInv, AnswerInv
<1> QED BY <1>3, <1>4 DEF FilesInv

LEMMA RollbackFileFiles ==
  ASSUME FilesInv, NEW f \in Targets, RollbackFile(f)
  PROVE  FilesInv' /\ CatalogBar' = CatalogBar
<1>1. /\ pc = "rollback" /\ f \in todo /\ todo' = todo \ {f}
      /\ disk' = [disk EXCEPT ![f] = pending[OpId[job]].backup[f]]
      /\ UNCHANGED <<pending, receipt, job, pc, undo, answer>>
  BY DEF RollbackFile
<1>2. Journaled /\ receipt[OpId[job]] = None /\ RestoredBut(OpId[job])
  BY <1>1 DEF FilesInv, ChildInv
<1>3. OpId[job] \in OpIds /\ pending[OpId[job]] # None
  BY <1>2, RouteCatalogAssumption DEF Journaled, Mutations
<1>4. /\ FilesTypes' /\ JournalInv' /\ TornIsCovered' /\ CatalogBar' = CatalogBar
      /\ RestoredBut(OpId[job])'
  <2>1. ASSUME NEW o \in OpIds, o = OpId[job]
        PROVE  /\ FilesTypes' /\ JournalInv' /\ TornIsCovered' /\ CatalogBar' = CatalogBar
               /\ RestoredBut(o)'
    BY <1>1, <1>2, <1>3, <2>1, RestoreOne
  <2>2. job' = job
    BY <1>1
  <2> QED BY <1>3, <2>1, <2>2 DEF RestoredBut
<1>5. Journaled'
  BY <1>1, <1>2 DEF Journaled, JournalOf
<1>6. ChildInv' /\ AnswerInv'
  BY <1>1, <1>2, <1>4, <1>5 DEF ChildInv, AnswerInv
<1> QED BY <1>4, <1>6 DEF FilesInv

-----------------------------------------------------------------------------
(* Steps that remove a journal: everything of it is restored, or it is     *)
(* committed.                                                              *)

Finished(o) == \/ receipt[o] = None /\ todo = {} /\ RestoredBut(o)
               \/ receipt[o] = pending[o].digest

LEMMA RemoveJournal ==
  ASSUME FilesInv, NEW o \in OpIds, pending[o] # None, Finished(o),
         pending' = [pending EXCEPT ![o] = None], UNCHANGED <<disk, receipt>>
  PROVE  /\ pending' \in [OpIds -> Journal \cup {None}]
         /\ NoJournal' /\ JournalInv' /\ TornIsCovered' /\ CatalogBar' = CatalogBar
<1>1. /\ pending[o].digest # None
      /\ \A q \in OpIds : pending[q] # None => q = o
      /\ receipt[o] = None => o \in Uncommitted
      /\ \A f \in Files : pending[o].backup[f] \in Content
  BY DigestFacts DEF FilesInv
<1>2. pending' \in [OpIds -> Journal \cup {None}]
  BY DEF FilesInv, FilesTypes
<1>3. \A q \in OpIds : pending'[q] = None
  BY <1>1 DEF FilesInv, FilesTypes
<1>4. NoJournal' /\ JournalInv'
  BY <1>3 DEF NoJournal, JournalInv
<1>5. BarOf(disk', pending', receipt') = [f \in Files |-> disk[f]]
  <2>1. BarOf(disk', pending', receipt') = [f \in Files |-> disk'[f]]
    <3> DEFINE p == pending'
    <3>1. \A q \in OpIds : p[q] = None
      BY <1>3
    <3> HIDE DEF p
    <3>2. BarOf(disk', p, receipt') = [f \in Files |-> disk'[f]]
      BY <3>1, BarRoutes
    <3> QED BY <3>2 DEF p
  <2> QED BY <2>1
<1>6. BarOf(disk, pending, receipt) = [f \in Files |-> disk[f]] /\ Readable
  <2>1. CASE receipt[o] = pending[o].digest
    <3>1. Uncommitted = {}
      BY <1>1, <2>1 DEF Uncommitted
    <3>2. BarOf(disk, pending, receipt) = [f \in Files |-> disk[f]]
      BY <1>1, <2>1, BarRoutes
    <3> QED BY <3>1, <3>2, CommittedIsReadable DEF FilesInv
  <2>2. CASE receipt[o] = None /\ todo = {} /\ RestoredBut(o)
    <3>1. \A f \in Files : f \in pending[o].scope => disk[f] = pending[o].backup[f]
      BY <2>2 DEF RestoredBut
    <3>2. BarOf(disk, pending, receipt) = Restored(pending[o], disk)
      BY <1>1, <2>2, BarJournal
    <3>3. Restored(pending[o], disk) = [f \in Files |-> disk[f]]
      BY <3>1 DEF Restored
    <3>4. Readable
      BY <1>1, <3>1, RouteCatalogAssumption DEF FilesInv, TornIsCovered, Readable, Uncommitted
    <3> QED BY <3>2, <3>3, <3>4
  <2> QED BY <2>1, <2>2 DEF Finished
<1>7. TornIsCovered'
  BY <1>6 DEF TornIsCovered, Readable
<1> QED BY <1>2, <1>4, <1>5, <1>6, <1>7, BarDefs

LEMMA DropJournalFiles ==
  ASSUME FilesInv, DropJournal
  PROVE  FilesInv' /\ CatalogBar' = CatalogBar
<1>1. /\ pc = "drop" \/ (pc = "restore" /\ todo = {})
      /\ pending' = [pending EXCEPT ![undo] = None]
      /\ pc' = "recover" /\ undo' = None /\ UNCHANGED <<disk, receipt, job, todo, answer>>
  BY DEF DropJournal, Goto
<1>2. undo \in OpIds /\ pending[undo] # None /\ Finished(undo)
  BY <1>1 DEF FilesInv, ChildInv, FilesTypes, Finished
<1>3. /\ pending' \in [OpIds -> Journal \cup {None}]
      /\ NoJournal' /\ JournalInv' /\ TornIsCovered' /\ CatalogBar' = CatalogBar
  BY <1>1, <1>2, RemoveJournal
<1>4. FilesTypes'
  BY <1>1, <1>3 DEF FilesInv, FilesTypes, PCs
<1>5. ChildInv' /\ AnswerInv'
  BY <1>1 DEF ChildInv, AnswerInv
<1> QED BY <1>3, <1>4, <1>5 DEF FilesInv

LEMMA RolledBackFiles ==
  ASSUME FilesInv, RolledBack
  PROVE  FilesInv' /\ CatalogBar' = CatalogBar
<1>1. /\ pc = "rollback" /\ todo = {}
      /\ pending' = [pending EXCEPT ![OpId[job]] = None]
      /\ pc' = "exit" /\ answer' = Answer("failed", None, None)
      /\ UNCHANGED <<disk, receipt, job, todo, undo>>
  BY DEF RolledBack, Exit
<1>2. Journaled /\ receipt[OpId[job]] = None /\ RestoredBut(OpId[job])
  BY <1>1 DEF FilesInv, ChildInv
<1>3. OpId[job] \in OpIds /\ pending[OpId[job]] # None /\ Finished(OpId[job])
  BY <1>1, <1>2, RouteCatalogAssumption DEF Journaled, Mutations, Finished
<1>4. /\ pending' \in [OpIds -> Journal \cup {None}]
      /\ NoJournal' /\ JournalInv' /\ TornIsCovered' /\ CatalogBar' = CatalogBar
  BY <1>1, <1>3, RemoveJournal
<1>5. FilesTypes'
  BY <1>1, <1>4 DEF FilesInv, FilesTypes, PCs
<1>6. ChildInv' /\ AnswerInv'
  BY <1>1 DEF ChildInv, AnswerInv, Answer
<1> QED BY <1>4, <1>5, <1>6 DEF FilesInv

LEMMA CleanupFiles ==
  ASSUME FilesInv, Cleanup
  PROVE  FilesInv' /\ CatalogBar' = CatalogBar
<1>1. /\ pc = "cleanup"
      /\ pending' = [pending EXCEPT ![OpId[job]] = None]
      /\ pc' = "exit" /\ answer' = Answer("ok", Routes, None)
      /\ UNCHANGED <<disk, receipt, job, todo, undo>>
  BY DEF Cleanup, Snapshot, Exit
<1>2. Journaled /\ receipt[OpId[job]] = Operation[job]
  BY <1>1 DEF FilesInv, ChildInv
<1>3. OpId[job] \in OpIds /\ pending[OpId[job]] # None /\ Finished(OpId[job])
  BY <1>2, RouteCatalogAssumption DEF Journaled, JournalOf, Mutations, Finished
<1>4. /\ pending' \in [OpIds -> Journal \cup {None}]
      /\ NoJournal' /\ JournalInv' /\ TornIsCovered' /\ CatalogBar' = CatalogBar
  BY <1>1, <1>3, RemoveJournal
<1>5. FilesTypes'
  BY <1>1, <1>4 DEF FilesInv, FilesTypes, PCs
<1>6. ChildInv'
  BY <1>1 DEF ChildInv
<1>7. AnswerInv'
  BY <1>1, <1>2, <1>4, NoneAssumption DEF AnswerInv, Answer, Journaled, Routes
<1> QED BY <1>4, <1>5, <1>6, <1>7 DEF FilesInv

-----------------------------------------------------------------------------
(* The mutation, from its journal to its receipt.                          *)

(* Its operationId, its journal and the catalog it began with.             *)
LEMMA MutationFacts ==
  ASSUME FilesInv, pc = "mutate"
  PROVE  /\ Journaled /\ job \in Requests
         /\ OpId[job] \in OpIds /\ OpId[job] \in Uncommitted /\ receipt[OpId[job]] = None
         /\ Base \in Catalog /\ Desired(job, Base) \in Catalog
         /\ pending[OpId[job]].scope = Scope(job)
         /\ MutationProgress
<1>1. Journaled /\ MutationProgress /\ receipt[OpId[job]] = None
  BY DEF FilesInv, ChildInv
<1>2. OpId[job] \in OpIds /\ job \in Requests /\ pending[OpId[job]] # None
      /\ pending[OpId[job]].scope = Scope(job)
  BY <1>1, RouteCatalogAssumption DEF Journaled, JournalOf, Mutations
<1>3. OpId[job] \in Uncommitted /\ Base \in Catalog
  BY <1>1, <1>2, DigestFacts DEF FilesInv, Base, Catalog
<1>4. Desired(job, Base) \in Catalog
  BY <1>2, <1>3, DesiredType
<1> QED BY <1>1, <1>2, <1>3, <1>4

(* A file it has still to write, and what it writes there.                 *)
LEMMA TodoFacts ==
  ASSUME FilesInv, pc = "mutate", NEW f \in todo
  PROVE  /\ f \in Targets /\ (f \in Files => f \in pending[OpId[job]].scope)
         /\ Value(f) \in Content
         /\ Kind(job) # "ensure_persona" =>
              f \in Files /\ Value(f) = Desired(job, Base)[f] /\ disk[f] \in {Base[f], Torn}
         /\ Kind(job) = "ensure_persona" => f \notin Files
<1>1. /\ Journaled /\ job \in Mutations /\ job \in Requests
      /\ pending[OpId[job]].scope = Scope(job)
      /\ Desired(job, Base) \in Catalog /\ MutationProgress /\ f \in Targets
  BY MutationFacts DEF FilesInv, FilesTypes, Journaled
<1>2. CASE Kind(job) = "ensure_persona"
  <2>1. f \in Roles /\ f \notin Files
    BY <1>1, <1>2, RouteCatalogAssumption DEF MutationProgress
  <2>2. Value(f) \in Content
    BY <1>1, <1>2, RouteCatalogAssumption DEF Value, Content, Kind
  <2> QED BY <1>1, <1>2, <2>1, <2>2
<1>3. CASE Kind(job) # "ensure_persona"
  <2>1. f \in Files /\ FileProgress(f)
    BY <1>1, <1>3 DEF MutationProgress
  <2>2. disk[f] \in {Base[f], Torn}
    BY <2>1 DEF FileProgress
  <2>3. Value(f) = Desired(job, Base)[f]
    BY <1>3 DEF Value, Kind
  <2>4. Value(f) \in Content
    BY <1>1, <2>1, <2>3 DEF Catalog
  <2>5. Scope(job) = Targets
    BY <1>1, <1>3, ScopeFacts
  <2> QED BY <1>1, <1>3, <2>1, <2>2, <2>3, <2>4, <2>5
<1> QED BY <1>2, <1>3

(* A step of the mutation that leaves its journal alone: what is left to   *)
(* show is its progress.                                                   *)
LEMMA MutationStep ==
  ASSUME FilesInv, pc = "mutate", UNCHANGED <<pending, receipt, job, pc, undo, answer>>,
         todo' \subseteq todo, disk' \in [Targets -> Content \cup {Torn}],
         JournalInv', TornIsCovered', MutationProgress'
  PROVE  FilesInv'
<1>1. FilesTypes'
  BY DEF FilesInv, FilesTypes
<1>2. Journaled' /\ Base' = Base
  BY MutationFacts DEF Journaled, JournalOf, Base
<1>3. Accepts(job, Base)
  BY DEF FilesInv, ChildInv
<1>4. ChildInv' /\ AnswerInv'
  BY <1>2, <1>3, MutationFacts DEF ChildInv, AnswerInv
<1> QED BY <1>1, <1>4 DEF FilesInv

(* One file of the mutation is truncated, written or unlinked.             *)
LEMMA MutateOne ==
  ASSUME FilesInv, pc = "mutate", NEW f \in todo,
         NEW v, NEW t, \/ v = Torn /\ t = todo
                       \/ v = Value(f) /\ t = todo \ {f},
         disk' = [disk EXCEPT ![f] = v], todo' = t,
         UNCHANGED <<pending, receipt, job, pc, undo, answer>>
  PROVE  FilesInv' /\ CatalogBar' = CatalogBar
<1>1. /\ f \in Targets /\ (f \in Files => f \in pending[OpId[job]].scope)
      /\ Value(f) \in Content
      /\ Kind(job) # "ensure_persona" =>
           f \in Files /\ Value(f) = Desired(job, Base)[f] /\ disk[f] \in {Base[f], Torn}
      /\ Kind(job) = "ensure_persona" => f \notin Files
  BY TodoFacts
<1>2. f \in Files => \E o \in Uncommitted : f \in pending[o].scope
  BY <1>1, MutationFacts
<1>3. v \in Content \cup {Torn}
  BY <1>1
<1>4. /\ disk' \in [Targets -> Content \cup {Torn}]
      /\ disk'[f] = v /\ \A g \in Targets \ {f} : disk'[g] = disk[g]
      /\ JournalInv' /\ TornIsCovered' /\ CatalogBar' = CatalogBar
  BY <1>1, <1>2, <1>3, WriteOne
<1>5. Base' = Base /\ job' = job /\ MutationProgress
  BY MutationFacts DEF Base
<1>6. MutationProgress'
  <2>1. CASE Kind(job) = "ensure_persona"
    <3>1. todo' \subseteq Roles /\ Routes = Base
      BY <1>5, <2>1 DEF MutationProgress
    <3>2. Routes' = Routes
      BY <1>1, <1>4, <2>1 DEF Routes, Targets
    <3> QED BY <1>5, <2>1, <3>1, <3>2 DEF MutationProgress
  <2>2. CASE Kind(job) # "ensure_persona"
    <3>1. todo' \subseteq Files
      BY <1>5, <2>2 DEF MutationProgress
    <3>2. ASSUME NEW g \in Files PROVE FileProgress(g)'
      <4>1. FileProgress(g)
        BY <1>5, <2>2 DEF MutationProgress
      <4>2. CASE g # f
        <5>1. disk'[g] = disk[g] /\ (g \in todo' <=> g \in todo)
          BY <1>4, <4>2 DEF Targets
        <5> QED BY <1>5, <4>1, <5>1 DEF FileProgress
      <4>3. CASE g = f /\ f \in todo'
        <5>1. v = Torn
          BY <4>3
        <5> QED BY <1>4, <4>3, <5>1 DEF FileProgress
      <4>4. CASE g = f /\ f \notin todo'
        <5>1. disk'[f] = Desired(job, Base)[f]
          BY <1>1, <1>4, <2>2, <4>4
        <5> QED BY <1>5, <4>4, <5>1 DEF FileProgress
      <4> QED BY <4>2, <4>3, <4>4
    <3> QED BY <1>5, <2>2, <3>1, <3>2 DEF MutationProgress
  <2> QED BY <2>1, <2>2
<1> QED BY <1>4, <1>6, MutationStep

LEMMA WritesFiles ==
  ASSUME FilesInv, NEW f \in Targets, TruncateFile(f) \/ WriteFile(f) \/ UnlinkFile(f)
  PROVE  FilesInv' /\ CatalogBar' = CatalogBar
<1>1. CASE TruncateFile(f)
  <2>1. pc = "mutate" /\ f \in todo /\ disk' = [disk EXCEPT ![f] = Torn] /\ todo' = todo
        /\ UNCHANGED <<pending, receipt, job, pc, undo, answer>>
    BY <1>1 DEF TruncateFile
  <2>2. Torn \notin Content /\ Value(f) \in Content
    BY <2>1, TodoFacts, RouteCatalogAssumption
  <2> QED BY <2>1, <2>2, MutateOne
<1>2. CASE WriteFile(f)
  <2>1. pc = "mutate" /\ f \in todo /\ disk' = [disk EXCEPT ![f] = Value(f)]
        /\ todo' = todo \ {f} /\ UNCHANGED <<pending, receipt, job, pc, undo, answer>>
    BY <1>2 DEF WriteFile
  <2>2. Torn \notin Content /\ Value(f) \in Content
    BY <2>1, TodoFacts, RouteCatalogAssumption
  <2> QED BY <2>1, <2>2, MutateOne
<1>3. CASE UnlinkFile(f)
  <2>1. pc = "mutate" /\ f \in todo /\ disk' = [disk EXCEPT ![f] = Value(f)]
        /\ todo' = todo \ {f} /\ UNCHANGED <<pending, receipt, job, pc, undo, answer>>
    BY <1>3 DEF UnlinkFile
  <2>2. Torn \notin Content /\ Value(f) \in Content
    BY <2>1, TodoFacts, RouteCatalogAssumption
  <2> QED BY <2>1, <2>2, MutateOne
<1> QED BY <1>1, <1>2, <1>3

LEMMA UnlinkSwallowedFiles ==
  ASSUME FilesInv, NEW f \in Targets, UnlinkSwallowed(f)
  PROVE  FilesInv' /\ CatalogBar' = CatalogBar
<1>1. /\ pc = "mutate" /\ f \in todo /\ ~Scoped(job) /\ disk[f] # Torn /\ Value(f) = Absent
      /\ todo' = todo \ {f} /\ StorageKept /\ job' = job
      /\ UNCHANGED <<pending, receipt, job, pc, undo, answer>>
  BY DEF UnlinkSwallowed, StorageKept
<1>2. Base' = Base /\ Routes' = Routes /\ MutationProgress
  BY <1>1, MutationFacts DEF Base, Routes, StorageKept
<1>3. MutationProgress'
  <2>1. CASE Kind(job) = "ensure_persona"
    BY <1>1, <1>2, <2>1 DEF MutationProgress
  <2>2. CASE Kind(job) # "ensure_persona"
    <3>1. todo' \subseteq Files /\ f \in Files
      BY <1>1, <1>2, <2>2 DEF MutationProgress
    <3>2. ASSUME NEW g \in Files PROVE FileProgress(g)'
      <4>1. FileProgress(g)
        BY <1>2, <2>2 DEF MutationProgress
      <4>2. CASE g # f
        <5>1. disk'[g] = disk[g] /\ (g \in todo' <=> g \in todo)
          BY <1>1, <4>2 DEF StorageKept
        <5> QED BY <1>1, <1>2, <4>1, <5>1 DEF FileProgress
      <4>3. CASE g = f
        <5>1. disk[f] = Base[f] /\ Desired(job, Base)[f] = Absent
          BY <1>1, <2>2, TodoFacts
        <5>2. disk[f] = Desired(job, Base)[f] \/ f \in Removed(job, Base)
          BY <3>1, <5>1 DEF Removed, Present
        <5>3. disk'[f] = disk[f] /\ f \notin todo'
          BY <1>1 DEF StorageKept
        <5> QED BY <1>1, <1>2, <4>3, <5>1, <5>2, <5>3 DEF FileProgress
      <4> QED BY <4>2, <4>3
    <3> QED BY <1>1, <2>2, <3>1, <3>2 DEF MutationProgress
  <2> QED BY <2>1, <2>2
<1>4. JournalInv' /\ TornIsCovered' /\ CatalogBar' = CatalogBar
  BY <1>1, KeptStorage
<1>5. todo' \subseteq todo /\ disk' \in [Targets -> Content \cup {Torn}]
  BY <1>1 DEF StorageKept, FilesInv, FilesTypes
<1> QED BY <1>1, <1>3, <1>4, <1>5, MutationStep

(* What is not written or removed is what the operation asks for already.  *)
LEMMA WrittenIsAll ==
  ASSUME NEW r \in Mutations, Kind(r) # "ensure_persona", NEW c \in Catalog, NEW f \in Files,
         f \notin Written(r, c) \cup Removed(r, c)
  PROVE  c[f] = Desired(r, c)[f]
<1>1. CASE Scoped(r)
  <2>1. Kind(r) = "upsert" /\ Written(r, c) = {Operation[r].target}
    BY <1>1 DEF Scoped, Written
  <2>2. Desired(r, c) = [g \in Files |-> IF g = Operation[r].target THEN Operation[r].content
                               ELSE IF g = Operation[r].previous THEN Absent ELSE c[g]]
    BY <2>1 DEF Desired, Kind
  <2>3. Desired(r, c)[f] = IF f = Operation[r].previous THEN Absent ELSE c[f]
    BY <2>1, <2>2
  <2> QED BY <2>3 DEF Removed, Present
<1>2. CASE ~Scoped(r)
  BY <1>2 DEF Written, Removed, Present
<1> QED BY <1>1, <1>2

LEMMA WriteJournalFiles ==
  ASSUME FilesInv, WriteJournal
  PROVE  FilesInv' /\ CatalogBar' = CatalogBar
<1> DEFINE o == OpId[job]
           j == [digest |-> Operation[job], scope |-> Scope(job), backup |-> disk]
           t == IF Kind(job) = "ensure_persona"
                  THEN {f \in {Operation[job].target} : disk[f] = Absent}
                  ELSE Written(job, Routes) \cup Removed(job, Routes)
<1>1. /\ pc = "journal" /\ pending' = [pending EXCEPT ![o] = j] /\ todo' = t
      /\ pc' = "mutate" /\ UNCHANGED <<disk, receipt, job, undo, answer>>
  BY DEF WriteJournal, Goto
<1>2. NoJournal /\ job \in Mutations /\ receipt[o] = None /\ Accepts(job, Routes)
  BY <1>1 DEF FilesInv, ChildInv
<1>3. Readable /\ Routes \in Catalog
  BY <1>2, CommittedIsReadable, RoutesType DEF NoJournal, Uncommitted, FilesInv
<1>4. job \in Requests /\ o \in OpIds /\ Scope(job) \subseteq Targets
  BY <1>2, ScopeFacts, RouteCatalogAssumption
<1>5. j \in Journal /\ j # None
  <2>1. j \in Journal
    BY <1>4 DEF Journal, FilesInv, FilesTypes
  <2> QED BY <2>1, NoneAssumption
<1>6. j.digest = Operation[job] /\ j.scope = Scope(job) /\ j.backup = disk
  OBVIOUS
<1> HIDE DEF j
<1>7. /\ pending'[o] = j /\ \A q \in OpIds \ {o} : pending'[q] = None
      /\ pending' \in [OpIds -> Journal \cup {None}]
  BY <1>1, <1>2, <1>4, <1>5 DEF FilesInv, FilesTypes, NoJournal
<1>8. JournalOf(o, job)' /\ o' = o
  BY <1>1, <1>6, <1>7 DEF JournalOf
<1>9. JournalInv'
  <2>1. \A f \in Files : j.backup[f] \in Content
    BY <1>3, <1>6 DEF Routes, Catalog
  <2>2. \E r \in Mutations : OpId[r] = o /\ j.digest = Operation[r] /\ j.scope = Scope(r)
    BY <1>2, <1>6
  <2>3. receipt'[o] = None
    BY <1>1, <1>2
  <2> HIDE DEF o
  <2> QED BY <1>7, <2>1, <2>2, <2>3 DEF JournalInv, JournalOf
<1>10. TornIsCovered'
  BY <1>1, <1>3 DEF TornIsCovered, Readable
<1>11. CatalogBar' = CatalogBar
  <2>1. BarOf(disk, pending, receipt) = Routes
    BY <1>2, BarRoutes DEF NoJournal, Routes
  <2>2. j.digest # None /\ receipt'[o] = None
    BY <1>1, <1>2, <1>4, <1>6, NoneAssumption
  <2>3. BarOf(disk', pending', receipt') = Restored(j, disk)
    <3> DEFINE p == pending'
    <3>1. \A q \in OpIds : p[q] # None => q = o
      BY <1>7
    <3>2. p[o] = j
      BY <1>7
    <3> HIDE DEF p, o
    <3>3. BarOf(disk, p, receipt') = Restored(j, disk)
      BY <1>4, <1>5, <2>2, <3>1, <3>2, BarJournal
    <3>4. disk' = disk
      BY <1>1
    <3> QED BY <3>3, <3>4 DEF p
  <2>4. Restored(j, disk) = Routes
    BY <1>6 DEF Restored, Routes
  <2> QED BY <2>1, <2>3, <2>4, BarDefs
<1>12. Base' = Routes /\ Routes' = Routes
  BY <1>1, <1>6, <1>7 DEF Base, Routes
<1>13. t \subseteq Targets /\ MutationProgress'
  <2>1. CASE Kind(job) = "ensure_persona"
    <3>1. t \subseteq {Operation[job].target}
      BY <2>1
    <3>2. t \subseteq Roles
      BY <1>2, <2>1, <3>1, ScopeFacts
    <3> HIDE DEF t
    <3> QED BY <1>1, <1>12, <2>1, <3>2 DEF MutationProgress, Targets
  <2>2. CASE Kind(job) # "ensure_persona"
    <3>1. t = Written(job, Routes) \cup Removed(job, Routes)
      BY <2>2
    <3> HIDE DEF t
    <3>2. t \subseteq Files
      BY <1>2, <1>4, <2>2, <3>1, RouteCatalogAssumption DEF Written, Removed, Present, Scoped
    <3>3. ASSUME NEW f \in Files PROVE FileProgress(f)'
      <4>1. disk'[f] = Routes[f]
        BY <1>1 DEF Routes
      <4>2. f \notin t => Routes[f] = Desired(job, Routes)[f]
        BY <1>2, <1>3, <2>2, <3>1, WrittenIsAll
      <4> QED BY <1>1, <1>12, <4>1, <4>2 DEF FileProgress
    <3> QED BY <1>1, <2>2, <3>2, <3>3 DEF MutationProgress, Targets
  <2> QED BY <2>1, <2>2
<1> HIDE DEF t
<1>14. FilesTypes'
  BY <1>1, <1>7, <1>13 DEF FilesInv, FilesTypes, PCs
<1>15. ChildInv' /\ AnswerInv'
  <2>1. Journaled'
    BY <1>1, <1>2, <1>5, <1>7, <1>8 DEF Journaled
  <2>2. Accepts(job, Routes) /\ receipt'[OpId[job]] = None
    BY <1>1, <1>2
  <2> QED BY <1>1, <1>12, <1>13, <2>1, <2>2 DEF ChildInv, AnswerInv
<1> QED BY <1>9, <1>10, <1>11, <1>14, <1>15 DEF FilesInv

(* The commit point: the catalog becomes what the mutation has written.    *)
LEMMA CommitReceiptFiles ==
  ASSUME FilesInv, CommitReceipt
  PROVE  FilesInv' /\ Atomic!Commit(job)
<1>1. /\ pc = "mutate" /\ todo = {} /\ Readable
      /\ receipt' = [receipt EXCEPT ![OpId[job]] = Operation[job]]
      /\ pc' = "cleanup" /\ UNCHANGED <<disk, pending, job, todo, undo, answer>>
  BY DEF CommitReceipt, Goto
<1>2. /\ Journaled /\ job \in Mutations /\ job \in Requests
      /\ OpId[job] \in OpIds /\ OpId[job] \in Uncommitted /\ receipt[OpId[job]] = None
      /\ Base \in Catalog /\ Desired(job, Base) \in Catalog
      /\ pending[OpId[job]].scope = Scope(job) /\ pending[OpId[job]].digest = Operation[job]
      /\ MutationProgress /\ Accepts(job, Base)
  BY <1>1, MutationFacts DEF FilesInv, ChildInv, Journaled, JournalOf
<1>3. /\ receipt'[OpId[job]] = Operation[job]
      /\ \A q \in OpIds \ {OpId[job]} : receipt'[q] = receipt[q]
      /\ receipt' \in [OpIds -> {Operation[r] : r \in Requests} \cup {None}]
  BY <1>1, <1>2 DEF FilesInv, FilesTypes
<1>4. \A q \in OpIds : pending[q] # None => q = OpId[job]
  BY <1>2, DigestFacts DEF FilesInv, Uncommitted
<1>5. FilesTypes'
  BY <1>1, <1>3 DEF FilesInv, FilesTypes, PCs
<1>6. JournalInv'
  BY <1>1, <1>2, <1>3, <1>4 DEF FilesInv, JournalInv, JournalOf
<1>7. TornIsCovered'
  BY <1>1 DEF TornIsCovered, Readable
<1>8. ChildInv' /\ AnswerInv'
  <2>1. Journaled'
    BY <1>1, <1>2 DEF Journaled, JournalOf
  <2> QED BY <1>1, <1>3, <2>1 DEF ChildInv, AnswerInv
<1>9. CatalogBar = Base
  <2> DEFINE o == OpId[job]
  <2>1. o \in OpIds /\ pending[o] # None /\ receipt[o] # pending[o].digest
    BY <1>2 DEF Uncommitted
  <2>2. BarOf(disk, pending, receipt) = Restored(pending[o], disk)
    <3> HIDE DEF o
    <3> QED BY <1>4, <2>1, BarJournal DEF o
  <2>3. Restored(pending[o], disk) = Base
    <3>1. CASE Kind(job) = "ensure_persona"
      <4>1. \A f \in Files : f \notin Scope(job)
        BY <1>2, <3>1, ScopeFacts, RouteCatalogAssumption
      <4>2. Restored(pending[o], disk) = Routes
        BY <1>2, <4>1 DEF Restored, Routes
      <4> QED BY <1>2, <3>1, <4>2 DEF MutationProgress
    <3>2. CASE Kind(job) # "ensure_persona"
      <4>1. \A f \in Files : f \in Scope(job)
        BY <1>2, <3>2, ScopeFacts DEF Targets
      <4> QED BY <1>2, <4>1 DEF Restored, Base
    <3> QED BY <3>1, <3>2
  <2> QED BY <2>2, <2>3, BarDefs
<1>10. CatalogBar' = Routes
  <2>1. \A q \in OpIds : pending'[q] # None => receipt'[q] = pending'[q].digest
    BY <1>1, <1>2, <1>3, <1>4
  <2>2. BarOf(disk', pending', receipt') = [f \in Files |-> disk'[f]]
    <3> DEFINE p == pending'
               rc == receipt'
    <3>1. \A q \in OpIds : p[q] # None => rc[q] = p[q].digest
      BY <2>1
    <3> HIDE DEF p, rc
    <3>2. BarOf(disk', p, rc) = [f \in Files |-> disk'[f]]
      BY <3>1, BarRoutes
    <3> QED BY <3>2 DEF p, rc
  <2> QED BY <1>1, <2>2, BarDefs DEF Routes
<1>11. Routes \in Outcomes(job, Base)
  <2>1. CASE Kind(job) = "ensure_persona"
    <3>1. Routes = Base /\ Desired(job, Base) = Base /\ ~Scoped(job)
      BY <1>2, <2>1 DEF MutationProgress, Desired, Kind, Scoped
    <3>2. Left(job, Base, {}) = Base
      BY <1>2, <3>1 DEF Left, Catalog
    <3> QED BY <3>1, <3>2 DEF Outcomes
  <2>2. CASE Kind(job) # "ensure_persona"
    <3>1. \A f \in Files : \/ disk[f] = Desired(job, Base)[f]
                           \/ disk[f] = Base[f] /\ f \in Removed(job, Base) /\ ~Scoped(job)
      BY <1>1, <1>2, <2>2 DEF MutationProgress, FileProgress
    <3> DEFINE kept == IF Scoped(job) THEN {} ELSE {f \in Removed(job, Base) : disk[f] = Base[f]}
    <3>2. Routes = Left(job, Base, kept)
      BY <3>1 DEF Routes, Left
    <3>3. kept \in IF Scoped(job) THEN {{}} ELSE SUBSET Removed(job, Base)
      OBVIOUS
    <3> HIDE DEF kept
    <3> QED BY <3>2, <3>3 DEF Outcomes
  <2> QED BY <2>1, <2>2
<1>12. Atomic!Commit(job)
  BY <1>1, <1>2, <1>9, <1>10, <1>11 DEF Atomic!Commit
<1> QED BY <1>5, <1>6, <1>7, <1>8, <1>12 DEF FilesInv

LEMMA RoleSaveFiles ==
  ASSUME FilesInv, NEW x \in Roles, NEW v \in RoleContents, RoleSave(x, v)
  PROVE  FilesInv' /\ CatalogBar' = CatalogBar
<1>1. disk' = [disk EXCEPT ![x] = v] /\ UNCHANGED <<pending, receipt, job, pc, todo, undo, answer>>
  BY DEF RoleSave
<1>2. x \in Targets /\ x \notin Files /\ v \in Content
  BY RouteCatalogAssumption DEF Targets, Content
<1>3. /\ disk' \in [Targets -> Content \cup {Torn}]
      /\ disk'[x] = v /\ \A g \in Targets \ {x} : disk'[g] = disk[g]
      /\ JournalInv' /\ TornIsCovered' /\ CatalogBar' = CatalogBar
  BY <1>1, <1>2, WriteOne
<1>4. \A f \in Files : disk'[f] = disk[f]
  BY <1>2, <1>3 DEF Targets
<1>5. Routes' = Routes /\ Base' = Base
  BY <1>1, <1>4 DEF Routes, Base
<1>6. FilesTypes'
  BY <1>1, <1>3 DEF FilesInv, FilesTypes
<1>7. MutationProgress => MutationProgress'
  BY <1>1, <1>4, <1>5 DEF MutationProgress, FileProgress
<1>8. /\ RestoredBut(OpId[job]) => RestoredBut(OpId[job])'
      /\ RestoredBut(undo) => RestoredBut(undo)'
  BY <1>1, <1>4 DEF RestoredBut
<1>9. Journaled => Journaled' /\ OpId[job] \in OpIds
  BY <1>1, RouteCatalogAssumption DEF Journaled, JournalOf, Mutations
<1>10. ChildInv'
  BY <1>1, <1>5, <1>7, <1>8, <1>9 DEF FilesInv, ChildInv, NoJournal
<1>11. AnswerInv'
  BY <1>1, <1>5 DEF FilesInv, AnswerInv, NoJournal
<1> QED BY <1>3, <1>6, <1>10, <1>11 DEF FilesInv

-----------------------------------------------------------------------------
(* The files under a step of the lifecycle.                                *)

LEMMA SameFiles ==
  ASSUME FilesInv, UNCHANGED filesVars
  PROVE  FilesInv' /\ CatalogBar' = CatalogBar
<1> USE DEF filesVars
<1>1. StorageKept
  BY DEF StorageKept
<1>2. FilesTypes'
  BY DEF FilesInv, FilesTypes
<1>3. ChildInv'
  BY DEF FilesInv, ChildInv, NoJournal, Journaled, JournalOf, RestoredBut, MutationProgress,
         FileProgress, Base, Routes
<1>4. AnswerInv'
  BY DEF FilesInv, AnswerInv, NoJournal, Routes
<1> QED BY <1>1, <1>2, <1>3, <1>4, KeptStorage DEF FilesInv

(* It leaves them alone, ends the child or forks one.                      *)
Lifecycle == UNCHANGED filesVars \/ NoChild \/ \E e \in Requests : Fork(e)

LEMMA LifecycleFiles ==
  ASSUME FilesInv, Lifecycle
  PROVE  FilesInv' /\ CatalogBar' = CatalogBar /\ receipt' = receipt
<1>1. receipt' = receipt
  BY DEF Lifecycle, filesVars, NoChild, Fork
<1> QED BY <1>1, SameFiles, NoChildFiles, ForkFiles DEF Lifecycle

LEMMA ChildStepFiles ==
  ASSUME FilesInv, ChildStep
  PROVE  /\ FilesInv' /\ job' = job /\ pc # "off" /\ pc' # "off"
         /\ \/ CatalogBar' = CatalogBar /\ receipt' = receipt
            \/ CommitReceipt /\ Atomic!Commit(job)
         /\ pc' = "exit" => Begin \/ Cleanup \/ RolledBack
<1>1. CASE \E o \in OpIds : RecoverJournal(o)
  BY <1>1, RecoverJournalFiles DEF RecoverJournal, Goto
<1>2. CASE DropJournal
  BY <1>2, DropJournalFiles DEF DropJournal, Goto
<1>3. CASE RecoverDone
  BY <1>3, RecoverDoneFiles DEF RecoverDone, Goto
<1>4. CASE Begin
  <2>1. job' = job /\ receipt' = receipt /\ pc = "begin" /\ pc' \in {"exit", "journal"}
    BY <1>4 DEF Begin, Exit, Goto, Snapshot
  <2> QED BY <1>4, <2>1, BeginFiles
<1>5. CASE WriteJournal
  BY <1>5, WriteJournalFiles DEF WriteJournal, Goto
<1>6. CASE CommitReceipt
  BY <1>6, CommitReceiptFiles DEF CommitReceipt, Goto
<1>7. CASE Cleanup
  BY <1>7, CleanupFiles DEF Cleanup, Snapshot, Exit
<1>8. CASE RolledBack
  BY <1>8, RolledBackFiles DEF RolledBack, Exit
<1>9. CASE \E f \in Targets : RestoreFile(f) \/ TruncateFile(f) \/ WriteFile(f)
                             \/ UnlinkFile(f) \/ UnlinkSwallowed(f) \/ RollbackFile(f)
  <2>1. PICK f \in Targets : RestoreFile(f) \/ TruncateFile(f) \/ WriteFile(f)
                             \/ UnlinkFile(f) \/ UnlinkSwallowed(f) \/ RollbackFile(f)
    BY <1>9
  <2>2. FilesInv' /\ CatalogBar' = CatalogBar
    BY <2>1, RestoreFileFiles, WritesFiles, UnlinkSwallowedFiles, RollbackFileFiles
  <2>3. job' = job /\ receipt' = receipt /\ pc' = pc /\ pc \in {"restore", "mutate", "rollback"}
    BY <2>1 DEF RestoreFile, TruncateFile, WriteFile, UnlinkFile, UnlinkSwallowed, RollbackFile
  <2> QED BY <2>2, <2>3
<1> QED BY <1>1, <1>2, <1>3, <1>4, <1>5, <1>6, <1>7, <1>8, <1>9 DEF ChildStep

-----------------------------------------------------------------------------
(* What every step of the lifecycle does, q being the queue with the       *)
(* request it submits, if any: entries are only moved from the queue to    *)
(* the attempt, and from there to a timer or an application.               *)

Dequeued(q) ==
    \/ queue' \in {q, <<>>} /\ active' \in {active, None} /\ job' \in {None, job, timer, active'} \cup leaked
    \/ q # <<>> /\ queue' = Tail(q) /\ active' = Head(q) /\ job' = active'

EntriesMove(q) ==
    /\ Dequeued(q)
    /\ job' \in {None, job, timer} \cup leaked \/ timer' = None
    /\ timer' \in {None, timer, job} \cup {a.entry : a \in applying}
    /\ leaked' \subseteq (leaked \cup {timer}) \ {None}
    /\ \A a \in applying' : \/ a \in applying
                            \/ /\ a.entry = job /\ a.state = answer.state
                               /\ pc = "exit" /\ answer.kind = "ok"
    /\ pc' = "exit" => job' = job /\ pc = "exit" /\ answer' = answer
    /\ \A x \in fenced' : x \in fenced \/ outcome'[x] # "new"

OutcomesMove(q) == \A x \in Requests :
    /\ \/ outcome'[x] = outcome[x]
       \/ outcome'[x] \in {"queued", "busy", "stopped", "blocked", "conflict", "failed", "lost"}
       \/ \E a \in applying : a.entry = x /\ outcome'[x] = Verdict(a)
    /\ outcome'[x] = "new" => ~In(x, q)
    /\ outcome'[x] = "new" => outcome[x] = "new"
    /\ In(x, queue') => outcome'[x] = "queued"

TypesMove ==
    /\ applying' \subseteq Application
    /\ tries' \in Nat /\ attempt' \in Attempts
    /\ outcome' \in [Requests -> Verdicts]
    /\ fenced' \subseteq Requests \ Mutations
    /\ attempt' = "none" <=> pc' = "off"

Advances(q) ==
    /\ Lifecycle
    /\ EntriesMove(q) /\ OutcomesMove(q) /\ TypesMove /\ LeakedIsAstray'

(* The queue that a step starts from.                                      *)
QueueFrom(q) ==
    /\ q \in Seq(Requests)
    /\ \A i, j \in 1..Len(q) : q[i] = q[j] => i = j
    /\ \A i \in 1..Len(q) : q[i] # active

LEMMA TailFacts ==
  ASSUME NEW q \in Seq(Requests), q # <<>>
  PROVE  /\ Len(q) \in Nat \ {0} /\ Head(q) = q[1] /\ Head(q) \in Requests
         /\ Tail(q) \in Seq(Requests) /\ Len(Tail(q)) = Len(q) - 1
         /\ \A i \in 1..Len(Tail(q)) : Tail(q)[i] = q[i + 1] /\ i + 1 \in 1..Len(q)
         /\ \A r : In(r, Tail(q)) => In(r, q)
         /\ In(Head(q), q)
<1>1. /\ Len(q) \in Nat \ {0} /\ Head(q) = q[1] /\ Head(q) \in Requests
      /\ Tail(q) \in Seq(Requests) /\ Len(Tail(q)) = Len(q) - 1
  OBVIOUS
<1>2. \A i \in 1..Len(Tail(q)) : Tail(q)[i] = q[i + 1] /\ i + 1 \in 1..Len(q)
  BY <1>1
<1>3. ASSUME NEW r, In(r, Tail(q)) PROVE In(r, q)
  <2>1. PICK i \in 1..Len(Tail(q)) : Tail(q)[i] = r
    BY <1>3 DEF In
  <2> QED BY <1>2, <2>1 DEF In
<1>4. In(Head(q), q)
  BY <1>1 DEF In
<1> QED BY <1>1, <1>2, <1>3, <1>4

LEMMA AdvanceQueue ==
  ASSUME NEW q, QueueFrom(q), Dequeued(q), OutcomesMove(q)
  PROVE  /\ QueueInv'
         /\ \A r : In(r, queue') => In(r, q)
<1>1. CASE queue' \in {q, <<>>} /\ active' \in {active, None}
  <2>1. /\ queue' \in Seq(Requests)
        /\ \A i, j \in 1..Len(queue') : queue'[i] = queue'[j] => i = j
    <3>1. CASE queue' = q
      BY <3>1 DEF QueueFrom
    <3>2. CASE queue' = <<>>
      <4>1. <<>> \in Seq(Requests) /\ Len(<<>>) = 0
        OBVIOUS
      <4> QED BY <3>2, <4>1
    <3> QED BY <1>1, <3>1, <3>2
  <2>2. ASSUME NEW i \in 1..Len(queue')
        PROVE  queue'[i] # active' /\ outcome'[queue'[i]] = "queued"
    <3>1. queue' = q /\ queue'[i] \in Requests
      BY <1>1 DEF QueueFrom
    <3>2. queue'[i] # active'
      BY <1>1, <3>1, NoneAssumption DEF QueueFrom
    <3> QED BY <3>1, <3>2 DEF OutcomesMove, In
  <2>3. ASSUME NEW r, In(r, queue') PROVE In(r, q)
    <3>1. ~In(r, <<>>)
      <4>1. Len(<<>>) = 0
        OBVIOUS
      <4> QED BY <4>1 DEF In
    <3> QED BY <1>1, <2>3, <3>1
  <2> QED BY <2>1, <2>2, <2>3 DEF QueueInv
<1>2. CASE q # <<>> /\ queue' = Tail(q) /\ active' = Head(q)
  <2>1. q \in Seq(Requests)
    BY DEF QueueFrom
  <2>2. \A i, j \in 1..Len(queue') : queue'[i] = queue'[j] => i = j
    BY <1>2, <2>1, TailFacts DEF QueueFrom
  <2>3. ASSUME NEW i \in 1..Len(queue')
        PROVE  queue'[i] # active' /\ outcome'[queue'[i]] = "queued"
    <3>1. /\ queue'[i] = q[i + 1] /\ i + 1 \in 1..Len(q) /\ i \in Nat \ {0}
          /\ active' = q[1] /\ 1 \in 1..Len(q)
      BY <1>2, <2>1, TailFacts
    <3>2. queue'[i] # active'
      BY <3>1 DEF QueueFrom
    <3>3. queue'[i] \in Requests
      BY <2>1, <3>1
    <3> QED BY <3>2, <3>3 DEF OutcomesMove, In
  <2> QED BY <1>2, <2>1, <2>2, <2>3, TailFacts DEF QueueInv
<1> QED BY <1>1, <1>2 DEF Dequeued

LEMMA AdvanceNew ==
  ASSUME FilesInv, LifeInv, NEW q, QueueFrom(q), Advances(q)
  PROVE  NewIsUntouched'
<1>1. SUFFICES ASSUME NEW r \in Requests, outcome'[r] = "new"
               PROVE  Untouched(r)'
  BY DEF NewIsUntouched
<1>2. outcome[r] = "new" /\ ~In(r, q)
  BY <1>1 DEF Advances, OutcomesMove
<1>3. Untouched(r) /\ r # None
  BY <1>2, NoneAssumption DEF LifeInv, NewIsUntouched
<1>4. ~In(r, queue')
  BY <1>2, AdvanceQueue DEF Advances, EntriesMove
<1>5. active' # r
  <2>1. active' \in {active, None} \/ (q # <<>> /\ active' = Head(q))
    BY DEF Advances, EntriesMove, Dequeued
  <2> QED BY <1>2, <1>3, <2>1, TailFacts DEF Untouched, QueueFrom
<1>6. job' # r
  <2>1. job' \in {None, job, timer, active'} \cup leaked
    BY DEF Advances, EntriesMove, Dequeued
  <2> QED BY <1>3, <1>5, <2>1 DEF Untouched
<1>7. timer' # r /\ r \notin leaked' /\ r \notin fenced' /\ \A a \in applying' : a.entry # r
  BY <1>1, <1>3 DEF Advances, EntriesMove, Untouched
<1> QED BY <1>4, <1>5, <1>6, <1>7 DEF Untouched, Waiting

LEMMA AdvanceSaved ==
  ASSUME FilesInv, LifeInv, NEW q, Advances(q)
  PROVE  SavedInv' /\ AbsentIsResolution'
<1>1. receipt' = receipt
  BY LifecycleFiles DEF Advances
<1>2. ASSUME NEW a \in applying'
      PROVE  /\ a.entry \in Mutations => receipt[OpId[a.entry]] = Operation[a.entry]
             /\ a.state = "not_committed" =>
                  a.entry \notin Mutations /\ Operation[a.entry].resolve # None
  <2>1. CASE a \in applying
    <3>1. a.entry \in Requests
      BY <2>1 DEF LifeInv, LifeTypes, Application
    <3> QED BY <2>1, <3>1 DEF LifeInv, SavedInv, AbsentIsResolution
  <2>2. CASE a.entry = job /\ a.state = answer.state /\ pc = "exit" /\ answer.kind = "ok"
    BY <2>2 DEF FilesInv, AnswerInv
  <2> QED BY <2>1, <2>2 DEF Advances, EntriesMove
<1>3. ASSUME NEW r \in Requests
      PROVE  /\ r \in Mutations /\ outcome'[r] = "ok" => receipt[OpId[r]] = Operation[r]
             /\ outcome'[r] = "absent" => r \notin Mutations /\ Operation[r].resolve # None
  <2>1. CASE outcome'[r] = outcome[r]
    BY <2>1 DEF LifeInv, SavedInv, AbsentIsResolution
  <2>2. CASE \E a \in applying : a.entry = r /\ outcome'[r] = Verdict(a)
    <3>1. PICK a \in applying : a.entry = r /\ outcome'[r] = Verdict(a)
      BY <2>2
    <3> QED BY <3>1 DEF LifeInv, SavedInv, AbsentIsResolution, Verdict
  <2>3. CASE outcome'[r] \in {"queued", "busy", "stopped", "blocked", "conflict", "failed", "lost"}
    BY <2>3
  <2> QED BY <2>1, <2>2, <2>3 DEF Advances, OutcomesMove
<1>4. SavedInv'
  BY <1>1, <1>2, <1>3 DEF SavedInv, Mutations
<1>5. AbsentIsResolution'
  BY <1>2, <1>3 DEF AbsentIsResolution
<1> QED BY <1>4, <1>5

(* A resolution stays behind the mutations it asks about, and what it has  *)
(* found stays true.                                                       *)
LEMMA AdvanceFence ==
  ASSUME FilesInv, LifeInv, NEW q, QueueFrom(q), Advances(q),
         NEW r \in Requests, Fenced(r)', FenceOf(r, q)
  PROVE  FenceOf(r, queue)'
<1>1. /\ r \notin Mutations /\ r # None /\ None \notin leaked'
      /\ Operation[r].resolve # None /\ Operation[r].resolve \notin astray'
  BY NoneAssumption DEF Fenced, Advances, TypesMove, EntriesMove
<1>2. \A m \in Of(r) : m \in Mutations /\ m # None /\ m # r /\ OpId[m] = Operation[r].resolve
  BY <1>1, NoneAssumption DEF Of, Mutations
<1>3. q \in Seq(Requests) /\ (\A x : In(x, queue') => In(x, q))
  BY AdvanceQueue DEF QueueFrom, Advances, EntriesMove
<1>4. receipt' = receipt
  BY LifecycleFiles DEF Advances
<1>5. \A i, j \in 1..Len(queue') : (queue'[i] = r /\ queue'[j] \in Of(r)) => j < i
  <2>1. CASE queue' = q
    BY <2>1 DEF FenceOf
  <2>2. CASE queue' = <<>>
    <3>1. Len(<<>>) = 0
      OBVIOUS
    <3> QED BY <2>2, <3>1
  <2>3. CASE q # <<>> /\ queue' = Tail(q)
    <3>1. ASSUME NEW i \in 1..Len(queue'), NEW j \in 1..Len(queue'),
                 queue'[i] = r, queue'[j] \in Of(r)
          PROVE  j < i
      <4>1. /\ i + 1 \in 1..Len(q) /\ j + 1 \in 1..Len(q)
            /\ q[i + 1] = r /\ q[j + 1] \in Of(r) /\ i \in Nat /\ j \in Nat
        BY <1>3, <2>3, <3>1, TailFacts
      <4>2. j + 1 < i + 1
        BY <4>1 DEF FenceOf
      <4> QED BY <4>1, <4>2
    <3> QED BY <3>1
  <2> QED BY <2>1, <2>2, <2>3 DEF Advances, EntriesMove, Dequeued
<1>6. ASSUME r = active', NEW m \in Of(r), In(m, queue') PROVE FALSE
  <2>1. CASE active' \in {active, None}
    BY <1>1, <1>3, <1>6, <2>1 DEF FenceOf
  <2>2. CASE q # <<>> /\ queue' = Tail(q) /\ active' = Head(q)
    <3>1. PICK i \in 1..Len(queue') : queue'[i] = m
      BY <1>6 DEF In
    <3>2. /\ i + 1 \in 1..Len(q) /\ q[i + 1] = m /\ 1 \in 1..Len(q) /\ q[1] = r /\ i \in Nat \ {0}
      BY <1>3, <1>6, <2>2, <3>1, TailFacts
    <3>3. i + 1 < 1
      BY <1>6, <3>2 DEF FenceOf
    <3> QED BY <3>2, <3>3
  <2> QED BY <2>1, <2>2 DEF Advances, EntriesMove, Dequeued
<1>7. active' \in {active, None} \/ In(active', q)
  BY <1>3, TailFacts DEF Advances, EntriesMove, Dequeued
<1>8. ASSUME Cleared(r, q) PROVE Cleared(r, queue)'
  <2>1. SUFFICES ASSUME receipt[Operation[r].resolve] = None, NEW m \in Of(r), Reachable(m, queue)'
                 PROVE  FALSE
    BY <1>4 DEF Cleared
  <2>2. ~In(m, q) /\ m \notin {active, job, timer} \cup leaked
    BY <1>8, <2>1 DEF Cleared, Reachable
  <2>3. \A a \in applying : a.entry # m
    BY <1>2, <2>1, NoneAssumption DEF LifeInv, SavedInv, Mutations
  <2>4. m # active' /\ ~In(m, queue')
    BY <1>2, <1>3, <1>7, <2>2
  <2>5. m # job'
    BY <1>2, <2>2, <2>4 DEF Advances, EntriesMove, Dequeued
  <2>6. m # timer' /\ m \notin leaked'
    BY <1>2, <2>2, <2>3 DEF Advances, EntriesMove
  <2> QED BY <2>1, <2>4, <2>5, <2>6 DEF Reachable
<1>9. (Attempted(r) \/ outcome[r] = "absent") => Cleared(r, queue)'
  BY <1>8 DEF FenceOf
<1>10. ASSUME r = job' PROVE Cleared(r, queue)'
  <2>1. CASE job' \in {None, job, timer} \cup leaked
    BY <1>1, <1>9, <1>10, <2>1 DEF Attempted
  <2>2. CASE job' \notin {None, job, timer} \cup leaked
    <3>1. job' = active' /\ timer' = None
      BY <2>2 DEF Advances, EntriesMove, Dequeued
    <3>2. ASSUME NEW m \in Of(r), Reachable(m, queue)' PROVE FALSE
      <4>1. ~In(m, queue')
        BY <1>6, <1>10, <3>1
      <4>2. m \in leaked'
        BY <1>2, <1>10, <3>1, <3>2, <4>1 DEF Reachable
      <4>3. OpId[m] \in astray'
        BY <1>2, <4>2 DEF Advances, LeakedIsAstray
      <4> QED BY <1>1, <1>2, <4>3
    <3> QED BY <3>2 DEF Cleared
  <2> QED BY <2>1, <2>2
<1>11. ASSUME (Attempted(r) \/ outcome[r] = "absent")' PROVE Cleared(r, queue)'
  <2>1. CASE r = job'
    BY <1>10, <2>1
  <2>2. CASE r = timer' \/ r \in leaked'
    BY <1>1, <1>9, <2>2 DEF Advances, EntriesMove, Attempted
  <2>3. CASE \E a \in applying' : a.entry = r
    BY <1>9, <2>3 DEF Advances, EntriesMove, Attempted
  <2>4. CASE outcome'[r] = "absent"
    BY <1>9, <2>4 DEF Advances, OutcomesMove, Attempted
  <2> QED BY <1>11, <2>1, <2>2, <2>3, <2>4 DEF Attempted
<1>12. ASSUME FoundAbsent(r)' PROVE receipt'[Operation[r].resolve] = None
  <2>1. FoundAbsent(r)
    <3>1. CASE job' = r /\ pc' = "exit" /\ answer'.kind = "ok" /\ answer'.state = "not_committed"
      BY <3>1 DEF Advances, EntriesMove, FoundAbsent
    <3>2. CASE \E a \in applying' : a.entry = r /\ a.state = "not_committed"
      BY <3>2 DEF Advances, EntriesMove, FoundAbsent
    <3>3. CASE outcome'[r] = "absent"
      BY <3>3 DEF Advances, OutcomesMove, FoundAbsent, Verdict
    <3> QED BY <1>12, <3>1, <3>2, <3>3 DEF FoundAbsent
  <2> QED BY <1>4, <2>1 DEF FenceOf
<1> QED BY <1>5, <1>6, <1>11, <1>12 DEF FenceOf

LEMMA AdvanceLife ==
  ASSUME CatalogInv, NEW q, QueueFrom(q), Advances(q),
         \A r \in Requests : Fenced(r)' => FenceOf(r, q)
  PROVE  CatalogInv' /\ CatalogBar' = CatalogBar /\ receipt' = receipt
<1>1. FilesInv' /\ CatalogBar' = CatalogBar /\ receipt' = receipt
  BY LifecycleFiles DEF CatalogInv, Advances
<1>2. LifeTypes'
  <2>1. job' \in Requests \cup {None}
    BY <1>1 DEF FilesInv, FilesTypes
  <2>2. active' \in Requests \cup {None}
    BY TailFacts DEF CatalogInv, LifeInv, LifeTypes, Advances, EntriesMove, Dequeued, QueueFrom
  <2>3. timer' \in Requests \cup {None} /\ leaked' \subseteq Requests
    <3>1. job \in Requests \cup {None} /\ \A a \in applying : a.entry \in Requests
      BY DEF CatalogInv, LifeInv, LifeTypes, Application, FilesInv, FilesTypes
    <3> QED BY <3>1 DEF CatalogInv, LifeInv, LifeTypes, Advances, EntriesMove
  <2> QED BY <2>2, <2>3 DEF Advances, TypesMove, LifeTypes
<1>3. QueueInv'
  BY AdvanceQueue DEF Advances, EntriesMove
<1>4. NewIsUntouched' /\ SavedInv' /\ AbsentIsResolution' /\ LeakedIsAstray'
  BY AdvanceNew, AdvanceSaved DEF CatalogInv, Advances
<1>5. FenceInv'
  BY AdvanceFence DEF CatalogInv, FenceInv
<1> QED BY <1>1, <1>2, <1>3, <1>4, <1>5 DEF CatalogInv, LifeInv

-----------------------------------------------------------------------------
(* The parts of the lifecycle's actions.                                   *)

(* pump and startAttempt: the attempt that follows, if any.                *)
Paced(q) ==
    /\ Lifecycle /\ Dequeued(q)
    /\ job' = None \/ timer' = None
    /\ tries' \in Nat /\ attempt' \in Attempts
    /\ attempt' = "none" <=> pc' = "off"
    /\ pc' # "exit"

LEMMA RestMoves ==
  ASSUME LifeTypes, NEW q, NEW a \in {active, None}, Rest(q, a)
  PROVE  Paced(q)
BY DEF LifeTypes, Rest, NoChild, Paced, Lifecycle, Dequeued, Attempts

LEMMA PumpMoves ==
  ASSUME LifeTypes, NEW q \in Seq(Requests), NEW a \in {active, None}, Pump(q, a), timer' = None
  PROVE  Paced(q)
<1>1. CASE a = None /\ q = <<>>
  BY <1>1, RestMoves DEF Pump
<1>2. CASE a # None
  <2>1. queue' = q /\ active' = a /\ Start(a) /\ a \in Requests
    BY <1>2 DEF Pump, LifeTypes
  <2>2. Fork(a) /\ job' = active' /\ pc' = "recover" /\ attempt' = "running"
    BY <2>1 DEF Start, Fork
  <2>3. tries' \in Nat
    BY <2>1 DEF Start, LifeTypes
  <2> QED BY <2>1, <2>2, <2>3 DEF Paced, Lifecycle, Dequeued, Attempts
<1>3. CASE a = None /\ q # <<>>
  <2>1. queue' = Tail(q) /\ active' = Head(q) /\ Start(Head(q)) /\ Head(q) \in Requests
    BY <1>3, TailFacts DEF Pump
  <2>2. Fork(Head(q)) /\ job' = active' /\ pc' = "recover" /\ attempt' = "running"
    BY <2>1 DEF Start, Fork
  <2>3. tries' \in Nat
    BY <2>1 DEF Start, LifeTypes
  <2> QED BY <1>3, <2>1, <2>2, <2>3 DEF Paced, Lifecycle, Dequeued, Attempts
<1> QED BY <1>1, <1>2, <1>3

LEMMA PumpUnlessTimerMoves ==
  ASSUME LifeTypes, NEW q \in Seq(Requests), NEW a \in {active, None},
         PumpUnlessTimer(q, a), timer' = timer
  PROVE  Paced(q)
BY RestMoves, PumpMoves DEF PumpUnlessTimer

LEMMA DequeuedIn ==
  ASSUME NEW q \in Seq(Requests), Dequeued(q), NEW x, In(x, queue')
  PROVE  In(x, q)
<1>1. CASE queue' = q
  BY <1>1
<1>2. CASE queue' = <<>>
  <2>1. Len(<<>>) = 0
    OBVIOUS
  <2> QED BY <1>2, <2>1 DEF In
<1>3. CASE q # <<>> /\ queue' = Tail(q)
  BY <1>3, TailFacts
<1> QED BY <1>1, <1>2, <1>3 DEF Dequeued

(* Settled promises.                                                       *)
LEMMA InQueue ==
  ASSUME LifeInv
  PROVE  QueueFrom(queue) /\ \A x : In(x, queue) => x \in Requests /\ outcome[x] = "queued" /\ x # active
<1>1. QueueFrom(queue)
  BY DEF LifeInv, QueueInv, QueueFrom
<1>2. ASSUME NEW x, In(x, queue) PROVE x \in Requests /\ outcome[x] = "queued" /\ x # active
  <2>1. PICK i \in 1..Len(queue) : queue[i] = x
    BY <1>2 DEF In
  <2>2. queue[i] \in Requests
    BY DEF LifeInv, QueueInv
  <2> QED BY <2>1, <2>2 DEF LifeInv, QueueInv
<1> QED BY <1>1, <1>2

LEMMA SameOutcomes ==
  ASSUME LifeInv, outcome' = outcome, \A x : In(x, queue') => In(x, queue)
  PROVE  OutcomesMove(queue) /\ outcome' \in [Requests -> Verdicts]
<1>1. outcome' \in [Requests -> Verdicts]
  BY DEF LifeInv, LifeTypes
<1>2. ASSUME NEW x \in Requests, outcome[x] = "new" PROVE ~In(x, queue)
  BY <1>2, InQueue
<1> QED BY <1>1, <1>2, InQueue DEF OutcomesMove

LEMMA SettleMoves ==
  ASSUME LifeInv, NEW S, NEW w \in {"conflict", "failed", "stopped"},
         Settle([r \in S |-> w]),
         \A x : In(x, queue') => In(x, queue) /\ x \notin S
  PROVE  OutcomesMove(queue) /\ outcome' \in [Requests -> Verdicts]
<1>1. outcome' = [r \in Requests |-> IF r \in S /\ outcome[r] = "queued" THEN w ELSE outcome[r]]
  BY DEF Settle
<1>2. outcome' \in [Requests -> Verdicts]
  BY <1>1 DEF LifeInv, LifeTypes, Verdicts
<1>3. ASSUME NEW x \in Requests
      PROVE  /\ outcome'[x] = outcome[x] \/ outcome'[x] = w
             /\ outcome'[x] = "new" => outcome[x] = "new" /\ ~In(x, queue)
             /\ In(x, queue') => outcome'[x] = "queued"
  BY <1>1, InQueue
<1> QED BY <1>2, <1>3 DEF OutcomesMove

(* The handles of timers.                                                  *)
TimersMove ==
    /\ timer' \in {None, timer, job} \cup {a.entry : a \in applying}
    /\ leaked' \subseteq (leaked \cup {timer}) \ {None}
    /\ LeakedIsAstray'

LEMMA KeepTimersMoves ==
  ASSUME LifeInv, KeepTimers
  PROVE  TimersMove
BY NoneAssumption DEF LifeInv, LifeTypes, LeakedIsAstray, KeepTimers, TimersMove

LEMMA ArmTimerMoves ==
  ASSUME LifeInv, NEW e, e = job \/ \E a \in applying : a.entry = e, ArmTimer(e)
  PROVE  TimersMove
<1>1. timer' = e /\ leaked' = leaked \cup ({timer} \ {None})
      /\ astray' = astray \cup {OpId[x] : x \in leaked' \cap Mutations}
  BY DEF ArmTimer, Leak
<1>2. LeakedIsAstray'
  BY <1>1 DEF LeakedIsAstray
<1> QED BY <1>1, <1>2, NoneAssumption DEF LifeInv, LifeTypes, TimersMove

-----------------------------------------------------------------------------
(* The actions of the lifecycle.                                           *)

Grows == fenced' = fenced /\ astray \subseteq astray'

LEMMA StepLife ==
  ASSUME CatalogInv, Advances(queue), Grows
  PROVE  CatalogInv' /\ CatalogBar' = CatalogBar /\ receipt' = receipt
<1>1. \A r \in Requests : Fenced(r)' => FenceOf(r, queue)
  BY DEF CatalogInv, LifeInv, FenceInv, Grows, Fenced
<1> QED BY <1>1, InQueue, AdvanceLife DEF CatalogInv

(* The parts of Advances, for a step after which no child has answered.    *)
LEMMA PacedAdvances ==
  ASSUME CatalogInv, Paced(queue), TimersMove, OutcomesMove(queue),
         outcome' \in [Requests -> Verdicts], applying' \subseteq applying, fenced' = fenced
  PROVE  Advances(queue)
<1>1. EntriesMove(queue)
  BY DEF Paced, TimersMove, EntriesMove
<1>2. TypesMove
  BY DEF CatalogInv, LifeInv, LifeTypes, Paced, TypesMove
<1> QED BY <1>1, <1>2 DEF Paced, TimersMove, Advances

(* ... and for one that leaves the child alone.                            *)
LEMMA IdleAdvances ==
  ASSUME CatalogInv, UNCHANGED filesVars, queue' \in {queue, <<>>}, active' \in {active, None},
         TimersMove, OutcomesMove(queue), outcome' \in [Requests -> Verdicts],
         applying' \subseteq applying, fenced' = fenced,
         tries' \in Nat, attempt' \in Attempts, attempt' = "none" <=> attempt = "none"
  PROVE  Advances(queue)
<1>1. EntriesMove(queue)
  BY DEF filesVars, Dequeued, TimersMove, EntriesMove
<1>2. TypesMove
  BY DEF CatalogInv, LifeInv, LifeTypes, TypesMove, filesVars
<1> QED BY <1>1, <1>2 DEF TimersMove, Advances, Lifecycle

LEMMA FailEntryMoves ==
  ASSUME CatalogInv, NEW e \in Requests, e = job \/ (\E a \in applying : a.entry = e), NEW kind,
         FailEntry(e, kind), applying' \subseteq applying, fenced' = fenced
  PROVE  Advances(queue) /\ Grows
<1>1. queue \in Seq(Requests) /\ LifeTypes /\ LifeInv
  BY DEF CatalogInv, LifeInv, QueueInv
<1>2. \A x : In(x, queue) => x # active
  BY <1>1, InQueue
<1>3. CASE outcome' = outcome /\ KeepTimers /\ PumpUnlessTimer(queue, active)
  <2>1. Paced(queue)
    BY <1>1, <1>3, PumpUnlessTimerMoves DEF KeepTimers
  <2>2. OutcomesMove(queue) /\ outcome' \in [Requests -> Verdicts]
    BY <1>1, <1>3, <2>1, DequeuedIn, SameOutcomes DEF Paced
  <2> QED BY <1>1, <1>3, <2>1, <2>2, KeepTimersMoves, PacedAdvances DEF Grows, KeepTimers
<1>4. ASSUME active = e, NEW w \in {"conflict", "failed"}, Settle([r \in {e} |-> w]),
             KeepTimers, PumpUnlessTimer(queue, None)
      PROVE  Advances(queue) /\ Grows
  <2>1. Paced(queue)
    BY <1>1, <1>4, PumpUnlessTimerMoves DEF KeepTimers
  <2>2. \A x : In(x, queue') => In(x, queue) /\ x \notin {e}
    BY <1>1, <1>2, <1>4, <2>1, DequeuedIn DEF Paced
  <2>3. OutcomesMove(queue) /\ outcome' \in [Requests -> Verdicts]
    BY <1>1, <1>4, <2>2, SettleMoves
  <2> QED BY <1>1, <1>4, <2>1, <2>3, KeepTimersMoves, PacedAdvances DEF Grows, KeepTimers
<1>5. CASE outcome' = outcome /\ ArmTimer(e) /\ Rest(queue, active)
  <2>1. Paced(queue)
    BY <1>1, <1>5, RestMoves
  <2>2. OutcomesMove(queue) /\ outcome' \in [Requests -> Verdicts]
    BY <1>1, <1>5, <2>1, DequeuedIn, SameOutcomes DEF Paced
  <2>3. TimersMove /\ astray \subseteq astray'
    BY <1>1, <1>5, ArmTimerMoves DEF ArmTimer, Leak
  <2> QED BY <2>1, <2>2, <2>3, PacedAdvances DEF Grows
<1> QED BY <1>3, <1>4, <1>5 DEF FailEntry

LEMMA RefusedStep ==
  ASSUME CatalogInv, NEW r \in Requests, outcome[r] = "new",
         NEW v \in {"busy", "stopped", "blocked"}, Refused(r, v)
  PROVE  Advances(queue) /\ Grows
<1>1. /\ outcome' = [outcome EXCEPT ![r] = v] /\ UNCHANGED filesVars
      /\ UNCHANGED <<queue, active, tries, attempt, timer, leaked, astray, applying, phase, fenced>>
  BY DEF Refused, filesVars
<1>2. LifeInv /\ outcome \in [Requests -> Verdicts] /\ tries \in Nat /\ attempt \in Attempts
  BY DEF CatalogInv, LifeInv, LifeTypes
<1>3. TimersMove
  BY <1>1, <1>2, KeepTimersMoves DEF KeepTimers
<1>4. outcome' \in [Requests -> Verdicts]
  BY <1>1, <1>2 DEF Verdicts
<1>5. OutcomesMove(queue)
  <2>1. ~In(r, queue)
    BY <1>2, InQueue
  <2>2. ASSUME NEW x \in Requests
        PROVE  /\ outcome'[x] = outcome[x] \/ (x = r /\ outcome'[x] = v)
               /\ outcome'[x] = "new" => outcome[x] = "new"
               /\ In(x, queue') => outcome'[x] = outcome[x]
    BY <1>1, <1>2, <2>1
  <2>3. \A x \in Requests : outcome[x] = "new" => ~In(x, queue)
    BY <1>2, InQueue
  <2>4. queue' = queue
    BY <1>1
  <2> QED BY <1>2, <2>2, <2>3, <2>4, InQueue DEF OutcomesMove
<1> QED BY <1>1, <1>2, <1>3, <1>4, <1>5, IdleAdvances DEF Grows

LEMMA ResultOkStep ==
  ASSUME CatalogInv, ResultOk
  PROVE  Advances(queue) /\ Grows
<1> DEFINE a0 == [entry |-> job, try |-> tries, snapshot |-> answer.snapshot, state |-> answer.state]
<1>1. /\ pc = "exit" /\ answer.kind = "ok" /\ applying' = applying \cup {a0}
      /\ attempt' = "none" /\ NoChild /\ job' = None /\ pc' = "off"
      /\ UNCHANGED <<queue, active, tries, timer, leaked, astray, phase, outcome, fenced>>
  BY DEF ResultOk, NoChild
<1>2. LifeInv /\ LifeTypes
  BY DEF CatalogInv, LifeInv
<1>3. a0 \in Application
  <2>1. job \in Requests /\ tries \in Nat
    BY <1>1, <1>2 DEF CatalogInv, FilesInv, FilesTypes, LifeTypes
  <2>2. answer.state \in {"committed", "not_committed", None} /\ NoJournal /\ answer.snapshot = Routes
    BY <1>1 DEF CatalogInv, FilesInv, AnswerInv
  <2>3. Readable
    BY <2>2, CommittedIsReadable DEF CatalogInv, FilesInv, NoJournal, Uncommitted
  <2>4. answer.snapshot \in Catalog
    BY <2>2, <2>3, RoutesType DEF CatalogInv, FilesInv
  <2> QED BY <2>1, <2>2, <2>4 DEF Application
<1>4. a0.entry = job /\ a0.state = answer.state
  OBVIOUS
<1> HIDE DEF a0
<1>5. TimersMove
  BY <1>1, <1>2, KeepTimersMoves DEF KeepTimers
<1>6. OutcomesMove(queue) /\ outcome' \in [Requests -> Verdicts]
  BY <1>1, <1>2, SameOutcomes
<1>7. EntriesMove(queue)
  BY <1>1, <1>4, <1>5 DEF Dequeued, EntriesMove, TimersMove
<1>8. TypesMove
  BY <1>1, <1>2, <1>3, <1>6 DEF LifeTypes, TypesMove, Attempts
<1> QED BY <1>1, <1>5, <1>6, <1>7, <1>8 DEF Advances, Lifecycle, TimersMove, Grows

LEMMA FailedStep ==
  ASSUME CatalogInv, ResultFailed \/ CancelConfirmed
  PROVE  Advances(queue) /\ Grows
<1>1. job \in Requests
  BY NoneAssumption DEF CatalogInv, FilesInv, FilesTypes, LifeInv, LifeTypes, ResultFailed, CancelConfirmed
<1>2. UNCHANGED <<applying, fenced>> /\ (FailEntry(job, answer.kind) \/ FailEntry(job, "timeout"))
  BY DEF ResultFailed, CancelConfirmed
<1> QED BY <1>1, <1>2, FailEntryMoves

LEMMA DeadlineStep ==
  ASSUME CatalogInv, Deadline
  PROVE  Advances(queue) /\ Grows
<1>1. /\ attempt # "none" /\ attempt' = "cancelling" /\ UNCHANGED filesVars
      /\ UNCHANGED <<queue, active, tries, timer, leaked, astray, applying, phase, outcome, fenced>>
  BY DEF Deadline, filesVars
<1>2. LifeInv /\ tries \in Nat
  BY DEF CatalogInv, LifeInv, LifeTypes
<1>3. TimersMove /\ OutcomesMove(queue) /\ outcome' \in [Requests -> Verdicts]
  BY <1>1, <1>2, KeepTimersMoves, SameOutcomes DEF KeepTimers
<1> QED BY <1>1, <1>2, <1>3, IdleAdvances DEF Grows, Attempts

LEMMA CancelUnconfirmedStep ==
  ASSUME CatalogInv, CancelUnconfirmed
  PROVE  Advances(queue) /\ Grows
<1> DEFINE S == {job} \cup {queue[i] : i \in 1..Len(queue)}
<1>1. /\ attempt # "none" /\ attempt' = "blocked" /\ UNCHANGED filesVars
      /\ Settle([r \in S |-> "failed"])
      /\ queue' = <<>> /\ active' = None /\ tries' = 0
      /\ UNCHANGED <<timer, leaked, astray, applying, phase, fenced>>
  BY DEF CancelUnconfirmed, filesVars
<1> HIDE DEF S
<1>2. LifeInv /\ Dequeued(queue)
  BY <1>1 DEF CatalogInv, Dequeued, filesVars
<1>3. \A x : ~In(x, queue')
  <2>1. Len(<<>>) = 0
    OBVIOUS
  <2> QED BY <1>1, <2>1 DEF In
<1>4. TimersMove /\ OutcomesMove(queue) /\ outcome' \in [Requests -> Verdicts]
  BY <1>1, <1>2, <1>3, KeepTimersMoves, SettleMoves DEF KeepTimers
<1> QED BY <1>1, <1>4, IdleAdvances DEF Grows, Attempts

LEMMA EndStep ==
  ASSUME CatalogInv, LateExit \/ StopDone
  PROVE  Advances(queue) /\ Grows
<1>1. /\ attempt' = "none" /\ NoChild /\ applying' \in {applying, {}}
      /\ UNCHANGED <<queue, active, tries, timer, leaked, astray, outcome, fenced>>
  BY DEF LateExit, StopDone
<1>2. LifeInv /\ tries \in Nat /\ applying' \subseteq applying
  BY <1>1 DEF CatalogInv, LifeInv, LifeTypes
<1>3. TimersMove /\ OutcomesMove(queue) /\ outcome' \in [Requests -> Verdicts]
  BY <1>1, <1>2, KeepTimersMoves, SameOutcomes DEF KeepTimers
<1>4. Paced(queue)
  BY <1>1, <1>2 DEF Paced, Lifecycle, Dequeued, NoChild, Attempts
<1> QED BY <1>1, <1>2, <1>3, <1>4, PacedAdvances DEF Grows

(* A timer fires: its entry is attempted, unless an attempt is there.      *)
LEMMA TimerStep ==
  ASSUME CatalogInv, NEW e \in (leaked \cup {timer}) \ {None},
         timer' = None, TimersMove, astray \subseteq astray',
         active' = active, StartUnlessBusy(e), UNCHANGED <<queue, applying, phase, outcome, fenced>>
  PROVE  Advances(queue) /\ Grows
<1>1. LifeInv /\ LifeTypes /\ e \in Requests
  BY DEF CatalogInv, LifeInv, LifeTypes
<1>2. OutcomesMove(queue) /\ outcome' \in [Requests -> Verdicts]
  BY <1>1, SameOutcomes
<1>3. CASE attempt = "none"
  <2>1. Fork(e) /\ job' = e /\ pc' = "recover" /\ attempt' = "running" /\ tries' \in Nat
    BY <1>1, <1>3 DEF StartUnlessBusy, Start, Fork, LifeTypes
  <2>2. Paced(queue)
    BY <1>1, <2>1 DEF Paced, Lifecycle, Dequeued, Attempts
  <2> QED BY <1>2, <2>2, PacedAdvances DEF Grows
<1>4. CASE attempt # "none"
  <2>1. UNCHANGED filesVars /\ UNCHANGED <<tries, attempt>>
    BY <1>4 DEF StartUnlessBusy, filesVars
  <2>2. tries' \in Nat /\ attempt' \in Attempts
    BY <1>1, <2>1 DEF LifeTypes
  <2> QED BY <1>2, <2>1, <2>2, IdleAdvances DEF Grows
<1> QED BY <1>3, <1>4

LEMMA RetryTimerStep ==
  ASSUME CatalogInv, RetryTimer
  PROVE  Advances(queue) /\ Grows
<1>1. LifeInv
  BY DEF CatalogInv
<1>2. TimersMove /\ timer' = None /\ astray' = astray
  BY <1>1, NoneAssumption DEF RetryTimer, TimersMove, LifeInv, LifeTypes, LeakedIsAstray
<1> QED BY <1>2, TimerStep DEF RetryTimer

LEMMA LeakedTimerStep ==
  ASSUME CatalogInv, NEW e \in leaked, LeakedTimer(e)
  PROVE  Advances(queue) /\ Grows
<1>1. timer' = None /\ leaked' = (leaked \ {e}) \cup ({timer} \ {None})
      /\ astray' = astray \cup {OpId[x] : x \in leaked' \cap Mutations}
  BY DEF LeakedTimer, Leak
<1>2. LeakedIsAstray'
  BY <1>1 DEF LeakedIsAstray
<1>3. TimersMove /\ astray \subseteq astray' /\ e # None
  BY <1>1, <1>2, NoneAssumption DEF TimersMove, CatalogInv, LifeInv, LifeTypes
<1> QED BY <1>1, <1>3, TimerStep DEF LeakedTimer

LEMMA AppliedStep ==
  ASSUME CatalogInv, NEW a \in applying, Applied(a)
  PROVE  Advances(queue) /\ Grows
<1>1. applying' = applying \ {a} /\ UNCHANGED <<timer, leaked, astray, phase, fenced>>
  BY DEF Applied
<1>2. LifeInv /\ LifeTypes /\ TimersMove /\ queue \in Seq(Requests)
  BY <1>1, KeepTimersMoves DEF CatalogInv, LifeInv, QueueInv, KeepTimers
<1>3. CASE active # a.entry
  <2>1. UNCHANGED <<outcome, queue, active, tries, attempt>> /\ UNCHANGED filesVars
    BY <1>3 DEF Applied, filesVars
  <2>2. OutcomesMove(queue) /\ outcome' \in [Requests -> Verdicts]
    BY <1>2, <2>1, SameOutcomes
  <2>3. tries' \in Nat /\ attempt' \in Attempts
    BY <1>2, <2>1 DEF LifeTypes
  <2> QED BY <1>1, <1>2, <2>1, <2>2, <2>3, IdleAdvances DEF Grows
<1>4. CASE active = a.entry
  <2>1. Settle([r \in {a.entry} |-> Verdict(a)])
    BY <1>4 DEF Applied
  <2>2. ASSUME Dequeued(queue)
        PROVE  OutcomesMove(queue) /\ outcome' \in [Requests -> Verdicts]
    <3>1. outcome' = [r \in Requests |-> IF r = a.entry /\ outcome[r] = "queued"
                                           THEN Verdict(a) ELSE outcome[r]]
      BY <2>1 DEF Settle
    <3>2. outcome' \in [Requests -> Verdicts]
      BY <1>2, <3>1 DEF LifeTypes, Verdicts, Verdict
    <3>3. ASSUME NEW x \in Requests
          PROVE  /\ outcome'[x] = outcome[x] \/ (a.entry = x /\ outcome'[x] = Verdict(a))
                 /\ outcome'[x] = "new" => outcome[x] = "new" /\ ~In(x, queue)
                 /\ In(x, queue') => outcome'[x] = "queued"
      BY <1>2, <1>4, <2>2, <3>1, InQueue, DequeuedIn DEF Verdict
    <3> QED BY <3>2, <3>3 DEF OutcomesMove
  <2>3. CASE attempt = "none" /\ timer = None
    <3>1. Paced(queue)
      <4>1. Pump(queue, None) /\ timer' = None
        BY <1>1, <1>4, <2>3 DEF Applied
      <4> QED BY <1>2, <4>1, PumpMoves
    <3> QED BY <1>1, <1>2, <2>2, <3>1, PacedAdvances DEF Paced, Grows
  <2>4. CASE ~(attempt = "none" /\ timer = None)
    <3>1. active' = None /\ tries' = 0 /\ UNCHANGED <<queue, attempt>> /\ UNCHANGED filesVars
      BY <1>4, <2>4 DEF Applied, filesVars
    <3>2. Dequeued(queue) /\ attempt' \in Attempts
      BY <1>2, <3>1 DEF Dequeued, filesVars, LifeTypes
    <3> QED BY <1>1, <1>2, <2>2, <3>1, <3>2, IdleAdvances DEF Grows
  <2> QED BY <2>3, <2>4
<1> QED BY <1>3, <1>4

LEMMA ApplyFailsStep ==
  ASSUME CatalogInv, NEW a \in applying, ApplyFails(a)
  PROVE  Advances(queue) /\ Grows
<1>1. applying' = applying \ {a} /\ fenced' = fenced
  BY DEF ApplyFails
<1>2. LifeInv /\ LifeTypes /\ a.entry \in Requests
  BY DEF CatalogInv, LifeInv, LifeTypes, Application
<1>3. CASE active = a.entry /\ attempt = "none" /\ timer = None
  <2>1. FailEntry(a.entry, "apply")
    BY <1>3 DEF ApplyFails
  <2> QED BY <1>1, <1>2, <2>1, FailEntryMoves
<1>4. CASE ~(active = a.entry /\ attempt = "none" /\ timer = None)
  <2>1. UNCHANGED filesVars /\ UNCHANGED <<queue, attempt>>
    BY <1>4 DEF ApplyFails, filesVars
  <2>2. attempt' \in Attempts /\ \A x : In(x, queue') => In(x, queue)
    BY <1>2, <2>1 DEF LifeTypes
  <2>3. CASE active = a.entry /\ MayRetry(a.entry)
    <3>1. ArmTimer(a.entry) /\ UNCHANGED <<outcome, active, tries>>
      BY <1>4, <2>3 DEF ApplyFails
    <3>2. TimersMove /\ astray \subseteq astray'
      BY <1>2, <3>1, ArmTimerMoves DEF ArmTimer, Leak
    <3>3. OutcomesMove(queue) /\ outcome' \in [Requests -> Verdicts] /\ tries' \in Nat
      BY <1>2, <2>2, <3>1, SameOutcomes DEF LifeTypes
    <3> QED BY <1>1, <2>1, <2>2, <3>1, <3>2, <3>3, IdleAdvances DEF Grows
  <2>4. CASE active = a.entry /\ ~MayRetry(a.entry)
    <3>1. Settle([r \in {a.entry} |-> "failed"]) /\ active' = None /\ tries' = 0 /\ KeepTimers
      BY <1>4, <2>4 DEF ApplyFails
    <3>2. \A x : In(x, queue') => In(x, queue) /\ x \notin {a.entry}
      BY <1>2, <2>2, <2>4, InQueue
    <3>3. OutcomesMove(queue) /\ outcome' \in [Requests -> Verdicts]
      BY <1>2, <3>1, <3>2, SettleMoves
    <3>4. TimersMove /\ astray' = astray
      BY <1>2, <3>1, KeepTimersMoves DEF KeepTimers
    <3> QED BY <1>1, <2>1, <2>2, <3>1, <3>3, <3>4, IdleAdvances DEF Grows
  <2>5. CASE active # a.entry
    <3>1. KeepTimers /\ UNCHANGED <<outcome, active, tries>>
      BY <1>4, <2>5 DEF ApplyFails
    <3>2. TimersMove /\ astray' = astray
      BY <1>2, <3>1, KeepTimersMoves DEF KeepTimers
    <3>3. OutcomesMove(queue) /\ outcome' \in [Requests -> Verdicts] /\ tries' \in Nat
      BY <1>2, <2>2, <3>1, SameOutcomes DEF LifeTypes
    <3> QED BY <1>1, <2>1, <2>2, <3>1, <3>2, <3>3, IdleAdvances DEF Grows
  <2> QED BY <2>3, <2>4, <2>5
<1> QED BY <1>3, <1>4

LEMMA StopStep ==
  ASSUME CatalogInv, Stop
  PROVE  Advances(queue) /\ Grows
<1> DEFINE S == {active} \cup {queue[i] : i \in 1..Len(queue)}
<1>1. /\ timer' = None /\ queue' = <<>> /\ active' = None /\ tries' = 0
      /\ Settle([r \in S |-> "stopped"])
      /\ attempt' = (IF attempt = "running" THEN "cancelling" ELSE attempt)
      /\ UNCHANGED filesVars /\ UNCHANGED <<leaked, astray, applying, fenced>>
  BY DEF Stop, filesVars
<1> HIDE DEF S
<1>2. LifeInv /\ attempt' \in Attempts /\ (attempt' = "none" <=> attempt = "none")
  BY <1>1 DEF CatalogInv, LifeInv, LifeTypes, Attempts
<1>3. \A x : ~In(x, queue')
  <2>1. Len(<<>>) = 0
    OBVIOUS
  <2> QED BY <1>1, <2>1 DEF In
<1>4. OutcomesMove(queue) /\ outcome' \in [Requests -> Verdicts]
  BY <1>1, <1>2, <1>3, SettleMoves
<1>5. TimersMove
  BY <1>1, <1>2, NoneAssumption DEF TimersMove, LifeInv, LifeTypes, LeakedIsAstray
<1> QED BY <1>1, <1>2, <1>4, <1>5, IdleAdvances DEF Grows

LEMMA RestartStep ==
  ASSUME CatalogInv, Restart
  PROVE  Advances(queue) /\ Grows
<1>1. /\ queue' = <<>> /\ active' = None /\ timer' = None /\ leaked' = {}
      /\ attempt' = "none" /\ NoChild /\ applying' = {} /\ tries' = 0
      /\ outcome' = [r \in Requests |-> IF outcome[r] = "queued" THEN "lost" ELSE outcome[r]]
      /\ UNCHANGED <<astray, fenced>>
  BY DEF Restart
<1>2. LifeInv /\ outcome \in [Requests -> Verdicts]
  BY DEF CatalogInv, LifeInv, LifeTypes
<1>3. \A x : ~In(x, queue')
  <2>1. Len(<<>>) = 0
    OBVIOUS
  <2> QED BY <1>1, <2>1 DEF In
<1>4. outcome' \in [Requests -> Verdicts]
  BY <1>1, <1>2 DEF Verdicts
<1>5. OutcomesMove(queue)
  BY <1>1, <1>2, <1>3, InQueue DEF OutcomesMove
<1>6. TimersMove
  BY <1>1 DEF TimersMove, LeakedIsAstray
<1>7. Paced(queue)
  BY <1>1 DEF Paced, Lifecycle, Dequeued, NoChild, Attempts
<1> QED BY <1>1, <1>4, <1>5, <1>6, <1>7, PacedAdvances DEF Grows

LEMMA AppendFacts ==
  ASSUME NEW q \in Seq(Requests), NEW r \in Requests
  PROVE  /\ Append(q, r) \in Seq(Requests) /\ Len(q) \in Nat /\ Len(Append(q, r)) = Len(q) + 1
         /\ Append(q, r)[Len(q) + 1] = r
         /\ \A i \in 1..Len(q) : Append(q, r)[i] = q[i]
         /\ \A i \in 1..Len(Append(q, r)) : i \in 1..Len(q) \/ i = Len(q) + 1
OBVIOUS

LEMMA EnqueueStep ==
  ASSUME CatalogInv, NEW r \in Requests, Enqueue(r)
  PROVE  CatalogInv' /\ CatalogBar' = CatalogBar /\ receipt' = receipt
<1> DEFINE q == Append(queue, r)
<1>1. /\ outcome[r] = "new" /\ outcome' = [outcome EXCEPT ![r] = "queued"]
      /\ fenced' = (IF r \in Mutations THEN {s \in fenced : Operation[s].resolve # OpId[r]}
                    ELSE fenced \cup {r})
      /\ UNCHANGED <<timer, leaked, astray, applying>>
  BY DEF Enqueue, Submitted, SubmittedAs
<1>2. LifeInv /\ LifeTypes /\ queue \in Seq(Requests) /\ QueueFrom(queue)
      /\ \A x : In(x, queue) => x \in Requests /\ outcome[x] = "queued" /\ x # active
  BY InQueue DEF CatalogInv, LifeInv, QueueInv
<1>3. Untouched(r)
  BY <1>1, <1>2 DEF LifeInv, NewIsUntouched
<1>4. /\ q \in Seq(Requests) /\ Len(queue) \in Nat /\ Len(q) = Len(queue) + 1
      /\ q[Len(queue) + 1] = r
      /\ \A i \in 1..Len(queue) : q[i] = queue[i]
      /\ \A i \in 1..Len(q) : i \in 1..Len(queue) \/ i = Len(queue) + 1
  BY <1>2, AppendFacts
<1>5. Paced(q) \/ (UNCHANGED filesVars /\ UNCHANGED <<active, tries, attempt>> /\ queue' = q)
  <2>1. CASE attempt = "none" /\ timer = None
    <3>1. Pump(q, active) /\ timer' = None
      BY <1>1, <2>1 DEF Enqueue, Submitted, SubmittedAs
    <3> QED BY <1>2, <1>4, <3>1, PumpMoves
  <2>2. CASE ~(attempt = "none" /\ timer = None)
    BY <2>2 DEF Enqueue, Submitted, SubmittedAs, filesVars
  <2> QED BY <2>1, <2>2
<1> HIDE DEF q
<1>6. \A i \in 1..Len(queue) : queue[i] # r
  BY <1>3 DEF Untouched, Waiting, In
<1>7. QueueFrom(q)
  <2>1. \A i, j \in 1..Len(q) : q[i] = q[j] => i = j
    BY <1>2, <1>4, <1>6 DEF QueueFrom
  <2>2. \A i \in 1..Len(q) : q[i] # active
    BY <1>2, <1>3, <1>4 DEF QueueFrom, Untouched
  <2> QED BY <1>4, <2>1, <2>2 DEF QueueFrom
<1>8. \A x : In(x, q) => In(x, queue) \/ x = r
  BY <1>4 DEF In
<1>9. Dequeued(q) /\ \A x : In(x, queue') => In(x, q)
  <2>1. Dequeued(q)
    BY <1>5 DEF Paced, Dequeued, filesVars
  <2> QED BY <1>4, <2>1, DequeuedIn
<1>10. outcome' \in [Requests -> Verdicts] /\ outcome'[r] = "queued"
       /\ \A x \in Requests \ {r} : outcome'[x] = outcome[x]
  BY <1>1, <1>2 DEF LifeTypes, Verdicts
<1>11. OutcomesMove(q)
  BY <1>2, <1>8, <1>9, <1>10 DEF OutcomesMove
<1>12. TimersMove
  BY <1>1, <1>2, KeepTimersMoves DEF KeepTimers
<1>13. \A x \in fenced' : x \in fenced \/ x = r
  BY <1>1
<1>14. EntriesMove(q)
  BY <1>1, <1>5, <1>9, <1>10, <1>12, <1>13 DEF EntriesMove, TimersMove, Paced, filesVars
<1>15. TypesMove /\ Lifecycle
  BY <1>1, <1>2, <1>5, <1>10 DEF TypesMove, LifeTypes, Paced, filesVars, Lifecycle
<1>16. Advances(q)
  BY <1>11, <1>12, <1>14, <1>15 DEF Advances, TimersMove
<1>17. ASSUME NEW x \in Requests, Fenced(x)' PROVE FenceOf(x, q)
  <2>1. x \in fenced' /\ Operation[x].resolve # None /\ Operation[x].resolve \notin astray
    BY <1>1, <1>17 DEF Fenced
  <2>2. CASE x = r
    <3>1. ~Attempted(r) /\ ~FoundAbsent(r) /\ r # active /\ outcome[r] # "absent"
      BY <1>1, <1>3 DEF Untouched, Attempted, FoundAbsent
    <3>2. r \notin Mutations
      BY <1>1, <1>3, <2>1, <2>2 DEF Untouched
    <3>3. \A i, j \in 1..Len(q) : (q[i] = r /\ q[j] \in Of(r)) => j < i
      BY <1>4, <1>6, <3>2 DEF Of
    <3> QED BY <2>2, <3>1, <3>3 DEF FenceOf
  <2>3. CASE x # r
    <3>1. x \in fenced /\ r \notin Of(x)
      BY <1>1, <2>1, <2>3 DEF Of
    <3>2. FenceOf(x, queue)
      BY <1>2, <2>1, <3>1 DEF LifeInv, FenceInv, Fenced
    <3>3. \A m \in Of(x) : In(m, q) => In(m, queue)
      BY <1>8, <3>1
    <3>4. \A i, j \in 1..Len(q) : (q[i] = x /\ q[j] \in Of(x)) => j < i
      BY <1>4, <2>3, <3>1, <3>2 DEF FenceOf
    <3>5. Cleared(x, queue) => Cleared(x, q)
      BY <3>3 DEF Cleared, Reachable
    <3> QED BY <3>2, <3>3, <3>4, <3>5 DEF FenceOf
  <2> QED BY <2>2, <2>3
<1> QED BY <1>7, <1>16, <1>17, AdvanceLife

-----------------------------------------------------------------------------
(* The steps of the child and of the role owner, seen from the lifecycle.  *)

ReceiptsMove == receipt' = receipt \/ CommitReceipt

(* An answer "not_committed" is given only when there is no receipt.       *)
AnswersMove ==
    pc' = "exit" /\ answer'.kind = "ok" /\ answer'.state = "not_committed" =>
        \/ pc' = pc /\ answer' = answer
        \/ receipt'[Operation[job].resolve] = None

LEMMA ChildLife ==
  ASSUME CatalogInv, FilesInv', UNCHANGED lifecycleVars, job' = job, pc' = "off" <=> pc = "off",
         ReceiptsMove, AnswersMove
  PROVE  LifeInv'
<1> USE DEF lifecycleVars
<1>1. LifeInv /\ FilesInv
  BY DEF CatalogInv
<1>2. /\ \A o \in OpIds : receipt[o] # None => receipt'[o] = receipt[o]
      /\ \A o \in OpIds : receipt'[o] = receipt[o]
                          \/ (o = OpId[job] /\ job \in Mutations)
  <2>1. CASE CommitReceipt
    <3>1. Journaled /\ receipt[OpId[job]] = None
      BY <1>1, <2>1 DEF FilesInv, ChildInv, CommitReceipt
    <3>2. receipt' = [receipt EXCEPT ![OpId[job]] = Operation[job]]
      BY <2>1 DEF CommitReceipt
    <3>3. receipt \in [OpIds -> {Operation[r] : r \in Requests} \cup {None}]
      BY <1>1 DEF FilesInv, FilesTypes
    <3> QED BY <3>1, <3>2, <3>3 DEF Journaled
  <2> QED BY <2>1 DEF ReceiptsMove
<1>3. \A r \in Requests : OpId[r] \in OpIds /\ Operation[r] # None
  BY RouteCatalogAssumption, NoneAssumption
<1>4. LifeTypes'
  BY <1>1 DEF LifeInv, LifeTypes
<1>5. QueueInv' /\ NewIsUntouched' /\ LeakedIsAstray' /\ AbsentIsResolution'
  BY <1>1 DEF LifeInv, QueueInv, NewIsUntouched, Untouched, Waiting, In, LeakedIsAstray,
              AbsentIsResolution
<1>6. SavedInv'
  <2>1. \A a \in applying : a.entry \in Requests
    BY <1>1 DEF LifeInv, LifeTypes, Application
  <2> QED BY <1>1, <1>2, <1>3, <2>1 DEF LifeInv, SavedInv, Mutations
<1>7. ASSUME NEW r \in Requests, Fenced(r)' PROVE FenceOf(r, queue)'
  <2>1. Fenced(r) /\ FenceOf(r, queue)
    BY <1>1, <1>7 DEF LifeInv, FenceInv, Fenced
  <2>2. Operation[r].resolve \in OpIds
    BY <1>1, <2>1, RouteCatalogAssumption DEF Fenced, LifeInv, LifeTypes, Mutations
  <2>3. (Attempted(r) \/ outcome[r] = "absent") <=> (Attempted(r) \/ outcome[r] = "absent")'
    BY DEF Attempted
  <2>4. Cleared(r, queue) => Cleared(r, queue)'
    BY <1>2, <2>2 DEF Cleared, Reachable, In
  <2>5. ASSUME FoundAbsent(r)' PROVE receipt'[Operation[r].resolve] = None
    <3>1. CASE FoundAbsent(r)
      <4>1. receipt[Operation[r].resolve] = None /\ Cleared(r, queue)
        BY <2>1, <3>1 DEF FenceOf, FoundAbsent, Attempted
      <4>2. job \notin Of(r)
        BY <4>1 DEF Cleared, Reachable
      <4> QED BY <1>2, <2>2, <4>1, <4>2 DEF Of
    <3>2. CASE ~FoundAbsent(r)
      <4>1. job = r /\ pc' = "exit" /\ answer'.kind = "ok" /\ answer'.state = "not_committed"
        BY <2>5, <3>2 DEF FoundAbsent
      <4>2. ~(pc' = pc /\ answer' = answer)
        BY <3>2, <4>1 DEF FoundAbsent
      <4> QED BY <4>1, <4>2 DEF AnswersMove
    <3> QED BY <3>1, <3>2
  <2>6. \A m : In(m, queue) <=> In(m, queue)'
    BY DEF In
  <2>7. \A i, j \in 1..Len(queue) : (queue[i] = r /\ queue[j] \in Of(r)) => j < i
    BY <2>1 DEF FenceOf
  <2> QED BY <2>1, <2>3, <2>4, <2>5, <2>6, <2>7 DEF FenceOf
<1>8. FenceInv'
  BY <1>7 DEF FenceInv
<1> QED BY <1>4, <1>5, <1>6, <1>8 DEF LifeInv

LEMMA ChildActionStep ==
  ASSUME CatalogInv, Child
  PROVE  CatalogInv' /\ \/ CatalogBar' = CatalogBar /\ receipt' = receipt
                        \/ job \in Mutations /\ Atomic!Commit(job)
<1>1. FilesInv /\ ChildStep /\ UNCHANGED lifecycleVars
  BY DEF CatalogInv, Child
<1>2. /\ FilesInv' /\ job' = job /\ pc # "off" /\ pc' # "off"
      /\ \/ CatalogBar' = CatalogBar /\ receipt' = receipt
         \/ CommitReceipt /\ Atomic!Commit(job)
      /\ pc' = "exit" => Begin \/ Cleanup \/ RolledBack
  BY <1>1, ChildStepFiles
<1>3. AnswersMove
  <2>1. CASE Begin
    <3>1. receipt' = receipt
      BY <2>1 DEF Begin
    <3>2. answer' = answer \/ answer' \in {Answer("failed", None, None), Answer("conflict", None, None)}
          \/ answer' = Answer("ok", Routes, None)
          \/ answer' = Answer("ok", Routes, Resolved)
      BY <2>1 DEF Begin, Snapshot, Exit, Goto
    <3>3. Resolved = "not_committed" => receipt[Operation[job].resolve] = None
      BY NoneAssumption DEF Resolved
    <3>4. pc' = "exit" => answer' # answer \/ \/ answer' = Answer("ok", Routes, None)
                                             \/ answer' = Answer("ok", Routes, Resolved)
                                             \/ answer'.kind # "ok"
      BY <2>1 DEF Begin, Snapshot, Exit, Goto, Answer
    <3> QED BY <3>1, <3>2, <3>3, <3>4, NoneAssumption DEF AnswersMove, Answer
  <2>2. CASE Cleanup
    BY <2>2, NoneAssumption DEF Cleanup, Snapshot, Exit, Answer, AnswersMove
  <2>3. CASE RolledBack
    BY <2>3 DEF RolledBack, Exit, Answer, AnswersMove
  <2> QED BY <1>2, <2>1, <2>2, <2>3 DEF AnswersMove
<1>4. LifeInv'
  BY <1>1, <1>2, <1>3, ChildLife DEF ReceiptsMove
<1>5. CommitReceipt => job \in Mutations
  BY <1>1 DEF CommitReceipt, FilesInv, ChildInv, Journaled
<1> QED BY <1>2, <1>4, <1>5 DEF CatalogInv

LEMMA ChildEndsStep ==
  ASSUME CatalogInv, ChildFails \/ ChildDies
  PROVE  CatalogInv' /\ CatalogBar' = CatalogBar /\ receipt' = receipt
<1>1. FilesInv /\ (Throws \/ Killed) /\ UNCHANGED lifecycleVars
  BY DEF CatalogInv, ChildFails, ChildDies
<1>2. FilesInv' /\ CatalogBar' = CatalogBar
  BY <1>1, ThrowsFiles, KilledFiles
<1>3. receipt' = receipt /\ job' = job /\ pc # "off" /\ pc' # "off"
  BY <1>1 DEF Throws, Killed, Closed, Exit, Goto
<1>4. AnswersMove
  BY <1>1 DEF Throws, Killed, Exit, Goto, Answer, AnswersMove
<1>5. LifeInv'
  BY <1>1, <1>2, <1>3, <1>4, ChildLife DEF ReceiptsMove
<1> QED BY <1>2, <1>3, <1>5 DEF CatalogInv

LEMMA RoleSaveStep ==
  ASSUME CatalogInv, NEW x \in Roles, NEW v \in RoleContents, RoleSave(x, v)
  PROVE  CatalogInv' /\ CatalogBar' = CatalogBar /\ receipt' = receipt
<1>1. FilesInv' /\ CatalogBar' = CatalogBar
  BY RoleSaveFiles DEF CatalogInv
<1>2. UNCHANGED <<receipt, job, pc, answer>> /\ UNCHANGED lifecycleVars
  BY DEF RoleSave
<1>3. AnswersMove
  BY <1>2 DEF AnswersMove
<1>4. LifeInv'
  BY <1>1, <1>2, <1>3, ChildLife DEF ReceiptsMove
<1> QED BY <1>1, <1>2, <1>4 DEF CatalogInv

-----------------------------------------------------------------------------
(* The theorems.                                                           *)

LEMMA CatalogInit ==
  ASSUME Init
  PROVE  CatalogInv /\ Atomic!Init
<1> USE DEF Init, FilesInit
<1>1. FilesTypes
  BY RouteCatalogAssumption DEF FilesTypes, PCs
<1>2. JournalInv /\ ChildInv /\ AnswerInv /\ Uncommitted = {}
  BY DEF JournalInv, ChildInv, AnswerInv, Uncommitted
<1>3. TornIsCovered
  BY RouteCatalogAssumption DEF TornIsCovered, Targets
<1>4. LifeTypes
  BY DEF LifeTypes, Attempts, Verdicts, Mutations
<1>5. QueueInv
  BY DEF QueueInv
<1>6. ASSUME NEW r \in Requests PROVE Untouched(r)
  <2>1. Len(<<>>) = 0
    OBVIOUS
  <2> QED BY <2>1, NoneAssumption DEF Untouched, Waiting, In
<1>7. NewIsUntouched /\ SavedInv /\ LeakedIsAstray /\ AbsentIsResolution /\ FenceInv
  BY <1>6 DEF NewIsUntouched, SavedInv, LeakedIsAstray, AbsentIsResolution, FenceInv, Fenced, Mutations
<1>8. Atomic!Init
  BY <1>2 DEF Atomic!Init, CatalogBar, Routes
<1> QED BY <1>1, <1>2, <1>3, <1>4, <1>5, <1>7, <1>8 DEF CatalogInv, FilesInv, LifeInv

(* Every step keeps the invariant, and is a step of AtomicCatalog or none. *)
LEMMA CatalogStep ==
  ASSUME CatalogInv, [Next]_vars
  PROVE  /\ CatalogInv'
         /\ [Atomic!Next]_<<CatalogBar, receipt>>
<1>1. CASE \E r \in Requests : Enqueue(r)
  BY <1>1, EnqueueStep
<1>2. CASE \E r \in Requests : EnqueueBusy(r) \/ EnqueueStopped(r) \/ EnqueueBlocked(r)
  BY <1>2, RefusedStep, StepLife DEF EnqueueBusy, EnqueueStopped, EnqueueBlocked
<1>3. CASE ResultOk \/ ResultFailed \/ Deadline \/ CancelConfirmed \/ CancelUnconfirmed
           \/ LateExit \/ RetryTimer \/ Stop \/ StopDone \/ Restart
  BY <1>3, ResultOkStep, FailedStep, DeadlineStep, CancelUnconfirmedStep, EndStep, RetryTimerStep,
     StopStep, RestartStep, StepLife
<1>4. CASE \E e \in leaked : LeakedTimer(e)
  BY <1>4, LeakedTimerStep, StepLife
<1>5. CASE \E a \in applying : Applied(a) \/ ApplyFails(a)
  BY <1>5, AppliedStep, ApplyFailsStep, StepLife
<1>6. CASE Child
  BY <1>6, ChildActionStep DEF Atomic!Next
<1>7. CASE ChildFails \/ ChildDies
  BY <1>7, ChildEndsStep
<1>8. CASE \E x \in Roles, v \in RoleContents : RoleSave(x, v)
  BY <1>8, RoleSaveStep
<1>9. CASE UNCHANGED vars
  <2>1. UNCHANGED filesVars /\ UNCHANGED lifecycleVars
    BY <1>9 DEF vars
  <2>2. FilesInv' /\ CatalogBar' = CatalogBar
    BY <2>1, SameFiles DEF CatalogInv
  <2>3. UNCHANGED <<receipt, job, pc, answer>>
    BY <2>1 DEF filesVars
  <2>4. LifeInv'
    BY <2>1, <2>2, <2>3, ChildLife DEF ReceiptsMove, AnswersMove
  <2> QED BY <2>2, <2>3, <2>4 DEF CatalogInv
<1> QED BY <1>1, <1>2, <1>3, <1>4, <1>5, <1>6, <1>7, <1>8, <1>9 DEF Next

(* The invariant, for every run.                                           *)
THEOREM CatalogInvariant == Spec => []CatalogInv
<1>1. Init => CatalogInv
  BY CatalogInit
<1>2. CatalogInv /\ [Next]_vars => CatalogInv'
  BY CatalogStep
<1> QED BY <1>1, <1>2, PTL DEF Spec

(* AnswersAreTrue: a mutation reported saved has its receipt, a snapshot   *)
(* reported by a child is a committed catalog, and an operation reported   *)
(* absent stays so unless a timer of it went astray, whatever was killed,  *)
(* retried, overtaken or restarted.                                        *)
THEOREM CatalogAnswersAreTrue == Spec => []AnswersAreTrue
<1>1. ASSUME CatalogInv PROVE AnswersAreTrue
  <2>1. TypeOK
    BY <1>1, NoneAssumption DEF CatalogInv, FilesInv, FilesTypes, ChildInv, Journaled, LifeInv,
       LifeTypes, QueueInv, TypeOK
  <2>2. SavedIsCommitted
    BY <1>1 DEF CatalogInv, LifeInv, SavedInv, SavedIsCommitted
  <2>3. SnapshotIsCommitted
    BY <1>1 DEF CatalogInv, FilesInv, AnswerInv, NoJournal, SnapshotIsCommitted, CatalogBar, Uncommitted
  <2>4. AbsenceIsFinal
    <3>1. SUFFICES ASSUME NEW r \in fenced, outcome[r] = "absent", Operation[r].resolve \notin astray
                   PROVE  receipt[Operation[r].resolve] = None
      BY DEF AbsenceIsFinal
    <3>2. r \in Requests /\ Operation[r].resolve # None
      BY <1>1, <3>1 DEF CatalogInv, LifeInv, LifeTypes, AbsentIsResolution
    <3> QED BY <1>1, <3>1, <3>2 DEF CatalogInv, LifeInv, FenceInv, Fenced, FenceOf, FoundAbsent
  <2> QED BY <2>1, <2>2, <2>3, <2>4 DEF AnswersAreTrue
<1> QED BY <1>1, CatalogInvariant, PTL

(* CatalogIsAtomic: the files, journals and receipts, with every failure   *)
(* and recovery, implement the abstract catalog that changes by whole      *)
(* operations, each operationId once, on the catalog its caller expected.  *)
THEOREM CatalogRefinement == Spec => CatalogIsAtomic
<1>1. Init => CatalogInv /\ Atomic!Init
  BY CatalogInit
<1>2. CatalogInv /\ [Next]_vars => CatalogInv' /\ [Atomic!Next]_<<CatalogBar, receipt>>
  BY CatalogStep
<1> QED BY <1>1, <1>2, PTL DEF Spec, CatalogIsAtomic, Atomic!Spec

-----------------------------------------------------------------------------
(* A child that has not exited by itself has not answered.                 *)
Unanswered == pc # "exit" => answer.kind = "none"

LEMMA UnansweredStep ==
  ASSUME CatalogInv, Unanswered, [Next]_vars
  PROVE  Unanswered'
<1>1. ASSUME Lifecycle PROVE Unanswered'
  BY <1>1 DEF Lifecycle, filesVars, NoChild, Fork, NoAnswer, Answer, Unanswered
<1>2. ASSUME NEW r \in Requests, Enqueue(r) PROVE Lifecycle
  <2>1. queue \in Seq(Requests) /\ LifeTypes
    BY DEF CatalogInv, LifeInv, QueueInv
  <2>2. CASE attempt = "none" /\ timer = None
    <3>1. Pump(Append(queue, r), active) /\ timer' = None /\ Append(queue, r) \in Seq(Requests)
      BY <1>2, <2>1, <2>2 DEF Enqueue, Submitted, SubmittedAs
    <3> QED BY <2>1, <3>1, PumpMoves DEF Paced
  <2>3. CASE ~(attempt = "none" /\ timer = None)
    BY <1>2, <2>3 DEF Enqueue, Submitted, SubmittedAs, filesVars, Lifecycle
  <2> QED BY <2>2, <2>3
<1>3. CASE \E r \in Requests : EnqueueBusy(r) \/ EnqueueStopped(r) \/ EnqueueBlocked(r)
  BY <1>1, <1>3, RefusedStep DEF EnqueueBusy, EnqueueStopped, EnqueueBlocked, Advances
<1>4. CASE ResultOk \/ ResultFailed \/ Deadline \/ CancelConfirmed \/ CancelUnconfirmed
           \/ LateExit \/ RetryTimer \/ Stop \/ StopDone \/ Restart
  BY <1>1, <1>4, ResultOkStep, FailedStep, DeadlineStep, CancelUnconfirmedStep, EndStep,
     RetryTimerStep, StopStep, RestartStep DEF Advances
<1>5. CASE (\E e \in leaked : LeakedTimer(e)) \/ \E a \in applying : Applied(a) \/ ApplyFails(a)
  BY <1>1, <1>5, LeakedTimerStep, AppliedStep, ApplyFailsStep DEF Advances
<1>6. CASE Child
  BY <1>6 DEF Child, ChildStep, RecoverJournal, DropJournal, RecoverDone, Begin, WriteJournal,
     CommitReceipt, Cleanup, RolledBack, RestoreFile, TruncateFile, WriteFile, UnlinkFile,
     UnlinkSwallowed, RollbackFile, Goto, Exit, Snapshot, Unanswered
<1>7. CASE ChildFails \/ ChildDies
  BY <1>7 DEF ChildFails, ChildDies, Throws, Killed, Closed, Goto, Exit, Unanswered
<1>8. CASE (\E x \in Roles, v \in RoleContents : RoleSave(x, v)) \/ UNCHANGED vars
  BY <1>8 DEF RoleSave, vars, filesVars, Unanswered
<1> QED BY <1>1, <1>2, <1>3, <1>4, <1>5, <1>6, <1>7, <1>8 DEF Next

(* A rejection is the answer of the entry's own child.                     *)
LEMMA ConflictStep ==
  ASSUME CatalogInv, Unanswered, [Next]_vars,
         NEW r \in Mutations, outcome[r] # "conflict", outcome'[r] = "conflict"
  PROVE  receipt[OpId[r]] = None
<1>1. r \in Requests /\ outcome \in [Requests -> Verdicts]
  BY DEF CatalogInv, LifeInv, LifeTypes, Mutations
<1>2. ASSUME NEW S, NEW w, Settle([x \in S |-> w]), w # "conflict" PROVE FALSE
  BY <1>1, <1>2 DEF Settle
<1>3. ASSUME NEW e, NEW kind, FailEntry(e, kind) PROVE r = e /\ kind = "conflict"
  BY <1>1, <1>2, <1>3 DEF FailEntry, Settle
<1>4. CASE ResultFailed
  <2>1. r = job /\ answer.kind = "conflict"
    BY <1>3, <1>4 DEF ResultFailed
  <2>2. pc = "exit"
    BY <2>1 DEF Unanswered
  <2> QED BY <2>1, <2>2 DEF CatalogInv, FilesInv, AnswerInv
<1>5. CASE CancelConfirmed
  BY <1>3, <1>5 DEF CancelConfirmed
<1>6. CASE \E e \in Requests : Enqueue(e) \/ EnqueueBusy(e) \/ EnqueueStopped(e) \/ EnqueueBlocked(e)
  <2>1. PICK e \in Requests, v \in {"queued", "busy", "stopped", "blocked"} :
          outcome' = [outcome EXCEPT ![e] = v]
    BY <1>6 DEF Enqueue, Submitted, SubmittedAs, EnqueueBusy, EnqueueStopped, EnqueueBlocked, Refused
  <2> QED BY <1>1, <2>1
<1>7. CASE CancelUnconfirmed \/ Stop
  BY <1>2, <1>7 DEF CancelUnconfirmed, Stop
<1>8. CASE \E a \in applying : Applied(a)
  <2>1. PICK a \in applying : Applied(a)
    BY <1>8
  <2>2. outcome' = outcome \/ Settle([x \in {a.entry} |-> Verdict(a)])
    BY <2>1 DEF Applied
  <2>3. Verdict(a) # "conflict"
    BY DEF Verdict
  <2> QED BY <1>2, <2>2, <2>3
<1>9. CASE \E a \in applying : ApplyFails(a)
  BY <1>2, <1>3, <1>9 DEF ApplyFails
<1>10. CASE Restart
  BY <1>1, <1>10 DEF Restart
<1>11. CASE ResultOk \/ Deadline \/ LateExit \/ RetryTimer \/ (\E e \in leaked : LeakedTimer(e))
            \/ StopDone
  BY <1>11 DEF ResultOk, Deadline, LateExit, RetryTimer, LeakedTimer, StopDone
<1>12. CASE Child \/ ChildFails \/ ChildDies \/ (\E x \in Roles, v \in RoleContents : RoleSave(x, v))
            \/ UNCHANGED vars
  BY <1>12 DEF Child, ChildFails, ChildDies, RoleSave, vars, lifecycleVars
<1> QED BY <1>4, <1>5, <1>6, <1>7, <1>8, <1>9, <1>10, <1>11, <1>12 DEF Next

(* ConflictChangedNothing: an operation rejected for a revision conflict   *)
(* has no receipt, even after attempts that were killed: its catalog is    *)
(* what CatalogRefinement leaves it.                                       *)
THEOREM RejectionChangedNothing == Spec => ConflictChangedNothing
<1>1. Init => Unanswered
  BY DEF Init, FilesInit, NoAnswer, Answer, Unanswered
<1>2. CatalogInv /\ Unanswered /\ [Next]_vars => Unanswered'
  BY UnansweredStep
<1>3. CatalogInv /\ Unanswered /\ [Next]_vars =>
        [ \A r \in Mutations : outcome[r] # "conflict" /\ outcome'[r] = "conflict"
            => receipt[OpId[r]] = None ]_vars
  BY ConflictStep
<1> QED BY <1>1, <1>2, <1>3, CatalogInvariant, PTL DEF Spec, ConflictChangedNothing
=============================================================================
