------------------------- MODULE RouteCatalogFiles -------------------------
(***************************************************************************)
(* One route catalog child process and the files it works on: the          *)
(* transaction of src/manager/routeCatalogTransaction.ts, its journal and  *)
(* receipts (routeCatalogDurableTransaction.ts) and the writes of          *)
(* ManagerConfigRepository.writeConfig.  One action is one file-system     *)
(* call that changes something, so that the child can throw or be killed   *)
(* between any two of them.                                                *)
(*                                                                         *)
(* The disk is a function over the route configuration files and the       *)
(* persona configuration files.  A content is what distinguishes two       *)
(* versions of a file; Torn is the file writeFileSync has truncated and    *)
(* not written yet.                                                        *)
(***************************************************************************)
EXTENDS Naturals, FiniteSets

CONSTANTS
    Requests,    \* operations submitted to the catalog
    Operation,   \* their payload: [kind, ...]; see the operators below
    OpId,        \* their operationId
    OpIds,
    Expected,    \* their expectedContentHash: a catalog, or None
    Files,       \* names of route configuration files
    Roles,       \* names of persona configuration files
    Contents,
    RoleContents,   \* the contents among them a role is saved with
    InitialDisks,   \* what the storage holds at first
    Absent, Torn,
    None

Targets == Files \cup Roles

Content == Contents \cup {Absent}

Catalog == [Files -> Content]

Kind(r) == Operation[r].kind

ASSUME RouteCatalogAssumption ==
    /\ OpId \in [Requests -> OpIds]
    /\ InitialDisks \subseteq [Targets -> Content]
    /\ RoleContents \subseteq Contents /\ Files \cap Roles = {}
    /\ Torn \notin Content
    /\ \A r \in Requests :
          /\ Kind(r) \in {"capture", "replace", "upsert", "remove", "ensure_persona"}
          /\ Kind(r) = "capture" => Operation[r].resolve \in OpIds \cup {None}
          /\ Kind(r) = "replace" => Operation[r].config \in Catalog
          /\ Kind(r) \in {"upsert", "remove"} => Operation[r].target \in Files
          /\ Kind(r) = "ensure_persona" => Operation[r].target \in Roles
          /\ Kind(r) \in {"upsert", "ensure_persona"} => Operation[r].content \in Contents

(* A file as the journal stores it: a read between truncation and write     *)
(* returns the empty text, which is Torn.                                   *)
Journal == [digest : {Operation[r] : r \in Requests},
            scope : SUBSET Targets,
            backup : [Targets -> Content \cup {Torn}]]

ASSUME NoneAssumption ==
    /\ None \notin Requests \cup OpIds \cup Journal \cup {"committed", "not_committed"}
    /\ \A r \in Requests : Operation[r] # None

VARIABLES
    disk,      \* contents of the configuration files
    pending,   \* journal of each operationId, or None
    receipt,   \* committed digest of each operationId, or None
    job,       \* the request the child executes, or None without a child
    pc,        \* where the child is
    todo,      \* files its current loop has still to handle
    undo,      \* the operationId whose journal recovery handles
    answer     \* what the child has reported

filesVars == <<disk, pending, receipt, job, pc, todo, undo, answer>>

PCs == {"off", "recover", "restore", "drop", "begin", "journal", "mutate",
        "cleanup", "rollback", "exit", "dead"}

FullSet == {"replace", "upsert", "remove"}

Mutations == {r \in Requests : Kind(r) # "capture"}

(* The closed process: its result is known and nothing it does follows. *)
Closed == pc \in {"off", "exit", "dead"}

Routes == [f \in Files |-> disk[f]]

(* capture parses every route configuration: it throws on a torn one. *)
Readable == \A f \in Files : disk[f] # Torn

(* The answers of sendAndExit; "none" is a process that ended without one. *)
Answer(k, s, st) == [kind |-> k, snapshot |-> s, state |-> st]

NoAnswer == Answer("none", None, None)

FilesInit ==
    /\ disk \in InitialDisks
    /\ pending = [o \in OpIds |-> None]
    /\ receipt = [o \in OpIds |-> None]
    /\ job = None
    /\ pc = "off"
    /\ todo = {}
    /\ undo = None
    /\ answer = NoAnswer

-----------------------------------------------------------------------------
(* The operations as functions of the catalog they find *)

Present(c) == {f \in Files : c[f] # Absent}

(* The whole catalog the operation asks for. *)
Desired(r, c) ==
    LET o == Operation[r] IN
    IF o.kind = "replace" THEN o.config
    ELSE IF o.kind = "upsert" THEN
        [f \in Files |-> IF f = o.target THEN o.content
                         ELSE IF f = o.previous THEN Absent ELSE c[f]]
    ELSE IF o.kind = "remove" THEN [c EXCEPT ![o.target] = Absent]
    ELSE c

(* An upsert that names the route it replaces writes only that route. *)
Scoped(r) == Kind(r) = "upsert" /\ Operation[r].previous # None

(* writeConfig writes every configuration of the new catalog, changed or    *)
(* not, and unlinks the files of names that are not in it.                  *)
Written(r, c) ==
    IF Kind(r) = "ensure_persona" THEN {}
    ELSE IF Scoped(r) THEN {Operation[r].target}
    ELSE Present(Desired(r, c))

Removed(r, c) == Present(c) \ Present(Desired(r, c))

(* assertExpectedContentHash and the prepare hooks. *)
ExpectedHolds(r, c) == Expected[r] \in {None, c}

Prepared(r, c) ==
    LET o == Operation[r] IN
    /\ Scoped(r) => o.target = o.previous \/ c[o.target] = Absent
    /\ o.kind = "remove" => c[o.target] # Absent

(* The catalogs an operation may leave: the desired one, or, for the        *)
(* unscoped writes that swallow a failed unlink, one that still holds some  *)
(* of the files to be removed.                                              *)
Left(r, c, kept) ==
    [f \in Files |-> IF f \in kept THEN c[f] ELSE Desired(r, c)[f]]

Outcomes(r, c) ==
    {Left(r, c, kept) : kept \in IF Scoped(r) THEN {{}} ELSE SUBSET Removed(r, c)}

Accepts(r, c) == ExpectedHolds(r, c) /\ Prepared(r, c)

-----------------------------------------------------------------------------
(* The child *)

Goto(l) == pc' = l

Exit(a) == pc' = "exit" /\ answer' = a

(* fork: the child starts with recoverRouteCatalogTransactions. *)
Fork(r) ==
    /\ job' = r
    /\ pc' = "recover"
    /\ todo' = {}
    /\ undo' = None
    /\ answer' = NoAnswer
    /\ UNCHANGED <<disk, pending, receipt>>

(* Mutant: A recovery that rolls back committed transactions too. *)
RecoverIgnoringReceipt(o) ==
    /\ pc = "recover" /\ pending[o] # None
    /\ undo' = o
    /\ Goto("restore") /\ todo' = pending[o].scope
    /\ UNCHANGED <<disk, pending, receipt, job, answer>>

(* The next journal: a transaction with its receipt is only tidied up. *)
RecoverJournal(o) ==
    /\ pc = "recover" /\ pending[o] # None
    /\ undo' = o
    /\ IF receipt[o] = pending[o].digest
         THEN Goto("drop") /\ todo' = {}
         ELSE Goto("restore") /\ todo' = pending[o].scope
    /\ UNCHANGED <<disk, pending, receipt, job, answer>>

(* restorePendingJournal: one file replaced or removed, atomically. *)
RestoreFile(f) ==
    /\ pc = "restore" /\ f \in todo
    /\ disk' = [disk EXCEPT ![f] = pending[undo].backup[f]]
    /\ todo' = todo \ {f}
    /\ UNCHANGED <<pending, receipt, job, pc, undo, answer>>

DropJournal ==
    /\ pc = "drop" \/ (pc = "restore" /\ todo = {})
    /\ pending' = [pending EXCEPT ![undo] = None]
    /\ Goto("recover") /\ undo' = None
    /\ UNCHANGED <<disk, receipt, job, todo, answer>>

RecoverDone ==
    /\ pc = "recover" /\ \A o \in OpIds : pending[o] = None
    /\ Goto("begin")
    /\ UNCHANGED <<disk, pending, receipt, job, todo, undo, answer>>

(* A capture, or a mutation that has its receipt already: read the catalog. *)
Snapshot(st) == Exit(Answer("ok", Routes, st))

Resolved ==
    IF Operation[job].resolve = None THEN None
    ELSE IF receipt[Operation[job].resolve] # None THEN "committed" ELSE "not_committed"

(* Mutant: A retry that does not look for its receipt. *)
BeginWithoutReceipt ==
    /\ pc = "begin" /\ Readable
    /\ IF job \notin Mutations THEN Snapshot(Resolved)
       ELSE IF ~ExpectedHolds(job, Routes) THEN Exit(Answer("conflict", None, None))
       ELSE IF ~Prepared(job, Routes) THEN Exit(Answer("failed", None, None))
       ELSE Goto("journal") /\ answer' = answer
    /\ UNCHANGED <<disk, pending, receipt, job, todo, undo>>

(* Receipt, idempotency conflict, capture, prepare. *)
Begin ==
    /\ pc = "begin" /\ Readable
    /\ IF job \notin Mutations THEN Snapshot(Resolved)
       ELSE IF receipt[OpId[job]] # None
         THEN IF receipt[OpId[job]] = Operation[job] THEN Snapshot(None)
              ELSE Exit(Answer("failed", None, None))
       ELSE IF ~ExpectedHolds(job, Routes) THEN Exit(Answer("conflict", None, None))
       ELSE IF ~Prepared(job, Routes) THEN Exit(Answer("failed", None, None))
       ELSE Goto("journal") /\ answer' = answer
    /\ UNCHANGED <<disk, pending, receipt, job, todo, undo>>

Scope(r) == IF Kind(r) \in FullSet THEN Targets ELSE {Operation[r].target}

(* capturePendingJournal and the atomic write of the journal. *)
WriteJournal ==
    /\ pc = "journal"
    /\ pending' = [pending EXCEPT ![OpId[job]] =
                     [digest |-> Operation[job], scope |-> Scope(job), backup |-> disk]]
    /\ todo' = IF Kind(job) = "ensure_persona"
                 THEN {f \in {Operation[job].target} : disk[f] = Absent}
                 ELSE Written(job, Routes) \cup Removed(job, Routes)
    /\ Goto("mutate")
    /\ UNCHANGED <<disk, receipt, job, undo, answer>>

(* The catalog the mutation started from: nobody else writes route files. *)
Base == [f \in Files |-> pending[OpId[job]].backup[f]]

Value(f) ==
    IF Kind(job) = "ensure_persona" THEN Operation[job].content ELSE Desired(job, Base)[f]

(* writeFileSync truncates the file ... *)
TruncateFile(f) ==
    /\ pc = "mutate" /\ f \in todo
    /\ \A g \in todo : disk[g] # Torn
    /\ Value(f) # Absent
    /\ disk' = [disk EXCEPT ![f] = Torn]
    /\ UNCHANGED <<pending, receipt, job, pc, todo, undo, answer>>

(* ... and writes it. *)
WriteFile(f) ==
    /\ pc = "mutate" /\ f \in todo /\ disk[f] = Torn
    /\ disk' = [disk EXCEPT ![f] = Value(f)]
    /\ todo' = todo \ {f}
    /\ UNCHANGED <<pending, receipt, job, pc, undo, answer>>

UnlinkFile(f) ==
    /\ pc = "mutate" /\ f \in todo
    /\ \A g \in todo : disk[g] # Torn
    /\ Value(f) = Absent
    /\ disk' = [disk EXCEPT ![f] = Absent]
    /\ todo' = todo \ {f}
    /\ UNCHANGED <<pending, receipt, job, pc, undo, answer>>

(* removeConfigFilesMissingFrom: a failed unlink is "non-fatal". *)
UnlinkSwallowed(f) ==
    /\ pc = "mutate" /\ f \in todo /\ ~Scoped(job)
    /\ \A g \in todo : disk[g] # Torn
    /\ Value(f) = Absent
    /\ todo' = todo \ {f}
    /\ UNCHANGED <<disk, pending, receipt, job, pc, undo, answer>>

(* The committed receipt, written atomically: the commit point. *)
CommitReceipt ==
    /\ pc = "mutate" /\ todo = {} /\ Readable
    /\ receipt' = [receipt EXCEPT ![OpId[job]] = Operation[job]]
    /\ Goto("cleanup")
    /\ UNCHANGED <<disk, pending, job, todo, undo, answer>>

Cleanup ==
    /\ pc = "cleanup"
    /\ pending' = [pending EXCEPT ![OpId[job]] = None]
    /\ Snapshot(None)
    /\ UNCHANGED <<disk, receipt, job, todo, undo>>

(* An I/O error.  Before the journal and after the receipt it only ends     *)
(* the child; in between the catch block restores the backup.               *)
Throws ==
    /\ \/ /\ pc \in {"recover", "restore", "drop", "begin", "journal", "cleanup", "rollback"}
          /\ Exit(Answer("failed", None, None)) /\ todo' = {}
       \/ /\ pc = "mutate"
          /\ Goto("rollback") /\ todo' = pending[OpId[job]].scope
          /\ answer' = answer
    /\ UNCHANGED <<disk, pending, receipt, job, undo>>

RollbackFile(f) ==
    /\ pc = "rollback" /\ f \in todo
    /\ disk' = [disk EXCEPT ![f] = pending[OpId[job]].backup[f]]
    /\ todo' = todo \ {f}
    /\ UNCHANGED <<pending, receipt, job, pc, undo, answer>>

RolledBack ==
    /\ pc = "rollback" /\ todo = {}
    /\ pending' = [pending EXCEPT ![OpId[job]] = None]
    /\ Exit(Answer("failed", None, None))
    /\ UNCHANGED <<disk, receipt, job, todo, undo>>

(* SIGTERM, SIGKILL or a crash. *)
Killed ==
    /\ ~Closed
    /\ pc' = "dead"
    /\ UNCHANGED <<disk, pending, receipt, job, todo, undo, answer>>

(* The steps of the running child that need no failure. *)
ChildStep ==
    \/ \E o \in OpIds : RecoverJournal(o)
    \/ DropJournal \/ RecoverDone \/ Begin \/ WriteJournal \/ CommitReceipt \/ Cleanup
    \/ RolledBack
    \/ \E f \in Targets :
          \/ RestoreFile(f) \/ TruncateFile(f) \/ WriteFile(f) \/ UnlinkFile(f)
          \/ UnlinkSwallowed(f) \/ RollbackFile(f)
=============================================================================
