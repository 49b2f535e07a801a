----------------------------- MODULE Installation -----------------------------
(***************************************************************************)
(* What is installed: environment.json with its revision (core/environment *)
(* store.go, remove.go), the content-addressed component directories, and  *)
(* the installer transactions that publish both (core/install              *)
(* transaction.go, environment_commit.go, transaction_recovery.go). Every  *)
(* file operation is a step, the application may die between any two, and  *)
(* the next one recovers from the journals before it serves.               *)
(*                                                                         *)
(* An artifact is one verified digest of one component, so it is also the  *)
(* name of its directory. Versions are as distinct as digests, and runtime *)
(* dependencies are met.                                                   *)
(***************************************************************************)
EXTENDS Naturals

CONSTANTS Callers,      \* concurrent control requests
          Txns,         \* transaction ids, each used once
          Ids,          \* component ids
          Plugins,      \* those whose manifest every write reads again
          Artifacts,
          NoArtifact,
          IdOf,         \* the component an artifact is a release of
          NoEnv, NoJournal, NoTxn,
          MaxRevision,  \* bound: no operation begins at this revision
          MaxCrashes,   \* bound: times the application dies
          MaxFaults,    \* bound: times the disk refuses a step
          Sticky        \* that step may be the deletion of a transaction directory

ASSUME InstallationAssumption ==
    /\ Plugins \subseteq Ids
    /\ NoArtifact \notin Artifacts
    /\ IdOf \in [Artifacts -> Ids]
    /\ NoTxn \notin Txns
    /\ MaxRevision \in Nat /\ MaxCrashes \in Nat /\ MaxFaults \in Nat
    /\ Sticky \in BOOLEAN

Selections == [Ids -> Artifacts \cup {NoArtifact}]
Environments == [revision : Nat, sel : Selections]
Journals == [generation : Nat, moves : SUBSET Artifacts]

ASSUME NothingAssumption == NoEnv \notin Environments /\ NoJournal \notin Journals

VARIABLES
    \* the identity home
    env,        \* environment.json
    dirs,       \* component directories
    removing,   \* their <dir>.removing
    next,       \* environment.json.next, shared by every Write
    journal,    \* commit.json of a transaction directory
    staged,     \* extracted copies in a transaction directory
    \* the application
    boot,       \* down (recovering), up, refused
    open,       \* manager.transactions
    used,       \* transaction ids handed out
    \* the requests
    pc, tx, want, expected, read, plan, moves, moved,
    \* bounds and history
    crashes, faults, everSelected,
    stranded    \* what a refused undo left, and no recovery has taken back

home == <<env, dirs, removing, next>>
transactions == <<journal, staged, open, used>>
locals == <<tx, want, expected, read, plan, moves, moved>>
limits == <<crashes, faults, everSelected, stranded>>
vars == <<env, dirs, removing, next, journal, staged, boot, open, used,
          pc, tx, want, expected, read, plan, moves, moved,
          crashes, faults, everSelected, stranded>>

TypeOK ==
    /\ env \in Environments
    /\ dirs \subseteq Artifacts
    /\ removing \subseteq Artifacts
    /\ next \in Environments \cup {NoEnv}
    /\ journal \in [Txns -> Journals \cup {NoJournal}]
    /\ staged \in [Txns -> SUBSET Artifacts]
    /\ boot \in {"down", "up", "refused"}
    /\ open \subseteq Txns
    /\ used \subseteq Txns
    /\ pc \in [Callers -> {"idle", "stage", "plan", "journal", "move", "undo", "failed",
                           "clean", "committed", "remove", "clear", "hide", "write",
                           "swap", "restore", "erase"}]
    /\ tx \in [Callers -> Txns \cup {NoTxn}]
    /\ want \in [Callers -> SUBSET Artifacts]
    /\ expected \in [Callers -> Nat]
    /\ read \in [Callers -> Environments]
    /\ plan \in [Callers -> Environments]
    /\ moves \in [Callers -> SUBSET Artifacts]
    /\ moved \in [Callers -> SUBSET Artifacts]
    /\ crashes \in 0..MaxCrashes
    /\ faults \in 0..MaxFaults
    /\ everSelected \subseteq Artifacts
    /\ stranded \subseteq Artifacts

\* Initialize publishes revision 1, with nothing selected.
EmptyEnv == [revision |-> 1, sel |-> [i \in Ids |-> NoArtifact]]

Idle ==
    /\ pc' = [p \in Callers |-> "idle"]
    /\ tx' = [p \in Callers |-> NoTxn]
    /\ want' = [p \in Callers |-> {}]
    /\ expected' = [p \in Callers |-> 0]
    /\ read' = [p \in Callers |-> EmptyEnv]
    /\ plan' = [p \in Callers |-> EmptyEnv]
    /\ moves' = [p \in Callers |-> {}]
    /\ moved' = [p \in Callers |-> {}]

Init ==
    /\ env = EmptyEnv /\ dirs = {} /\ removing = {} /\ next = NoEnv
    /\ journal = [t \in Txns |-> NoJournal] /\ staged = [t \in Txns |-> {}]
    /\ boot = "up" /\ open = {} /\ used = {}
    /\ pc = [p \in Callers |-> "idle"] /\ tx = [p \in Callers |-> NoTxn]
    /\ want = [p \in Callers |-> {}] /\ expected = [p \in Callers |-> 0]
    /\ read = [p \in Callers |-> EmptyEnv] /\ plan = [p \in Callers |-> EmptyEnv]
    /\ moves = [p \in Callers |-> {}] /\ moved = [p \in Callers |-> {}]
    /\ crashes = 0 /\ faults = 0 /\ everSelected = {} /\ stranded = {}

SelectedIn(e) == {e.sel[i] : i \in Ids} \ {NoArtifact}

\* Every plugin record must have a manifest to read, at its path or staged.
Readable(e, fresh) ==
    \A i \in Plugins : e.sel[i] \in dirs \cup fresh \cup {NoArtifact}

Goes(p, at) == pc' = [pc EXCEPT ![p] = at]

\* A request begins with nothing read, planned or moved.
Begins(p, txn, components) ==
    /\ tx' = [tx EXCEPT ![p] = txn]
    /\ want' = [want EXCEPT ![p] = components]
    /\ expected' = [expected EXCEPT ![p] = env.revision]
    /\ read' = [read EXCEPT ![p] = EmptyEnv]
    /\ plan' = [plan EXCEPT ![p] = EmptyEnv]
    /\ moves' = [moves EXCEPT ![p] = {}]
    /\ moved' = [moved EXCEPT ![p] = {}]

\* A step the disk refuses.
Fault == faults < MaxFaults /\ faults' = faults + 1 /\ UNCHANGED <<crashes, everSelected, stranded>>

Publishes(e) == env' = e /\ everSelected' = everSelected \cup SelectedIn(e)

-----------------------------------------------------------------------------
\* installRegistryReleases: the revision is read first, then begin, stage, commit.

BeginInstall(p, t, components) ==
    /\ boot = "up" /\ pc[p] = "idle" /\ t \notin used /\ env.revision < MaxRevision
    /\ components # {}
    /\ \A a, b \in components : IdOf[a] = IdOf[b] => a = b
    /\ open' = open \cup {t} /\ used' = used \cup {t}
    /\ Begins(p, t, components)
    /\ Goes(p, "stage")
    /\ UNCHANGED <<home, journal, staged, boot, limits>>

\* Every component asked for is selected already: the installer answers with the
\* transaction it began still open.
InstalledAlready(p, t, components) ==
    /\ boot = "up" /\ pc[p] = "idle" /\ t \notin used
    /\ components # {} /\ components \subseteq SelectedIn(env)
    /\ open' = open \cup {t} /\ used' = used \cup {t}
    /\ UNCHANGED <<home, journal, staged, boot, pc, locals, limits>>

\* Fetched, verified and extracted.
Stage(p, a) ==
    /\ pc[p] = "stage" /\ a \in want[p] \ staged[tx[p]]
    /\ staged' = [staged EXCEPT ![tx[p]] = @ \cup {a}]
    /\ UNCHANGED <<home, journal, open, used, boot, pc, locals, limits>>

StageFails(p) ==
    /\ pc[p] = "stage" /\ ~(want[p] \subseteq staged[tx[p]])
    /\ Goes(p, "failed")
    /\ UNCHANGED <<home, transactions, boot, locals, limits>>

CommitReads(p) ==
    /\ pc[p] = "stage" /\ want[p] \subseteq staged[tx[p]]
    /\ read' = [read EXCEPT ![p] = env]
    /\ Goes(p, "plan")
    /\ UNCHANGED <<home, transactions, boot, tx, want, expected, plan, moves, moved, limits>>

\* A component that is already selected is kept as it is; a directory that is
\* already there is reused.
Fresh(p) == {a \in want[p] : read[p].sel[IdOf[a]] # a}
Planned(p) ==
    [revision |-> read[p].revision + 1,
     sel |-> [i \in Ids |-> IF \E a \in want[p] : IdOf[a] = i
                            THEN CHOOSE a \in want[p] : IdOf[a] = i
                            ELSE read[p].sel[i]]]
MayCommit(p) == expected[p] = read[p].revision /\ Readable(Planned(p), Fresh(p))

CommitPlans(p) ==
    /\ pc[p] = "plan" /\ MayCommit(p)
    /\ plan' = [plan EXCEPT ![p] = Planned(p)]
    /\ moves' = [moves EXCEPT ![p] = Fresh(p) \ dirs]
    /\ Goes(p, "journal")
    /\ UNCHANGED <<home, transactions, boot, tx, want, expected, read, moved, limits>>

CommitRefused(p) ==
    /\ pc[p] = "plan" /\ ~MayCommit(p)
    /\ Goes(p, "failed")
    /\ UNCHANGED <<home, transactions, boot, locals, limits>>

\* Every directory it will move, before the first one moves.
MovedSoFar(p) == moved[p]
Journalled(p) == moves[p]

CommitJournals(p) ==
    /\ pc[p] = "journal"
    /\ journal' = [journal EXCEPT ![tx[p]] =
                     [generation |-> plan[p].revision, moves |-> Journalled(p)]]
    /\ Goes(p, "move")
    /\ UNCHANGED <<home, staged, open, used, boot, locals, limits>>

CommitMoves(p, a) ==
    /\ pc[p] = "move" /\ a \in moves[p] \ moved[p] /\ a \notin dirs
    /\ dirs' = dirs \cup {a}
    /\ staged' = [staged EXCEPT ![tx[p]] = @ \ {a}]
    /\ moved' = [moved EXCEPT ![p] = @ \cup {a}]
    /\ UNCHANGED <<env, removing, next, journal, open, used, boot, pc, tx, want, expected,
                   read, plan, moves, limits>>

\* Somebody published that directory in the meantime: the rename fails.
CommitBlocked(p) ==
    /\ pc[p] = "move" /\ (moves[p] \ moved[p]) \cap dirs # {}
    /\ Goes(p, "undo")
    /\ UNCHANGED <<home, transactions, boot, locals, limits>>

CommitPublishes(p) ==
    /\ pc[p] = "move" /\ moved[p] = moves[p]
    /\ Publishes(plan[p])
    /\ Goes(p, "clean")
    /\ UNCHANGED <<dirs, removing, next, transactions, boot, locals, crashes, faults, stranded>>

\* The temporary file, the journal, a rename or the publication is refused.
CommitFails(p) ==
    /\ pc[p] \in {"plan", "journal", "move"} /\ Fault
    /\ Goes(p, "undo")
    /\ UNCHANGED <<home, transactions, boot, locals>>

MovesLeft(p) == {}
MovesToUndo(p) == moved[p]

UndoMove(p, a) ==
    /\ pc[p] = "undo" /\ a \in MovesToUndo(p)
    /\ dirs' = dirs \ {a}
    /\ staged' = [staged EXCEPT ![tx[p]] = @ \cup ({a} \cap dirs)]
    /\ moved' = [moved EXCEPT ![p] = @ \ {a}]
    /\ UNCHANGED <<env, removing, next, journal, open, used, boot, pc, tx, want, expected,
                   read, plan, moves, limits>>

\* Nobody looks at whether the undo's own rename is refused.
UndoRefused(p, a) ==
    /\ pc[p] = "undo" /\ a \in MovesToUndo(p) \cap dirs
    /\ faults < MaxFaults /\ faults' = faults + 1
    /\ stranded' = stranded \cup {a}
    /\ moved' = [moved EXCEPT ![p] = @ \ {a}]
    /\ UNCHANGED <<home, transactions, boot, pc, tx, want, expected, read, plan, moves,
                   crashes, everSelected>>

UndoEnds(p) ==
    /\ pc[p] = "undo" /\ MovesToUndo(p) = {}
    /\ Goes(p, "failed")
    /\ UNCHANGED <<home, transactions, boot, locals, limits>>

\* The transaction leaves the table and its directory the disk, or the table alone.
CloseInMemory(t) == open' = open \ {t} /\ UNCHANGED <<journal, staged>>
CloseTxn(t) ==
    /\ open' = open \ {t}
    /\ journal' = [journal EXCEPT ![t] = NoJournal]
    /\ staged' = [staged EXCEPT ![t] = {}]
Ends(t) ==
    \/ CloseTxn(t) /\ UNCHANGED limits
    \/ Sticky /\ Fault /\ CloseInMemory(t)

CommitEnds(p) ==
    /\ pc[p] = "clean"
    /\ Ends(tx[p])
    /\ Goes(p, "committed")
    /\ UNCHANGED <<home, used, boot, locals>>

Returns(p) ==
    /\ pc[p] = "committed"
    /\ Goes(p, "idle")
    /\ UNCHANGED <<home, transactions, boot, locals, limits>>

\* The installer rolls back whatever failed.
Rollback(p) ==
    /\ pc[p] = "failed"
    /\ Ends(tx[p])
    /\ Goes(p, "idle")
    /\ UNCHANGED <<home, used, boot, locals>>

-----------------------------------------------------------------------------
\* RemovePlugin, RemoveSidecar.

BeginRemove(p, a) ==
    /\ boot = "up" /\ pc[p] = "idle" /\ env.revision < MaxRevision
    /\ a \in SelectedIn(env)
    /\ Begins(p, NoTxn, {a})
    /\ Goes(p, "remove")
    /\ UNCHANGED <<home, transactions, boot, limits>>

Without(i) == [revision |-> env.revision + 1, sel |-> [env.sel EXCEPT ![i] = NoArtifact]]

RemoveReads(p, a) ==
    /\ pc[p] = "remove" /\ a \in want[p]
    /\ LET recorded == env.sel[IdOf[a]]
       IN /\ recorded # NoArtifact /\ Readable(Without(IdOf[a]), {})
          /\ want' = [want EXCEPT ![p] = {recorded}]
    /\ read' = [read EXCEPT ![p] = env]
    /\ plan' = [plan EXCEPT ![p] = Without(IdOf[a])]
    /\ Goes(p, "clear")
    /\ UNCHANGED <<home, transactions, boot, tx, expected, moves, moved, limits>>

RemoveRefused(p, a) ==
    /\ pc[p] = "remove" /\ a \in want[p]
    /\ env.sel[IdOf[a]] = NoArtifact \/ ~Readable(Without(IdOf[a]), {})
    /\ Goes(p, "idle")
    /\ UNCHANGED <<home, transactions, boot, locals, limits>>

\* A stale <dir>.removing goes first; then the directory takes its name.
RemoveClears(p) ==
    /\ pc[p] = "clear"
    /\ removing' = removing \ want[p]
    /\ Goes(p, "hide")
    /\ UNCHANGED <<env, dirs, next, transactions, boot, locals, limits>>

RemoveHides(p) ==
    /\ pc[p] = "hide" /\ want[p] \cap dirs \cap removing = {}
    /\ removing' = removing \cup (want[p] \cap dirs)
    /\ dirs' = dirs \ want[p]
    /\ moved' = [moved EXCEPT ![p] = want[p] \cap dirs]
    /\ Goes(p, "write")
    /\ UNCHANGED <<env, next, transactions, boot, tx, want, expected, read, plan, moves,
                   limits>>

RemoveWrites(p) ==
    /\ pc[p] = "write" /\ expected[p] = read[p].revision
    /\ next' = plan[p]
    /\ Goes(p, "swap")
    /\ UNCHANGED <<env, dirs, removing, transactions, boot, locals, limits>>

\* Whatever environment.json.next holds by now takes the place.
RemovePublishes(p) ==
    /\ pc[p] = "swap" /\ next # NoEnv
    /\ Publishes(next)
    /\ next' = NoEnv
    /\ Goes(p, "erase")
    /\ UNCHANGED <<dirs, removing, transactions, boot, locals, crashes, faults, stranded>>

RemoveConflicts(p) ==
    /\ \/ pc[p] = "write" /\ expected[p] # read[p].revision
       \/ pc[p] = "swap" /\ next = NoEnv
       \/ pc[p] = "hide" /\ want[p] \cap dirs \cap removing # {}
    /\ Goes(p, "restore")
    /\ UNCHANGED <<home, transactions, boot, locals, limits>>

RemoveFails(p) ==
    /\ pc[p] \in {"clear", "hide", "write", "swap"} /\ Fault
    /\ Goes(p, "restore")
    /\ UNCHANGED <<home, transactions, boot, locals>>

RemoveRestores(p) ==
    /\ pc[p] = "restore"
    /\ dirs' = dirs \cup (moved[p] \cap removing)
    /\ removing' = removing \ (moved[p] \ dirs)
    /\ Goes(p, "idle")
    /\ UNCHANGED <<env, next, transactions, boot, locals, limits>>

RestoreRefused(p) ==
    /\ pc[p] = "restore" /\ moved[p] # {} /\ Fault
    /\ Goes(p, "idle")
    /\ UNCHANGED <<home, transactions, boot, locals>>

\* A directory that cannot be deleted stays as <dir>.removing.
RemoveErases(p) ==
    /\ pc[p] = "erase"
    /\ \/ removing' = removing \ moved[p] /\ UNCHANGED limits
       \/ Fault /\ UNCHANGED removing
    /\ Goes(p, "idle")
    /\ UNCHANGED <<env, dirs, next, transactions, boot, locals>>

-----------------------------------------------------------------------------
\* The application dies; the next one recovers before it serves.

Crash ==
    /\ boot = "up" /\ crashes < MaxCrashes
    /\ boot' = "down"
    /\ crashes' = crashes + 1
    /\ open' = {}
    /\ Idle
    /\ UNCHANGED <<home, journal, staged, used, faults, everSelected, stranded>>

SeemsUncommitted(j) == env.revision <= j.generation
Uncommitted(j) == env.revision < j.generation

Recovering(t) == boot = "down" /\ journal[t] # NoJournal

RecoverUndoes(t, a) ==
    /\ Recovering(t) /\ Uncommitted(journal[t])
    /\ a \in (journal[t].moves \cap dirs) \ staged[t]
    /\ dirs' = dirs \ {a}
    /\ staged' = [staged EXCEPT ![t] = @ \cup {a}]
    /\ stranded' = stranded \ {a}
    /\ UNCHANGED <<env, removing, next, journal, open, used, boot, pc, locals, crashes, faults,
                   everSelected>>

\* A generation it cannot place, or a copy in the way, ends the start.
RecoverRefuses(t) ==
    /\ Recovering(t)
    /\ \/ env.revision > journal[t].generation
       \/ Uncommitted(journal[t]) /\ journal[t].moves \cap dirs \cap staged[t] # {}
    /\ boot' = "refused"
    /\ UNCHANGED <<home, transactions, pc, locals, limits>>

UndoneOrNot(t) == TRUE
Undone(t) == Uncommitted(journal[t]) => journal[t].moves \cap dirs = {}

RecoverForgets(t) ==
    /\ Recovering(t) /\ env.revision <= journal[t].generation /\ Undone(t)
    /\ CloseTxn(t)
    /\ UNCHANGED <<home, used, boot, pc, locals, limits>>

Serves ==
    /\ boot = "down" /\ \A t \in Txns : journal[t] = NoJournal
    /\ boot' = "up"
    /\ UNCHANGED <<home, transactions, pc, locals, limits>>

-----------------------------------------------------------------------------

InstallStep(p) ==
    \/ \E t \in Txns, components \in SUBSET Artifacts :
           BeginInstall(p, t, components) \/ InstalledAlready(p, t, components)
    \/ (\E a \in Artifacts : Stage(p, a)) \/ StageFails(p)
    \/ CommitReads(p) \/ CommitPlans(p) \/ CommitRefused(p) \/ CommitJournals(p)
    \/ (\E a \in Artifacts : CommitMoves(p, a)) \/ CommitBlocked(p) \/ CommitPublishes(p)
    \/ CommitFails(p) \/ (\E a \in Artifacts : UndoMove(p, a) \/ UndoRefused(p, a)) \/ UndoEnds(p)
    \/ CommitEnds(p) \/ Returns(p) \/ Rollback(p)

RemoveStep(p) ==
    \/ \E a \in Artifacts : BeginRemove(p, a) \/ RemoveReads(p, a) \/ RemoveRefused(p, a)
    \/ RemoveClears(p) \/ RemoveHides(p) \/ RemoveWrites(p) \/ RemovePublishes(p)
    \/ RemoveConflicts(p) \/ RemoveFails(p) \/ RemoveRestores(p) \/ RestoreRefused(p)
    \/ RemoveErases(p)

RecoverStep ==
    \/ \E t \in Txns : \/ \E a \in Artifacts : RecoverUndoes(t, a)
                       \/ RecoverRefuses(t) \/ RecoverForgets(t)
    \/ Serves

Next ==
    \/ \E p \in Callers : InstallStep(p) \/ RemoveStep(p)
    \/ Crash
    \/ RecoverStep

Spec == Init /\ [][Next]_vars

-----------------------------------------------------------------------------
\* What an installation promises.

\* Nothing but a removal takes away a directory the environment selects: neither
\* an undone commit nor a recovery (environment_commit.go:189-194,
\* transaction_recovery.go:63-77).
SelectedStays ==
    [][\A i \in Ids : LET a == env.sel[i]
                      IN a \in dirs /\ env'.sel[i] = a => a \in dirs' \cup removing']_vars

\* A commit that failed leaves the environment at its revision and, of the component
\* directories it moved, only those whose way back the disk refused
\* (environment_commit.go:188-194). It takes a refusal to begin the undo, so that the
\* first one a disk makes is never among them.
FailureChangesNothing ==
    /\ \A p \in Callers : pc[p] = "failed" => /\ env.revision = expected[p]
                                             /\ moves[p] \cap dirs \subseteq stranded
    /\ stranded # {} => faults > 1

\* Whatever was interrupted or refused, no directory outlives a transaction that was
\* never published, but for one that an undo could not move and no recovery did.
NothingHalfInstalled ==
    boot = "up" /\ (\A p \in Callers : pc[p] = "idle") =>
        dirs \subseteq everSelected \cup stranded

\* The first crash finds every directory that was never published named by a
\* journal that can take it back (environment_commit.go:180-205), or left by an undo
\* that was refused (191).
MovesJournalled ==
    crashes = 0 => dirs \subseteq everSelected \cup stranded \cup
                       UNION {journal[t].moves : t \in {u \in Txns : journal[u] # NoJournal}}

\* No request leaves a journal or a staged copy behind, whether it was answered or
\* rolled back, unless the disk kept it (environment_commit.go:210-213,
\* transaction.go:293-302).
TransactionsEnd ==
    crashes = 0 /\ (faults = 0 \/ ~Sticky) /\ (\A p \in Callers : pc[p] = "idle") =>
        \A t \in Txns : journal[t] = NoJournal /\ staged[t] = {}

\* A journal left behind never keeps the application from starting
\* (install.go:71-73 panics on the error of transaction_recovery.go:79).
RecoveryServes == boot # "refused"

\* The code breaks the three that follow (README, Disagreements).

\* A commit that failed leaves the component directories as they were
\* (ENVIRONMENT-AND-INSTALLATION.md, Installer transaction).
UndoneWhenFailed ==
    \A p \in Callers : pc[p] = "failed" => moves[p] \cap dirs \subseteq everSelected

\* A commit that was answered has its components on disk: it publishes component
\* directories and environment.json in one transaction
\* (ENVIRONMENT-AND-INSTALLATION.md, Installer transaction).
CommitDelivers == \A p \in Callers : pc[p] = "committed" => want[p] \subseteq dirs

\* The revision is monotonic: every change is a compare-and-swap
\* (ENVIRONMENT-AND-INSTALLATION.md, Environment).
RevisionGrows == [][env' # env => env'.revision = env.revision + 1]_vars
=============================================================================
