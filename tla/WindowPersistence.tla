--------------------------- MODULE WindowPersistence ---------------------------
(***************************************************************************)
(* The record of the workspace windows and their return after a restart    *)
(* (src/frontend/src/state/windowBoot.ts, windowPersistence.ts,            *)
(* persistGuard.ts, workspaceRegistry.ts; src/core/workspace).             *)
(*                                                                         *)
(* The core keeps a snapshot for each window label, the key window/<label> *)
(* of the key-value store; one ledger, the key windows, with a slot for    *)
(* each window that has to come back; and, in memory only, the claims: the *)
(* window each workspace root is open in.                                  *)
(*                                                                         *)
(* A window's page claims and opens the root it was told to, or restores   *)
(* its snapshot as far as no other window holds the roots, and from then   *)
(* on saves after every change: first the snapshot, then its slot.  The    *)
(* control plane (main) reads the ledger when the application starts,      *)
(* opens the windows that are missing, and removes the snapshots no slot   *)
(* names.  The windows, main, the open command and the close commands take *)
(* turns at each of their calls to the core, and calls of one window may   *)
(* be served in any order: the desktop host serves each in a goroutine.    *)
(*                                                                         *)
(* A snapshot and a slot are the set of the workspace roots they hold.  A  *)
(* root stands for its workspace; which one is active is left out.         *)
(***************************************************************************)
EXTENDS Naturals, Sequences, SequencesExt, FiniteSets

CONSTANTS
    Windows,        \* labels of workspace windows: each names one window for good
    Roots,          \* workspace roots
    DefaultRoot,    \* the root of the workspace a first run opens
    None,           \* no window, no root
    Absent,         \* no snapshot under the key
    Unreadable,     \* a snapshot of a shape this build does not read
    MaxChanges,     \* bound: windows and workspaces opened or closed by users
    MaxFaults,      \* bound: calls that fail
    MaxRuns,        \* bound: times the application starts
    MaxOut          \* bound: calls of one window under way

ASSUME WindowPersistenceAssumption ==
    /\ DefaultRoot \in Roots
    /\ None \notin Windows \cup Roots
    /\ Absent # Unreadable
    /\ \A R \in SUBSET Roots : R \notin {Absent, Unreadable}
    /\ {MaxChanges, MaxFaults, MaxOut} \subseteq Nat /\ MaxRuns \in Nat \ {0}

VARIABLES
    slots,      \* the ledger: the roots of each window's slot, {} where it has none
    snaps,      \* the snapshots
    recents,    \* has any workspace ever been opened? (recentWorkspaces)
    claims,     \* the claim ledger: the window a root was claimed for
    live,       \* the windows that exist
    used,       \* the labels issued so far
    phase,      \* how far each window's page has come
    told,       \* the root the creator of a window told it to open
    known,      \* what the page knows of its snapshot: persistGuard's SnapshotRead
    restored,   \* did the restore create a workspace?
    todo, got,  \* restore: the roots still to claim, and those it was given
    tabs,       \* the workspaces open in the window
    gate,       \* what the user's opens and closes still have to come to
    due,        \* is a save due (the debounce timer, or the one at the end of boot)?
    calls,      \* the calls of its saves that the core has not served
    closer,     \* the close command: how far it has come, and its copy of the ledger
    main,       \* the control plane's boot
    changes, faults, runs,  \* how much of the bounds is spent
    loose,      \* history: the roots the claims did not guard, in this run
    seen,       \* history: the roots the page showed, or found open elsewhere
    failed,     \* history: the windows whose restore threw
    opened, skipped  \* history: the slots main opened, and could not, in this run

core    == <<slots, snaps, recents>>
windows == <<live, used, phase, told>>
page    == <<known, restored, todo, got, tabs, gate>>
bounds  == <<changes, faults, runs>>
history == <<loose, seen, failed, opened, skipped>>
vars == <<core, claims, windows, page, due, calls, closer, main, bounds, history>>

Ledger == [Windows -> SUBSET Roots]
NoLedger == [w \in Windows |-> {}]
IsSet(s) == s \notin {Absent, Unreadable}
Call == [kind : {"save", "record"}, roots : SUBSET Roots]

(* A claim or a release that was called and not served, and a claim that
   was granted to a page that has not opened the workspace yet.            *)
GateStep == {"claim", "open", "release"} \X Roots

TypeOK ==
    /\ slots \in Ledger
    /\ snaps \in [Windows -> (SUBSET Roots) \cup {Absent, Unreadable}]
    /\ recents \in BOOLEAN
    /\ claims \in [Roots -> Windows \cup {None}]
    /\ live \subseteq used /\ used \subseteq Windows
    /\ phase \in [Windows -> {"none", "asked", "created", "hydrating", "claiming", "ready"}]
    /\ told \in [Windows -> Roots \cup {None}]
    /\ known \in [Windows -> {"unread", "empty", "some"}]
    /\ restored \in [Windows -> BOOLEAN]
    /\ todo \in Ledger /\ got \in Ledger /\ tabs \in Ledger /\ seen \in Ledger
    /\ gate \in [Windows -> SUBSET GateStep]
    /\ due \in [Windows -> BOOLEAN]
    /\ calls \in [Windows -> Seq(Call)]
    /\ closer \in [Windows -> [at : {"no", "read", "forgotten", "closed"}, ledger : Ledger]]
    /\ main \in [at : {"ledger", "census", "slots", "sweep", "first", "done"}, ledger : Ledger,
                 answered : BOOLEAN, live : SUBSET Windows, todo : SUBSET Windows,
                 pruned : BOOLEAN, forget : SUBSET Windows]
    /\ changes \in 0 .. MaxChanges /\ faults \in 0 .. MaxFaults /\ runs \in 1 .. MaxRuns
    /\ loose \subseteq Roots
    /\ {failed, opened, skipped} \subseteq SUBSET Windows

------------------------------------------------------------------------------
(***************************************************************************)
(* The application starts: nothing but the store has survived.             *)
(***************************************************************************)
Unopened == [at |-> "ledger", ledger |-> NoLedger, answered |-> FALSE, live |-> {}, todo |-> {},
             pruned |-> FALSE, forget |-> {}]

(* Main's boot has ended, and its readings with it. *)
Booted == [Unopened EXCEPT !.at = "done"]

Init ==
    /\ snaps \in [Windows -> {Absent, Unreadable}]
    /\ slots = [w \in Windows |-> IF snaps[w] = Unreadable THEN {DefaultRoot} ELSE {}]
    /\ used = {w \in Windows : snaps[w] = Unreadable}
    /\ recents = (used # {})
    /\ claims = [r \in Roots |-> None]
    /\ live = {}
    /\ phase = [w \in Windows |-> "none"] /\ told = [w \in Windows |-> None]
    /\ known = [w \in Windows |-> "unread"] /\ restored = [w \in Windows |-> FALSE]
    /\ todo = NoLedger /\ got = NoLedger /\ tabs = NoLedger
    /\ gate = [w \in Windows |-> {}] /\ loose = {}
    /\ due = [w \in Windows |-> FALSE] /\ calls = [w \in Windows |-> <<>>]
    /\ closer = [w \in Windows |-> [at |-> "no", ledger |-> NoLedger]]
    /\ main = Unopened
    /\ changes = 0 /\ faults = 0 /\ runs = 1
    /\ seen = NoLedger /\ failed = {} /\ opened = {} /\ skipped = {}

(***************************************************************************)
(* The process ends, with or without app.shutdown, and is started again.   *)
(* What was under way is lost.                                             *)
(***************************************************************************)
Restart ==
    /\ runs < MaxRuns
    /\ runs' = runs + 1
    /\ claims' = [r \in Roots |-> None]
    /\ live' = {}
    /\ phase' = [w \in Windows |-> "none"] /\ told' = [w \in Windows |-> None]
    /\ known' = [w \in Windows |-> "unread"] /\ restored' = [w \in Windows |-> FALSE]
    /\ todo' = NoLedger /\ got' = NoLedger /\ tabs' = NoLedger
    /\ gate' = [w \in Windows |-> {}] /\ loose' = {}
    /\ due' = [w \in Windows |-> FALSE] /\ calls' = [w \in Windows |-> <<>>]
    /\ closer' = [w \in Windows |-> [at |-> "no", ledger |-> NoLedger]]
    /\ main' = Unopened
    /\ seen' = NoLedger /\ failed' = {} /\ opened' = {} /\ skipped' = {}
    /\ UNCHANGED <<core, used, changes, faults>>

Fails == faults < MaxFaults /\ faults' = faults + 1
Works == UNCHANGED faults

------------------------------------------------------------------------------
(***************************************************************************)
(* Claims (core/workspace/claim.go): an owner counts while its window      *)
(* exists; nothing removes the claims of a window that is gone.            *)
(***************************************************************************)
OwnerUnread(r) == None    \* mutant: the host answers that no window exists
OwnerOf(r) == IF claims[r] \in live THEN claims[r] ELSE None
ClaimableByAny(w, r) == TRUE    \* mutant: a root another window holds is given
Claimable(w, r) == OwnerOf(r) \in {None, w}

(* claimWorkspace takes a claim whose call fails for granted: the root may
   be open, or be opened, elsewhere.                                       *)
FailsOpen(r) == Fails /\ loose' = loose \cup {r}

(***************************************************************************)
(* window.new, and addWorkspaceClaimed on the control plane: with no owner *)
(* at the moment of asking, or no answer to the control plane's claim, a   *)
(* new window is created and told the root.  The creation is a call of its *)
(* own; the new window's claim decides.                                    *)
(***************************************************************************)
AskWindow(w, r) ==
    /\ w \notin used /\ changes < MaxChanges
    /\ (OwnerOf(r) = None /\ Works) \/ Fails
    /\ changes' = changes + 1
    /\ used' = used \cup {w}
    /\ phase' = [phase EXCEPT ![w] = "asked"]
    /\ told' = [told EXCEPT ![w] = r]
    /\ UNCHANGED <<core, claims, live, page, due, calls, closer, main, runs, history>>

CreateWindow(w) ==
    /\ phase[w] = "asked"
    /\ live' = live \cup {w}
    /\ phase' = [phase EXCEPT ![w] = "created"]
    /\ UNCHANGED <<core, claims, used, told, page, due, calls, closer, main, bounds, history>>

(***************************************************************************)
(* main.tsx: a page that was told a root claims it and opens it, or stays  *)
(* empty when another window holds it.                                     *)
(***************************************************************************)
Bootstrap(w) ==
    /\ phase[w] = "created"
    /\ phase' = [phase EXCEPT ![w] = "hydrating"]
    /\ told' = [told EXCEPT ![w] = None]
    /\ IF told[w] # None /\ Claimable(w, told[w])
       THEN /\ claims' = [claims EXCEPT ![told[w]] = w]
            /\ tabs' = [tabs EXCEPT ![w] = {told[w]}]
            /\ seen' = [seen EXCEPT ![w] = {told[w]}]
            /\ recents' = TRUE
       ELSE UNCHANGED <<claims, tabs, seen, recents>>
    /\ UNCHANGED <<slots, snaps, live, used, known, restored, todo, got, gate, due, calls, closer,
                   main, bounds, loose, failed, opened, skipped>>

BootstrapUnclaimed(w) ==
    /\ phase[w] = "created" /\ told[w] # None /\ FailsOpen(told[w])
    /\ phase' = [phase EXCEPT ![w] = "hydrating"]
    /\ told' = [told EXCEPT ![w] = None]
    /\ tabs' = [tabs EXCEPT ![w] = {told[w]}]
    /\ seen' = [seen EXCEPT ![w] = {told[w]}]
    /\ recents' = TRUE
    /\ UNCHANGED <<slots, snaps, claims, live, used, known, restored, todo, got, gate, due, calls,
                   closer, main, changes, runs, failed, opened, skipped>>

------------------------------------------------------------------------------
(***************************************************************************)
(* initWorkspacePersistence: read the snapshot; where it holds workspaces, *)
(* claim their roots one by one and restore those that were given; save    *)
(* once, and after every change.  A read that failed is unread, not empty. *)
(* (No window with an unreadable snapshot is opened: see RespawnSlot.)     *)
(***************************************************************************)
Knows(s) == IF s \in {Absent, {}} THEN "empty" ELSE "some"

Hydrate(w) ==
    /\ phase[w] = "hydrating" /\ Works
    /\ known' = [known EXCEPT ![w] = Knows(snaps[w])]
    /\ IF Knows(snaps[w]) = "some"
       THEN /\ todo' = [todo EXCEPT ![w] = snaps[w]]
            /\ phase' = [phase EXCEPT ![w] = "claiming"]
            /\ due' = due
       ELSE /\ todo' = todo
            /\ phase' = [phase EXCEPT ![w] = "ready"]
            /\ due' = [due EXCEPT ![w] = TRUE]
    /\ UNCHANGED <<core, claims, live, used, told, restored, got, tabs, gate, calls, closer,
                   main, changes, runs, history>>

HydrateRefused(w) ==
    /\ phase[w] = "hydrating" /\ Fails
    /\ phase' = [phase EXCEPT ![w] = "ready"]
    /\ due' = [due EXCEPT ![w] = TRUE]
    /\ UNCHANGED <<core, claims, live, used, told, page, calls, closer, main, changes, runs,
                   history>>

ClaimRoot(w, r) ==
    /\ phase[w] = "claiming" /\ r \in todo[w]
    /\ todo' = [todo EXCEPT ![w] = @ \ {r}]
    /\ IF Claimable(w, r)
       THEN /\ claims' = [claims EXCEPT ![r] = w]
            /\ got' = [got EXCEPT ![w] = @ \cup {r}]
            /\ seen' = seen
       ELSE /\ seen' = [seen EXCEPT ![w] = @ \cup {r}]
            /\ UNCHANGED <<claims, got>>
    /\ UNCHANGED <<core, windows, known, restored, tabs, gate, due, calls, closer, main, bounds,
                   loose, failed, opened, skipped>>

ClaimRootUnclaimed(w, r) ==
    /\ phase[w] = "claiming" /\ r \in todo[w] /\ FailsOpen(r)
    /\ todo' = [todo EXCEPT ![w] = @ \ {r}]
    /\ got' = [got EXCEPT ![w] = @ \cup {r}]
    /\ UNCHANGED <<core, claims, windows, known, restored, tabs, gate, due, calls, closer, main,
                   changes, runs, seen, failed, opened, skipped>>

Restored(w, R) ==
    /\ phase' = [phase EXCEPT ![w] = "ready"]
    /\ tabs' = [tabs EXCEPT ![w] = R]
    /\ restored' = [restored EXCEPT ![w] = (R # {})]
    /\ seen' = [seen EXCEPT ![w] = @ \cup R]
    /\ todo' = [todo EXCEPT ![w] = {}]
    /\ got' = [got EXCEPT ![w] = {}]
    /\ due' = [due EXCEPT ![w] = TRUE]

RestoreWorkspaces(w) ==
    /\ phase[w] = "claiming" /\ todo[w] = {}
    /\ Restored(w, IF tabs[w] # {} THEN tabs[w] ELSE got[w])
    /\ UNCHANGED <<core, claims, live, used, told, known, gate, calls, closer, main, bounds, loose,
                   failed, opened, skipped>>

(* Any step of the restore may throw: the page goes on as it is. *)
RestoreThrows(w) ==
    /\ phase[w] = "claiming" /\ tabs[w] = {} /\ Fails
    /\ Restored(w, {})
    /\ failed' = failed \cup {w}
    /\ UNCHANGED <<core, claims, live, used, told, known, gate, calls, closer, main, changes, runs,
                   loose, opened, skipped>>

------------------------------------------------------------------------------
(***************************************************************************)
(* The user opens and closes workspaces (addWorkspaceClaimed,              *)
(* closeWorkspaceReleased).  An open calls for the claim, and goes on with *)
(* the answer; a root that is open already is only made the active one.  A *)
(* close calls for the release once the workspace is closed; the last      *)
(* workspace of a window is not closed.  Nothing orders an open and a      *)
(* close of one root, or their calls.  (Bound: one claim and one release   *)
(* of a root under way in a window.)                                       *)
(***************************************************************************)
Opening(r) == {<<"claim", r>>, <<"open", r>>}

AskClaim(w, r) ==
    /\ phase[w] = "ready" /\ changes < MaxChanges
    /\ <<"claim", r>> \notin gate[w]
    /\ changes' = changes + 1
    /\ gate' = [gate EXCEPT ![w] = @ \cup {<<"claim", r>>}]
    /\ loose' = IF <<"release", r>> \in gate[w] THEN loose \cup {r} ELSE loose
    /\ UNCHANGED <<core, claims, windows, known, restored, todo, got, tabs, due, calls, closer, main,
                   faults, runs, seen, failed, opened, skipped>>

(* A refused open focuses the owner's window, and ends. *)
ServeClaim(w, r) ==
    /\ <<"claim", r>> \in gate[w]
    /\ IF Claimable(w, r)
       THEN /\ claims' = [claims EXCEPT ![r] = w]
            /\ gate' = [gate EXCEPT ![w] = (@ \ {<<"claim", r>>}) \cup {<<"open", r>>}]
       ELSE /\ claims' = claims
            /\ gate' = [gate EXCEPT ![w] = @ \ {<<"claim", r>>}]
    /\ UNCHANGED <<core, windows, known, restored, todo, got, tabs, due, calls, closer, main, bounds,
                   history>>

ClaimFails(w, r) ==
    /\ <<"claim", r>> \in gate[w] /\ FailsOpen(r)
    /\ gate' = [gate EXCEPT ![w] = (@ \ {<<"claim", r>>}) \cup {<<"open", r>>}]
    /\ UNCHANGED <<core, claims, windows, known, restored, todo, got, tabs, due, calls, closer, main,
                   changes, runs, seen, failed, opened, skipped>>

AddWorkspace(w, r) ==
    /\ <<"open", r>> \in gate[w]
    /\ gate' = [gate EXCEPT ![w] = @ \ {<<"open", r>>}]
    /\ tabs' = [tabs EXCEPT ![w] = @ \cup {r}]
    /\ seen' = [seen EXCEPT ![w] = @ \cup {r}]
    /\ due' = [due EXCEPT ![w] = TRUE]
    /\ recents' = TRUE
    /\ UNCHANGED <<slots, snaps, claims, windows, known, restored, todo, got, calls, closer, main,
                   bounds, loose, failed, opened, skipped>>

CloseWorkspace(w, r) ==
    /\ phase[w] = "ready" /\ changes < MaxChanges
    /\ r \in tabs[w] /\ tabs[w] # {r}
    /\ changes' = changes + 1
    /\ tabs' = [tabs EXCEPT ![w] = @ \ {r}]
    /\ gate' = [gate EXCEPT ![w] = @ \cup {<<"release", r>>}]
    /\ loose' = IF Opening(r) \cap gate[w] # {} THEN loose \cup {r} ELSE loose
    /\ due' = [due EXCEPT ![w] = TRUE]
    /\ UNCHANGED <<core, claims, windows, known, restored, todo, got, calls, closer, main, faults,
                   runs, seen, failed, opened, skipped>>

ServeRelease(w, r) ==
    /\ <<"release", r>> \in gate[w]
    /\ gate' = [gate EXCEPT ![w] = @ \ {<<"release", r>>}]
    /\ claims' = IF OwnerOf(r) = w THEN [claims EXCEPT ![r] = None] ELSE claims
    /\ UNCHANGED <<core, windows, known, restored, todo, got, tabs, due, calls, closer, main, bounds,
                   history>>

ReleaseFails(w, r) ==
    /\ <<"release", r>> \in gate[w] /\ Fails
    /\ gate' = [gate EXCEPT ![w] = @ \ {<<"release", r>>}]
    /\ UNCHANGED <<core, claims, windows, known, restored, todo, got, tabs, due, calls, closer, main,
                   changes, runs, history>>

------------------------------------------------------------------------------
(***************************************************************************)
(* persistOnce.  A page that could not read its snapshot reads it again    *)
(* (settleUnread) and adopts only an empty answer; mayPersist decides; the *)
(* snapshot is posted, and once it is in the store the slot.               *)
(***************************************************************************)
MayAdoptLateRead(s) == s \in {Absent, {}}

MayPersistBlind(kn, re, R) ==     \* mutant: unread is taken for empty
    kn \in {"unread", "empty"} \/ re \/ R # {}
MayPersist(kn, re, R) ==
    CASE kn = "unread" -> FALSE
      [] kn = "empty"  -> TRUE
      [] OTHER         -> re \/ R # {}

KnownNow(w) ==
    IF known[w] = "unread" /\ MayAdoptLateRead(snaps[w]) THEN "empty" ELSE known[w]

Post(w, kn) ==
    calls' = IF MayPersist(kn, restored[w], tabs[w])
             THEN [calls EXCEPT ![w] = Append(@, [kind |-> "save", roots |-> tabs[w]])]
             ELSE calls

PersistOnce(w) ==
    /\ phase[w] = "ready" /\ due[w] /\ Len(calls[w]) < MaxOut
    /\ due' = [due EXCEPT ![w] = FALSE]
    /\ known' = [known EXCEPT ![w] = KnownNow(w)]
    /\ Post(w, KnownNow(w))
    /\ UNCHANGED <<core, claims, windows, restored, todo, got, tabs, gate, closer, main, bounds,
                   history>>

\* A core that failed the read at boot may fail this one: no further fault.
LateReadRefused(w) ==
    /\ phase[w] = "ready" /\ due[w] /\ known[w] = "unread"
    /\ due' = [due EXCEPT ![w] = FALSE]
    /\ UNCHANGED <<core, claims, windows, page, calls, closer, main, bounds, history>>

(***************************************************************************)
(* The core serves a call.  The page, if it still is, goes on from its     *)
(* snapshot to its slot, which the core merges into the ledger under its   *)
(* lock (manifest.go, Upsert); an empty slot is pruned.                    *)
(***************************************************************************)
ServeSave(w, i) ==
    /\ calls[w][i].kind = "save"
    /\ snaps' = [snaps EXCEPT ![w] = calls[w][i].roots]
    /\ calls' = IF w \in live THEN [calls EXCEPT ![w][i].kind = "record"]
                ELSE [calls EXCEPT ![w] = RemoveAt(@, i)]
    /\ UNCHANGED <<slots, recents, claims, windows, page, due, closer, main, bounds, history>>

Upsert(w, i) ==
    /\ calls[w][i].kind = "record"
    /\ slots' = [slots EXCEPT ![w] = calls[w][i].roots]
    /\ calls' = [calls EXCEPT ![w] = RemoveAt(@, i)]
    /\ UNCHANGED <<snaps, recents, claims, windows, page, due, closer, main, bounds, history>>

RefuseCall(w, i) ==
    /\ Fails
    /\ calls' = [calls EXCEPT ![w] = RemoveAt(@, i)]
    /\ UNCHANGED <<core, claims, windows, page, due, closer, main, changes, runs, history>>

------------------------------------------------------------------------------
(***************************************************************************)
(* window.close: forgetWindowSlot reads the whole ledger and writes it     *)
(* back without this window; then, 30 ms later where it closes itself, the *)
(* window is destroyed.  A refused read or write only costs the            *)
(* forgetting.  pagehide may still post a last save.  The calls of a page  *)
(* that is gone give and take no claim of a window that exists.            *)
(***************************************************************************)
ReadForClose(w) ==
    /\ w \in live /\ closer[w].at = "no" /\ changes < MaxChanges
    /\ changes' = changes + 1
    /\ closer' = [closer EXCEPT ![w] = [at |-> "read", ledger |-> slots]]
    /\ UNCHANGED <<core, claims, windows, page, due, calls, main, faults, runs, history>>

ForgetSlot(w) ==
    /\ closer[w].at = "read" /\ Works
    /\ slots' = IF closer[w].ledger[w] = {} THEN slots ELSE [closer[w].ledger EXCEPT ![w] = {}]
    /\ closer' = [closer EXCEPT ![w] = [at |-> "forgotten", ledger |-> NoLedger]]
    /\ UNCHANGED <<snaps, recents, claims, windows, page, due, calls, main, changes, runs, history>>

ForgetRefused(w) ==
    /\ closer[w].at = "read" /\ Fails
    /\ closer' = [closer EXCEPT ![w] = [at |-> "forgotten", ledger |-> NoLedger]]
    /\ UNCHANGED <<core, claims, windows, page, due, calls, main, changes, runs, history>>

Destroy(w) ==
    /\ closer[w].at = "forgotten"
    /\ closer' = [closer EXCEPT ![w].at = "closed"]
    /\ live' = live \ {w}
    /\ phase' = [phase EXCEPT ![w] = "none"]
    /\ told' = [told EXCEPT ![w] = None]
    /\ tabs' = [tabs EXCEPT ![w] = {}]
    /\ todo' = [todo EXCEPT ![w] = {}] /\ got' = [got EXCEPT ![w] = {}]
    /\ gate' = [gate EXCEPT ![w] = {}]
    /\ due' = [due EXCEPT ![w] = FALSE]
    /\ known' = [known EXCEPT ![w] = "unread"] /\ restored' = [restored EXCEPT ![w] = FALSE]
    /\ \/ phase[w] = "ready" /\ Len(calls[w]) < MaxOut /\ Post(w, known[w])
       \/ UNCHANGED calls
    /\ UNCHANGED <<core, claims, used, main, bounds, history>>

------------------------------------------------------------------------------
(***************************************************************************)
(* respawnSavedWindows, on main's boot: the ledger, then which windows     *)
(* exist, then one slot at a time.                                         *)
(***************************************************************************)
ReadLedger ==
    /\ main.at = "ledger" /\ Works
    /\ main' = [main EXCEPT !.at = "census", !.ledger = slots]
    /\ UNCHANGED <<core, claims, windows, page, due, calls, closer, changes, runs, history>>

LedgerRefused ==
    /\ main.at = "ledger" /\ Fails
    /\ main' = Booted
    /\ UNCHANGED <<core, claims, windows, page, due, calls, closer, changes, runs, history>>

Restorable(ledger, alive) == {w \in Windows : ledger[w] # {} /\ w \notin alive}

Census ==
    /\ main.at = "census" /\ Works
    /\ main' = [main EXCEPT !.at = "slots", !.answered = TRUE, !.live = live,
                            !.todo = Restorable(main.ledger, live)]
    /\ UNCHANGED <<core, claims, windows, page, due, calls, closer, changes, runs, history>>

CensusRefused ==
    /\ main.at = "census" /\ Fails
    /\ main' = [main EXCEPT !.at = "slots"]
    /\ UNCHANGED <<core, claims, windows, page, due, calls, closer, changes, runs, history>>

(***************************************************************************)
(* A slot whose snapshot is absent, unreadable or refused is passed over   *)
(* and kept; an empty one is pruned; any other window is created.          *)
(***************************************************************************)
PassOverRest(w) ==      \* mutant: one slot that fails ends the loop
    main' = [main EXCEPT !.todo = {}] /\ UNCHANGED <<live, phase, opened>>
PassOver(w) ==
    main' = [main EXCEPT !.todo = @ \ {w}] /\ UNCHANGED <<live, phase, opened>>

RespawnSlot(w) ==
    /\ main.at = "slots" /\ w \in main.todo
    /\ CASE ~IsSet(snaps[w]) -> PassOver(w)
         [] snaps[w] = {}    ->
              /\ main' = [main EXCEPT !.todo = @ \ {w}, !.ledger[w] = {}, !.pruned = TRUE]
              /\ UNCHANGED <<live, phase, opened>>
         [] OTHER            ->
              /\ main' = [main EXCEPT !.todo = @ \ {w}]
              /\ live' = live \cup {w}
              /\ phase' = [phase EXCEPT ![w] = "created"]
              /\ opened' = opened \cup {w}
    /\ UNCHANGED <<core, claims, used, told, page, due, calls, closer, bounds, loose, seen,
                   failed, skipped>>

RespawnRefused(w) ==
    /\ main.at = "slots" /\ w \in main.todo /\ Fails
    /\ main' = [main EXCEPT !.todo = @ \ {w}]
    /\ skipped' = skipped \cup {w}
    /\ UNCHANGED <<core, claims, windows, page, due, calls, closer, changes, runs, loose, seen,
                   failed, opened>>

(***************************************************************************)
(* A ledger that was pruned is written back whole.  A refusal ends the     *)
(* respawn.                                                                *)
(***************************************************************************)
SavePruned ==
    /\ main.at = "slots" /\ main.todo = {} /\ Works
    /\ slots' = IF main.pruned THEN main.ledger ELSE slots
    /\ main' = [main EXCEPT !.at = "sweep"]
    /\ UNCHANGED <<snaps, recents, claims, windows, page, due, calls, closer, changes, runs,
                   history>>

PrunedRefused ==
    /\ main.at = "slots" /\ main.todo = {} /\ main.pruned /\ Fails
    /\ main' = Booted
    /\ UNCHANGED <<core, claims, windows, page, due, calls, closer, changes, runs, history>>

(***************************************************************************)
(* sweepOrphanedSnapshots: the snapshots neither a slot of main's ledger   *)
(* nor a window of its census names are deleted, one call each.            *)
(***************************************************************************)
ForgetAllButLive(ledger, alive) ==     \* mutant: the ledger's labels are not kept
    {w \in Windows : snaps[w] # Absent /\ w \notin alive}
SnapshotsToForget(ledger, alive) ==
    {w \in Windows : snaps[w] # Absent /\ ledger[w] = {} /\ w \notin alive}

Sweep ==
    /\ main.at = "sweep" /\ Works
    /\ main' = [main EXCEPT !.at = "first",
                            !.forget = IF main.answered
                                       THEN SnapshotsToForget(main.ledger, main.live) ELSE {}]
    /\ UNCHANGED <<core, claims, windows, page, due, calls, closer, changes, runs, history>>

DeleteSnapshot(w) ==
    /\ w \in main.forget /\ Works
    /\ snaps' = [snaps EXCEPT ![w] = Absent]
    /\ main' = [main EXCEPT !.forget = @ \ {w}]
    /\ UNCHANGED <<slots, recents, claims, windows, page, due, calls, closer, changes, runs,
                   history>>

SweepRefused ==
    /\ main.at = "sweep" \/ main.forget # {}
    /\ Fails
    /\ main' = [main EXCEPT !.at = "first", !.forget = {}]
    /\ UNCHANGED <<core, claims, windows, page, due, calls, closer, changes, runs, history>>

(***************************************************************************)
(* With no slot and no workspace ever opened, a first run opens one.  The  *)
(* list of recent workspaces that cannot be read is taken for empty.       *)
(***************************************************************************)
FirstRun(w) ==
    /\ main.at = "first" /\ main.forget = {} /\ main.ledger = NoLedger
    /\ (~recents /\ Works) \/ Fails
    /\ w \notin used
    /\ main' = Booted
    /\ used' = used \cup {w}
    /\ live' = live \cup {w}
    /\ phase' = [phase EXCEPT ![w] = "created"]
    /\ told' = [told EXCEPT ![w] = DefaultRoot]
    /\ UNCHANGED <<core, claims, page, due, calls, closer, changes, runs, history>>

NotFirstRun ==
    /\ main.at = "first" /\ main.forget = {}
    /\ main.ledger # NoLedger \/ recents
    /\ main' = Booted
    /\ UNCHANGED <<core, claims, windows, page, due, calls, closer, bounds, history>>

------------------------------------------------------------------------------
PageStep(w) ==
    \/ CreateWindow(w) \/ Bootstrap(w) \/ BootstrapUnclaimed(w) \/ Hydrate(w) \/ HydrateRefused(w)
    \/ \E r \in Roots : ClaimRoot(w, r) \/ ClaimRootUnclaimed(w, r)
    \/ RestoreWorkspaces(w) \/ RestoreThrows(w)
    \/ PersistOnce(w) \/ LateReadRefused(w)
    \/ \E i \in 1 .. Len(calls[w]) : ServeSave(w, i) \/ Upsert(w, i) \/ RefuseCall(w, i)

UserStep(w) ==
    \/ \E r \in Roots :
          \/ AskWindow(w, r)
          \/ AskClaim(w, r) \/ ServeClaim(w, r) \/ ClaimFails(w, r) \/ AddWorkspace(w, r)
          \/ CloseWorkspace(w, r) \/ ServeRelease(w, r) \/ ReleaseFails(w, r)
    \/ ReadForClose(w) \/ ForgetSlot(w) \/ ForgetRefused(w) \/ Destroy(w)

MainStep ==
    \/ ReadLedger \/ LedgerRefused \/ Census \/ CensusRefused
    \/ \E w \in Windows : RespawnSlot(w) \/ RespawnRefused(w) \/ DeleteSnapshot(w) \/ FirstRun(w)
    \/ SavePruned \/ PrunedRefused \/ Sweep \/ SweepRefused \/ NotFirstRun

Next ==
    \/ \E w \in Windows : PageStep(w) \/ UserStep(w)
    \/ MainStep
    \/ Restart

Spec == Init /\ [][Next]_vars

------------------------------------------------------------------------------
(***************************************************************************)
(* Properties.                                                             *)
(***************************************************************************)

(* A root is open in one window only, and that window holds its claim,
   while the gate guards it: of two windows whose snapshots share a root,
   or that were created for the same root, one goes without it (P6;
   claimRoots, addWorkspaceClaimed).  The gate guards a root no longer, in
   this run, once a claim of it failed and was taken for granted, or a
   page claimed it with a release of it under way, or closed it with an
   open of it under way: only these, and only for that root.               *)
OneWindowPerRoot ==
    \A w \in live : \A r \in tabs[w] \ loose :
       claims[r] = w /\ \A x \in live \ {w} : r \notin tabs[x]

(* P6 as a specification of its own: what the windows have open behind the
   gate implements SingleOpen.  No step hands a root from one window to
   another.                                                                *)
HolderOf(r) ==
    IF r \notin loose /\ \E w \in live : r \in tabs[w]
    THEN CHOOSE w \in live : r \in tabs[w] ELSE None

Promise == INSTANCE SingleOpen WITH Nowhere <- None, where <- [r \in Roots |-> HolderOf(r)]

OneOpen == Promise!Spec

(* "The unknown does not overwrite the known" (persistGuard.ts): a root
   leaves a window's snapshot only after the page showed it, or found it
   open in another window.  A page whose restore threw replaces the
   snapshot once the user opened something in it, never by nothing.        *)
NothingErasedUnseen ==
    [][\A w \in Windows :
          IsSet(snaps[w]) /\ IsSet(snaps'[w])
          => \/ snaps[w] \ snaps'[w] \subseteq seen[w]
             \/ w \in failed /\ snaps'[w] # {}]_vars

(* A snapshot this build cannot read stays as it is, and so does its slot,
   through every boot, close and sweep (windowSnapshotShape.ts: "a record
   it cannot read is left where it is").                                   *)
UnreadableStays ==
    [][\A w \in Windows :
          snaps[w] = Unreadable => snaps'[w] = Unreadable /\ slots'[w] = slots[w]]_vars

(* One slot at a time, and one that fails costs itself only: when main has
   been through the ledger, every slot it read that no window held was
   opened, unless its own record or its own call was at fault, or it was
   empty (respawnSavedWindows).                                            *)
RespawnReachesAll ==
    main.answered /\ main.todo = {} /\ main.at \in {"slots", "sweep", "first"}
    => \A w \in Restorable(main.ledger, main.live) :
          w \in opened \cup skipped \/ ~IsSet(snaps[w])

(* The code breaks the three that follow (README, Disagreements).
   "One root is open in at most one place across all windows" (P6,
   workspaceRegistry.ts:5): also where a claim failed, or where a close
   and an open of the root meet.                                           *)
OneWindowAlways ==
    \A w \in live : \A x \in live \ {w} : tabs[w] \cap tabs[x] = {}

(* Once main is done, nobody closes a window and nothing is under way, what
   a window has open is what it will come back with, when no call failed.
   "The ledger is not read-modify-written.  [...] writing the whole thing
   back makes the later write erase the other's slot" (persistNow).        *)
Settled ==
    /\ main.at = "done" /\ faults = 0
    /\ \A w \in Windows :
          /\ closer[w].at \in {"no", "closed"} /\ ~due[w] /\ calls[w] = <<>>
          /\ phase[w] \in {"none", "ready"}

OpenComesBack ==
    Settled => \A w \in live : tabs[w] # {} => snaps[w] = tabs[w] /\ slots[w] = tabs[w]

(* A window the user closed has no slot to come back by, when no call
   failed (forgetWindowSlot).                                              *)
ClosedIsForgotten ==
    Settled => \A w \in Windows : closer[w].at = "closed" => slots[w] = {}
==============================================================================
