------------------------ MODULE WindowPersistence_proofs ------------------------
(***************************************************************************)
(* Proofs about WindowPersistence, for any windows, roots and bounds: type *)
(* correctness, that a root is open in one window only (as an invariant    *)
(* and as a refinement of SingleOpen), that a record the build cannot read *)
(* is left alone, that the respawn reaches every slot, and that nothing a  *)
(* window has not seen leaves its snapshot.                                *)
(***************************************************************************)
EXTENDS WindowPersistence, SequenceTheorems, TLAPS

(* The types of main's boot. *)
Boot == [at : {"ledger", "census", "slots", "sweep", "first", "done"}, ledger : Ledger,
         answered : BOOLEAN, live : SUBSET Windows, todo : SUBSET Windows,
         pruned : BOOLEAN, forget : SUBSET Windows]

Pages == {"created", "hydrating", "claiming", "ready"}
Early == {"ledger", "census", "slots", "sweep"}
Reading == {"census", "slots", "sweep", "first"}

(* A window exists exactly while it has a page, and its label was issued; a
   page that is not ready has called for no open or close.                 *)
Standing ==
    \A w \in Windows :
       /\ w \in live <=> phase[w] \in Pages
       /\ phase[w] # "none" => w \in used
       /\ phase[w] # "claiming" => got[w] = {}
       /\ phase[w] \notin Pages \ {"created"} => tabs[w] = {}
       /\ phase[w] # "ready" => gate[w] = {}

(* What a window has open, or was given to open. *)
Has(w) == tabs[w] \cup got[w] \cup {r \in Roots : <<"open", r>> \in gate[w]}

(* A window has a guarded root by its claim, and neither has nor claims one
   it is about to release.                                                 *)
Claimed ==
    \A w \in Windows : \A r \in Roots :
       r \in loose \/ (r \in Has(w) => claims[r] = w)

Parting ==
    \A w \in Windows : \A r \in Roots :
       \/ r \in loose
       \/ <<"release", r>> \in gate[w] => r \notin Has(w) /\ <<"claim", r>> \notin gate[w]

Held == Claimed /\ Parting

(* A label that was not issued yet, or whose window was not created yet, is
   in no ledger and no copy of it.                                         *)
Unrecorded ==
    \A w \in Windows : w \notin used \/ phase[w] = "asked" =>
       /\ slots[w] = {} /\ calls[w] = <<>> /\ main.ledger[w] = {}
       /\ \A x \in Windows : closer[x].ledger[w] = {}

(* The slots main has still to open are of windows that are not there. *)
Respawnable == \A w \in main.todo : w \in used /\ phase[w] = "none"

(* An unreadable snapshot belongs to no window that exists, and whoever has
   a copy of the ledger has its slot as it is.                             *)
LeftAlone ==
    \A w \in Windows : snaps[w] = Unreadable =>
       /\ w \in used /\ phase[w] = "none" /\ calls[w] = <<>> /\ w \notin main.forget
       /\ slots[w] # {} /\ closer[w].at = "no"
       /\ main.at \in Reading => main.ledger[w] = slots[w]
       /\ \A x \in Windows : closer[x].at = "read" => closer[x].ledger[w] = slots[w]

(* Until main deletes snapshots, one that is absent was never saved, or is
   of a window that can save no more in this run; a slot main read is of
   the second kind.                                                        *)
Saves == {c \in Call : c.kind = "save"}
Gone(w) == w \in used /\ phase[w] = "none" /\ calls[w] = <<>>

Saved ==
    \A w \in Windows : snaps[w] = Absent =>
       /\ main.at \in Early =>
            \/ Gone(w)
            \/ /\ slots[w] = {} /\ \A x \in Windows : closer[x].ledger[w] = {}
               /\ calls[w] \in Seq(Saves)
       /\ main.at \in Reading /\ main.ledger[w] # {} => Gone(w)

(* What main has made of the slots it read. *)
Reached ==
    /\ main.at \in {"ledger", "census"} => ~main.answered
    /\ main.at # "first" => main.forget = {}
    /\ \A w \in main.forget : main.ledger[w] = {}
    /\ main.answered /\ main.at \in Reading =>
         \A w \in Restorable(main.ledger, main.live) :
            w \in main.todo \cup opened \cup skipped \/ ~IsSet(snaps[w])

IInv == TypeOK /\ Standing /\ Held /\ Unrecorded /\ Respawnable /\ LeftAlone /\ Saved /\ Reached

------------------------------------------------------------------------------
(* A sequence less one element is a sequence of the same kind. *)
LEMMA RemoveAtType ==
    ASSUME NEW S, NEW s \in Seq(S), NEW i \in 1 .. Len(s)
    PROVE  RemoveAt(s, i) \in Seq(S)
<1>1. SubSeq(s, 1, i - 1) \in Seq(S)
  BY SubSeqProperties, LenProperties, ElementOfSeq
<1>2. SubSeq(s, i + 1, Len(s)) \in Seq(S)
  BY SubSeqProperties, LenProperties, ElementOfSeq
<1>3. QED
  BY <1>1, <1>2, ConcatProperties DEF RemoveAt

(* A call that fails stays within the bound on faults. *)
LEMMA FaultsType ==
    ASSUME TypeOK, Fails
    PROVE  faults' \in 0 .. MaxFaults
  BY WindowPersistenceAssumption DEF TypeOK, Fails

(* The first state: what an earlier version left, and nothing else. *)
LEMMA InitInv == Init => IInv
<1> SUFFICES ASSUME Init PROVE IInv
  OBVIOUS
<1>1. <<>> \in Seq(Call)
  BY EmptySeq
<1>2. TypeOK
<2>1. NoLedger \in Ledger /\ slots \in Ledger
  BY WindowPersistenceAssumption DEF Init, NoLedger, Ledger
<2>2. /\ closer \in [Windows -> [at : {"no", "read", "forgotten", "closed"}, ledger : Ledger]]
      /\ main \in Boot
  BY <2>1 DEF Init, Unopened, Boot
<2>3. /\ snaps \in [Windows -> (SUBSET Roots) \cup {Absent, Unreadable}]
      /\ live \subseteq used /\ used \subseteq Windows /\ recents \in BOOLEAN
  BY DEF Init
<2>4. changes \in 0 .. MaxChanges /\ faults \in 0 .. MaxFaults /\ runs \in 1 .. MaxRuns
  BY WindowPersistenceAssumption DEF Init
<2>5. QED
  BY <1>1, <2>1, <2>2, <2>3, <2>4 DEF Init, TypeOK, Boot
<1>3. Standing /\ Held /\ Unrecorded /\ Respawnable
  BY DEF Init, Standing, Pages, Held, Claimed, Parting, Has, Unrecorded, Respawnable, NoLedger, Unopened
<1>4. LeftAlone
  BY DEF Init, LeftAlone, Reading, NoLedger, Unopened
<1>5. Saved /\ Reached
  BY WindowPersistenceAssumption, EmptySeq
  DEF Init, TypeOK, Saved, Reached, Gone, Early, Reading, NoLedger, Unopened
<1>6. QED
  BY <1>2, <1>3, <1>4, <1>5 DEF IInv

(* Main's boot has ended. *)
LEMMA BootedType == Booted \in Boot
  BY DEF Booted, Unopened, Boot, NoLedger, Ledger

LEMMA BootEnded ==
    /\ Booted.at = "done" /\ Booted.ledger = NoLedger /\ Booted.todo = {} /\ Booted.forget = {}
    /\ \A x \in Windows : Booted.ledger[x] = {}
  BY DEF Booted, Unopened, NoLedger

(* The calls of an open or a close change the claims and what is under way
   only.                                                                   *)
GateCall(w, r) ==
    AskClaim(w, r) \/ ServeClaim(w, r) \/ ClaimFails(w, r) \/ ServeRelease(w, r) \/ ReleaseFails(w, r)

LEMMA GateCalls ==
    ASSUME NEW w \in Windows, NEW r \in Roots, GateCall(w, r)
    PROVE  UNCHANGED <<core, windows, known, restored, todo, got, tabs, due, calls, closer, main,
                       runs, seen, failed, opened, skipped>>
  BY DEF GateCall, AskClaim, ServeClaim, ClaimFails, ServeRelease, ReleaseFails, bounds, history

(* No step leaves the types. *)
LEMMA TypeStep ==
    ASSUME TypeOK, Standing, Respawnable, LeftAlone, [Next]_vars
    PROVE  TypeOK'
<1>1. ASSUME NEW w \in Windows, CreateWindow(w)
      PROVE  TypeOK'
  BY <1>1, Standing
  DEF TypeOK, Ledger, Standing, CreateWindow, core, page, bounds, history
<1>2. ASSUME NEW w \in Windows, Bootstrap(w)
      PROVE  TypeOK'
<2>1. claims' \in [Roots -> Windows \cup {None}] /\ recents' \in BOOLEAN
  BY <1>2 DEF TypeOK, Bootstrap
<2>2. tabs' \in Ledger /\ seen' \in Ledger
  <3>1. CASE told[w] # None /\ Claimable(w, told[w])
    <4>1. told[w] \in Roots
      BY <3>1 DEF TypeOK
    <4>2. /\ tabs' = [tabs EXCEPT ![w] = {told[w]}]
          /\ seen' = [seen EXCEPT ![w] = {told[w]}]
      BY <1>2, <3>1 DEF Bootstrap
    <4>3. QED
      BY <4>1, <4>2 DEF TypeOK, Ledger
  <3>2. CASE ~(told[w] # None /\ Claimable(w, told[w]))
    <4>1. tabs' = tabs /\ seen' = seen
      BY <1>2, <3>2 DEF Bootstrap
    <4>2. QED
      BY <4>1 DEF TypeOK
  <3>3. QED
    BY <3>1, <3>2
<2>3. QED
  BY <1>2, <2>1, <2>2 DEF TypeOK, Bootstrap, bounds
<1>3. ASSUME NEW w \in Windows, BootstrapUnclaimed(w)
      PROVE  TypeOK'
<2>1. told[w] \in Roots
  BY <1>3 DEF TypeOK, BootstrapUnclaimed
<2>2. faults' \in 0 .. MaxFaults /\ loose' \subseteq Roots
  BY <1>3, <2>1, FaultsType DEF TypeOK, BootstrapUnclaimed, FailsOpen
<2>3. tabs' \in Ledger /\ seen' \in Ledger
  BY <1>3, <2>1 DEF TypeOK, Ledger, BootstrapUnclaimed
<2>4. QED
  BY <1>3, <2>2, <2>3 DEF TypeOK, BootstrapUnclaimed
<1>4. ASSUME NEW w \in Windows, Hydrate(w)
      PROVE  TypeOK'
<2>1. known' \in [Windows -> {"unread", "empty", "some"}]
  BY <1>4 DEF TypeOK, Hydrate, Knows
<2>2. CASE Knows(snaps[w]) = "some"
  <3>1. snaps[w] \in SUBSET Roots
    BY <1>4, <2>2 DEF TypeOK, LeftAlone, Hydrate, Knows
  <3>2. todo' \in Ledger
    BY <1>4, <2>2, <3>1 DEF TypeOK, Ledger, Hydrate
  <3>3. phase' = [phase EXCEPT ![w] = "claiming"] /\ due' = due
    BY <1>4, <2>2 DEF Hydrate
  <3>4. QED
    BY <1>4, <2>1, <3>2, <3>3 DEF TypeOK, Hydrate, core, Works, history
<2>3. CASE Knows(snaps[w]) # "some"
  <3>1. /\ todo' = todo /\ phase' = [phase EXCEPT ![w] = "ready"]
        /\ due' = [due EXCEPT ![w] = TRUE]
    BY <1>4, <2>3 DEF Hydrate
  <3>2. QED
    BY <1>4, <2>1, <3>1 DEF TypeOK, Hydrate, core, Works, history
<2>4. QED
  BY <2>2, <2>3
<1>5. ASSUME NEW w \in Windows, HydrateRefused(w)
      PROVE  TypeOK'
  BY <1>5, WindowPersistenceAssumption
  DEF TypeOK, Ledger, HydrateRefused, core, page, history, Fails
<1>6. ASSUME NEW w \in Windows, NEW r \in Roots, ClaimRoot(w, r)
      PROVE  TypeOK'
<2>1. claims' \in [Roots -> Windows \cup {None}]
  BY <1>6 DEF TypeOK, ClaimRoot
<2>2. todo' \in Ledger /\ got \in Ledger /\ seen \in Ledger
  BY <1>6 DEF TypeOK, ClaimRoot, Ledger
<2>3. got' \in Ledger
  BY <1>6, <2>2 DEF ClaimRoot, Ledger
<2>4. seen' \in Ledger
  BY <1>6, <2>2 DEF ClaimRoot, Ledger
<2>5. QED
  BY <1>6, <2>1, <2>2, <2>3, <2>4 DEF TypeOK, ClaimRoot, core, windows, bounds
<1>7. ASSUME NEW w \in Windows, NEW r \in Roots, ClaimRootUnclaimed(w, r)
      PROVE  TypeOK'
<2>1. faults' \in 0 .. MaxFaults /\ loose' \subseteq Roots
  BY <1>7, FaultsType DEF TypeOK, ClaimRootUnclaimed, FailsOpen
<2>2. todo' \in Ledger /\ got' \in Ledger
  BY <1>7 DEF TypeOK, Ledger, ClaimRootUnclaimed
<2>3. QED
  BY <1>7, <2>1, <2>2 DEF TypeOK, ClaimRootUnclaimed, core, windows
<1>8. ASSUME NEW w \in Windows, RestoreWorkspaces(w)
      PROVE  TypeOK'
  BY <1>8, WindowPersistenceAssumption
  DEF TypeOK, Ledger, RestoreWorkspaces, core, bounds, Restored
<1>9. ASSUME NEW w \in Windows, RestoreThrows(w)
      PROVE  TypeOK'
  BY <1>9, WindowPersistenceAssumption
  DEF TypeOK, Ledger, RestoreThrows, core, Fails, Restored
<1>10. ASSUME NEW w \in Windows, PersistOnce(w)
      PROVE  TypeOK'
<2>1. [kind |-> "save", roots |-> tabs[w]] \in Call
  BY DEF TypeOK, Ledger, Call
<2>2. Append(calls[w], [kind |-> "save", roots |-> tabs[w]]) \in Seq(Call)
  BY <2>1, AppendProperties DEF TypeOK
<2>3. calls' \in [Windows -> Seq(Call)]
  BY <1>10, <2>2 DEF TypeOK, PersistOnce, Post
<2>4. QED
  BY <1>10, <2>3 DEF TypeOK, Ledger, PersistOnce, KnownNow, core, windows, bounds, history
<1>11. ASSUME NEW w \in Windows, LateReadRefused(w)
      PROVE  TypeOK'
  BY <1>11, WindowPersistenceAssumption
  DEF TypeOK, Ledger, LateReadRefused, core, windows, page, bounds, history
<1>12. ASSUME NEW w \in Windows, NEW i \in 1 .. Len(calls[w]), ServeSave(w, i)
      PROVE  TypeOK'
<2>1. calls[w] \in Seq(Call) /\ calls[w][i] \in Call
  BY ElementOfSeq DEF TypeOK
<2>2. [calls[w][i] EXCEPT !.kind = "record"] \in Call /\ calls[w][i].roots \in SUBSET Roots
  BY <2>1 DEF Call
<2>3. /\ [calls[w] EXCEPT ![i] = [calls[w][i] EXCEPT !.kind = "record"]] \in Seq(Call)
      /\ RemoveAt(calls[w], i) \in Seq(Call)
  BY <2>1, <2>2, ExceptSeq, RemoveAtType
<2>4. calls' \in [Windows -> Seq(Call)]
  BY <1>12, <2>3 DEF TypeOK, ServeSave
<2>5. QED
  BY <1>12, <2>2, <2>4 DEF TypeOK, Ledger, ServeSave, windows, page, bounds, history
<1>13. ASSUME NEW w \in Windows, NEW i \in 1 .. Len(calls[w]), Upsert(w, i)
      PROVE  TypeOK'
<2>1. calls[w] \in Seq(Call) /\ calls[w][i] \in Call
  BY ElementOfSeq DEF TypeOK
<2>2. RemoveAt(calls[w], i) \in Seq(Call) /\ calls[w][i].roots \in SUBSET Roots
  BY <2>1, RemoveAtType DEF Call
<2>3. calls' \in [Windows -> Seq(Call)]
  BY <1>13, <2>2 DEF TypeOK, Upsert
<2>4. QED
  BY <1>13, <2>2, <2>3, WindowPersistenceAssumption
  DEF TypeOK, Ledger, Upsert, windows, page, bounds, history
<1>14. ASSUME NEW w \in Windows, NEW i \in 1 .. Len(calls[w]), RefuseCall(w, i)
      PROVE  TypeOK'
<2>1. calls[w] \in Seq(Call) /\ calls[w][i] \in Call
  BY ElementOfSeq DEF TypeOK
<2>2. RemoveAt(calls[w], i) \in Seq(Call) /\ calls[w][i].roots \in SUBSET Roots
  BY <2>1, RemoveAtType DEF Call
<2>3. calls' \in [Windows -> Seq(Call)]
  BY <1>14, <2>2 DEF TypeOK, RefuseCall
<2>4. QED
  BY <1>14, <2>2, <2>3, WindowPersistenceAssumption
  DEF TypeOK, Ledger, RefuseCall, core, windows, page, history, Fails
<1>15. ASSUME NEW w \in Windows, NEW r \in Roots, AskWindow(w, r)
      PROVE  TypeOK'
<2>1. faults' \in 0 .. MaxFaults
  BY <1>15, FaultsType DEF TypeOK, AskWindow, Works, Fails
<2>2. QED
  BY <1>15, <2>1, WindowPersistenceAssumption
  DEF TypeOK, Ledger, AskWindow, core, page, history, Fails, Works
<1>16. ASSUME NEW w \in Windows, NEW r \in Roots, AddWorkspace(w, r)
      PROVE  TypeOK'
<2>1. tabs' \in Ledger /\ seen' \in Ledger
  BY <1>16 DEF TypeOK, Ledger, AddWorkspace, bounds
<2>2. gate' \in [Windows -> SUBSET GateStep]
  BY <1>16 DEF TypeOK, AddWorkspace, bounds
<2>3. QED
  BY <1>16, <2>1, <2>2 DEF TypeOK, AddWorkspace, windows, bounds
<1>17. ASSUME NEW w \in Windows, NEW r \in Roots, CloseWorkspace(w, r)
      PROVE  TypeOK'
<2>1. <<"release", r>> \in GateStep
  BY DEF GateStep
<2>2. tabs' \in Ledger /\ gate' \in [Windows -> SUBSET GateStep] /\ loose' \subseteq Roots
  BY <1>17, <2>1 DEF TypeOK, Ledger, CloseWorkspace
<2>3. changes' \in 0 .. MaxChanges
  BY <1>17, WindowPersistenceAssumption DEF TypeOK, CloseWorkspace
<2>4. QED
  BY <1>17, <2>2, <2>3 DEF TypeOK, CloseWorkspace, core, windows
<1>18. ASSUME NEW w \in Windows, NEW r \in Roots, GateCall(w, r)
      PROVE  TypeOK'
<2>1. {<<"claim", r>>, <<"open", r>>, <<"release", r>>} \subseteq GateStep
  BY DEF GateStep
<2>2. gate' \in [Windows -> SUBSET GateStep]
  <3>1. gate \in [Windows -> SUBSET GateStep]
    BY DEF TypeOK
  <3>2. PICK G : G \subseteq GateStep /\ gate' = [gate EXCEPT ![w] = G]
    <4>1. CASE AskClaim(w, r) \/ ServeRelease(w, r) \/ ReleaseFails(w, r)
      BY <2>1, <3>1, <4>1 DEF AskClaim, ServeRelease, ReleaseFails
    <4>2. CASE ServeClaim(w, r) \/ ClaimFails(w, r)
      BY <2>1, <3>1, <4>2 DEF ServeClaim, ClaimFails
    <4>3. QED
      BY <1>18, <4>1, <4>2 DEF GateCall
  <3>3. QED
    BY <3>1, <3>2
<2>3. claims' \in [Roots -> Windows \cup {None}]
  BY <1>18
  DEF TypeOK, GateCall, AskClaim, ServeClaim, ClaimFails, ServeRelease, ReleaseFails
<2>4. loose' \subseteq Roots
  BY <1>18
  DEF TypeOK, GateCall, AskClaim, ServeClaim, ClaimFails, ServeRelease, ReleaseFails, FailsOpen,
      history
<2>5. changes' \in 0 .. MaxChanges /\ faults' \in 0 .. MaxFaults
  BY <1>18, FaultsType, WindowPersistenceAssumption
  DEF TypeOK, GateCall, AskClaim, ServeClaim, ClaimFails, ServeRelease, ReleaseFails, FailsOpen,
      bounds
<2>6. QED
  BY <1>18, <2>2, <2>3, <2>4, <2>5, GateCalls DEF TypeOK, core, windows
<1>19. ASSUME NEW w \in Windows, ReadForClose(w)
      PROVE  TypeOK'
  BY <1>19, WindowPersistenceAssumption
  DEF TypeOK, Ledger, ReadForClose, core, windows, page, history
<1>20. ASSUME NEW w \in Windows, ForgetSlot(w)
      PROVE  TypeOK'
  BY <1>20, WindowPersistenceAssumption
  DEF TypeOK, Ledger, NoLedger, ForgetSlot, windows, page, history, Works
<1>21. ASSUME NEW w \in Windows, ForgetRefused(w)
      PROVE  TypeOK'
  BY <1>21, WindowPersistenceAssumption
  DEF TypeOK, Ledger, NoLedger, ForgetRefused, core, windows, page, history, Fails
<1>22. ASSUME NEW w \in Windows, Destroy(w)
      PROVE  TypeOK'
<2>1. [kind |-> "save", roots |-> tabs[w]] \in Call
  BY DEF TypeOK, Ledger, Call
<2>2. Append(calls[w], [kind |-> "save", roots |-> tabs[w]]) \in Seq(Call)
  BY <2>1, AppendProperties DEF TypeOK
<2>3. calls' \in [Windows -> Seq(Call)]
  BY <1>22, <2>2 DEF TypeOK, Destroy, Post
<2>4. /\ todo' \in Ledger /\ got' \in Ledger /\ tabs' \in Ledger
      /\ gate' \in [Windows -> SUBSET GateStep]
  BY <1>22 DEF TypeOK, Ledger, Destroy
<2>5. closer' \in [Windows -> [at : {"no", "read", "forgotten", "closed"}, ledger : Ledger]]
  BY <1>22 DEF TypeOK, Destroy
<2>6. live' \subseteq used /\ told' \in [Windows -> Roots \cup {None}]
  BY <1>22 DEF TypeOK, Destroy
<2>7. QED
  BY <1>22, <2>3, <2>4, <2>5, <2>6 DEF TypeOK, Destroy, core, bounds, history
<1>23. ASSUME NEW w \in Windows, RespawnSlot(w)
      PROVE  TypeOK'
<2>1. CASE live' = live \cup {w}
  <3>1. /\ main' = [main EXCEPT !.todo = @ \ {w}]
        /\ phase' = [phase EXCEPT ![w] = "created"] /\ opened' = opened \cup {w}
    BY <1>23, <2>1 DEF RespawnSlot, PassOver, Respawnable, Standing, Pages, TypeOK
  <3>2. main' \in Boot /\ w \in used
    BY <1>23, <3>1 DEF TypeOK, Boot, RespawnSlot, Respawnable
  <3>3. QED
    BY <1>23, <2>1, <3>1, <3>2 DEF TypeOK, RespawnSlot, core, page, bounds, Boot
<2>2. CASE UNCHANGED <<live, phase, opened>>
  <3>1. \/ main' = [main EXCEPT !.todo = @ \ {w}]
        \/ main' = [main EXCEPT !.todo = @ \ {w}, !.ledger[w] = {}, !.pruned = TRUE]
    BY <1>23 DEF RespawnSlot, PassOver
  <3>2. main' \in Boot
    <4>1. main \in Boot /\ [main.ledger EXCEPT ![w] = {}] \in Ledger
      BY DEF TypeOK, Boot, Ledger
    <4>2. CASE main' = [main EXCEPT !.todo = @ \ {w}]
      BY <4>1, <4>2 DEF Boot
    <4>3. CASE main' = [main EXCEPT !.todo = @ \ {w}, !.ledger[w] = {}, !.pruned = TRUE]
      <5>1. main' = [main EXCEPT !.todo = @ \ {w}, !.pruned = TRUE,
                                 !.ledger = [main.ledger EXCEPT ![w] = {}]]
        BY <4>1, <4>3 DEF Boot
      <5>2. QED
        BY <4>1, <5>1 DEF Boot
    <4>4. QED
      BY <3>1, <4>2, <4>3
  <3>3. QED
    BY <1>23, <2>2, <3>2 DEF TypeOK, RespawnSlot, core, page, bounds, Boot
<2>3. QED
  BY <1>23, <2>1, <2>2 DEF RespawnSlot, PassOver
<1>24. ASSUME NEW w \in Windows, RespawnRefused(w)
      PROVE  TypeOK'
<2>1. main' \in Boot
  BY <1>24 DEF TypeOK, RespawnRefused, Boot
<2>2. faults' \in 0 .. MaxFaults
  BY <1>24, FaultsType DEF RespawnRefused
<2>3. QED
  BY <1>24, <2>1, <2>2 DEF TypeOK, RespawnRefused, Boot, core, windows, page
<1>25. ASSUME NEW w \in Windows, DeleteSnapshot(w)
      PROVE  TypeOK'
  BY <1>25, WindowPersistenceAssumption
  DEF TypeOK, Ledger, DeleteSnapshot, windows, page, history, Works
<1>26. ASSUME NEW w \in Windows, FirstRun(w)
      PROVE  TypeOK'
<2>1. faults' \in 0 .. MaxFaults
  BY <1>26, FaultsType DEF TypeOK, FirstRun, Works, Booted, Unopened, NoLedger, Fails
<2>2. QED
  BY <1>26, <2>1, BootedType, WindowPersistenceAssumption
  DEF TypeOK, FirstRun, Boot, core, page, history, Booted, Unopened, NoLedger, Fails, Works
<1>27. ASSUME ReadLedger
      PROVE  TypeOK'
  BY <1>27, WindowPersistenceAssumption
  DEF TypeOK, Ledger, ReadLedger, core, windows, page, history, Works
<1>28. ASSUME Census
      PROVE  TypeOK'
  BY <1>28, WindowPersistenceAssumption
  DEF TypeOK, Ledger, Restorable, Census, core, windows, page, history, Works
<1>29. ASSUME SavePruned
      PROVE  TypeOK'
  BY <1>29, WindowPersistenceAssumption
  DEF TypeOK, Ledger, SavePruned, windows, page, history, Works
<1>30. ASSUME Sweep
      PROVE  TypeOK'
  BY <1>30, WindowPersistenceAssumption
  DEF TypeOK, Ledger, SnapshotsToForget, Sweep, core, windows, page, history, Works
<1>31. ASSUME LedgerRefused
      PROVE  TypeOK'
<2>1. main' \in Boot
  BY <1>31, BootedType DEF LedgerRefused, Booted, Unopened, NoLedger
<2>2. faults' \in 0 .. MaxFaults
  BY <1>31, FaultsType DEF LedgerRefused, Booted, Unopened, NoLedger
<2>3. QED
  BY <1>31, <2>1, <2>2 DEF TypeOK, LedgerRefused, Boot, core, windows, page, history, Booted, Unopened, NoLedger
<1>32. ASSUME CensusRefused
      PROVE  TypeOK'
<2>1. main' \in Boot
  BY <1>32 DEF TypeOK, CensusRefused, Boot
<2>2. faults' \in 0 .. MaxFaults
  BY <1>32, FaultsType DEF CensusRefused
<2>3. QED
  BY <1>32, <2>1, <2>2 DEF TypeOK, CensusRefused, Boot, core, windows, page, history
<1>33. ASSUME PrunedRefused
      PROVE  TypeOK'
<2>1. main' \in Boot
  BY <1>33, BootedType DEF PrunedRefused, Booted, Unopened, NoLedger
<2>2. faults' \in 0 .. MaxFaults
  BY <1>33, FaultsType DEF PrunedRefused, Booted, Unopened, NoLedger
<2>3. QED
  BY <1>33, <2>1, <2>2 DEF TypeOK, PrunedRefused, Boot, core, windows, page, history, Booted, Unopened, NoLedger
<1>34. ASSUME SweepRefused
      PROVE  TypeOK'
<2>1. main' \in Boot
  BY <1>34 DEF TypeOK, SweepRefused, Boot
<2>2. faults' \in 0 .. MaxFaults
  BY <1>34, FaultsType DEF SweepRefused
<2>3. QED
  BY <1>34, <2>1, <2>2 DEF TypeOK, SweepRefused, Boot, core, windows, page, history
<1>35. ASSUME NotFirstRun
      PROVE  TypeOK'
  BY <1>35, BootedType DEF TypeOK, NotFirstRun, Boot, core, windows, page, bounds, history
<1>36. ASSUME Restart
      PROVE  TypeOK'
<2>1. <<>> \in Seq(Call)
  BY EmptySeq
<2>2. QED
  BY <1>36, <2>1, WindowPersistenceAssumption
  DEF TypeOK, Ledger, NoLedger, Unopened, Restart, core
<1>37. CASE UNCHANGED vars
  BY <1>37 DEF TypeOK, Ledger, vars, core, windows, page, bounds, history
<1>38. QED
  BY <1>1, <1>2, <1>3, <1>4, <1>5, <1>6, <1>7, <1>8, <1>9, <1>10, <1>11, <1>12, <1>13,
     <1>14, <1>15, <1>16, <1>17, <1>18, <1>19, <1>20, <1>21, <1>22, <1>23, <1>24, <1>25,
     <1>26, <1>27, <1>28, <1>29, <1>30, <1>31, <1>32, <1>33, <1>34, <1>35, <1>36, <1>37
  DEF Next, PageStep, UserStep, MainStep, GateCall

(* A slot is passed over, pruned, or its window created. *)
LEMMA RespawnCases ==
    ASSUME NEW w \in Windows, RespawnSlot(w)
    PROVE  \/ /\ ~IsSet(snaps[w])
              /\ main' = [main EXCEPT !.todo = @ \ {w}] /\ UNCHANGED <<live, phase, opened>>
           \/ /\ snaps[w] = {}
              /\ main' = [main EXCEPT !.todo = @ \ {w}, !.ledger[w] = {}, !.pruned = TRUE]
              /\ UNCHANGED <<live, phase, opened>>
           \/ /\ IsSet(snaps[w]) /\ main' = [main EXCEPT !.todo = @ \ {w}]
              /\ live' = live \cup {w} /\ phase' = [phase EXCEPT ![w] = "created"]
              /\ opened' = opened \cup {w}
  BY DEF RespawnSlot, PassOver

(* A window and its page come and go together. *)
LEMMA StandingStep ==
    ASSUME TypeOK, Standing, Respawnable, [Next]_vars
    PROVE  Standing'
<1>1. ASSUME NEW w \in Windows,
              \/ LateReadRefused(w) \/ PersistOnce(w) \/ ReadForClose(w)
      PROVE  Standing'
  BY <1>1
  DEF TypeOK, Ledger, Standing, Pages, LateReadRefused, core, windows, page, bounds,
      history, PersistOnce, Post, ReadForClose
<1>2. ASSUME NEW w \in Windows,
              \/ ForgetSlot(w) \/ ForgetRefused(w) \/ RespawnRefused(w)
      PROVE  Standing'
  BY <1>2
  DEF TypeOK, Ledger, Standing, Pages, ForgetSlot, windows, page, history, Works,
      ForgetRefused, core, Fails, RespawnRefused
<1>3. ASSUME NEW w \in Windows, DeleteSnapshot(w)
      PROVE  Standing'
  BY <1>3
  DEF TypeOK, Ledger, Standing, Pages, DeleteSnapshot, windows, page, history, Works
<1>4. ASSUME NEW w \in Windows, NEW i \in 1 .. Len(calls[w]),
              \/ ServeSave(w, i) \/ Upsert(w, i) \/ RefuseCall(w, i)
      PROVE  Standing'
  BY <1>4
  DEF TypeOK, Ledger, Standing, Pages, ServeSave, windows, page, bounds, history, Upsert,
      RefuseCall, core, Fails
<1>5. ASSUME \/ ReadLedger \/ LedgerRefused \/ Census
      PROVE  Standing'
  BY <1>5
  DEF TypeOK, Ledger, Standing, Pages, ReadLedger, core, windows, page, history, Works,
      LedgerRefused, Fails, Census, Booted, Unopened, NoLedger
<1>6. ASSUME \/ CensusRefused \/ SavePruned \/ PrunedRefused
      PROVE  Standing'
  BY <1>6
  DEF TypeOK, Ledger, Standing, Pages, CensusRefused, core, windows, page, history,
      Fails, SavePruned, Works, PrunedRefused, Booted, Unopened, NoLedger
<1>7. ASSUME \/ Sweep \/ SweepRefused
      PROVE  Standing'
  BY <1>7
  DEF TypeOK, Ledger, Standing, Pages, Sweep, core, windows, page, history, Works,
      SweepRefused, Fails
<1>8. ASSUME NEW w \in Windows, CreateWindow(w)
      PROVE  Standing'
  BY <1>8
  DEF TypeOK, Ledger, Standing, Pages, CreateWindow, core, page, bounds, history
<1>9. ASSUME NEW w \in Windows, Bootstrap(w)
      PROVE  Standing'
  BY <1>9
  DEF TypeOK, Ledger, Standing, Pages, Bootstrap, bounds
<1>10. ASSUME NEW w \in Windows, BootstrapUnclaimed(w)
      PROVE  Standing'
  BY <1>10
  DEF TypeOK, Ledger, Standing, Pages, BootstrapUnclaimed
<1>11. ASSUME NEW w \in Windows, Hydrate(w)
      PROVE  Standing'
  BY <1>11
  DEF TypeOK, Ledger, Standing, Pages, Hydrate, core, history, Works
<1>12. ASSUME NEW w \in Windows, HydrateRefused(w)
      PROVE  Standing'
  BY <1>12
  DEF TypeOK, Ledger, Standing, Pages, HydrateRefused, core, page, history, Fails
<1>13. ASSUME NEW w \in Windows, NEW r \in Roots, ClaimRoot(w, r)
      PROVE  Standing'
  BY <1>13
  DEF TypeOK, Ledger, Standing, Pages, ClaimRoot, core, windows, bounds
<1>14. ASSUME NEW w \in Windows, NEW r \in Roots, ClaimRootUnclaimed(w, r)
      PROVE  Standing'
  BY <1>14
  DEF TypeOK, Ledger, Standing, Pages, ClaimRootUnclaimed, core, windows
<1>15. ASSUME NEW w \in Windows, RestoreWorkspaces(w)
      PROVE  Standing'
  BY <1>15
  DEF TypeOK, Ledger, Standing, Pages, RestoreWorkspaces, core, bounds, Restored
<1>16. ASSUME NEW w \in Windows, RestoreThrows(w)
      PROVE  Standing'
  BY <1>16
  DEF TypeOK, Ledger, Standing, Pages, RestoreThrows, core, Fails, Restored
<1>17. ASSUME NEW w \in Windows, NEW r \in Roots, AskWindow(w, r)
      PROVE  Standing'
  BY <1>17
  DEF TypeOK, Ledger, Standing, Pages, AskWindow, core, page, history, Fails, Works
<1>18. ASSUME NEW w \in Windows, NEW r \in Roots, AddWorkspace(w, r)
      PROVE  Standing'
<2>1. phase[w] = "ready"
  BY <1>18 DEF Standing, AddWorkspace, bounds
<2>2. QED
  BY <1>18, <2>1
  DEF TypeOK, Ledger, Standing, Pages, AddWorkspace, windows, bounds
<1>19. ASSUME NEW w \in Windows, NEW r \in Roots, CloseWorkspace(w, r)
      PROVE  Standing'
  BY <1>19
  DEF TypeOK, Ledger, Standing, Pages, CloseWorkspace, core, windows, history
<1>20. ASSUME NEW w \in Windows, NEW r \in Roots, GateCall(w, r)
      PROVE  Standing'
<2>1. /\ phase[w] = "ready" /\ \A x \in Windows \ {w} : gate'[x] = gate[x]
  BY <1>20
  DEF TypeOK, Standing, GateCall, AskClaim, ServeClaim, ClaimFails, ServeRelease, ReleaseFails
<2>2. QED
  BY <1>20, <2>1, GateCalls DEF Standing, Pages, windows
<1>21. ASSUME NEW w \in Windows, Destroy(w)
      PROVE  Standing'
  BY <1>21
  DEF TypeOK, Ledger, Standing, Pages, Destroy, core, bounds, history, Post
<1>22. ASSUME NEW w \in Windows, RespawnSlot(w)
      PROVE  Standing'
  BY <1>22
  DEF TypeOK, Ledger, Standing, Pages, Respawnable, RespawnSlot, core, page,
      bounds, PassOver
<1>23. ASSUME NEW w \in Windows, FirstRun(w)
      PROVE  Standing'
<2>1. phase[w] = "none"
  BY <1>23 DEF Standing, FirstRun, Booted, Unopened, NoLedger, Fails, Works
<2>2. QED
  BY <1>23, <2>1 DEF TypeOK, Standing, Pages, FirstRun, page, Booted, Unopened, NoLedger, Fails, Works
<1>24. ASSUME NotFirstRun
      PROVE  Standing'
  BY <1>24 DEF Standing, NotFirstRun, windows, page
<1>25. ASSUME Restart
      PROVE  Standing'
  BY <1>25
  DEF TypeOK, Ledger, Standing, Pages, NoLedger, Restart, core
<1>26. CASE UNCHANGED vars
  BY <1>26 DEF Standing, vars, core, windows, page, bounds, history
<1>27. QED
  BY <1>1, <1>2, <1>3, <1>4, <1>5, <1>6, <1>7, <1>8, <1>9, <1>10, <1>11, <1>12, <1>13,
     <1>14, <1>15, <1>16, <1>17, <1>18, <1>19, <1>20, <1>21, <1>22, <1>23, <1>24, <1>25,
     <1>26
  DEF Next, PageStep, UserStep, MainStep, GateCall

(* A root that is given to a window is open in no other. *)
LEMMA Granted ==
    ASSUME TypeOK, Standing, Held, NEW w \in Windows, NEW r \in Roots \ loose, Claimable(w, r)
    PROVE  \A x \in Windows : r \in Has(x) => x = w
<1>1. SUFFICES ASSUME NEW x \in Windows, r \in Has(x)
               PROVE  x = w
  OBVIOUS
<1>2. claims[r] = x /\ x \in live
  BY <1>1 DEF Held, Claimed, Parting, Has, Standing, Pages
<1>3. OwnerOf(r) = x /\ x # None
  BY <1>2, WindowPersistenceAssumption DEF OwnerOf
<1>4. QED
  BY <1>3 DEF Claimable

(* A claim that was given disturbs the guard of no other root. *)
LEMMA GivenClaim ==
    ASSUME TypeOK, Held, NEW w \in Windows, NEW r \in Roots,
           r \notin loose => \A x \in Windows : r \in Has(x) => x = w,
           claims' = [claims EXCEPT ![r] = w], loose' = loose,
           \A x \in Windows \ {w} : Has(x)' = Has(x), Has(w)' \subseteq Has(w) \cup {r}
    PROVE  Claimed'
<1>1. SUFFICES ASSUME NEW x \in Windows, NEW q \in Roots, q \notin loose, q \in Has(x)'
               PROVE  claims'[q] = x
  BY DEF Claimed
<1>2. claims \in [Roots -> Windows \cup {None}]
  BY DEF TypeOK
<1>3. CASE q = r
  <2>1. x = w
    BY <1>1, <1>3
  <2>2. QED
    BY <1>2, <1>3, <2>1
<1>4. CASE q # r
  <2>1. q \in Has(x)
    BY <1>1, <1>4
  <2>2. claims[q] = x
    BY <1>1, <2>1 DEF Held, Claimed
  <2>3. QED
    BY <1>2, <1>4, <2>2
<1>5. QED
  BY <1>3, <1>4

(* No step opens a guarded root without its claim, or gives the claim of one away. *)
LEMMA HeldStep ==
    ASSUME TypeOK, Standing, Held, [Next]_vars
    PROVE  Held'
<1>1. ASSUME NEW w \in Windows,
              \/ Hydrate(w) \/ HydrateRefused(w) \/ LateReadRefused(w)
      PROVE  Held'
  BY <1>1
  DEF TypeOK, Ledger, Held, Claimed, Parting, Has, Hydrate, core, history, Works, HydrateRefused, page, Fails,
      LateReadRefused, windows, bounds
<1>2. ASSUME NEW w \in Windows,
              \/ PersistOnce(w) \/ ReadForClose(w) \/ ForgetSlot(w)
      PROVE  Held'
  BY <1>2
  DEF TypeOK, Ledger, Held, Claimed, Parting, Has, PersistOnce, core, windows, bounds, history, Post,
      ReadForClose, page, ForgetSlot, Works
<1>3. ASSUME NEW w \in Windows,
              \/ ForgetRefused(w) \/ RespawnRefused(w) \/ DeleteSnapshot(w)
      PROVE  Held'
  BY <1>3
  DEF TypeOK, Ledger, Held, Claimed, Parting, Has, ForgetRefused, core, windows, page, history, Fails,
      RespawnRefused, DeleteSnapshot, Works
<1>4. ASSUME NEW w \in Windows, CreateWindow(w)
      PROVE  Held'
  BY <1>4
  DEF TypeOK, Ledger, Held, Claimed, Parting, Has, CreateWindow, core, page, bounds, history
<1>5. ASSUME NEW w \in Windows, NEW i \in 1 .. Len(calls[w]),
              \/ ServeSave(w, i) \/ Upsert(w, i) \/ RefuseCall(w, i)
      PROVE  Held'
  BY <1>5
  DEF TypeOK, Ledger, Held, Claimed, Parting, Has, ServeSave, windows, page, bounds, history, Upsert,
      RefuseCall, core, Fails
<1>6. ASSUME \/ ReadLedger \/ LedgerRefused \/ Census
      PROVE  Held'
  BY <1>6
  DEF TypeOK, Ledger, Held, Claimed, Parting, Has, ReadLedger, core, windows, page, history, Works,
      LedgerRefused, Fails, Census, Booted, Unopened, NoLedger
<1>7. ASSUME \/ CensusRefused \/ SavePruned \/ PrunedRefused
      PROVE  Held'
  BY <1>7
  DEF TypeOK, Ledger, Held, Claimed, Parting, Has, CensusRefused, core, windows, page, history, Fails,
      SavePruned, Works, PrunedRefused, Booted, Unopened, NoLedger
<1>8. ASSUME \/ Sweep \/ SweepRefused
      PROVE  Held'
  BY <1>8
  DEF TypeOK, Ledger, Held, Claimed, Parting, Has, Sweep, core, windows, page, history, Works, SweepRefused,
      Fails
<1>9. ASSUME NEW w \in Windows, NEW r \in Roots, AskWindow(w, r)
      PROVE  Held'
  BY <1>9
  DEF TypeOK, Ledger, Held, Claimed, Parting, Has, AskWindow, core, page, history, Fails, Works
<1>10. ASSUME NEW w \in Windows, Bootstrap(w)
      PROVE  Held'
<2>0. /\ got' = got /\ gate' = gate /\ loose' = loose
      /\ gate[w] = {} /\ tabs[w] = {} /\ got[w] = {}
  BY <1>10 DEF Bootstrap, Standing
<2>1. CASE told[w] # None /\ Claimable(w, told[w])
  <3>1. told[w] \in Roots /\ (told[w] \notin loose => \A x \in Windows : told[w] \in Has(x) => x = w)
    BY <2>1, Granted DEF TypeOK
  <3>2. claims' = [claims EXCEPT ![told[w]] = w] /\ tabs' = [tabs EXCEPT ![w] = {told[w]}]
    BY <1>10, <2>1 DEF Bootstrap
  <3>3. Has(w)' \subseteq Has(w) \cup {told[w]} /\ \A x \in Windows \ {w} : Has(x)' = Has(x)
    BY <2>0, <3>1, <3>2 DEF TypeOK, Ledger, Has
  <3>4. Claimed'
    BY <2>0, <3>1, <3>2, <3>3, GivenClaim
  <3>5. Parting'
    BY <2>0, <3>3 DEF Parting, Held
  <3>6. QED
    BY <3>4, <3>5 DEF Held
<2>2. CASE ~(told[w] # None /\ Claimable(w, told[w]))
  <3>1. claims' = claims /\ tabs' = tabs
    BY <1>10, <2>2 DEF Bootstrap
  <3>2. QED
    BY <2>0, <3>1 DEF Held, Claimed, Parting, Has
<2>3. QED
  BY <2>1, <2>2
<1>11. ASSUME NEW w \in Windows, BootstrapUnclaimed(w)
      PROVE  Held'
<2>1. gate[w] = {} /\ told[w] \in loose' /\ loose \subseteq loose'
  BY <1>11 DEF Standing, BootstrapUnclaimed, FailsOpen
<2>2. QED
  BY <1>11, <2>1 DEF TypeOK, Ledger, Held, Claimed, Parting, Has, BootstrapUnclaimed
<1>12. ASSUME NEW w \in Windows, NEW r \in Roots, ClaimRoot(w, r)
      PROVE  Held'
<2>0. tabs' = tabs /\ gate' = gate /\ loose' = loose /\ gate[w] = {}
  BY <1>12 DEF ClaimRoot, Standing
<2>1. CASE Claimable(w, r)
  <3>1. r \notin loose => \A x \in Windows : r \in Has(x) => x = w
    BY <2>1, Granted
  <3>2. claims' = [claims EXCEPT ![r] = w] /\ got' = [got EXCEPT ![w] = @ \cup {r}]
    BY <1>12, <2>1 DEF ClaimRoot
  <3>3. Has(w)' \subseteq Has(w) \cup {r} /\ \A x \in Windows \ {w} : Has(x)' = Has(x)
    BY <2>0, <3>2 DEF TypeOK, Ledger, Has
  <3>4. Claimed'
    BY <2>0, <3>1, <3>2, <3>3, GivenClaim
  <3>5. Parting'
    BY <2>0, <3>3 DEF Parting, Held
  <3>6. QED
    BY <3>4, <3>5 DEF Held
<2>2. CASE ~Claimable(w, r)
  <3>1. claims' = claims /\ got' = got
    BY <1>12, <2>2 DEF ClaimRoot
  <3>2. QED
    BY <2>0, <3>1 DEF Held, Claimed, Parting, Has
<2>3. QED
  BY <2>1, <2>2
<1>13. ASSUME NEW w \in Windows, NEW r \in Roots, ClaimRootUnclaimed(w, r)
      PROVE  Held'
<2>1. gate[w] = {} /\ r \in loose' /\ loose \subseteq loose'
  BY <1>13 DEF Standing, ClaimRootUnclaimed, FailsOpen
<2>2. QED
  BY <1>13, <2>1 DEF TypeOK, Ledger, Held, Claimed, Parting, Has, ClaimRootUnclaimed
<1>14. ASSUME NEW w \in Windows, RestoreWorkspaces(w)
      PROVE  Held'
  BY <1>14
  DEF TypeOK, Ledger, Held, Claimed, Parting, Has, RestoreWorkspaces, core, bounds, Restored
<1>15. ASSUME NEW w \in Windows, RestoreThrows(w)
      PROVE  Held'
  BY <1>15
  DEF TypeOK, Ledger, Held, Claimed, Parting, Has, RestoreThrows, core, Fails, Restored
<1>16. ASSUME NEW w \in Windows, NEW r \in Roots, AddWorkspace(w, r)
      PROVE  Held'
<2>1. \A x \in Windows : Has(x)' = Has(x)
  BY <1>16 DEF TypeOK, Ledger, Has, AddWorkspace, bounds
<2>2. /\ claims' = claims /\ loose' = loose
      /\ \A x \in Windows : gate'[x] \subseteq gate[x]
  BY <1>16 DEF TypeOK, AddWorkspace, bounds
<2>3. QED
  BY <2>1, <2>2 DEF Held, Claimed, Parting
<1>17. ASSUME NEW w \in Windows, NEW r \in Roots, CloseWorkspace(w, r)
      PROVE  Held'
<2>1. /\ claims' = claims /\ got' = got /\ got[w] = {} /\ loose \subseteq loose'
      /\ tabs' = [tabs EXCEPT ![w] = @ \ {r}]
      /\ gate' = [gate EXCEPT ![w] = @ \cup {<<"release", r>>}]
      /\ r \notin loose' => <<"claim", r>> \notin gate[w] /\ <<"open", r>> \notin gate[w]
  BY <1>17 DEF CloseWorkspace, Opening, Standing
<2>2. /\ \A x \in Windows : Has(x)' \subseteq Has(x)
      /\ r \notin loose' => r \notin Has(w)'
  BY <1>17, <2>1 DEF TypeOK, Ledger, Has
<2>3. Claimed'
  BY <2>1, <2>2 DEF Claimed, Held
<2>4. gate \in [Windows -> SUBSET GateStep]
  BY DEF TypeOK
<2>5. ASSUME NEW x \in Windows, NEW q \in Roots, q \notin loose', <<"release", q>> \in gate'[x]
      PROVE  q \notin Has(x)' /\ <<"claim", q>> \notin gate'[x]
  <3>1. CASE <<"release", q>> \in gate[x]
    <4>1. q \notin Has(x) /\ <<"claim", q>> \notin gate[x]
      BY <2>1, <2>5, <3>1 DEF Held, Parting
    <4>2. <<"claim", q>> \notin gate'[x]
      BY <2>1, <2>4, <4>1
    <4>3. QED
      BY <2>2, <4>1, <4>2
  <3>2. CASE <<"release", q>> \notin gate[x]
    <4>1. x = w /\ q = r
      BY <2>1, <2>4, <2>5, <3>2
    <4>2. QED
      BY <2>1, <2>2, <2>4, <2>5, <4>1
  <3>3. QED
    BY <3>1, <3>2
<2>6. QED
  BY <2>3, <2>5 DEF Held, Parting
<1>18. ASSUME NEW w \in Windows, NEW r \in Roots, GateCall(w, r)
      PROVE  Held'
<2>0. tabs' = tabs /\ got' = got
  BY <1>18, GateCalls
<2>1. CASE AskClaim(w, r)
  <3>1. /\ claims' = claims /\ loose \subseteq loose'
        /\ gate' = [gate EXCEPT ![w] = @ \cup {<<"claim", r>>}]
        /\ r \notin loose' => <<"release", r>> \notin gate[w]
    BY <2>1 DEF AskClaim
  <3>2. \A x \in Windows : Has(x)' = Has(x)
    BY <2>0, <3>1 DEF TypeOK, Has
  <3>3. QED
    <4>1. Claimed'
      BY <3>1, <3>2 DEF TypeOK, Claimed, Held
    <4>2. Parting'
      BY <3>1, <3>2 DEF TypeOK, Parting, Held
    <4>3. QED
      BY <4>1, <4>2 DEF Held
<2>2. CASE ServeClaim(w, r)
  <3>1. <<"claim", r>> \in gate[w] /\ loose' = loose
    BY <2>2 DEF ServeClaim, history
  <3>2. CASE Claimable(w, r)
    <4>1. /\ claims' = [claims EXCEPT ![r] = w]
          /\ gate' = [gate EXCEPT ![w] = (@ \ {<<"claim", r>>}) \cup {<<"open", r>>}]
      BY <2>2, <3>2 DEF ServeClaim
    <4>2. r \notin loose => \A x \in Windows : r \in Has(x) => x = w
      BY <3>2, Granted
    <4>3. Has(w)' \subseteq Has(w) \cup {r} /\ \A x \in Windows \ {w} : Has(x)' = Has(x)
      BY <2>0, <4>1 DEF TypeOK, Has
    <4>4. QED
      <5>1. Claimed'
        BY <3>1, <4>1, <4>2, <4>3, GivenClaim
      <5>2. ASSUME NEW x \in Windows, NEW q \in Roots, q \notin loose, <<"release", q>> \in gate'[x]
            PROVE  q \notin Has(x)' /\ <<"claim", q>> \notin gate'[x]
        <6>1. <<"release", q>> \in gate[x] /\ gate'[x] \subseteq gate[x] \cup {<<"open", r>>}
          BY <4>1, <5>2 DEF TypeOK
        <6>2. q \notin Has(x) /\ <<"claim", q>> \notin gate[x]
          BY <5>2, <6>1 DEF Held, Parting
        <6>3. ~(x = w /\ q = r)
          BY <3>1, <6>2
        <6>4. QED
          BY <4>3, <6>1, <6>2, <6>3
      <5>3. Parting'
        BY <3>1, <5>2 DEF Parting
      <5>4. QED
        BY <5>1, <5>3 DEF Held
  <3>3. CASE ~Claimable(w, r)
    <4>1. claims' = claims /\ gate' = [gate EXCEPT ![w] = @ \ {<<"claim", r>>}]
      BY <2>2, <3>3 DEF ServeClaim
    <4>2. \A x \in Windows : Has(x)' = Has(x)
      BY <2>0, <4>1 DEF TypeOK, Has
    <4>3. QED
      <5>1. Claimed'
        BY <3>1, <4>1, <4>2 DEF TypeOK, Claimed, Held
      <5>2. Parting'
        BY <3>1, <4>1, <4>2 DEF TypeOK, Parting, Held
      <5>3. QED
        BY <5>1, <5>2 DEF Held
  <3>4. QED
    BY <3>2, <3>3
<2>3. CASE ClaimFails(w, r)
  <3>1. /\ claims' = claims /\ loose \subseteq loose' /\ r \in loose'
        /\ gate' = [gate EXCEPT ![w] = (@ \ {<<"claim", r>>}) \cup {<<"open", r>>}]
    BY <2>3 DEF ClaimFails, FailsOpen
  <3>2. \A x \in Windows : Has(x)' \subseteq Has(x) \cup {r}
    BY <2>0, <3>1 DEF TypeOK, Has
  <3>3. QED
    <4>1. Claimed'
      BY <3>1, <3>2 DEF Claimed, Held
    <4>2. Parting'
      BY <3>1, <3>2 DEF TypeOK, Parting, Held
    <4>3. QED
      BY <4>1, <4>2 DEF Held
<2>4. CASE ServeRelease(w, r)
  <3>1. /\ <<"release", r>> \in gate[w] /\ loose' = loose
        /\ gate' = [gate EXCEPT ![w] = @ \ {<<"release", r>>}]
        /\ claims' = claims \/ (claims[r] = w /\ claims' = [claims EXCEPT ![r] = None])
    BY <2>4, WindowPersistenceAssumption DEF ServeRelease, OwnerOf, history
  <3>2. \A x \in Windows : Has(x)' = Has(x)
    BY <2>0, <3>1 DEF TypeOK, Has
  <3>3. QED
    <4>0. ASSUME NEW x \in Windows, NEW q \in Roots, q \notin loose, q \in Has(x)
          PROVE  claims'[q] = x
      <5>1. claims[q] = x /\ ~(x = w /\ q = r)
        BY <3>1, <4>0 DEF Held, Claimed, Parting
      <5>2. QED
        BY <3>1, <5>1 DEF TypeOK
    <4>1. Claimed'
      BY <3>1, <3>2, <4>0 DEF Claimed
    <4>2. Parting'
      BY <3>1, <3>2 DEF TypeOK, Parting, Held
    <4>3. QED
      BY <4>1, <4>2 DEF Held
<2>5. CASE ReleaseFails(w, r)
  <3>1. claims' = claims /\ loose' = loose /\ gate' = [gate EXCEPT ![w] = @ \ {<<"release", r>>}]
    BY <2>5 DEF ReleaseFails, history
  <3>2. \A x \in Windows : Has(x)' = Has(x)
    BY <2>0, <3>1 DEF TypeOK, Has
  <3>3. QED
    <4>1. Claimed'
      BY <3>1, <3>2 DEF TypeOK, Claimed, Held
    <4>2. Parting'
      BY <3>1, <3>2 DEF TypeOK, Parting, Held
    <4>3. QED
      BY <4>1, <4>2 DEF Held
<2>6. QED
  BY <1>18, <2>1, <2>2, <2>3, <2>4, <2>5 DEF GateCall
<1>19. ASSUME NEW w \in Windows, Destroy(w)
      PROVE  Held'
  BY <1>19
  DEF TypeOK, Ledger, Held, Claimed, Parting, Has, Destroy, core, bounds, history, Post
<1>20. ASSUME NEW w \in Windows, RespawnSlot(w)
      PROVE  Held'
  BY <1>20
  DEF TypeOK, Ledger, Held, Claimed, Parting, Has, RespawnSlot, core, page, bounds, PassOver
<1>21. ASSUME NEW w \in Windows, FirstRun(w)
      PROVE  Held'
  BY <1>21
  DEF TypeOK, Ledger, Held, Claimed, Parting, Has, FirstRun, core, windows, page, bounds, history,
      Booted, Unopened, NoLedger, Fails, Works
<1>22. ASSUME NotFirstRun
      PROVE  Held'
  BY <1>22 DEF Held, Claimed, Parting, Has, NotFirstRun, page, history
<1>23. ASSUME Restart
      PROVE  Held'
  BY <1>23
  DEF TypeOK, Ledger, Held, Claimed, Parting, Has, NoLedger, Restart, core
<1>24. CASE UNCHANGED vars
  BY <1>24 DEF Held, Claimed, Parting, Has, vars, core, windows, page, bounds, history
<1>25. QED
  BY <1>1, <1>2, <1>3, <1>4, <1>5, <1>6, <1>7, <1>8, <1>9, <1>10, <1>11, <1>12, <1>13,
     <1>14, <1>15, <1>16, <1>17, <1>18, <1>19, <1>20, <1>21, <1>22, <1>23, <1>24
  DEF Next, PageStep, UserStep, MainStep, GateCall

(* No step records a window that was not created. *)
LEMMA UnrecordedStep ==
    ASSUME TypeOK, Standing, Respawnable, Unrecorded, [Next]_vars
    PROVE  Unrecorded'
<1>1. ASSUME NEW w \in Windows,
              \/ CreateWindow(w) \/ Bootstrap(w) \/ Hydrate(w)
      PROVE  Unrecorded'
  BY <1>1
  DEF TypeOK, Ledger, Unrecorded, CreateWindow, core, page, bounds, history, Bootstrap,
      Hydrate, Works
<1>2. ASSUME NEW w \in Windows,
              \/ HydrateRefused(w) \/ RestoreWorkspaces(w) \/ RestoreThrows(w)
      PROVE  Unrecorded'
  BY <1>2
  DEF TypeOK, Ledger, Unrecorded, HydrateRefused, core, page, history, Fails,
      RestoreWorkspaces, bounds, Restored, RestoreThrows
<1>3. ASSUME NEW w \in Windows,
              \/ LateReadRefused(w) \/ DeleteSnapshot(w)
      PROVE  Unrecorded'
  BY <1>3
  DEF TypeOK, Ledger, Unrecorded, LateReadRefused, core, windows, page, bounds, history,
      DeleteSnapshot, Works
<1>4. ASSUME NEW w \in Windows, NEW r \in Roots,
              \/ ClaimRoot(w, r) \/ AddWorkspace(w, r) \/ CloseWorkspace(w, r)
      PROVE  Unrecorded'
  BY <1>4
  DEF TypeOK, Ledger, Unrecorded, ClaimRoot, core, windows, bounds, AddWorkspace,
      CloseWorkspace, history
<1>5. ASSUME NEW w \in Windows, PersistOnce(w)
      PROVE  Unrecorded'
  BY <1>5
  DEF TypeOK, Ledger, Unrecorded, Standing, PersistOnce, core, windows, bounds, history,
      Post
<1>6. ASSUME NEW w \in Windows, NEW r \in Roots, AskWindow(w, r)
      PROVE  Unrecorded'
  BY <1>6
  DEF TypeOK, Ledger, Unrecorded, AskWindow, core, page, history, Fails, Works
<1>7. ASSUME NEW w \in Windows, NEW i \in 1 .. Len(calls[w]), ServeSave(w, i)
      PROVE  Unrecorded'
  BY <1>7
  DEF TypeOK, Ledger, Unrecorded, ServeSave, windows, page, bounds, history
<1>8. ASSUME NEW w \in Windows, NEW i \in 1 .. Len(calls[w]), Upsert(w, i)
      PROVE  Unrecorded'
  BY <1>8
  DEF TypeOK, Ledger, Unrecorded, Upsert, windows, page, bounds, history
<1>9. ASSUME NEW w \in Windows, NEW i \in 1 .. Len(calls[w]), RefuseCall(w, i)
      PROVE  Unrecorded'
  BY <1>9
  DEF TypeOK, Ledger, Unrecorded, RefuseCall, core, windows, page, history, Fails
<1>10. ASSUME NEW w \in Windows, ReadForClose(w)
      PROVE  Unrecorded'
  BY <1>10
  DEF TypeOK, Ledger, Unrecorded, ReadForClose, core, windows, page, history
<1>11. ASSUME NEW w \in Windows, ForgetRefused(w)
      PROVE  Unrecorded'
  BY <1>11
  DEF TypeOK, Ledger, Unrecorded, NoLedger, ForgetRefused, core, windows, page, history,
      Fails
<1>12. ASSUME NEW w \in Windows, ForgetSlot(w)
      PROVE  Unrecorded'
  BY <1>12
  DEF TypeOK, Ledger, Unrecorded, NoLedger, ForgetSlot, windows, page, history, Works
<1>13. ASSUME NEW w \in Windows, Destroy(w)
      PROVE  Unrecorded'
  BY <1>13
  DEF TypeOK, Ledger, Unrecorded, Standing, Destroy, core, bounds, history, Post
<1>14. ASSUME NEW w \in Windows, RespawnSlot(w)
      PROVE  Unrecorded'
<2>1. /\ w \in used /\ phase[w] = "none" /\ main \in Boot /\ main.ledger \in Ledger
      /\ slots' = slots /\ calls' = calls /\ closer' = closer /\ used' = used
  BY <1>14 DEF TypeOK, Boot, RespawnSlot, Respawnable, core
<2>2. /\ phase' = phase \/ phase' = [phase EXCEPT ![w] = "created"]
      /\ main'.ledger = main.ledger \/ main'.ledger = [main.ledger EXCEPT ![w] = {}]
  BY <1>14, <2>1, RespawnCases DEF Boot
<2>3. ASSUME NEW x \in Windows, x \notin used' \/ phase'[x] = "asked"
      PROVE  x \notin used \/ phase[x] = "asked"
  BY <2>1, <2>2, <2>3 DEF TypeOK
<2>4. \A x \in Windows : main.ledger[x] = {} => main'.ledger[x] = {}
  BY <2>1, <2>2 DEF Ledger
<2>5. QED
  BY <2>1, <2>3, <2>4 DEF Unrecorded
<1>15. ASSUME NEW w \in Windows, RespawnRefused(w)
      PROVE  Unrecorded'
  BY <1>15
  DEF TypeOK, Ledger, Unrecorded, RespawnRefused, core, windows, page, Fails
<1>16. ASSUME NEW w \in Windows, FirstRun(w)
      PROVE  Unrecorded'
  BY <1>16
  DEF TypeOK, Ledger, Unrecorded, FirstRun, core, windows, page, bounds, history,
      Booted, Unopened, NoLedger, Fails, Works
<1>17. ASSUME \/ ReadLedger \/ LedgerRefused \/ Census
      PROVE  Unrecorded'
<2>1. CASE LedgerRefused
  BY <2>1, BootEnded DEF TypeOK, Ledger, Unrecorded, LedgerRefused, core, windows, page
<2>2. CASE ReadLedger \/ Census
  BY <2>2
  DEF TypeOK, Ledger, Unrecorded, Boot, ReadLedger, core, windows, page, Census
<2>3. QED
  BY <1>17, <2>1, <2>2
<1>18. ASSUME \/ CensusRefused \/ SavePruned \/ PrunedRefused
      PROVE  Unrecorded'
<2>1. CASE PrunedRefused
  BY <2>1, BootEnded DEF TypeOK, Ledger, Unrecorded, PrunedRefused, core, windows, page
<2>2. CASE CensusRefused \/ SavePruned
  BY <2>2
  DEF TypeOK, Ledger, Unrecorded, Boot, CensusRefused, core, windows, page, SavePruned
<2>3. QED
  BY <1>18, <2>1, <2>2
<1>19. ASSUME \/ Sweep \/ SweepRefused
      PROVE  Unrecorded'
  BY <1>19
  DEF TypeOK, Ledger, Unrecorded, Boot, Sweep, core, windows, page, history, Works,
      SweepRefused, Fails
<1>20. ASSUME Restart
      PROVE  Unrecorded'
  BY <1>20
  DEF TypeOK, Ledger, Unrecorded, Unopened, NoLedger, Standing, Restart, core
<1>21. ASSUME NEW w \in Windows, BootstrapUnclaimed(w)
      PROVE  Unrecorded'
  BY <1>21
  DEF TypeOK, Ledger, Unrecorded, BootstrapUnclaimed, FailsOpen, Fails
<1>22. ASSUME NEW w \in Windows, NEW r \in Roots, ClaimRootUnclaimed(w, r)
      PROVE  Unrecorded'
  BY <1>22
  DEF TypeOK, Ledger, Unrecorded, ClaimRootUnclaimed, FailsOpen, Fails, core, windows
<1>23. ASSUME NEW w \in Windows, NEW r \in Roots, GateCall(w, r)
      PROVE  Unrecorded'
  BY <1>23, GateCalls
  DEF TypeOK, Ledger, Unrecorded, core, windows
<1>24. ASSUME NotFirstRun
      PROVE  Unrecorded'
  BY <1>24
  DEF TypeOK, Ledger, Unrecorded, NotFirstRun, Booted, Unopened, NoLedger, core, windows, page, history
<1>25. CASE UNCHANGED vars
  BY <1>25 DEF Unrecorded, vars, core, windows, page, bounds, history
<1>26. QED
  BY <1>1, <1>2, <1>3, <1>4, <1>5, <1>6, <1>7, <1>8, <1>9, <1>10, <1>11, <1>12, <1>13,
     <1>14, <1>15, <1>16, <1>17, <1>18, <1>19, <1>20, <1>21, <1>22, <1>23, <1>24, <1>25
  DEF Next, PageStep, UserStep, MainStep, GateCall

(* No step takes a slot main has still to open away from it. *)
LEMMA RespawnableStep ==
    ASSUME TypeOK, Standing, Unrecorded, Respawnable, [Next]_vars
    PROVE  Respawnable'
<1>1. ASSUME NEW w \in Windows,
              \/ CreateWindow(w) \/ Bootstrap(w) \/ Hydrate(w)
      PROVE  Respawnable'
  BY <1>1
  DEF TypeOK, Respawnable, CreateWindow, core, page, bounds, history, Bootstrap, Hydrate,
      Works
<1>2. ASSUME NEW w \in Windows,
              \/ HydrateRefused(w) \/ RestoreWorkspaces(w) \/ RestoreThrows(w)
      PROVE  Respawnable'
  BY <1>2
  DEF TypeOK, Respawnable, HydrateRefused, core, page, history, Fails, RestoreWorkspaces,
      bounds, Restored, RestoreThrows
<1>3. ASSUME NEW w \in Windows,
              \/ LateReadRefused(w) \/ DeleteSnapshot(w) \/ PersistOnce(w)
      PROVE  Respawnable'
  BY <1>3
  DEF TypeOK, Respawnable, LateReadRefused, core, windows, page, bounds, history,
      DeleteSnapshot, Works, PersistOnce, Post
<1>4. ASSUME NEW w \in Windows,
              \/ ReadForClose(w) \/ ForgetRefused(w) \/ ForgetSlot(w)
      PROVE  Respawnable'
  BY <1>4
  DEF TypeOK, Respawnable, ReadForClose, core, windows, page, history, ForgetRefused,
      Fails, ForgetSlot, Works
<1>5. ASSUME NEW w \in Windows, NEW r \in Roots,
              \/ ClaimRoot(w, r) \/ AddWorkspace(w, r) \/ CloseWorkspace(w, r)
      PROVE  Respawnable'
  BY <1>5
  DEF TypeOK, Respawnable, ClaimRoot, core, windows, bounds, AddWorkspace,
      CloseWorkspace, history
<1>6. ASSUME NEW w \in Windows, NEW r \in Roots, AskWindow(w, r)
      PROVE  Respawnable'
  BY <1>6
  DEF TypeOK, Respawnable, AskWindow, core, page, history, Fails, Works
<1>7. ASSUME NEW w \in Windows, NEW i \in 1 .. Len(calls[w]),
              \/ ServeSave(w, i) \/ Upsert(w, i) \/ RefuseCall(w, i)
      PROVE  Respawnable'
  BY <1>7
  DEF TypeOK, Respawnable, ServeSave, windows, page, bounds, history, Upsert, RefuseCall,
      core, Fails
<1>8. ASSUME NEW w \in Windows, Destroy(w)
      PROVE  Respawnable'
  BY <1>8
  DEF TypeOK, Respawnable, Destroy, core, bounds, history, Post
<1>9. ASSUME NEW w \in Windows, RespawnSlot(w)
      PROVE  Respawnable'
<2>1. main'.todo = main.todo \ {w} /\ used' = used
  BY <1>9, RespawnCases DEF TypeOK, RespawnSlot
<2>2. phase' = phase \/ phase' = [phase EXCEPT ![w] = "created"]
  BY <1>9, RespawnCases
<2>3. QED
  BY <2>1, <2>2 DEF TypeOK, Respawnable
<1>10. ASSUME NEW w \in Windows, RespawnRefused(w)
      PROVE  Respawnable'
  BY <1>10
  DEF TypeOK, Respawnable, RespawnRefused, core, windows, page, Fails
<1>11. ASSUME NEW w \in Windows, FirstRun(w)
      PROVE  Respawnable'
  BY <1>11
  DEF TypeOK, Respawnable, FirstRun, core, windows, page, bounds, history,
      Booted, Unopened, NoLedger, Fails, Works
<1>12. ASSUME Census
      PROVE  Respawnable'
  BY <1>12
  DEF TypeOK, Respawnable, Restorable, Ledger, Unrecorded, Standing, Pages, Census, core,
      windows, page, history, Works
<1>13. ASSUME \/ ReadLedger \/ LedgerRefused \/ CensusRefused
      PROVE  Respawnable'
  BY <1>13
  DEF TypeOK, Respawnable, ReadLedger, core, windows, page, history, Works,
      LedgerRefused, Fails, CensusRefused, Booted, Unopened, NoLedger
<1>14. ASSUME \/ SavePruned \/ PrunedRefused \/ Sweep
      PROVE  Respawnable'
  BY <1>14
  DEF TypeOK, Respawnable, SavePruned, windows, page, history, Works, PrunedRefused,
      core, Fails, Sweep, Booted, Unopened, NoLedger
<1>15. ASSUME SweepRefused
      PROVE  Respawnable'
  BY <1>15
  DEF TypeOK, Respawnable, SweepRefused, core, windows, page, history, Fails
<1>16. ASSUME Restart
      PROVE  Respawnable'
  BY <1>16
  DEF TypeOK, Respawnable, Unopened, Restart, core
<1>17. ASSUME NEW w \in Windows, BootstrapUnclaimed(w)
      PROVE  Respawnable'
  BY <1>17
  DEF TypeOK, Respawnable, BootstrapUnclaimed, FailsOpen, Fails
<1>18. ASSUME NEW w \in Windows, NEW r \in Roots, ClaimRootUnclaimed(w, r)
      PROVE  Respawnable'
  BY <1>18
  DEF TypeOK, Respawnable, ClaimRootUnclaimed, FailsOpen, Fails, core, windows
<1>19. ASSUME NEW w \in Windows, NEW r \in Roots, GateCall(w, r)
      PROVE  Respawnable'
  BY <1>19, GateCalls
  DEF TypeOK, Respawnable, core, windows
<1>20. ASSUME NotFirstRun
      PROVE  Respawnable'
  BY <1>20
  DEF TypeOK, Respawnable, NotFirstRun, Booted, Unopened, NoLedger, core, windows, page, history
<1>21. CASE UNCHANGED vars
  BY <1>21 DEF Respawnable, vars, core, windows, page, bounds, history
<1>22. QED
  BY <1>1, <1>2, <1>3, <1>4, <1>5, <1>6, <1>7, <1>8, <1>9, <1>10, <1>11, <1>12, <1>13,
     <1>14, <1>15, <1>16, <1>17, <1>18, <1>19, <1>20, <1>21
  DEF Next, PageStep, UserStep, MainStep, GateCall

(* No step changes a record the build cannot read. *)
LEMMA LeftAloneStep ==
    ASSUME TypeOK, Standing, Respawnable, LeftAlone, Reached, [Next]_vars
    PROVE  LeftAlone'
<1>1. ASSUME NEW w \in Windows,
              \/ CreateWindow(w) \/ Bootstrap(w) \/ Hydrate(w)
      PROVE  LeftAlone'
  BY <1>1
  DEF TypeOK, Ledger, LeftAlone, Reading, CreateWindow, core, page, bounds, history,
      Bootstrap, Hydrate, Works
<1>2. ASSUME NEW w \in Windows,
              \/ HydrateRefused(w) \/ RestoreWorkspaces(w) \/ RestoreThrows(w)
      PROVE  LeftAlone'
  BY <1>2
  DEF TypeOK, Ledger, LeftAlone, Reading, HydrateRefused, core, page, history, Fails,
      RestoreWorkspaces, bounds, Restored, RestoreThrows
<1>3. ASSUME NEW w \in Windows,
              \/ LateReadRefused(w) \/ PersistOnce(w)
      PROVE  LeftAlone'
  BY <1>3
  DEF TypeOK, Ledger, LeftAlone, Reading, LateReadRefused, core, windows, page, bounds,
      history, PersistOnce, Post
<1>4. ASSUME NEW w \in Windows, NEW r \in Roots,
              \/ ClaimRoot(w, r) \/ AddWorkspace(w, r) \/ CloseWorkspace(w, r)
      PROVE  LeftAlone'
  BY <1>4
  DEF TypeOK, Ledger, LeftAlone, Reading, ClaimRoot, core, windows, bounds, AddWorkspace,
      CloseWorkspace, history
<1>5. ASSUME NEW w \in Windows, NEW r \in Roots, AskWindow(w, r)
      PROVE  LeftAlone'
  BY <1>5
  DEF TypeOK, Ledger, LeftAlone, Reading, AskWindow, core, page, history, Fails, Works
<1>6. ASSUME NEW w \in Windows, NEW i \in 1 .. Len(calls[w]), ServeSave(w, i)
      PROVE  LeftAlone'
<2>1. calls[w] \in Seq(Call) /\ calls[w][i] \in Call /\ calls[w] # <<>>
  BY ElementOfSeq, EmptySeq DEF TypeOK
<2>2. calls[w][i].roots \in SUBSET Roots /\ snaps'[w] = calls[w][i].roots
  BY <1>6, <2>1 DEF Call, TypeOK, ServeSave
<2>3. /\ snaps' = [snaps EXCEPT ![w] = calls[w][i].roots] /\ snaps'[w] # Unreadable
      /\ \A x \in Windows \ {w} : calls'[x] = calls[x]
  BY <1>6, <2>2, WindowPersistenceAssumption DEF ServeSave, TypeOK
<2>4. QED
  BY <1>6, <2>3 DEF TypeOK, LeftAlone, ServeSave, windows
<1>7. ASSUME NEW w \in Windows, NEW i \in 1 .. Len(calls[w]), Upsert(w, i)
      PROVE  LeftAlone'
  BY <1>7
  DEF TypeOK, Ledger, LeftAlone, Reading, Upsert, windows, page, bounds, history
<1>8. ASSUME NEW w \in Windows, NEW i \in 1 .. Len(calls[w]), RefuseCall(w, i)
      PROVE  LeftAlone'
  BY <1>8
  DEF TypeOK, Ledger, LeftAlone, Reading, RefuseCall, core, windows, page, history,
      Fails
<1>9. ASSUME NEW w \in Windows, ReadForClose(w)
      PROVE  LeftAlone'
<2>1. snaps[w] # Unreadable
  BY <1>9 DEF ReadForClose, LeftAlone, Standing, Pages
<2>2. \A x \in Windows :
         \/ closer'[x] = closer[x]
         \/ x = w /\ closer'[x].at = "read" /\ closer'[x].ledger = slots
  BY <1>9 DEF TypeOK, ReadForClose
<2>3. QED
  BY <1>9, <2>1, <2>2 DEF LeftAlone, ReadForClose, core, windows
<1>10. ASSUME NEW w \in Windows, ForgetRefused(w)
      PROVE  LeftAlone'
  BY <1>10
  DEF TypeOK, Ledger, LeftAlone, Reading, NoLedger, ForgetRefused, core, windows, page,
      history, Fails
<1>11. ASSUME NEW w \in Windows, ForgetSlot(w)
      PROVE  LeftAlone'
  BY <1>11
  DEF TypeOK, Ledger, LeftAlone, Reading, NoLedger, ForgetSlot, windows, page, history,
      Works
<1>12. ASSUME NEW w \in Windows, Destroy(w)
      PROVE  LeftAlone'
  BY <1>12
  DEF TypeOK, Ledger, LeftAlone, Reading, Destroy, core, bounds, history, Post
<1>13. ASSUME NEW w \in Windows, RespawnSlot(w)
      PROVE  LeftAlone'
<2>1. /\ main \in Boot /\ main.ledger \in Ledger
      /\ slots' = slots /\ snaps' = snaps /\ calls' = calls /\ closer' = closer /\ used' = used
  BY <1>13 DEF TypeOK, Boot, RespawnSlot, core
<2>2. main'.at = main.at /\ main'.forget = main.forget
  BY <1>13, <2>1, RespawnCases DEF Boot
<2>3. Unreadable # {}
  BY WindowPersistenceAssumption
<2>4. ASSUME NEW x \in Windows, snaps[x] = Unreadable
      PROVE  phase'[x] = phase[x]
  BY <1>13, <2>3, <2>4, RespawnCases DEF TypeOK, IsSet
<2>5. ASSUME NEW x \in Windows, snaps[x] = Unreadable
      PROVE  main'.ledger[x] = main.ledger[x]
  <3>1. \/ main'.ledger = main.ledger
        \/ snaps[w] = {} /\ main'.ledger = [main.ledger EXCEPT ![w] = {}]
    BY <1>13, <2>1, RespawnCases DEF Boot
  <3>2. QED
    BY <2>1, <2>3, <2>5, <3>1 DEF Ledger
<2>6. QED
  BY <2>1, <2>2, <2>4, <2>5 DEF LeftAlone
<1>14. ASSUME NEW w \in Windows, RespawnRefused(w)
      PROVE  LeftAlone'
  BY <1>14
  DEF TypeOK, Ledger, LeftAlone, Reading, RespawnRefused, core, windows, page, Fails
<1>15. ASSUME NEW w \in Windows, DeleteSnapshot(w)
      PROVE  LeftAlone'
  BY <1>15, WindowPersistenceAssumption
  DEF TypeOK, Ledger, LeftAlone, Reading, DeleteSnapshot, windows, page, history, Works
<1>16. ASSUME NEW w \in Windows, FirstRun(w)
      PROVE  LeftAlone'
  BY <1>16
  DEF TypeOK, Ledger, LeftAlone, Reading, FirstRun, core, windows, page, bounds, history,
      Booted, Unopened, NoLedger, Fails, Works
<1>17. ASSUME ReadLedger
      PROVE  LeftAlone'
  BY <1>17
  DEF TypeOK, Ledger, LeftAlone, Reading, ReadLedger, core, windows, page, history,
      Works
<1>18. ASSUME LedgerRefused
      PROVE  LeftAlone'
  BY <1>18
  DEF TypeOK, Ledger, LeftAlone, Reading, LedgerRefused, core, windows, page, history,
      Fails, Booted, Unopened, NoLedger
<1>19. ASSUME Census
      PROVE  LeftAlone'
  BY <1>19
  DEF TypeOK, Ledger, LeftAlone, Reading, Census, core, windows, page, history, Works
<1>20. ASSUME CensusRefused
      PROVE  LeftAlone'
  BY <1>20
  DEF TypeOK, Ledger, LeftAlone, Reading, CensusRefused, core, windows, page, history,
      Fails
<1>21. ASSUME SavePruned
      PROVE  LeftAlone'
  BY <1>21
  DEF TypeOK, Ledger, LeftAlone, Reading, SavePruned, windows, page, history, Works
<1>22. ASSUME PrunedRefused
      PROVE  LeftAlone'
  BY <1>22
  DEF TypeOK, Ledger, LeftAlone, Reading, PrunedRefused, core, windows, page, history,
      Fails, Booted, Unopened, NoLedger
<1>23. ASSUME Sweep
      PROVE  LeftAlone'
  BY <1>23
  DEF TypeOK, Ledger, LeftAlone, Reading, SnapshotsToForget, Sweep, core, windows, page,
      history, Works
<1>24. ASSUME SweepRefused
      PROVE  LeftAlone'
  BY <1>24
  DEF TypeOK, Ledger, LeftAlone, Reading, Reached, SweepRefused, core, windows, page,
      history, Fails
<1>25. ASSUME Restart
      PROVE  LeftAlone'
  BY <1>25
  DEF TypeOK, Ledger, LeftAlone, Reading, Unopened, NoLedger, Restart, core
<1>26. ASSUME NEW w \in Windows, BootstrapUnclaimed(w)
      PROVE  LeftAlone'
  BY <1>26
  DEF TypeOK, Ledger, LeftAlone, Reading, BootstrapUnclaimed, FailsOpen, Fails
<1>27. ASSUME NEW w \in Windows, NEW r \in Roots, ClaimRootUnclaimed(w, r)
      PROVE  LeftAlone'
  BY <1>27
  DEF TypeOK, Ledger, LeftAlone, Reading, ClaimRootUnclaimed, FailsOpen, Fails, core, windows
<1>28. ASSUME NEW w \in Windows, NEW r \in Roots, GateCall(w, r)
      PROVE  LeftAlone'
  BY <1>28, GateCalls
  DEF TypeOK, Ledger, LeftAlone, Reading, core, windows
<1>29. ASSUME NotFirstRun
      PROVE  LeftAlone'
  BY <1>29
  DEF TypeOK, Ledger, LeftAlone, Reading, NotFirstRun, Booted, Unopened, NoLedger, core, windows, page, history
<1>30. CASE UNCHANGED vars
  BY <1>30 DEF LeftAlone, vars, core, windows, page, bounds, history
<1>31. QED
  BY <1>1, <1>2, <1>3, <1>4, <1>5, <1>6, <1>7, <1>8, <1>9, <1>10, <1>11, <1>12, <1>13,
     <1>14, <1>15, <1>16, <1>17, <1>18, <1>19, <1>20, <1>21, <1>22, <1>23, <1>24, <1>25,
     <1>26, <1>27, <1>28, <1>29, <1>30
  DEF Next, PageStep, UserStep, MainStep, GateCall

(* Main leaves no slot it read out. *)
LEMMA ReachedStep ==
    ASSUME TypeOK, LeftAlone, Saved, Reached, [Next]_vars
    PROVE  Reached'
<1>1. ASSUME NEW w \in Windows,
              \/ CreateWindow(w) \/ Bootstrap(w) \/ Hydrate(w)
      PROVE  Reached'
  BY <1>1
  DEF TypeOK, Ledger, Reached, Reading, Restorable, IsSet, CreateWindow, core, page,
      bounds, history, Bootstrap, Hydrate, Works
<1>2. ASSUME NEW w \in Windows,
              \/ HydrateRefused(w) \/ RestoreWorkspaces(w) \/ LateReadRefused(w)
      PROVE  Reached'
  BY <1>2
  DEF TypeOK, Ledger, Reached, Reading, Restorable, IsSet, HydrateRefused, core, page,
      history, Fails, RestoreWorkspaces, bounds, Restored, LateReadRefused, windows
<1>3. ASSUME NEW w \in Windows,
              \/ PersistOnce(w) \/ ReadForClose(w) \/ ForgetSlot(w)
      PROVE  Reached'
  BY <1>3
  DEF TypeOK, Ledger, Reached, Reading, Restorable, IsSet, PersistOnce, core, windows,
      bounds, history, Post, ReadForClose, page, ForgetSlot, Works
<1>4. ASSUME NEW w \in Windows,
              \/ ForgetRefused(w) \/ Destroy(w)
      PROVE  Reached'
  BY <1>4
  DEF TypeOK, Ledger, Reached, Reading, Restorable, IsSet, ForgetRefused, core, windows,
      page, history, Fails, Destroy, bounds, Post
<1>5. ASSUME NEW w \in Windows, RestoreThrows(w)
      PROVE  Reached'
  BY <1>5
  DEF TypeOK, Ledger, Reached, Reading, Restorable, IsSet, RestoreThrows, core, Fails,
      Restored
<1>6. ASSUME NEW w \in Windows, NEW r \in Roots,
              \/ ClaimRoot(w, r) \/ AddWorkspace(w, r) \/ CloseWorkspace(w, r)
      PROVE  Reached'
  BY <1>6
  DEF TypeOK, Ledger, Reached, Reading, Restorable, IsSet, ClaimRoot, core, windows,
      bounds, AddWorkspace, CloseWorkspace, history
<1>7. ASSUME NEW w \in Windows, NEW r \in Roots, AskWindow(w, r)
      PROVE  Reached'
  BY <1>7
  DEF TypeOK, Ledger, Reached, Reading, Restorable, IsSet, AskWindow, core, page,
      history, Fails, Works
<1>8. ASSUME NEW w \in Windows, NEW i \in 1 .. Len(calls[w]), ServeSave(w, i)
      PROVE  Reached'
<2>1. calls[w] # <<>>
  BY EmptySeq DEF TypeOK
<2>2. main.at \in Reading /\ main.ledger[w] # {} => IsSet(snaps[w])
  BY <2>1 DEF LeftAlone, Saved, Gone, IsSet
<2>3. QED
  BY <1>8, <2>2 DEF TypeOK, Reached, Restorable, IsSet, ServeSave, history
<1>9. ASSUME NEW w \in Windows, NEW i \in 1 .. Len(calls[w]), Upsert(w, i)
      PROVE  Reached'
  BY <1>9
  DEF TypeOK, Ledger, Reached, Reading, Restorable, IsSet, Upsert, windows, page, bounds,
      history
<1>10. ASSUME NEW w \in Windows, NEW i \in 1 .. Len(calls[w]), RefuseCall(w, i)
      PROVE  Reached'
  BY <1>10
  DEF TypeOK, Ledger, Reached, Reading, Restorable, IsSet, RefuseCall, core, windows,
      page, history, Fails
<1>11. ASSUME NEW w \in Windows, RespawnSlot(w)
      PROVE  Reached'
<2>1. main \in Boot /\ main.ledger \in Ledger /\ snaps' = snaps /\ skipped' = skipped
  BY <1>11 DEF TypeOK, Boot, RespawnSlot, core
<2>2. /\ main'.at = main.at /\ main'.at = "slots" /\ main'.forget = main.forget
      /\ main'.answered = main.answered /\ main'.live = main.live
      /\ main'.todo = main.todo \ {w}
  BY <1>11, <2>1, RespawnCases DEF Boot, RespawnSlot
<2>3. \/ ~IsSet(snaps[w]) /\ main'.ledger = main.ledger /\ opened' = opened
      \/ main'.ledger = [main.ledger EXCEPT ![w] = {}] /\ opened' = opened
      \/ main'.ledger = main.ledger /\ opened' = opened \cup {w}
  BY <1>11, <2>1, RespawnCases DEF Boot
<2>4. QED
  BY <2>1, <2>2, <2>3 DEF Reached, Reading, Restorable, IsSet, Ledger
<1>12. ASSUME NEW w \in Windows, RespawnRefused(w)
      PROVE  Reached'
  BY <1>12
  DEF TypeOK, Ledger, Reached, Reading, Restorable, IsSet, RespawnRefused, core, windows,
      page, Fails
<1>13. ASSUME NEW w \in Windows, DeleteSnapshot(w)
      PROVE  Reached'
  BY <1>13
  DEF TypeOK, Ledger, Reached, Reading, Restorable, IsSet, DeleteSnapshot, windows, page,
      history, Works
<1>14. ASSUME NEW w \in Windows, FirstRun(w)
      PROVE  Reached'
  BY <1>14
  DEF TypeOK, Ledger, Reached, Reading, Restorable, IsSet, FirstRun, core, windows, page,
      bounds, history, Booted, Unopened, NoLedger, Fails, Works
<1>15. ASSUME ReadLedger
      PROVE  Reached'
  BY <1>15
  DEF TypeOK, Ledger, Reached, Reading, Restorable, IsSet, ReadLedger, core, windows,
      page, history, Works
<1>16. ASSUME LedgerRefused
      PROVE  Reached'
  BY <1>16
  DEF TypeOK, Ledger, Reached, Reading, Restorable, IsSet, LedgerRefused, core, windows,
      page, history, Fails, Booted, Unopened, NoLedger
<1>17. ASSUME Census
      PROVE  Reached'
  BY <1>17
  DEF TypeOK, Ledger, Reached, Reading, Restorable, IsSet, Census, core, windows, page,
      history, Works
<1>18. ASSUME CensusRefused
      PROVE  Reached'
  BY <1>18
  DEF TypeOK, Ledger, Reached, Reading, Restorable, IsSet, CensusRefused, core, windows,
      page, history, Fails
<1>19. ASSUME SavePruned
      PROVE  Reached'
  BY <1>19
  DEF TypeOK, Ledger, Reached, Reading, Restorable, IsSet, SavePruned, windows, page,
      history, Works
<1>20. ASSUME PrunedRefused
      PROVE  Reached'
  BY <1>20
  DEF TypeOK, Ledger, Reached, Reading, Restorable, IsSet, PrunedRefused, core, windows,
      page, history, Fails, Booted, Unopened, NoLedger
<1>21. ASSUME Sweep
      PROVE  Reached'
  BY <1>21
  DEF TypeOK, Ledger, Reached, Reading, Restorable, IsSet, SnapshotsToForget, Sweep,
      core, windows, page, history, Works
<1>22. ASSUME SweepRefused
      PROVE  Reached'
  BY <1>22
  DEF TypeOK, Ledger, Reached, Reading, Restorable, IsSet, SweepRefused, core, windows,
      page, history, Fails
<1>23. ASSUME Restart
      PROVE  Reached'
  BY <1>23
  DEF TypeOK, Ledger, Reached, Reading, Unopened, NoLedger, Restart, core
<1>24. ASSUME NEW w \in Windows, BootstrapUnclaimed(w)
      PROVE  Reached'
  BY <1>24
  DEF TypeOK, Ledger, Reached, Reading, Restorable, IsSet, BootstrapUnclaimed, FailsOpen, Fails
<1>25. ASSUME NEW w \in Windows, NEW r \in Roots, ClaimRootUnclaimed(w, r)
      PROVE  Reached'
  BY <1>25
  DEF TypeOK, Ledger, Reached, Reading, Restorable, IsSet, ClaimRootUnclaimed, FailsOpen, Fails, core, windows
<1>26. ASSUME NEW w \in Windows, NEW r \in Roots, GateCall(w, r)
      PROVE  Reached'
  BY <1>26, GateCalls
  DEF TypeOK, Ledger, Reached, Reading, Restorable, IsSet, core, windows
<1>27. ASSUME NotFirstRun
      PROVE  Reached'
  BY <1>27
  DEF TypeOK, Ledger, Reached, Reading, Restorable, IsSet, NotFirstRun, Booted, Unopened, NoLedger, core, windows, page, history
<1>28. CASE UNCHANGED vars
  BY <1>28 DEF Reached, vars, core, windows, page, bounds, history
<1>29. QED
  BY <1>1, <1>2, <1>3, <1>4, <1>5, <1>6, <1>7, <1>8, <1>9, <1>10, <1>11, <1>12, <1>13,
     <1>14, <1>15, <1>16, <1>17, <1>18, <1>19, <1>20, <1>21, <1>22, <1>23, <1>24, <1>25,
     <1>26, <1>27, <1>28
  DEF Next, PageStep, UserStep, MainStep, GateCall

(* No step saves a snapshot main may have found absent. *)
LEMMA SavedStep ==
    ASSUME TypeOK, Standing, Respawnable, Unrecorded, Saved, Reached, [Next]_vars
    PROVE  Saved'
<1>1. ASSUME NEW w \in Windows,
              \/ CreateWindow(w) \/ Bootstrap(w) \/ Hydrate(w)
      PROVE  Saved'
  BY <1>1
  DEF TypeOK, Ledger, Saved, Early, Reading, Gone, CreateWindow, core, page, bounds,
      history, Bootstrap, Hydrate, Works
<1>2. ASSUME NEW w \in Windows,
              \/ HydrateRefused(w) \/ RestoreWorkspaces(w) \/ RestoreThrows(w)
      PROVE  Saved'
  BY <1>2
  DEF TypeOK, Ledger, Saved, Early, Reading, Gone, HydrateRefused, core, page, history,
      Fails, RestoreWorkspaces, bounds, Restored, RestoreThrows
<1>3. ASSUME NEW w \in Windows, LateReadRefused(w)
      PROVE  Saved'
  BY <1>3
  DEF TypeOK, Ledger, Saved, Early, Reading, Gone, LateReadRefused, core, windows, page,
      bounds, history
<1>4. ASSUME NEW w \in Windows, NEW r \in Roots,
              \/ ClaimRoot(w, r) \/ AddWorkspace(w, r) \/ CloseWorkspace(w, r)
      PROVE  Saved'
  BY <1>4
  DEF TypeOK, Ledger, Saved, Early, Reading, Gone, ClaimRoot, core, windows, bounds,
      AddWorkspace, CloseWorkspace, history
<1>5. ASSUME NEW w \in Windows, NEW r \in Roots, AskWindow(w, r)
      PROVE  Saved'
  BY <1>5
  DEF TypeOK, Ledger, Saved, Early, Reading, Gone, Unrecorded, AskWindow, core, page,
      history, Fails, Works
<1>6. ASSUME NEW w \in Windows, PersistOnce(w)
      PROVE  Saved'
<2>1. [kind |-> "save", roots |-> tabs[w]] \in Saves
  BY DEF TypeOK, Ledger, Call, Saves
<2>2. calls[w] \in Seq(Saves) => calls'[w] \in Seq(Saves)
  <3>1. \/ calls' = calls
        \/ calls' = [calls EXCEPT ![w] = Append(@, [kind |-> "save", roots |-> tabs[w]])]
    BY <1>6 DEF PersistOnce, Post
  <3>2. calls[w] \in Seq(Saves)
        => Append(calls[w], [kind |-> "save", roots |-> tabs[w]]) \in Seq(Saves)
    BY <2>1, AppendProperties
  <3>3. QED
    BY <3>1, <3>2 DEF TypeOK
<2>3. \A x \in Windows \ {w} : calls'[x] = calls[x]
  BY <1>6 DEF TypeOK, PersistOnce, Post
<2>4. QED
  BY <1>6, <2>2, <2>3 DEF Saved, Gone, PersistOnce, core, windows
<1>7. ASSUME NEW w \in Windows, ReadForClose(w)
      PROVE  Saved'
  BY <1>7
  DEF TypeOK, Ledger, Saved, Early, Reading, Gone, ReadForClose, core, windows, page,
      history
<1>8. ASSUME NEW w \in Windows, ForgetSlot(w)
      PROVE  Saved'
  BY <1>8
  DEF TypeOK, Ledger, Saved, Early, Reading, Gone, NoLedger, ForgetSlot, windows, page,
      history, Works
<1>9. ASSUME NEW w \in Windows, Destroy(w)
      PROVE  Saved'
<2>1. [kind |-> "save", roots |-> tabs[w]] \in Saves
  BY DEF TypeOK, Ledger, Call, Saves
<2>2. calls[w] \in Seq(Saves) => calls'[w] \in Seq(Saves)
  <3>1. \/ calls' = calls
        \/ calls' = [calls EXCEPT ![w] = Append(@, [kind |-> "save", roots |-> tabs[w]])]
    BY <1>9 DEF Destroy, Post
  <3>2. calls[w] \in Seq(Saves)
        => Append(calls[w], [kind |-> "save", roots |-> tabs[w]]) \in Seq(Saves)
    BY <2>1, AppendProperties
  <3>3. QED
    BY <3>1, <3>2 DEF TypeOK
<2>3. \A x \in Windows \ {w} : calls'[x] = calls[x]
  BY <1>9 DEF TypeOK, Destroy, Post
<2>4. /\ \A x \in Windows \ {w} : phase'[x] = phase[x]
      /\ phase[w] = "none" => phase'[w] = "none" /\ calls'[w] = calls[w]
      /\ \A x \in Windows : closer'[x].ledger = closer[x].ledger
  BY <1>9 DEF TypeOK, Destroy
<2>5. QED
  BY <1>9, <2>2, <2>3, <2>4 DEF Saved, Gone, Destroy, core
<1>10. ASSUME NEW w \in Windows, ForgetRefused(w)
      PROVE  Saved'
  BY <1>10
  DEF TypeOK, Ledger, Saved, Early, Reading, Gone, NoLedger, ForgetRefused, core,
      windows, page, history, Fails
<1>11. ASSUME NEW w \in Windows, NEW i \in 1 .. Len(calls[w]), ServeSave(w, i)
      PROVE  Saved'
<2>1. calls[w][i].roots \in SUBSET Roots
  <3>1. calls[w] \in Seq(Call)
    BY DEF TypeOK
  <3>2. calls[w][i] \in Call
    BY <3>1, ElementOfSeq
  <3>3. QED
    BY <3>2 DEF Call
<2>2. /\ snaps'[w] # Absent
      /\ \A x \in Windows \ {w} : snaps'[x] = snaps[x] /\ calls'[x] = calls[x]
  BY <1>11, <2>1, WindowPersistenceAssumption DEF TypeOK, ServeSave
<2>3. QED
  BY <1>11, <2>2 DEF Saved, Gone, ServeSave, windows
<1>12. ASSUME NEW w \in Windows, NEW i \in 1 .. Len(calls[w]), Upsert(w, i)
      PROVE  Saved'
<2>1. calls[w] # <<>> /\ calls[w] \notin Seq(Saves)
  BY <1>12, EmptySeq, ElementOfSeq DEF TypeOK, Upsert, Saves
<2>2. \A x \in Windows \ {w} : slots'[x] = slots[x] /\ calls'[x] = calls[x]
  BY <1>12 DEF TypeOK, Ledger, Upsert
<2>3. QED
  BY <1>12, <2>1, <2>2 DEF Saved, Gone, Early, Reading, Upsert, windows
<1>13. ASSUME NEW w \in Windows, NEW i \in 1 .. Len(calls[w]), RefuseCall(w, i)
      PROVE  Saved'
<2>1. calls[w] # <<>>
  BY EmptySeq DEF TypeOK
<2>2. calls[w] \in Seq(Saves) => calls'[w] \in Seq(Saves)
  BY <1>13, RemoveAtType DEF TypeOK, RefuseCall
<2>3. \A x \in Windows \ {w} : calls'[x] = calls[x]
  BY <1>13 DEF TypeOK, RefuseCall
<2>4. QED
  BY <1>13, <2>1, <2>2, <2>3 DEF Saved, Gone, RefuseCall, core, windows
<1>14. ASSUME NEW w \in Windows, RespawnSlot(w)
      PROVE  Saved'
<2>1. /\ main \in Boot /\ main.ledger \in Ledger
      /\ slots' = slots /\ snaps' = snaps /\ calls' = calls /\ closer' = closer /\ used' = used
  BY <1>14 DEF TypeOK, Boot, RespawnSlot, core
<2>2. main'.at = main.at
  BY <1>14, <2>1, RespawnCases DEF Boot
<2>3. \A x \in Windows : main'.ledger[x] = main.ledger[x] \/ main'.ledger[x] = {}
  <3>1. \/ main'.ledger = main.ledger
        \/ main'.ledger = [main.ledger EXCEPT ![w] = {}]
    BY <1>14, <2>1, RespawnCases DEF Boot
  <3>2. QED
    BY <2>1, <3>1 DEF Ledger
<2>4. \A x \in Windows : snaps[x] = Absent => phase'[x] = phase[x]
  BY <1>14, RespawnCases DEF TypeOK, IsSet
<2>5. QED
  BY <2>1, <2>2, <2>3, <2>4 DEF Saved, Gone
<1>15. ASSUME NEW w \in Windows, RespawnRefused(w)
      PROVE  Saved'
  BY <1>15
  DEF TypeOK, Ledger, Saved, Early, Reading, Gone, RespawnRefused, core, windows, page,
      Fails
<1>16. ASSUME NEW w \in Windows, DeleteSnapshot(w)
      PROVE  Saved'
  BY <1>16, Reached
  DEF TypeOK, Ledger, Saved, Early, Reading, Gone, Reached, DeleteSnapshot, windows,
      page, history, Works
<1>17. ASSUME NEW w \in Windows, FirstRun(w)
      PROVE  Saved'
  BY <1>17
  DEF TypeOK, Ledger, Saved, Early, Reading, Gone, FirstRun, core, windows, page, bounds,
      history, Booted, Unopened, NoLedger, Fails, Works
<1>18. ASSUME ReadLedger
      PROVE  Saved'
  BY <1>18
  DEF TypeOK, Ledger, Saved, Early, Reading, Gone, ReadLedger, core, windows, page,
      history, Works
<1>19. ASSUME LedgerRefused
      PROVE  Saved'
  BY <1>19
  DEF TypeOK, Ledger, Saved, Early, Reading, Gone, LedgerRefused, core, windows, page,
      history, Fails, Booted, Unopened, NoLedger
<1>20. ASSUME Census
      PROVE  Saved'
  BY <1>20
  DEF TypeOK, Ledger, Saved, Early, Reading, Gone, Census, core, windows, page, history,
      Works
<1>21. ASSUME CensusRefused
      PROVE  Saved'
  BY <1>21
  DEF TypeOK, Ledger, Saved, Early, Reading, Gone, CensusRefused, core, windows, page,
      history, Fails
<1>22. ASSUME SavePruned
      PROVE  Saved'
  BY <1>22
  DEF TypeOK, Ledger, Saved, Early, Reading, Gone, SavePruned, windows, page, history,
      Works
<1>23. ASSUME PrunedRefused
      PROVE  Saved'
  BY <1>23
  DEF TypeOK, Ledger, Saved, Early, Reading, Gone, PrunedRefused, core, windows, page,
      history, Fails, Booted, Unopened, NoLedger
<1>24. ASSUME Sweep
      PROVE  Saved'
  BY <1>24
  DEF TypeOK, Ledger, Saved, Early, Reading, Gone, Sweep, core, windows, page, history,
      Works
<1>25. ASSUME SweepRefused
      PROVE  Saved'
  BY <1>25
  DEF TypeOK, Ledger, Saved, Early, Reading, Gone, Reached, SweepRefused, core, windows,
      page, history, Fails
<1>26. ASSUME Restart
      PROVE  Saved'
  BY <1>26
  DEF TypeOK, Ledger, Saved, Early, Reading, Gone, Unopened, NoLedger, Unrecorded,
      Restart, core
<1>27. ASSUME NEW w \in Windows, BootstrapUnclaimed(w)
      PROVE  Saved'
  BY <1>27
  DEF TypeOK, Ledger, Saved, Early, Reading, Gone, BootstrapUnclaimed, FailsOpen, Fails
<1>28. ASSUME NEW w \in Windows, NEW r \in Roots, ClaimRootUnclaimed(w, r)
      PROVE  Saved'
  BY <1>28
  DEF TypeOK, Ledger, Saved, Early, Reading, Gone, ClaimRootUnclaimed, FailsOpen, Fails, core, windows
<1>29. ASSUME NEW w \in Windows, NEW r \in Roots, GateCall(w, r)
      PROVE  Saved'
  BY <1>29, GateCalls
  DEF TypeOK, Ledger, Saved, Early, Reading, Gone, core, windows
<1>30. ASSUME NotFirstRun
      PROVE  Saved'
  BY <1>30
  DEF TypeOK, Ledger, Saved, Early, Reading, Gone, NotFirstRun, Booted, Unopened, NoLedger, core, windows, page, history
<1>31. CASE UNCHANGED vars
  BY <1>31 DEF Saved, Gone, vars, core, windows, page, bounds, history
<1>32. QED
  BY <1>1, <1>2, <1>3, <1>4, <1>5, <1>6, <1>7, <1>8, <1>9, <1>10, <1>11, <1>12, <1>13,
     <1>14, <1>15, <1>16, <1>17, <1>18, <1>19, <1>20, <1>21, <1>22, <1>23, <1>24, <1>25,
     <1>26, <1>27, <1>28, <1>29, <1>30, <1>31
  DEF Next, PageStep, UserStep, MainStep, GateCall

(* No step changes a snapshot the build cannot read, or its slot. *)
LEMMA UnreadableStep ==
    ASSUME IInv, [Next]_vars, NEW x \in Windows, snaps[x] = Unreadable
    PROVE  snaps'[x] = Unreadable /\ slots'[x] = slots[x]
<1> USE DEF IInv
<1>1. ASSUME NEW w \in Windows,
              \/ CreateWindow(w) \/ Bootstrap(w) \/ Hydrate(w)
      PROVE  snaps'[x] = Unreadable /\ slots'[x] = slots[x]
  BY <1>1
  DEF core, CreateWindow, page, bounds, history, Bootstrap, Hydrate, Works
<1>2. ASSUME NEW w \in Windows,
              \/ HydrateRefused(w) \/ RestoreWorkspaces(w) \/ RestoreThrows(w)
      PROVE  snaps'[x] = Unreadable /\ slots'[x] = slots[x]
  BY <1>2
  DEF core, HydrateRefused, page, history, Fails, RestoreWorkspaces, bounds, Restored,
      RestoreThrows
<1>3. ASSUME NEW w \in Windows,
              \/ LateReadRefused(w) \/ PersistOnce(w) \/ ReadForClose(w)
      PROVE  snaps'[x] = Unreadable /\ slots'[x] = slots[x]
  BY <1>3
  DEF core, LateReadRefused, windows, page, bounds, history, PersistOnce, Post,
      ReadForClose
<1>4. ASSUME NEW w \in Windows,
              \/ ForgetRefused(w) \/ Destroy(w) \/ RespawnSlot(w)
      PROVE  snaps'[x] = Unreadable /\ slots'[x] = slots[x]
  BY <1>4
  DEF core, ForgetRefused, windows, page, history, Fails, Destroy, bounds, Post,
      RespawnSlot, PassOver
<1>5. ASSUME NEW w \in Windows,
              \/ RespawnRefused(w) \/ FirstRun(w)
      PROVE  snaps'[x] = Unreadable /\ slots'[x] = slots[x]
  BY <1>5
  DEF core, RespawnRefused, windows, page, Fails, FirstRun, bounds, history,
      Booted, Unopened, NoLedger, Works
<1>6. ASSUME NEW w \in Windows, NEW r \in Roots,
              \/ ClaimRoot(w, r) \/ AddWorkspace(w, r) \/ CloseWorkspace(w, r)
      PROVE  snaps'[x] = Unreadable /\ slots'[x] = slots[x]
  BY <1>6
  DEF core, ClaimRoot, windows, bounds, AddWorkspace, CloseWorkspace, history
<1>7. ASSUME NEW w \in Windows, NEW r \in Roots, AskWindow(w, r)
      PROVE  snaps'[x] = Unreadable /\ slots'[x] = slots[x]
  BY <1>7
  DEF core, AskWindow, page, history, Fails, Works
<1>8. ASSUME NEW w \in Windows, NEW i \in 1 .. Len(calls[w]),
              \/ ServeSave(w, i) \/ Upsert(w, i) \/ RefuseCall(w, i)
      PROVE  snaps'[x] = Unreadable /\ slots'[x] = slots[x]
  BY <1>8, EmptySeq
  DEF TypeOK, Ledger, LeftAlone, core, ServeSave, windows, page, bounds, history, Upsert,
      RefuseCall, Fails
<1>9. ASSUME NEW w \in Windows, ForgetSlot(w)
      PROVE  snaps'[x] = Unreadable /\ slots'[x] = slots[x]
  BY <1>9
  DEF TypeOK, Ledger, LeftAlone, core, ForgetSlot, windows, page, history, Works
<1>10. ASSUME NEW w \in Windows, DeleteSnapshot(w)
      PROVE  snaps'[x] = Unreadable /\ slots'[x] = slots[x]
  BY <1>10
  DEF TypeOK, Ledger, LeftAlone, core, DeleteSnapshot, windows, page, history, Works
<1>11. ASSUME \/ ReadLedger \/ LedgerRefused \/ Census
      PROVE  snaps'[x] = Unreadable /\ slots'[x] = slots[x]
  BY <1>11
  DEF core, ReadLedger, windows, page, history, Works, LedgerRefused, Fails, Census,
      Booted, Unopened, NoLedger
<1>12. ASSUME \/ CensusRefused \/ PrunedRefused \/ Sweep
      PROVE  snaps'[x] = Unreadable /\ slots'[x] = slots[x]
  BY <1>12
  DEF core, CensusRefused, windows, page, history, Fails, PrunedRefused, Sweep, Works,
      Booted, Unopened, NoLedger
<1>13. ASSUME SweepRefused
      PROVE  snaps'[x] = Unreadable /\ slots'[x] = slots[x]
  BY <1>13
  DEF core, SweepRefused, windows, page, history, Fails
<1>14. ASSUME SavePruned
      PROVE  snaps'[x] = Unreadable /\ slots'[x] = slots[x]
  BY <1>14
  DEF TypeOK, Ledger, LeftAlone, core, Reading, SavePruned, windows, page, history,
      Works
<1>15. ASSUME Restart
      PROVE  snaps'[x] = Unreadable /\ slots'[x] = slots[x]
  BY <1>15
  DEF core, Restart
<1>16. ASSUME NEW w \in Windows, BootstrapUnclaimed(w)
      PROVE  snaps'[x] = Unreadable /\ slots'[x] = slots[x]
  BY <1>16
  DEF core, BootstrapUnclaimed, FailsOpen, Fails
<1>17. ASSUME NEW w \in Windows, NEW r \in Roots, ClaimRootUnclaimed(w, r)
      PROVE  snaps'[x] = Unreadable /\ slots'[x] = slots[x]
  BY <1>17
  DEF core, ClaimRootUnclaimed, FailsOpen, Fails, core, windows
<1>18. ASSUME NEW w \in Windows, NEW r \in Roots, GateCall(w, r)
      PROVE  snaps'[x] = Unreadable /\ slots'[x] = slots[x]
  BY <1>18, GateCalls
  DEF core, core, windows
<1>19. ASSUME NotFirstRun
      PROVE  snaps'[x] = Unreadable /\ slots'[x] = slots[x]
  BY <1>19
  DEF core, NotFirstRun, Booted, Unopened, NoLedger, core, windows, page, history
<1>20. CASE UNCHANGED vars
  BY <1>20 DEF vars, core, windows, page, bounds, history
<1>21. QED
  BY <1>1, <1>2, <1>3, <1>4, <1>5, <1>6, <1>7, <1>8, <1>9, <1>10, <1>11, <1>12, <1>13,
     <1>14, <1>15, <1>16, <1>17, <1>18, <1>19, <1>20
  DEF Next, PageStep, UserStep, MainStep, GateCall

(* Every step keeps the invariant. *)
LEMMA StepInv == IInv /\ [Next]_vars => IInv'
<1> SUFFICES ASSUME IInv, [Next]_vars PROVE IInv'
  OBVIOUS
<1>1. TypeOK' /\ Standing' /\ Held'
  BY TypeStep, StandingStep, HeldStep DEF IInv
<1>2. Unrecorded' /\ Respawnable' /\ LeftAlone'
  BY UnrecordedStep, RespawnableStep, LeftAloneStep DEF IInv
<1>3. Saved' /\ Reached'
  BY SavedStep, ReachedStep DEF IInv
<1>4. QED
  BY <1>1, <1>2, <1>3 DEF IInv

LEMMA Invariance == Spec => []IInv
  BY InitInv, StepInv, PTL DEF Spec

------------------------------------------------------------------------------
(* Every variable of the model keeps its type. *)
THEOREM TypeCorrect == Spec => []TypeOK
<1>1. IInv => TypeOK
  BY DEF IInv
<1>2. QED
  BY <1>1, Invariance, PTL

(* Of two windows that want one root only the one that holds its claim has
   it open, in every interleaving of their boots, restores, opens and
   closes (claimRoots, addWorkspaceClaimed, closeWorkspaceReleased).       *)
THEOREM OneWindow == Spec => []OneWindowPerRoot
<1>1. IInv => OneWindowPerRoot
  <2>1. SUFFICES ASSUME IInv, NEW w \in live, NEW r \in tabs[w] \ loose
                 PROVE  claims[r] = w /\ \A x \in live \ {w} : r \notin tabs[x]
    BY DEF OneWindowPerRoot
  <2>2. live \subseteq Windows /\ r \in Roots
    BY <2>1 DEF IInv, TypeOK, Ledger
  <2>3. \A x \in live : r \in tabs[x] => claims[r] = x
    BY <2>1, <2>2 DEF IInv, Held, Claimed, Has
  <2>4. QED
    BY <2>1, <2>3
<1>2. QED
  BY <1>1, Invariance, PTL

(* When main has been through its ledger, it has opened every slot it read
   that no window held, unless the slot's own record or call was at fault
   (respawnSavedWindows).                                                  *)
THEOREM RespawnComplete == Spec => []RespawnReachesAll
<1>1. IInv => RespawnReachesAll
  BY DEF IInv, Reached, Reading, RespawnReachesAll
<1>2. QED
  BY <1>1, Invariance, PTL

(* No boot, save, close, prune or sweep changes a snapshot this build cannot
   read, or its slot (windowSnapshotShape.ts).                             *)
THEOREM UnreadableKept == Spec => UnreadableStays
<1>1. IInv /\ [Next]_vars =>
        [\A w \in Windows :
           snaps[w] = Unreadable => snaps'[w] = Unreadable /\ slots'[w] = slots[w]]_vars
  BY UnreadableStep
<1>2. QED
  BY <1>1, Invariance, PTL DEF Spec, UnreadableStays

------------------------------------------------------------------------------
(***************************************************************************)
(* What the windows have open implements SingleOpen.                       *)
(***************************************************************************)
Where == [r \in Roots |-> HolderOf(r)]

(* The roots a window has open behind the gate. *)
Shown(w) == tabs[w] \ loose

(* The holder of a root is the window that shows it. *)
Holders ==
    \A r \in Roots :
       /\ HolderOf(r) \in Windows \cup {None}
       /\ \A w \in Windows : HolderOf(r) = w <=> r \in Shown(w)

LEMMA HoldersHold == IInv => Holders
<1> SUFFICES ASSUME IInv, NEW r \in Roots
             PROVE  /\ HolderOf(r) \in Windows \cup {None}
                    /\ \A w \in Windows : HolderOf(r) = w <=> r \in Shown(w)
  BY DEF Holders
<1>0. \A w \in Windows : r \in Shown(w) => w \in live /\ r \notin loose /\ r \in tabs[w] /\ claims[r] = w
  BY DEF IInv, Standing, Held, Claimed, Parting, Has, Shown
<1>1. CASE r \notin loose /\ \E w \in live : r \in tabs[w]
  <2>1. HolderOf(r) \in live /\ r \in Shown(HolderOf(r))
    BY <1>1 DEF HolderOf, Shown
  <2>2. QED
    BY <1>0, <2>1 DEF IInv, TypeOK
<1>2. CASE ~(r \notin loose /\ \E w \in live : r \in tabs[w])
  <2>1. HolderOf(r) = None
    BY <1>2 DEF HolderOf
  <2>2. QED
    BY <1>0, <1>2, <2>1, WindowPersistenceAssumption
<1>3. QED
  BY <1>1, <1>2

(* A window that shows roots nobody has open. *)
LEMMA WhereOpens ==
    ASSUME Holders, Holders', NEW w \in Windows, NEW R \in SUBSET Roots,
           Shown(w)' = Shown(w) \cup R,
           \A x \in Windows \ {w} : Shown(x)' = Shown(x),
           \A r \in R : \A x \in Windows : r \notin Shown(x)
    PROVE  [Promise!Next]_Where
<1>1. ASSUME NEW r \in Roots
      PROVE  HolderOf(r)' = IF r \in R THEN w ELSE HolderOf(r)
  <2>1. CASE r \in R
    BY <2>1 DEF Holders
  <2>2. CASE r \notin R
    <3>1. \A x \in Windows : r \in Shown(x)' <=> r \in Shown(x)
      BY <2>2
    <3>2. QED
      BY <2>2, <3>1 DEF Holders
  <2>3. QED
    BY <2>1, <2>2
<1>2. Where' = [r \in Roots |-> IF r \in R THEN w ELSE Where[r]]
  BY <1>1 DEF Where
<1>3. \A r \in R : Where[r] = None
  BY DEF Holders, Where
<1>4. QED
  BY <1>2, <1>3 DEF Promise!Next, Promise!Open, Where

(* Windows that let roots go, or show them no longer. *)
LEMMA WhereLeaves ==
    ASSUME Holders, Holders', NEW S \in SUBSET Roots,
           \A x \in Windows : Shown(x)' = Shown(x) \ S
    PROVE  [Promise!Next]_Where
<1> DEFINE R == {r \in S : \E x \in Windows : r \in Shown(x)}
<1>1. ASSUME NEW r \in Roots
      PROVE  HolderOf(r)' = IF r \in R THEN None ELSE HolderOf(r)
  BY DEF Holders
<1>2. Where' = [r \in Roots |-> IF r \in R THEN None ELSE Where[r]]
  BY <1>1 DEF Where
<1>3. \A r \in R : Where[r] # None
  BY WindowPersistenceAssumption DEF Holders, Where
<1>4. R \in SUBSET Roots
  OBVIOUS
<1>5. QED
  BY <1>2, <1>3, <1>4 DEF Promise!Next, Promise!Leave, Where

(* Nothing is opened or let go. *)
LEMMA SameShown ==
    ASSUME Holders, Holders', \A x \in Windows : Shown(x)' = Shown(x)
    PROVE  [Promise!Next]_Where
<1>1. \A r \in Roots : HolderOf(r)' = HolderOf(r)
  BY DEF Holders
<1>2. QED
  BY <1>1 DEF Where

(* Every step opens roots nobody has open, lets roots go, or does neither. *)
LEMMA PromiseStep ==
    ASSUME IInv, Holders, Holders', [Next]_vars
    PROVE  [Promise!Next]_Where
<1>1. ASSUME NEW w \in Windows,
              \/ CreateWindow(w) \/ Hydrate(w) \/ HydrateRefused(w)
      PROVE  [Promise!Next]_Where
  BY <1>1, SameShown
  DEF Shown, page, CreateWindow, core, bounds, history, Hydrate, Works, HydrateRefused, Fails
<1>2. ASSUME NEW w \in Windows,
              \/ LateReadRefused(w) \/ PersistOnce(w) \/ ReadForClose(w)
      PROVE  [Promise!Next]_Where
  BY <1>2, SameShown
  DEF Shown, page, LateReadRefused, core, windows, bounds, history, PersistOnce, Post,
      ReadForClose
<1>3. ASSUME NEW w \in Windows,
              \/ ForgetSlot(w) \/ ForgetRefused(w) \/ RespawnSlot(w)
      PROVE  [Promise!Next]_Where
  BY <1>3, SameShown
  DEF Shown, page, ForgetSlot, windows, history, Works, ForgetRefused, core, Fails, RespawnSlot,
      bounds, PassOver
<1>4. ASSUME NEW w \in Windows,
              \/ RespawnRefused(w) \/ DeleteSnapshot(w) \/ FirstRun(w)
      PROVE  [Promise!Next]_Where
  BY <1>4, SameShown
  DEF Shown, page, RespawnRefused, core, windows, Fails, DeleteSnapshot, history, Works,
      FirstRun, bounds, Booted, Unopened, NoLedger
<1>5. ASSUME NEW w \in Windows, NEW i \in 1 .. Len(calls[w]),
              \/ ServeSave(w, i) \/ Upsert(w, i) \/ RefuseCall(w, i)
      PROVE  [Promise!Next]_Where
  BY <1>5, SameShown
  DEF Shown, page, ServeSave, windows, bounds, history, Upsert, RefuseCall, core, Fails
<1>6. ASSUME NEW w \in Windows, NEW r \in Roots,
              \/ ClaimRoot(w, r) \/ AskWindow(w, r)
      PROVE  [Promise!Next]_Where
  BY <1>6, SameShown
  DEF Shown, page, ClaimRoot, core, windows, bounds, AskWindow, history, Fails, Works
<1>7. ASSUME \/ ReadLedger \/ LedgerRefused \/ Census
      PROVE  [Promise!Next]_Where
  BY <1>7, SameShown
  DEF Shown, page, ReadLedger, core, windows, history, Works, LedgerRefused, Fails, Census,
      Booted, Unopened, NoLedger
<1>8. ASSUME \/ CensusRefused \/ SavePruned \/ PrunedRefused
      PROVE  [Promise!Next]_Where
  BY <1>8, SameShown
  DEF Shown, page, CensusRefused, core, windows, history, Fails, SavePruned, Works,
      PrunedRefused, Booted, Unopened, NoLedger
<1>9. ASSUME \/ Sweep \/ SweepRefused
      PROVE  [Promise!Next]_Where
  BY <1>9, SameShown
  DEF Shown, page, Sweep, core, windows, history, Works, SweepRefused, Fails
<1>10. ASSUME NEW w \in Windows, Bootstrap(w)
      PROVE  [Promise!Next]_Where
<2>0. loose' = loose /\ tabs[w] = {}
  BY <1>10 DEF IInv, Standing, Bootstrap
<2>1. CASE told[w] # None /\ Claimable(w, told[w])
  <3>1. told[w] \in Roots /\ tabs' = [tabs EXCEPT ![w] = {told[w]}]
    BY <1>10, <2>1 DEF IInv, TypeOK, Bootstrap
  <3> DEFINE R == {told[w]} \ loose
  <3>2. \A r \in R : \A x \in Windows : r \notin Shown(x)
    <4>1. ASSUME NEW x \in Windows, told[w] \notin loose, told[w] \in Shown(x)
          PROVE  FALSE
      <5>1. told[w] \in Roots \ loose /\ told[w] \in Has(x)
        BY <3>1, <4>1 DEF Has, Shown
      <5>2. x = w
        BY <2>1, <5>1, Granted DEF IInv
      <5>3. QED
        BY <2>0, <4>1, <5>2 DEF Shown
    <4>2. QED
      BY <4>1
  <3>3. Shown(w)' = Shown(w) \cup R /\ \A x \in Windows \ {w} : Shown(x)' = Shown(x)
    BY <2>0, <3>1 DEF IInv, TypeOK, Ledger, Shown
  <3>4. R \in SUBSET Roots
    BY <3>1
  <3> HIDE DEF R
  <3>5. QED
    BY <3>2, <3>3, <3>4, WhereOpens
<2>2. CASE ~(told[w] # None /\ Claimable(w, told[w]))
  <3>1. tabs' = tabs
    BY <1>10, <2>2 DEF Bootstrap
  <3>2. QED
    BY <2>0, <3>1, SameShown DEF Shown
<2>3. QED
  BY <2>1, <2>2
<1>11. ASSUME NEW w \in Windows, BootstrapUnclaimed(w)
      PROVE  [Promise!Next]_Where
<2>1. told[w] \in Roots /\ tabs[w] = {} /\ loose' = loose \cup {told[w]}
  BY <1>11 DEF IInv, TypeOK, Standing, BootstrapUnclaimed, FailsOpen
<2>2. \A x \in Windows : Shown(x)' = Shown(x) \ {told[w]}
  BY <1>11, <2>1 DEF IInv, TypeOK, Ledger, Shown, BootstrapUnclaimed
<2>3. {told[w]} \in SUBSET Roots
  BY <2>1
<2>4. QED
  BY <2>2, <2>3, WhereLeaves
<1>12. ASSUME NEW w \in Windows, NEW r \in Roots, ClaimRootUnclaimed(w, r)
      PROVE  [Promise!Next]_Where
<2>1. \A x \in Windows : Shown(x)' = Shown(x) \ {r}
  BY <1>12 DEF Shown, ClaimRootUnclaimed, FailsOpen
<2>2. QED
  BY <2>1, WhereLeaves
<1>13. ASSUME NEW w \in Windows, RestoreWorkspaces(w)
      PROVE  [Promise!Next]_Where
<2>0. loose' = loose
  BY <1>13 DEF RestoreWorkspaces
<2>1. CASE tabs[w] # {}
  <3>1. tabs' = tabs
    BY <1>13, <2>1 DEF IInv, TypeOK, Ledger, RestoreWorkspaces, Restored
  <3>2. QED
    BY <2>0, <3>1, SameShown DEF Shown
<2>2. CASE tabs[w] = {}
  <3> DEFINE R == got[w] \ loose
  <3>1. tabs' = [tabs EXCEPT ![w] = got[w]] /\ got[w] \in SUBSET Roots
    BY <1>13, <2>2 DEF IInv, TypeOK, Ledger, RestoreWorkspaces, Restored
  <3>2. \A r \in R : \A x \in Windows : r \notin Shown(x)
    BY <2>2, <3>1 DEF IInv, Held, Claimed, Parting, Has, Shown
  <3>3. Shown(w)' = Shown(w) \cup R /\ \A x \in Windows \ {w} : Shown(x)' = Shown(x)
    BY <2>0, <2>2, <3>1 DEF IInv, TypeOK, Ledger, Shown
  <3>4. R \in SUBSET Roots
    BY <3>1
  <3> HIDE DEF R
  <3>5. QED
    BY <3>2, <3>3, <3>4, WhereOpens
<2>3. QED
  BY <2>1, <2>2
<1>14. ASSUME NEW w \in Windows, RestoreThrows(w)
      PROVE  [Promise!Next]_Where
<2>1. tabs' = tabs /\ loose' = loose
  BY <1>14 DEF IInv, TypeOK, Ledger, RestoreThrows, Restored
<2>2. QED
  BY <2>1, SameShown DEF Shown
<1>15. ASSUME NEW w \in Windows, NEW r \in Roots, AddWorkspace(w, r)
      PROVE  [Promise!Next]_Where
<2>0. /\ loose' = loose /\ tabs' = [tabs EXCEPT ![w] = @ \cup {r}] /\ r \in Has(w)
  BY <1>15 DEF AddWorkspace, Has, bounds
<2> DEFINE R == {r} \ (loose \cup tabs[w])
<2>1. \A q \in R : \A x \in Windows : q \notin Shown(x)
  BY <2>0 DEF IInv, Held, Claimed, Parting, Has, Shown
<2>2. Shown(w)' = Shown(w) \cup R /\ \A x \in Windows \ {w} : Shown(x)' = Shown(x)
  BY <2>0 DEF IInv, TypeOK, Ledger, Shown
<2>3. R \in SUBSET Roots
  OBVIOUS
<2> HIDE DEF R
<2>4. QED
  BY <2>1, <2>2, <2>3, WhereOpens
<1>16. ASSUME NEW w \in Windows, NEW r \in Roots, CloseWorkspace(w, r)
      PROVE  [Promise!Next]_Where
<2>1. /\ r \in tabs[w] /\ tabs' = [tabs EXCEPT ![w] = @ \ {r}]
      /\ loose' = loose \/ loose' = loose \cup {r}
  BY <1>16 DEF CloseWorkspace
<2>2. CASE r \in loose
  <3>1. \A x \in Windows : Shown(x)' = Shown(x)
    BY <2>1, <2>2 DEF IInv, TypeOK, Ledger, Shown
  <3>2. QED
    BY <3>1, SameShown
<2>3. CASE r \notin loose
  <3>1. \A x \in Windows \ {w} : r \notin Shown(x)
    BY <2>1, <2>3 DEF IInv, Held, Claimed, Parting, Has, Shown
  <3>2. \A x \in Windows : Shown(x)' = Shown(x) \ {r}
    BY <2>1, <3>1 DEF IInv, TypeOK, Ledger, Shown
  <3>3. QED
    BY <3>2, WhereLeaves
<2>4. QED
  BY <2>2, <2>3
<1>17. ASSUME NEW w \in Windows, NEW r \in Roots, GateCall(w, r)
      PROVE  [Promise!Next]_Where
<2>1. tabs' = tabs
  BY <1>17, GateCalls
<2>2. loose' = loose \/ loose' = loose \cup {r}
  BY <1>17
  DEF GateCall, AskClaim, ServeClaim, ClaimFails, ServeRelease, ReleaseFails, FailsOpen, history
<2>3. CASE loose' = loose
  BY <2>1, <2>3, SameShown DEF Shown
<2>4. CASE loose' = loose \cup {r}
  <3>1. \A x \in Windows : Shown(x)' = Shown(x) \ {r}
    BY <2>1, <2>4 DEF Shown
  <3>2. QED
    BY <3>1, WhereLeaves
<2>5. QED
  BY <2>2, <2>3, <2>4
<1>18. ASSUME NEW w \in Windows, Destroy(w)
      PROVE  [Promise!Next]_Where
<2>1. \A x \in Windows \ {w} : Shown(x) \cap Shown(w) = {}
  <3>1. \A x \in Windows : \A r \in Shown(x) : claims[r] = x
    BY DEF IInv, TypeOK, Ledger, Held, Claimed, Has, Shown
  <3>2. QED
    BY <3>1
<2>2. loose' = loose /\ tabs' = [tabs EXCEPT ![w] = {}]
  BY <1>18 DEF Destroy, history
<2>3. \A x \in Windows : Shown(x)' = Shown(x) \ Shown(w)
  BY <2>1, <2>2 DEF IInv, TypeOK, Ledger, Shown
<2>4. Shown(w) \in SUBSET Roots
  BY DEF IInv, TypeOK, Ledger, Shown
<2>5. QED
  BY <2>3, <2>4, WhereLeaves
<1>19. ASSUME Restart
      PROVE  [Promise!Next]_Where
<2>1. \A x \in Windows : Shown(x)' = Shown(x) \ Roots
  BY <1>19 DEF IInv, TypeOK, Ledger, Restart, NoLedger, Shown
<2>2. QED
  BY <2>1, WhereLeaves
<1>20. ASSUME NotFirstRun
      PROVE  [Promise!Next]_Where
  BY <1>20, SameShown DEF Shown, NotFirstRun, page, history
<1>21. CASE UNCHANGED vars
  BY <1>21, SameShown DEF Shown, vars, page, history
<1>22. QED
  BY <1>1, <1>2, <1>3, <1>4, <1>5, <1>6, <1>7, <1>8, <1>9, <1>10, <1>11, <1>12, <1>13,
     <1>14, <1>15, <1>16, <1>17, <1>18, <1>19, <1>20, <1>21
  DEF Next, PageStep, UserStep, MainStep, GateCall

(* P6 (claim.go, windowBoot.ts): a root is handed from no window to another,
   so the application implements SingleOpen.                               *)
THEOREM ImplementsSingleOpen == Spec => OneOpen
<1>1. Init => Where = [r \in Roots |-> None]
  BY DEF Init, Where, HolderOf
<1>2. Init => Promise!Init
  BY <1>1 DEF Promise!Init, Where
<1>3. Spec => []Holders
  BY Invariance, HoldersHold, PTL
<1>4. IInv /\ Holders /\ Holders' /\ [Next]_vars => [Promise!Next]_Where
  BY PromiseStep
<1>5. Spec => [][Promise!Next]_Where
  BY <1>3, <1>4, Invariance, PTL DEF Spec
<1>6. QED
  BY <1>2, <1>5, PTL DEF Spec, OneOpen, Promise!Spec, Where
------------------------------------------------------------------------------
(***************************************************************************)
(* What leaves a snapshot was seen.                                        *)
(***************************************************************************)

(* A window that was told its root has had no snapshot yet. *)
Newborn(x) ==
    \/ x \notin used
    \/ phase[x] = "asked"
    \/ told[x] # None
    \/ phase[x] = "hydrating" /\ tabs[x] # {}

(* The calls that may be served to a window's snapshot: what they carry was
   seen, and what they replace, unless the restore threw and they carry
   something.                                                              *)
Harmless(x, snap, shown, threw) ==
    {c \in Call :
        /\ c.roots \subseteq shown
        /\ c.kind = "save" /\ IsSet(snap) =>
             snap \ c.roots \subseteq shown \/ (x \in threw /\ c.roots # {})}

(* What the page knows of its snapshot, it has seen, will see by the end of
   its restore, or must not replace.                                       *)
Aware(x) ==
    /\ Newborn(x) => snaps[x] = Absent /\ calls[x] = <<>>
    /\ told[x] # None => phase[x] \in {"asked", "created"}
    /\ phase[x] \notin {"claiming", "ready"} => known[x] = "unread"
    /\ phase[x] = "claiming" => tabs[x] = {} /\ known[x] = "some"
    /\ tabs[x] \subseteq seen[x]
    /\ IsSet(snaps[x]) =>
         /\ phase[x] = "claiming" => snaps[x] \subseteq todo[x] \cup got[x] \cup seen[x]
         /\ phase[x] = "ready" /\ known[x] = "empty" => snaps[x] \subseteq seen[x]
         /\ phase[x] = "ready" /\ known[x] = "some" =>
              snaps[x] \subseteq seen[x] \/ (x \in failed /\ ~restored[x])
    /\ calls[x] \in Seq(Harmless(x, snaps[x], seen[x], failed))

AllAware == \A x \in Windows : Aware(x)

(* A window none of whose parts a step touches. *)
LEMMA AwareStays ==
    ASSUME NEW x \in Windows, Aware(x),
           x \in used <=> x \in used', x \in failed <=> x \in failed',
           phase'[x] = phase[x], told'[x] = told[x], tabs'[x] = tabs[x],
           snaps'[x] = snaps[x], calls'[x] = calls[x], known'[x] = known[x],
           restored'[x] = restored[x], todo'[x] = todo[x], got'[x] = got[x], seen'[x] = seen[x]
    PROVE  Aware(x)'
<1>1. Harmless(x, snaps[x], seen[x], failed') = Harmless(x, snaps[x], seen[x], failed)
  BY DEF Harmless
<1>2. QED
  BY <1>1 DEF Aware, Newborn

(* More is seen, or the snapshot is deleted: more calls are harmless. *)
LEMMA MoreHarmless ==
    ASSUME NEW x, NEW snap, NEW snap2, NEW S, NEW T, S \subseteq T, NEW f, NEW g, f \subseteq g,
           snap2 = snap \/ snap2 = Absent \/ snap2 \subseteq T,
           NEW s \in Seq(Harmless(x, snap, S, f))
    PROVE  s \in Seq(Harmless(x, snap2, T, g))
<1>1. Harmless(x, snap, S, f) \subseteq Harmless(x, snap2, T, g)
  BY DEF Harmless, IsSet
<1>2. QED
  BY <1>1, SeqMonotonic

(* A save the page may post is harmless. *)
LEMMA PostIsHarmless ==
    ASSUME TypeOK, NEW w \in Windows, Aware(w), phase[w] = "ready",
           NEW kn \in {known[w], KnownNow(w)}, Post(w, kn)
    PROVE  /\ calls'[w] \in Seq(Harmless(w, snaps[w], seen[w], failed))
           /\ \A x \in Windows \ {w} : calls'[x] = calls[x]
<1> DEFINE c == [kind |-> "save", roots |-> tabs[w]]
<1>1. /\ calls'[w] = calls[w] \/ (calls'[w] = Append(calls[w], c) /\ MayPersist(kn, restored[w], tabs[w]))
      /\ \A x \in Windows \ {w} : calls'[x] = calls[x]
  BY DEF TypeOK, Post
<1>2. MayPersist(kn, restored[w], tabs[w]) => c \in Harmless(w, snaps[w], seen[w], failed)
  <2>1. c \in Call /\ tabs[w] \subseteq seen[w]
    BY DEF TypeOK, Ledger, Call, Aware
  <2>2. ASSUME MayPersist(kn, restored[w], tabs[w]), IsSet(snaps[w])
        PROVE  snaps[w] \ tabs[w] \subseteq seen[w] \/ (w \in failed /\ tabs[w] # {})
    <3>1. known[w] \in {"unread", "empty", "some"}
      BY DEF TypeOK
    <3>2. \/ known[w] = "empty"
          \/ known[w] = "unread" /\ snaps[w] = {}
          \/ known[w] = "some" /\ (restored[w] \/ tabs[w] # {})
      BY <2>2, <3>1 DEF MayPersist, KnownNow, MayAdoptLateRead, IsSet
    <3>3. QED
      BY <2>2, <3>2 DEF Aware
  <2>3. QED
    BY <2>1, <2>2 DEF Harmless
<1>3. calls[w] \in Seq(Harmless(w, snaps[w], seen[w], failed))
  BY DEF Aware
<1> HIDE DEF c
<1>4. c \in Harmless(w, snaps[w], seen[w], failed)
      => Append(calls[w], c) \in Seq(Harmless(w, snaps[w], seen[w], failed))
  BY <1>3, AppendProperties
<1>5. QED
  BY <1>1, <1>2, <1>3, <1>4

(* No step makes a window forget, or post, what it has not seen. *)
LEMMA AwareStep ==
    ASSUME IInv, AllAware, [Next]_vars
    PROVE  AllAware'
<1> SUFFICES ASSUME NEW x \in Windows
             PROVE  Aware(x)'
  BY DEF AllAware
<1>0. Aware(x) /\ TypeOK /\ Standing
  BY DEF AllAware, IInv
<1>1. ASSUME NEW w \in Windows, LateReadRefused(w) \/ ReadForClose(w) \/ ForgetSlot(w) \/ ForgetRefused(w)
      PROVE  Aware(x)'
  BY <1>0, <1>1, AwareStays
  DEF LateReadRefused, ReadForClose, ForgetSlot, ForgetRefused, core, windows, page, history,
      bounds, Works, Fails
<1>2. ASSUME NEW w \in Windows, CreateWindow(w)
      PROVE  Aware(x)'
<2>1. CASE x # w
    BY <1>0, <1>2, <2>1, AwareStays
    DEF TypeOK, Ledger, CreateWindow, core, page, bounds, history
<2>2. CASE x = w
  BY <1>0, <1>2, <2>2
    DEF TypeOK, Aware, Newborn, CreateWindow, core, page, bounds, history
<2>3. QED
    BY <2>1, <2>2
<1>3. ASSUME NEW w \in Windows, NEW r \in Roots, AskWindow(w, r)
      PROVE  Aware(x)'
<2>1. CASE x # w
    BY <1>0, <1>3, <2>1, AwareStays
    DEF TypeOK, Ledger, AskWindow, core, page, history, Fails, Works
<2>2. CASE x = w
    BY <1>0, <1>3, <2>2
    DEF TypeOK, Ledger, Aware, Newborn, Standing, AskWindow, core, page, history, Fails, Works
<2>3. QED
    BY <2>1, <2>2
<1>4. ASSUME NEW w \in Windows, Bootstrap(w)
      PROVE  Aware(x)'
<2>1. CASE x # w
    BY <1>0, <1>4, <2>1, AwareStays
    DEF TypeOK, Ledger, Bootstrap, core
<2>2. CASE x = w
    <3>1. seen[w] \subseteq seen'[w] \/ calls[w] = <<>>
      BY <1>0, <1>4, <2>2 DEF TypeOK, Ledger, Aware, Newborn, Bootstrap
    <3>2. calls'[w] \in Seq(Harmless(w, snaps[w], seen'[w], failed))
      BY <1>0, <1>4, <2>2, <3>1, MoreHarmless, EmptySeq DEF Aware, Bootstrap
    <3>3. QED
      BY <1>0, <1>4, <2>2, <3>2
      DEF TypeOK, Ledger, Aware, Newborn, Standing, Bootstrap
<2>3. QED
    BY <2>1, <2>2
<1>5. ASSUME NEW w \in Windows, BootstrapUnclaimed(w)
      PROVE  Aware(x)'
<2>1. CASE x # w
    BY <1>0, <1>5, <2>1, AwareStays
    DEF TypeOK, Ledger, BootstrapUnclaimed
<2>2. CASE x = w
    <3>1. calls[w] = <<>>
      BY <1>0, <1>5, <2>2 DEF Aware, Newborn, BootstrapUnclaimed
    <3>2. calls'[w] \in Seq(Harmless(w, snaps[w], seen'[w], failed))
      BY <1>5, <3>1, EmptySeq DEF BootstrapUnclaimed
    <3>3. QED
      BY <1>0, <1>5, <2>2, <3>2
      DEF TypeOK, Ledger, Aware, Newborn, Standing, BootstrapUnclaimed
<2>3. QED
    BY <2>1, <2>2
<1>6. ASSUME NEW w \in Windows, Hydrate(w)
      PROVE  Aware(x)'
<2>1. CASE x # w
    BY <1>0, <1>6, <2>1, AwareStays
    DEF TypeOK, Ledger, Hydrate, core, history, Works
<2>2. CASE x = w
    BY <1>0, <1>6, <2>2
    DEF TypeOK, Ledger, Aware, Newborn, Standing, Hydrate, Knows, IsSet, core, Works, history
<2>3. QED
    BY <2>1, <2>2
<1>7. ASSUME NEW w \in Windows, HydrateRefused(w)
      PROVE  Aware(x)'
<2>1. CASE x # w
    BY <1>0, <1>7, <2>1, AwareStays
    DEF TypeOK, Ledger, HydrateRefused, core, page, history, Fails
<2>2. CASE x = w
    BY <1>0, <1>7, <2>2
    DEF TypeOK, Ledger, Aware, Newborn, Standing, HydrateRefused, core, page, history, Fails
<2>3. QED
    BY <2>1, <2>2
<1>8. ASSUME NEW w \in Windows, NEW r \in Roots, ClaimRoot(w, r)
      PROVE  Aware(x)'
<2>1. CASE x # w
    BY <1>0, <1>8, <2>1, AwareStays
    DEF TypeOK, Ledger, ClaimRoot, core, windows, bounds
<2>2. CASE x = w
    <3>1. seen[w] \subseteq seen'[w]
      BY <1>0, <1>8 DEF TypeOK, Ledger, ClaimRoot
    <3>2. calls'[w] \in Seq(Harmless(w, snaps[w], seen'[w], failed))
      BY <1>0, <1>8, <2>2, <3>1, MoreHarmless DEF Aware, ClaimRoot
    <3>3. /\ tabs'[w] = tabs[w] /\ todo'[w] = todo[w] \ {r}
          /\ todo[w] \cup got[w] \cup seen[w] \subseteq todo'[w] \cup got'[w] \cup seen'[w]
      BY <1>0, <1>8 DEF TypeOK, Ledger, ClaimRoot
    <3>4. QED
      BY <1>0, <1>8, <2>2, <3>1, <3>2, <3>3
      DEF Aware, Newborn, ClaimRoot, core, windows, bounds
<2>3. QED
    BY <2>1, <2>2
<1>9. ASSUME NEW w \in Windows, NEW r \in Roots, ClaimRootUnclaimed(w, r)
      PROVE  Aware(x)'
<2>1. CASE x # w
    BY <1>0, <1>9, <2>1, AwareStays
    DEF TypeOK, Ledger, ClaimRootUnclaimed, core, windows
<2>2. CASE x = w
    <3>1. /\ tabs'[w] = tabs[w] /\ todo'[w] = todo[w] \ {r}
          /\ todo[w] \cup got[w] \subseteq todo'[w] \cup got'[w]
      BY <1>0, <1>9 DEF TypeOK, Ledger, ClaimRootUnclaimed
    <3>2. QED
      BY <1>0, <1>9, <2>2, <3>1
      DEF Aware, Newborn, ClaimRootUnclaimed, core, windows
<2>3. QED
    BY <2>1, <2>2
<1>10. ASSUME NEW w \in Windows, RestoreWorkspaces(w)
      PROVE  Aware(x)'
<2>1. CASE x # w
    BY <1>0, <1>10, <2>1, AwareStays
    DEF TypeOK, Ledger, RestoreWorkspaces, core, Restored, bounds
<2>2. CASE x = w
    <3>1. /\ tabs[w] = {} /\ known[w] = "some" /\ told[w] = None
          /\ IsSet(snaps[w]) => snaps[w] \subseteq got[w] \cup seen[w]
      BY <1>0, <1>10, <2>2 DEF Aware, RestoreWorkspaces
    <3>2. tabs'[w] = got[w] /\ seen'[w] = seen[w] \cup got[w] /\ phase'[w] = "ready"
      BY <1>0, <1>10, <3>1 DEF TypeOK, Ledger, RestoreWorkspaces, Restored
    <3>3. calls'[w] \in Seq(Harmless(w, snaps[w], seen'[w], failed))
      BY <1>0, <1>10, <2>2, <3>2, MoreHarmless DEF Aware, RestoreWorkspaces
    <3>4. QED
      BY <1>0, <1>10, <2>2, <3>1, <3>2, <3>3
      DEF Aware, Newborn, RestoreWorkspaces, core
<2>3. QED
    BY <2>1, <2>2
<1>11. ASSUME NEW w \in Windows, RestoreThrows(w)
      PROVE  Aware(x)'
<2>1. CASE x # w
    BY <1>0, <1>11, <2>1, AwareStays
    DEF TypeOK, Ledger, RestoreThrows, core, Restored, Fails
<2>2. CASE x = w
    <3>1. known[w] = "some" /\ told[w] = None /\ w \in failed'
      BY <1>0, <1>11, <2>2 DEF Aware, RestoreThrows
    <3>2. /\ tabs'[w] = {} /\ seen'[w] = seen[w] /\ phase'[w] = "ready"
          /\ restored'[w] = FALSE
      BY <1>0, <1>11 DEF TypeOK, Ledger, RestoreThrows, Restored
    <3>3. calls'[w] \in Seq(Harmless(w, snaps[w], seen'[w], failed'))
      BY <1>0, <1>11, <2>2, <3>2, MoreHarmless DEF Aware, RestoreThrows
    <3>4. QED
      BY <1>0, <1>11, <2>2, <3>1, <3>2, <3>3
      DEF Aware, Newborn, RestoreThrows, core
<2>3. QED
    BY <2>1, <2>2
<1>12. ASSUME NEW w \in Windows, NEW r \in Roots, AddWorkspace(w, r)
      PROVE  Aware(x)'
<2>1. CASE x # w
    BY <1>0, <1>12, <2>1, AwareStays
    DEF TypeOK, Ledger, AddWorkspace, core, windows, bounds
<2>2. CASE x = w
    <3>0. phase[w] = "ready"
      BY <1>0, <1>12 DEF Standing, AddWorkspace, bounds
    <3>1. seen[w] \subseteq seen'[w] /\ tabs'[w] \subseteq seen'[w]
      BY <1>0, <1>12, <2>2 DEF TypeOK, Ledger, Aware, AddWorkspace, bounds
    <3>2. calls'[w] \in Seq(Harmless(w, snaps[w], seen'[w], failed))
      BY <1>0, <1>12, <2>2, <3>1, MoreHarmless DEF Aware, AddWorkspace, bounds
    <3>3. QED
      BY <1>0, <1>12, <2>2, <3>0, <3>1, <3>2
      DEF Aware, Newborn, AddWorkspace, core, windows, bounds
<2>3. QED
    BY <2>1, <2>2
<1>13. ASSUME NEW w \in Windows, NEW r \in Roots, CloseWorkspace(w, r)
      PROVE  Aware(x)'
<2>1. CASE x # w
    BY <1>0, <1>13, <2>1, AwareStays
    DEF TypeOK, Ledger, CloseWorkspace, core, windows, history
<2>2. CASE x = w
    <3>1. tabs'[w] \subseteq tabs[w]
      BY <1>0, <1>13 DEF TypeOK, Ledger, CloseWorkspace
    <3>2. QED
      BY <1>0, <1>13, <2>2, <3>1
      DEF Aware, Newborn, CloseWorkspace, core, windows, history
<2>3. QED
    BY <2>1, <2>2
<1>14. ASSUME NEW w \in Windows, NEW r \in Roots, GateCall(w, r)
      PROVE  Aware(x)'
  BY <1>0, <1>14, GateCalls, AwareStays DEF core, windows
<1>15. ASSUME NEW w \in Windows, PersistOnce(w)
      PROVE  Aware(x)'
<2>1. CASE x # w
    BY <1>0, <1>15, <2>1, AwareStays
    DEF TypeOK, Ledger, PersistOnce, core, windows, bounds, history, Post
<2>2. CASE x = w
    <3>1. calls'[w] \in Seq(Harmless(w, snaps[w], seen[w], failed))
      BY <1>0, <1>15, <2>2, PostIsHarmless DEF PersistOnce
    <3>2. /\ phase[w] = "ready" /\ known'[w] = KnownNow(w)
      BY <1>0, <1>15 DEF TypeOK, PersistOnce
    <3>3. QED
      <4>1. \/ known'[w] = known[w]
            \/ known[w] = "unread" /\ known'[w] = "empty" /\ (IsSet(snaps[w]) => snaps[w] = {})
        BY <3>2 DEF KnownNow, MayAdoptLateRead, IsSet
      <4>2. UNCHANGED <<used, phase, told, snaps, restored, todo, got, tabs, seen, failed>>
        BY <1>15 DEF PersistOnce, core, windows, bounds, history
      <4>3. told[w] = None /\ ~Newborn(w) /\ ~Newborn(w)'
        BY <1>0, <2>2, <3>2, <4>2 DEF Aware, Newborn, Standing
      <4>4. QED
        BY <1>0, <2>2, <3>1, <3>2, <4>1, <4>2, <4>3 DEF Aware
<2>3. QED
    BY <2>1, <2>2
<1>16. ASSUME NEW w \in Windows, Destroy(w)
      PROVE  Aware(x)'
<2>1. CASE x # w
    BY <1>0, <1>16, <2>1, AwareStays
    DEF TypeOK, Ledger, Destroy, core, bounds, history, Post
<2>2. CASE x = w
    <3>1. calls'[w] \in Seq(Harmless(w, snaps[w], seen[w], failed))
      BY <1>0, <1>16, <2>2, PostIsHarmless DEF Destroy, Aware
    <3>2. /\ phase'[w] = "none" /\ told'[w] = None /\ tabs'[w] = {} /\ known'[w] = "unread"
      BY <1>0, <1>16 DEF TypeOK, Ledger, Destroy
    <3>3. QED
      <4>1. UNCHANGED <<used, snaps, seen, failed>>
        BY <1>16 DEF Destroy, core, bounds, history
      <4>2. w \notin used => calls'[w] = calls[w]
        BY <1>0, <1>16 DEF Destroy, Standing
      <4>3. QED
        BY <1>0, <2>2, <3>1, <3>2, <4>1, <4>2 DEF Aware, Newborn
<2>3. QED
    BY <2>1, <2>2
<1>17. ASSUME NEW w \in Windows, NEW i \in 1 .. Len(calls[w]), ServeSave(w, i)
      PROVE  Aware(x)'
<2>1. CASE x # w
    BY <1>0, <1>17, <2>1, AwareStays
    DEF TypeOK, Ledger, ServeSave, core, windows, page, bounds, history
<2>2. CASE x = w
    <3> DEFINE H == Harmless(w, snaps[w], seen[w], failed)
               G == Harmless(w, snaps'[w], seen[w], failed)
               c == calls[w][i]
    <3>1. calls[w] \in Seq(H)
      BY <1>0, <2>2 DEF Aware
    <3>2. c \in H /\ c \in Call /\ c.roots \subseteq seen[w]
      BY <3>1, ElementOfSeq DEF Harmless
    <3>3. snaps'[w] = c.roots
      BY <1>0, <1>17 DEF TypeOK, ServeSave
    <3>4. calls[w] \in Seq(G)
      BY <3>1, <3>2, <3>3, MoreHarmless
    <3>5. [c EXCEPT !.kind = "record"] \in G
      BY <3>2 DEF Harmless, Call
    <3> HIDE DEF H, G
    <3>6. [calls[w] EXCEPT ![i] = [c EXCEPT !.kind = "record"]] \in Seq(G)
      BY <3>4, <3>5, ExceptSeq
    <3>7. calls'[w] \in Seq(G)
      BY <1>0, <1>17, <3>4, <3>6, RemoveAtType DEF TypeOK, ServeSave
    <3>8. QED
      BY <1>0, <1>17, <2>2, <3>2, <3>3, <3>7
      DEF G, Aware, Newborn, ServeSave, windows, page, bounds, history
<2>3. QED
    BY <2>1, <2>2
<1>18. ASSUME NEW w \in Windows, NEW i \in 1 .. Len(calls[w]), Upsert(w, i)
      PROVE  Aware(x)'
<2>1. CASE x # w
    BY <1>0, <1>18, <2>1, AwareStays
    DEF TypeOK, Ledger, Upsert, core, windows, page, bounds, history
<2>2. CASE x = w
    <3>1. calls[w] # <<>>
      BY <1>0, EmptySeq DEF TypeOK
    <3>2. calls'[w] = RemoveAt(calls[w], i)
      BY <1>0, <1>18 DEF TypeOK, Upsert
    <3>3. calls'[w] \in Seq(Harmless(w, snaps[w], seen[w], failed))
      BY <1>0, <2>2, <3>2, RemoveAtType DEF Aware
    <3>4. QED
      BY <1>0, <1>18, <2>2, <3>1, <3>3
      DEF Aware, Newborn, Upsert, core, windows, page, bounds, history
<2>3. QED
    BY <2>1, <2>2
<1>19. ASSUME NEW w \in Windows, NEW i \in 1 .. Len(calls[w]), RefuseCall(w, i)
      PROVE  Aware(x)'
<2>1. CASE x # w
    BY <1>0, <1>19, <2>1, AwareStays
    DEF TypeOK, Ledger, RefuseCall, core, windows, page, history, Fails
<2>2. CASE x = w
    <3>1. calls[w] # <<>>
      BY <1>0, EmptySeq DEF TypeOK
    <3>2. calls'[w] = RemoveAt(calls[w], i)
      BY <1>0, <1>19 DEF TypeOK, RefuseCall
    <3>3. calls'[w] \in Seq(Harmless(w, snaps[w], seen[w], failed))
      BY <1>0, <2>2, <3>2, RemoveAtType DEF Aware
    <3>4. QED
      BY <1>0, <1>19, <2>2, <3>1, <3>3
      DEF Aware, Newborn, RefuseCall, core, windows, page, history, Fails
<2>3. QED
    BY <2>1, <2>2
<1>20. ASSUME NEW w \in Windows, RespawnSlot(w)
      PROVE  Aware(x)'
<2>1. UNCHANGED <<used, told, snaps, calls, known, restored, todo, got, tabs, seen, failed>>
  BY <1>20 DEF RespawnSlot, core, page, bounds
<2>2. phase[w] = "none"
  BY <1>20 DEF IInv, Respawnable, RespawnSlot
<2>3. phase' = phase \/ phase' = [phase EXCEPT ![w] = "created"]
  BY <1>20 DEF RespawnSlot, PassOver
<2>4. phase'[x] = phase[x] \/ (phase[x] = "none" /\ phase'[x] = "created")
  BY <1>0, <2>2, <2>3 DEF TypeOK
<2>5. CASE phase'[x] = phase[x]
  BY <1>0, <2>1, <2>5, AwareStays
<2>6. CASE phase[x] = "none" /\ phase'[x] = "created"
  BY <1>0, <2>1, <2>6 DEF Aware, Newborn
<2>7. QED
  BY <2>4, <2>5, <2>6
<1>21. ASSUME NEW w \in Windows, DeleteSnapshot(w)
      PROVE  Aware(x)'
<2>1. CASE x # w
    BY <1>0, <1>21, <2>1, AwareStays
    DEF TypeOK, Ledger, DeleteSnapshot, windows, page, history, Works
<2>2. CASE x = w
    <3>1. snaps'[w] = Absent
      BY <1>0, <1>21 DEF TypeOK, DeleteSnapshot
    <3>2. calls'[w] \in Seq(Harmless(w, snaps'[w], seen[w], failed))
      BY <1>0, <1>21, <2>2, <3>1, MoreHarmless DEF Aware, DeleteSnapshot
    <3>3. QED
      BY <1>0, <1>21, <2>2, <3>1, <3>2
      DEF Aware, Newborn, IsSet, DeleteSnapshot, windows, page, history
<2>3. QED
    BY <2>1, <2>2
<1>22. ASSUME NEW w \in Windows, FirstRun(w)
      PROVE  Aware(x)'
<2>1. CASE x # w
    BY <1>0, <1>22, <2>1, AwareStays
    DEF TypeOK, Ledger, FirstRun, core, page, history, Booted, Unopened, NoLedger, Fails, Works
<2>2. CASE x = w
    BY <1>0, <1>22, <2>2
    DEF TypeOK, Aware, Newborn, FirstRun, core, page, history, Standing,
      Booted, Unopened, NoLedger, Fails, Works
<2>3. QED
    BY <2>1, <2>2
<1>23. ASSUME ReadLedger \/ LedgerRefused \/ Census \/ CensusRefused
      PROVE  Aware(x)'
  BY <1>0, <1>23, AwareStays
  DEF ReadLedger, LedgerRefused, Census, CensusRefused, core, windows, page, history, Works, Fails,
      Booted, Unopened, NoLedger
<1>24. ASSUME SavePruned \/ PrunedRefused \/ Sweep \/ SweepRefused
      PROVE  Aware(x)'
  BY <1>0, <1>24, AwareStays
  DEF SavePruned, PrunedRefused, Sweep, SweepRefused, core, windows, page, history, Works, Fails,
      Booted, Unopened, NoLedger
<1>25. ASSUME NEW w \in Windows, RespawnRefused(w)
      PROVE  Aware(x)'
  BY <1>0, <1>25, AwareStays
  DEF RespawnRefused, core, windows, page, Fails
<1>26. ASSUME Restart
      PROVE  Aware(x)'
  BY <1>0, <1>26, EmptySeq
  DEF TypeOK, Ledger, Aware, Newborn, Restart, NoLedger, core
<1>27. ASSUME NotFirstRun
      PROVE  Aware(x)'
  BY <1>0, <1>27, AwareStays DEF NotFirstRun, core, windows, page, history
<1>28. CASE UNCHANGED vars
  BY <1>0, <1>28, AwareStays DEF vars, core, windows, page, history
<1>29. QED
  BY <1>1, <1>2, <1>3, <1>4, <1>5, <1>6, <1>7, <1>8, <1>9, <1>10, <1>11, <1>12, <1>13,
     <1>14, <1>15, <1>16, <1>17, <1>18, <1>19, <1>20, <1>21, <1>22, <1>23, <1>24, <1>25,
     <1>26, <1>27, <1>28
  DEF Next, PageStep, UserStep, MainStep, GateCall

(* Only the serving of a save puts other roots in a snapshot. *)
LEMMA ErasesStep ==
    ASSUME IInv, AllAware, [Next]_vars, NEW x \in Windows, IsSet(snaps[x]), IsSet(snaps'[x])
    PROVE  snaps[x] \ snaps'[x] \subseteq seen[x] \/ (x \in failed /\ snaps'[x] # {})
<1>1. ASSUME NEW w \in Windows, NEW i \in 1 .. Len(calls[w]), ServeSave(w, i)
      PROVE  snaps[x] \ snaps'[x] \subseteq seen[x] \/ (x \in failed /\ snaps'[x] # {})
  <2>1. calls[w][i] \in Harmless(w, snaps[w], seen[w], failed)
    BY ElementOfSeq DEF AllAware, Aware
  <2>2. snaps' = [snaps EXCEPT ![w] = calls[w][i].roots] /\ calls[w][i].kind = "save"
    BY <1>1 DEF ServeSave
  <2>3. CASE x = w
    BY <2>1, <2>2, <2>3 DEF IInv, TypeOK, Harmless
  <2>4. CASE x # w
    BY <2>2, <2>4 DEF IInv, TypeOK
  <2>5. QED
    BY <2>3, <2>4
<1>2. ASSUME NEW w \in Windows, DeleteSnapshot(w)
      PROVE  snaps'[x] = snaps[x]
  BY <1>2 DEF IInv, TypeOK, DeleteSnapshot, IsSet
<1>3. ASSUME NEW w \in Windows,
              \/ CreateWindow(w) \/ Bootstrap(w) \/ BootstrapUnclaimed(w) \/ Hydrate(w) \/ HydrateRefused(w)
              \/ RestoreWorkspaces(w) \/ RestoreThrows(w) \/ PersistOnce(w) \/ LateReadRefused(w)
              \/ ReadForClose(w) \/ ForgetSlot(w) \/ ForgetRefused(w) \/ Destroy(w)
              \/ RespawnSlot(w) \/ RespawnRefused(w) \/ FirstRun(w)
      PROVE  snaps'[x] = snaps[x]
  BY <1>3
  DEF CreateWindow, Bootstrap, BootstrapUnclaimed, Hydrate, HydrateRefused, RestoreWorkspaces, RestoreThrows,
      PersistOnce, LateReadRefused, ReadForClose, ForgetSlot, ForgetRefused, Destroy, RespawnSlot,
      RespawnRefused, FirstRun, core
<1>4. ASSUME NEW w \in Windows, NEW r \in Roots,
              \/ ClaimRoot(w, r) \/ ClaimRootUnclaimed(w, r) \/ AskWindow(w, r)
              \/ AddWorkspace(w, r) \/ CloseWorkspace(w, r)
      PROVE  snaps'[x] = snaps[x]
  BY <1>4 DEF ClaimRoot, ClaimRootUnclaimed, AskWindow, AddWorkspace, CloseWorkspace, core
<1>5. ASSUME NEW w \in Windows, NEW i \in 1 .. Len(calls[w]), Upsert(w, i) \/ RefuseCall(w, i)
      PROVE  snaps'[x] = snaps[x]
  BY <1>5 DEF Upsert, RefuseCall, core
<1>6. ASSUME \/ ReadLedger \/ LedgerRefused \/ Census \/ CensusRefused
             \/ SavePruned \/ PrunedRefused \/ Sweep \/ SweepRefused \/ Restart
      PROVE  snaps'[x] = snaps[x]
  BY <1>6
  DEF ReadLedger, LedgerRefused, Census, CensusRefused, SavePruned, PrunedRefused, Sweep,
      SweepRefused, Restart, core
<1>7. ASSUME NEW w \in Windows, NEW r \in Roots, GateCall(w, r)
      PROVE  snaps'[x] = snaps[x]
  BY <1>7, GateCalls DEF core
<1>8. ASSUME NotFirstRun
      PROVE  snaps'[x] = snaps[x]
  BY <1>8 DEF NotFirstRun, core
<1>9. CASE UNCHANGED vars
  BY <1>9 DEF vars, core
<1>10. QED
  BY <1>1, <1>2, <1>3, <1>4, <1>5, <1>6, <1>7, <1>8, <1>9
  DEF Next, PageStep, UserStep, MainStep, GateCall

(* "The unknown does not overwrite the known" (persistGuard.ts): a root
   leaves a window's snapshot only after the page showed it, or found it
   open elsewhere, or after a restore that threw, and then not for nothing;
   in every order in which the core serves the calls of a window, and with
   the calls of a page that is gone.                                       *)
THEOREM NothingIsErasedUnseen == Spec => NothingErasedUnseen
<1>1. Init => AllAware
  BY EmptySeq DEF Init, AllAware, Aware, Newborn, NoLedger, IsSet
<1>2. Spec => []AllAware
  BY <1>1, Invariance, AwareStep, PTL DEF Spec
<1>3. IInv /\ AllAware /\ [Next]_vars =>
        [\A w \in Windows :
           IsSet(snaps[w]) /\ IsSet(snaps'[w])
           => \/ snaps[w] \ snaps'[w] \subseteq seen[w]
              \/ w \in failed /\ snaps'[w] # {}]_vars
  BY ErasesStep
<1>4. QED
  BY <1>2, <1>3, Invariance, PTL DEF Spec, NothingErasedUnseen
================================================================================
