------------------------ MODULE LayoutTransition_proofs ------------------------
(***************************************************************************)
(* Proofs about LayoutTransition, for any forms, planes, sizes and bounds, *)
(* with changes during a journey and windows that return to a size: type   *)
(* correctness, and that a revision is acknowledged only when what stands  *)
(* on screen is an arrangement the state held at that revision.            *)
(***************************************************************************)
EXTENDS LayoutTransition, SequenceTheorems, TLAPS

-----------------------------------------------------------------------------
\* The queue and the journal.

LedgerOK(l) ==
    /\ l \in [intents : [Revisions -> Intents], txns : Seq(Txns)]
    /\ \A r \in Revisions : l.intents[r].txn <= Len(l.txns)

\* A phase is written on a transaction that is there, or nowhere.
LEMMA InPhaseType ==
    ASSUME NEW l, LedgerOK(l), NEW t, NEW p \in TxnPhases
    PROVE  LedgerOK(InPhase(l, t, p))
<1> DEFINE s == l.txns
           n == Len(s)
           u == [s EXCEPT ![t].phase = p]
<1>1. n \in Nat /\ s \in [1..n -> Txns]
  BY LenProperties DEF LedgerOK
<1>2. u \in [1..n -> Txns]
  BY <1>1 DEF Txns
<1>3. u \in Seq(Txns) /\ Len(u) = n
  BY <1>1, <1>2, SeqDef, LenProperties
<1>4. InPhase(l, t, p) = [l EXCEPT !.txns = u]
  BY DEF InPhase, LedgerOK
<1> HIDE DEF u
<1>5. QED
  BY <1>3, <1>4 DEF LedgerOK

\* Closing a transaction changes nothing else.
LEMMA CancelledType ==
    ASSUME NEW l, LedgerOK(l), NEW t
    PROVE  LedgerOK(Cancelled(l, t)) /\ LedgerOK(Committed(l, t))
  BY InPhaseType DEF Cancelled, Committed, TxnPhases

\* A new transaction is prepared at the end of the journal.
LEMMA OpenedType ==
    ASSUME NEW l, LedgerOK(l), NEW r \in 0..MaxRevisions
    PROVE  LedgerOK(Opened(l, r)) /\ Len(Opened(l, r).txns) = Len(l.txns) + 1
<1>1. [phase |-> "preparing", intent |-> r] \in Txns
  BY DEF Txns, TxnPhases
<1> DEFINE w == Append(l.txns, [phase |-> "preparing", intent |-> r])
<1>2. w \in Seq(Txns) /\ Len(w) = Len(l.txns) + 1 /\ Len(l.txns) \in Nat
  BY <1>1, AppendProperties, LenProperties DEF LedgerOK
<1>3. Opened(l, r) = [l EXCEPT !.txns = w]
  BY DEF Opened, LedgerOK
<1> HIDE DEF w
<1>4. ASSUME NEW q \in Revisions
      PROVE  l.intents[q].txn <= Len(l.txns) + 1
  BY <1>2 DEF LedgerOK, Intents
<1>5. QED
  BY <1>2, <1>3, <1>4 DEF LedgerOK

\* One intent is written anew.
LEMMA IntentType ==
    ASSUME NEW l, LedgerOK(l), NEW r \in Revisions, NEW i \in Intents,
           i.txn <= Len(l.txns)
    PROVE  LedgerOK([l EXCEPT !.intents = [@ EXCEPT ![r] = i]])
<1> DEFINE m == [l EXCEPT !.intents = [@ EXCEPT ![r] = i]]
<1>1. m.txns = l.txns /\ m.intents = [l.intents EXCEPT ![r] = i]
  BY DEF LedgerOK
<1>2. m \in [intents : [Revisions -> Intents], txns : Seq(Txns)]
  BY DEF LedgerOK
<1> HIDE DEF m
<1>3. ASSUME NEW q \in Revisions
      PROVE  m.intents[q].txn <= Len(m.txns)
  BY <1>1 DEF LedgerOK
<1>4. QED
  BY <1>2, <1>3 DEF LedgerOK, m

\* An intent that starts has the transaction just opened.
LEMMA StartedType ==
    ASSUME NEW l, LedgerOK(l), NEW r \in Revisions
    PROVE  LedgerOK(Started(l, r))
<1> DEFINE o == Opened(l, r)
           n == Len(l.txns) + 1
           i == [o.intents[r] EXCEPT !.at = "active", !.txn = n]
<1>1. r \in 0..MaxRevisions
  BY BoundsAreNumbers DEF Revisions
<1>2. LedgerOK(o) /\ Len(o.txns) = n /\ n \in Nat
  <2>1. Len(l.txns) \in Nat
    BY LenProperties DEF LedgerOK
  <2>2. LedgerOK(o) /\ Len(o.txns) = Len(l.txns) + 1
    BY <1>1, OpenedType
  <2>3. QED
    BY <2>1, <2>2
<1>3. Started(l, r) = [o EXCEPT !.intents[r].at = "active", !.intents[r].txn = n]
  BY DEF Started
<1> HIDE DEF o, n
<1>4. o.intents[r] \in Intents
  BY <1>2 DEF LedgerOK
<1>5. i \in Intents /\ i.txn = n
  BY <1>2, <1>4 DEF Intents
<1>6. Started(l, r) = [o EXCEPT !.intents = [@ EXCEPT ![r] = i]]
  BY <1>2, <1>3 DEF LedgerOK, Intents
<1> HIDE DEF i
<1>7. i.txn <= Len(o.txns)
  BY <1>2, <1>5
<1>8. QED
  BY <1>2, <1>5, <1>6, <1>7, IntentType

\* The queue moves on.
LEMMA FinishedType ==
    ASSUME NEW l, LedgerOK(l), NEW r
    PROVE  LedgerOK(Finished(l, r))
<1>1. ASSUME NEW m, LedgerOK(m)
      PROVE  LedgerOK(Promoted(m))
  <2>1. CASE Holds(m, "queued") = {}
    BY <1>1, <2>1 DEF Promoted
  <2>2. CASE Holds(m, "queued") # {}
    <3>1. (CHOOSE q \in Holds(m, "queued") : TRUE) \in Revisions
      BY <2>2 DEF Holds
    <3>2. QED
      BY <1>1, <2>2, <3>1, StartedType DEF Promoted
  <2>3. QED
    BY <2>1, <2>2
<1>2. ASSUME r \in Holds(l, "active")
      PROVE  LedgerOK([l EXCEPT !.intents[r].at = "over"])
  <2>1. r \in Revisions
    BY <1>2 DEF Holds
  <2>2. QED
    BY <2>1 DEF LedgerOK, Intents
<1>3. QED
  BY <1>1, <1>2 DEF Finished

\* A newer intent takes the place of the queued one, or starts.
LEMMA PublishedType ==
    ASSUME NEW l, LedgerOK(l), NEW r \in Revisions
    PROVE  LedgerOK(Published(l, r))
<1>1. CASE Holds(l, "active") = {}
  BY <1>1, StartedType DEF Published
<1>2. CASE Holds(l, "active") # {}
  <2> DEFINE replaced == [l EXCEPT !.intents = [q \in Revisions |->
                 IF @[q].at = "queued" THEN [@[q] EXCEPT !.at = "over"] ELSE @[q]]]
             added == [replaced EXCEPT !.intents[r].at = "queued"]
             active == CHOOSE a \in Holds(l, "active") : TRUE
             abandoned == [added EXCEPT !.intents[active].superseded = TRUE]
  <2>1. active \in Revisions
    BY <1>2 DEF Holds
  <2>2. LedgerOK(replaced)
    BY DEF LedgerOK, Intents
  <2> HIDE DEF replaced
  <2>3. LedgerOK(added)
    <3> DEFINE i == [replaced.intents[r] EXCEPT !.at = "queued"]
    <3>1. i \in Intents /\ i.txn <= Len(replaced.txns)
      BY <2>2 DEF LedgerOK, Intents
    <3>2. added = [replaced EXCEPT !.intents = [@ EXCEPT ![r] = i]]
      BY <2>2 DEF LedgerOK, Intents
    <3> HIDE DEF i, added
    <3>3. QED
      BY <2>2, <3>1, <3>2, IntentType
  <2> HIDE DEF added, active
  <2>4. LedgerOK(abandoned)
    <3> DEFINE i == [added.intents[active] EXCEPT !.superseded = TRUE]
    <3>a. added.intents[active] \in Intents /\ added.intents[active].txn <= Len(added.txns)
      BY <2>1, <2>3 DEF LedgerOK
    <3>1. i \in Intents /\ i.txn <= Len(added.txns)
      BY <3>a DEF Intents
    <3>2. abandoned = [added EXCEPT !.intents = [@ EXCEPT ![active] = i]]
      BY <2>1, <2>3 DEF LedgerOK, Intents
    <3> HIDE DEF i, abandoned
    <3>3. QED
      BY <2>1, <2>3, <3>1, <3>2, IntentType
  <2> HIDE DEF abandoned
  <2>5. Queued(l, r) \in {added, abandoned, Finished(abandoned, active)}
    BY DEF Queued, replaced, added, active, abandoned
  <2>6. QED
    BY <1>2, <2>3, <2>4, <2>5, FinishedType DEF Published
<1>3. QED
  BY <1>1, <1>2

\* What an answer abandons.
LEMMA AbandonedType ==
    ASSUME NEW l, LedgerOK(l), NEW t
    PROVE  LedgerOK(Abandoned(l, t))
  BY CancelledType, FinishedType DEF Abandoned

-----------------------------------------------------------------------------
\* What is on screen, and from when.

\* What the last render saw, and every preparation and journey since, is an
\* arrangement the state held at the revision that goes with it; revisions only grow.
Recorded ==
    /\ Wanted \in held[store.revision]
    /\ refs.observed.shape \in held[refs.observed.revision]
    /\ refs.observed.revision <= store.revision
    /\ \A w \in waiting : w.revision <= refs.observed.revision /\ w.key \in held[w.revision]
    /\ refs.pending.revision <= refs.observed.revision
    /\ refs.travel.revision <= refs.observed.revision

\* At most one preparation can still be taken. While it is out nothing is about to be
\* committed, and a journey that is not over is in another plane than its target.
Current(w) == w.serial = refs.serial

Turns ==
    /\ \A w \in waiting : w.serial <= refs.serial
    /\ \A v, w \in waiting : v.serial = w.serial => v = w
    /\ \A w \in waiting : Current(w) =>
           /\ refs.pending.txn = 0
           /\ refs.travel.revision <= w.revision
           /\ Apart(phase.from, phase.displayed) => ~Together(w.key)

\* What is about to be committed, and what a journey goes to, is on screen, or its
\* revision is acknowledged already. A timer runs only for a journey that is seen; the
\* one of a journey that was just given up is gone before it can end.
Shown ==
    /\ refs.pending.txn # 0 =>
           /\ phase.displayed \in held[refs.pending.revision]
           /\ refs.travel.revision <= refs.pending.revision
           /\ ~armed
    /\ Apart(phase.from, phase.displayed) /\ refs.pending.txn = 0 =>
           phase.displayed \in held[refs.travel.revision] \/ refs.travel.revision <= settled
    /\ armed /\ stale # "now" => Apart(phase.from, phase.displayed) /\ SamePlane

IInv == TypeOK /\ Recorded /\ Turns /\ Shown

\* What a step of the settlement has to do with the screen.
Faithful == settled' > settled => phase.displayed \in held[settled']

\* The types of a state's parts.
PhaseType == [from : Shapes, displayed : Shapes, plane : {PlaneOf[f] : f \in Forms},
              tabs : Nat, preparing : BOOLEAN]
RefsType ==
    [serial : Nat, key : Shapes \cup {NoShape}, failed : Shapes \cup {NoShape},
     pending : [txn : Nat, revision : 0..MaxRevisions, intent : 0..MaxRevisions],
     travel : [revision : 0..MaxRevisions, intent : 0..MaxRevisions],
     observed : [shape : Shapes, tabs : Nat, revision : 0..MaxRevisions],
     fence : BOOLEAN, seen : Sightings \cup {<<>>}]
WaitType == [serial : Nat, key : Shapes, revision : 0..MaxRevisions,
             intent : 0..MaxRevisions, txn : Nat]

\* The type invariant, part by part.
LEMMA TypeParts ==
    TypeOK <=> /\ store \in [shape : Shapes, tabs : 0..MaxOthers, revision : 0..MaxRevisions]
               /\ settled \in 0..store.revision
               /\ LedgerOK(ledger)
               /\ phase \in PhaseType
               /\ refs \in RefsType
               /\ waiting \subseteq WaitType
               /\ armed \in BOOLEAN /\ mounted \in BOOLEAN
               /\ stale \in {"no", "later", "now"}
               /\ held \in [0..MaxRevisions -> SUBSET Shapes]
               /\ spent \in [others : 0..MaxOthers, faults : 0..MaxFaults]
               /\ store.tabs <= spent.others
  BY DEF TypeOK, LedgerOK, PhaseType, RefsType, WaitType

\* An arrangement does not travel to itself.
LEMMA ApartSelf == \A a : ~Apart(a, a)
<1> SUFFICES ASSUME NEW a, Apart(a, a)
             PROVE  FALSE
  OBVIOUS
<1>1. <<a.form, a.form>> \in Moves
  BY DEF Apart
<1>2. <<a.form, a.form>>[1] # <<a.form, a.form>>[2]
  BY <1>1, MovesHaveTwoEnds
<1>3. QED
  BY <1>2

\* The plane of an arrangement is one of those given.
LEMMA PlaneType == \A a \in Shapes : Plane(a) \in {PlaneOf[f] : f \in Forms}
  BY DEF Shapes, Plane

\* A plane that has just mounted.
LEMMA InitInv == Init => IInv
<1> SUFFICES ASSUME Init PROVE IInv
  OBVIOUS
<1> USE StartIsAForm, BoundsAreNumbers
<1>1. First \in Shapes /\ 0 \in 0..MaxRevisions
  BY DEF First, Shapes
<1>2. held[0] = {First}
  BY <1>1 DEF Init
<1>3. TypeOK
  <2>1. LedgerOK(ledger)
    BY EmptySeq DEF Init, LedgerOK, NoIntent, Intents
  <2>2. phase \in PhaseType /\ refs \in RefsType
    BY <1>1, PlaneType DEF Init, PhaseType, RefsType
  <2>3. held \in [0..MaxRevisions -> SUBSET Shapes]
    BY <1>1 DEF Init
  <2>4. /\ store \in [shape : Shapes, tabs : 0..MaxOthers, revision : 0..MaxRevisions]
        /\ settled \in 0..store.revision
        /\ spent \in [others : 0..MaxOthers, faults : 0..MaxFaults]
        /\ store.tabs <= spent.others
    BY <1>1 DEF Init
  <2>5. waiting \subseteq WaitType /\ armed \in BOOLEAN /\ mounted \in BOOLEAN
        /\ stale \in {"no", "later", "now"}
    BY DEF Init
  <2>6. QED
    BY <2>1, <2>2, <2>3, <2>4, <2>5, TypeParts
<1>4. Recorded /\ Turns
  BY <1>1, <1>2 DEF Init, Recorded, Turns, Wanted
<1>5. Shown
  BY ApartSelf DEF Init, Shown
<1>6. QED
  BY <1>3, <1>4, <1>5 DEF IInv

\* A change of the state: what was recorded stays recorded.
LEMMA ChangedKeeps ==
    ASSUME IInv, NEW to, Changed(to), store.revision <= to.revision,
           to \in [shape : Shapes, tabs : 0..MaxOthers, revision : 0..MaxRevisions]
    PROVE  /\ Recorded' /\ Turns' /\ Shown' /\ Faithful
           /\ settled' \in 0..store'.revision
           /\ held' \in [0..MaxRevisions -> SUBSET Shapes]
<1> USE DEF IInv
<1>1. /\ store' = to /\ stale' = "now"
      /\ UNCHANGED <<settled, phase, refs, waiting, armed, mounted>>
  BY DEF Changed
<1>2. held \in [0..MaxRevisions -> SUBSET Shapes] /\ to.revision \in 0..MaxRevisions
      /\ store.revision \in 0..MaxRevisions /\ to.shape \in Shapes
  BY TypeParts
<1>3. held' \in [0..MaxRevisions -> SUBSET Shapes] /\ to.shape \in held'[to.revision]
  BY <1>2 DEF Changed
<1>4. \A r \in 0..MaxRevisions : held[r] \subseteq held'[r]
  BY <1>2 DEF Changed
<1>5. /\ refs.observed.revision \in 0..MaxRevisions
      /\ refs.pending.revision \in 0..MaxRevisions
      /\ refs.travel.revision \in 0..MaxRevisions
      /\ \A w \in waiting : w.revision \in 0..MaxRevisions
  BY TypeParts DEF RefsType, WaitType
<1>6. Recorded'
  BY <1>1, <1>2, <1>3, <1>4, <1>5 DEF Recorded, Wanted
<1>7. Turns'
  BY <1>1 DEF Turns, Current, Together, Plane, Apart
<1>8. Shown'
  BY <1>1, <1>4, <1>5 DEF Shown
<1>9. Faithful /\ settled' \in 0..store'.revision
  BY <1>1, <1>2, TypeParts DEF Faithful
<1>10. QED
  BY <1>3, <1>6, <1>7, <1>8, <1>9

\* What a change of the state has to give for the types.
LEMMA ChangedTypes ==
    ASSUME IInv, NEW to, Changed(to), store.revision <= to.revision,
           to \in [shape : Shapes, tabs : 0..MaxOthers, revision : 0..MaxRevisions],
           LedgerOK(ledger'), spent' \in [others : 0..MaxOthers, faults : 0..MaxFaults],
           to.tabs <= spent'.others
    PROVE  IInv' /\ Faithful
<1>1. /\ store' = to /\ stale' = "now"
      /\ UNCHANGED <<settled, phase, refs, waiting, armed, mounted>>
  BY DEF Changed
<1>2. TypeOK'
  BY <1>1, ChangedKeeps, TypeParts DEF IInv, LedgerOK, TypeOK, RefsType, WaitType, PhaseType
<1>3. QED
  BY <1>2, ChangedKeeps DEF IInv

LEMMA PublishStep ==
    ASSUME IInv, NEW form \in Forms, Publish(form)
    PROVE  IInv' /\ Faithful
<1> USE BoundsAreNumbers
<1> DEFINE to == [store EXCEPT !.shape.form = form, !.revision = @ + 1]
<1>1. store \in [shape : Shapes, tabs : 0..MaxOthers, revision : 0..MaxRevisions]
      /\ LedgerOK(ledger) /\ spent \in [others : 0..MaxOthers, faults : 0..MaxFaults]
      /\ store.tabs <= spent.others
  BY TypeParts DEF IInv
<1>2. to \in [shape : Shapes, tabs : 0..MaxOthers, revision : 0..MaxRevisions]
      /\ store.revision <= to.revision /\ to.tabs = store.tabs
  <2>1. store.revision + 1 \in 0..MaxRevisions /\ store.revision <= store.revision + 1
    BY <1>1 DEF Publish
  <2>2. [store.shape EXCEPT !.form = form] \in Shapes
    BY <1>1 DEF Shapes
  <2>3. QED
    BY <1>1, <2>1, <2>2
<1>3. LedgerOK(ledger')
  <2>1. store.revision + 1 \in Revisions
    BY <1>1 DEF Publish, Revisions
  <2>2. QED
    BY <1>1, <2>1, PublishedType DEF Publish
<1>4. Changed(to) /\ spent' = spent
  BY DEF Publish
<1> HIDE DEF to
<1>5. QED
  BY <1>1, <1>2, <1>3, <1>4, ChangedTypes

LEMMA OtherStep ==
    ASSUME IInv, NEW form \in Forms, NEW box \in Boxes,
           NEW focus \in Foci, NEW another \in {0, 1},
           SwitchSpace(form) \/ Reshape(box) \/ Activate(focus, another)
    PROVE  IInv' /\ Faithful
<1> USE BoundsAreNumbers
<1>1. store \in [shape : Shapes, tabs : 0..MaxOthers, revision : 0..MaxRevisions]
      /\ LedgerOK(ledger) /\ spent \in [others : 0..MaxOthers, faults : 0..MaxFaults]
      /\ store.tabs <= spent.others
  BY TypeParts DEF IInv
<1>2. spent.others < MaxOthers /\ spent' = [spent EXCEPT !.others = @ + 1] /\ ledger' = ledger
  BY DEF SwitchSpace, Reshape, Activate
<1>3. /\ spent' \in [others : 0..MaxOthers, faults : 0..MaxFaults]
      /\ spent'.others = spent.others + 1
  BY <1>1, <1>2
<1>4. LedgerOK(ledger')
  BY <1>1, <1>2
<1>5. ASSUME NEW to \in {[store EXCEPT !.shape.form = form], [store EXCEPT !.shape.box = box],
                         [store EXCEPT !.shape.focus = focus, !.tabs = @ + another]}
      PROVE  /\ to \in [shape : Shapes, tabs : 0..MaxOthers, revision : 0..MaxRevisions]
             /\ store.revision <= to.revision /\ to.tabs <= spent'.others
  <2>1. /\ store.tabs + another \in 0..MaxOthers
        /\ store.tabs + another <= spent.others + 1 /\ store.tabs <= spent.others + 1
    BY <1>1, <1>2
  <2>2. /\ [store.shape EXCEPT !.form = form] \in Shapes
        /\ [store.shape EXCEPT !.box = box] \in Shapes
        /\ [store.shape EXCEPT !.focus = focus] \in Shapes
    BY <1>1 DEF Shapes
  <2>3. store.revision \in Nat
    BY <1>1, BoundsAreNumbers
  <2>4. CASE to = [store EXCEPT !.shape.form = form]
    BY <1>1, <1>3, <2>1, <2>2, <2>3, <2>4
  <2>5. CASE to = [store EXCEPT !.shape.box = box]
    BY <1>1, <1>3, <2>1, <2>2, <2>3, <2>5
  <2>6. CASE to = [store EXCEPT !.shape.focus = focus, !.tabs = @ + another]
    <3>1. to = [shape |-> [store.shape EXCEPT !.focus = focus],
                tabs |-> store.tabs + another, revision |-> store.revision]
      BY <1>1, <2>6
    <3>2. QED
      BY <1>1, <1>3, <2>1, <2>2, <2>3, <3>1
  <2>7. QED
    BY <2>4, <2>5, <2>6
<1>6. CASE SwitchSpace(form)
  <2> DEFINE to == [store EXCEPT !.shape.form = form]
  <2>1. Changed(to)
    BY <1>6 DEF SwitchSpace
  <2> HIDE DEF to
  <2>2. QED
    BY <1>3, <1>4, <1>5, <2>1, ChangedTypes DEF to
<1>7. CASE Reshape(box)
  <2>1. Changed([store EXCEPT !.shape.box = box])
    BY <1>7 DEF Reshape
  <2>2. QED
    BY <1>3, <1>4, <1>5, <2>1, ChangedTypes
<1>8. CASE Activate(focus, another)
  <2>1. Changed([store EXCEPT !.shape.focus = focus, !.tabs = @ + another])
    BY <1>8 DEF Activate
  <2>2. QED
    BY <1>3, <1>4, <1>5, <2>1, ChangedTypes
<1>9. QED
  BY <1>6, <1>7, <1>8

\* What a render sees is an arrangement the state held at the revision it sees.
LEMMA SeenIsHeld ==
    ASSUME IInv
    PROVE  /\ SeenRevision \in 0..MaxRevisions
           /\ refs.observed.revision <= SeenRevision /\ SeenRevision <= store.revision
           /\ Wanted \in held[SeenRevision]
           /\ Wanted \in Shapes
<1>1. /\ refs.observed.revision \in 0..MaxRevisions
      /\ store.revision \in 0..MaxRevisions
      /\ Wanted \in Shapes
  BY TypeParts DEF IInv, RefsType, Wanted
<1>2. CASE Fenced
  BY <1>1, <1>2 DEF SeenRevision, Fenced, SameIdentity, IInv, Recorded, Wanted
<1>3. CASE ~Fenced
  BY <1>1, <1>3 DEF SeenRevision, IInv, Recorded
<1>4. QED
  BY <1>2, <1>3

\* A render prepares only when it sees no journey.
LEMMA ReactionFacts ==
    /\ Reaction \in {"none", "adopt", "content", "prepare"}
    /\ Reaction = "prepare" => ~Travels
  BY DEF Reaction, Travels

\* What a render does to the parts that the settlement rests on.
LEMMA RenderParts ==
    ASSUME IInv, Render
    PROVE  /\ refs'.serial = IF Reaction = "prepare" THEN refs.serial + 1 ELSE refs.serial
           /\ refs'.pending = [txn |-> 0, revision |-> 0, intent |-> 0]
           /\ refs'.observed.shape = Wanted /\ refs'.observed.revision = SeenRevision
           /\ refs'.travel.revision = IF Commits /\ Travels /\ refs.pending.revision # 0
                                      THEN refs.pending.revision ELSE refs.travel.revision
           /\ refs' \in RefsType
<1>1. refs \in RefsType /\ store.tabs \in Nat /\ phase \in PhaseType /\ MaxOthers \in Nat
  BY TypeParts, BoundsAreNumbers DEF IInv
<1>2. SeenRevision \in 0..MaxRevisions /\ Wanted \in Shapes /\ 0 \in 0..MaxRevisions
  BY SeenIsHeld, BoundsAreNumbers
<1>3. Seen \in Sightings
  <2>1. SamePlane \in BOOLEAN /\ Travels \in BOOLEAN
    BY DEF SamePlane, Together, Travels, Apart
  <2>2. QED
    BY <1>1, <1>2, <2>1 DEF Seen, Sightings, PhaseType
<1>4. HeldKey \in Shapes \cup {NoShape} /\ Fenced \in BOOLEAN
  BY <1>1 DEF HeldKey, RefsType, Fenced, SameIdentity
<1> DEFINE to == [revision |-> IF refs.pending.revision # 0
                               THEN refs.pending.revision ELSE refs.travel.revision,
                  intent |-> IF refs.pending.intent # 0
                             THEN refs.pending.intent ELSE refs.travel.intent]
           travel == IF Commits /\ Travels THEN to ELSE refs.travel
           fence == IF Reaction = "prepare" THEN SeenRevision > 0 ELSE Fenced
<1>5. refs' = [serial |-> IF Reaction = "prepare" THEN refs.serial + 1 ELSE refs.serial,
               key |-> IF Reaction = "prepare" THEN Wanted ELSE HeldKey,
               failed |-> IF Reaction = "prepare" THEN NoShape ELSE refs.failed,
               pending |-> [txn |-> 0, revision |-> 0, intent |-> 0],
               travel |-> travel,
               observed |-> [shape |-> Wanted, tabs |-> store.tabs, revision |-> SeenRevision],
               fence |-> fence,
               seen |-> Seen]
  BY <1>1 DEF Render, RefsType
<1>6. travel \in [revision : 0..MaxRevisions, intent : 0..MaxRevisions]
      /\ travel.revision = IF Commits /\ Travels /\ refs.pending.revision # 0
                           THEN refs.pending.revision ELSE refs.travel.revision
  BY <1>1 DEF RefsType
<1>7. fence \in BOOLEAN
  <2>1. (SeenRevision > 0) \in BOOLEAN
    BY <1>2
  <2>2. CASE Reaction = "prepare"
    BY <2>1, <2>2
  <2>3. CASE Reaction # "prepare"
    BY <1>4, <2>3
  <2>4. QED
    BY <2>2, <2>3
<1> HIDE DEF travel, fence
<1>8. refs' \in RefsType
  BY <1>1, <1>2, <1>3, <1>4, <1>5, <1>6, <1>7 DEF RefsType
<1>9. QED
  BY <1>5, <1>6, <1>8

\* What is on screen changes in a render only by taking the solution as it is.
LEMMA RenderPhase ==
    ASSUME IInv, Render
    PROVE  /\ phase' \in PhaseType
           /\ Reaction = "adopt" => phase'.from = Wanted /\ phase'.displayed = Wanted
           /\ Reaction # "adopt" => /\ phase'.from = phase.from
                                    /\ phase'.displayed = phase.displayed
                                    /\ phase'.plane = phase.plane
<1>1. phase \in PhaseType /\ store.tabs \in Nat /\ Wanted \in Shapes
  BY TypeParts, BoundsAreNumbers, SeenIsHeld DEF IInv
<1>2. CASE Reaction = "adopt"
  <2>1. phase' = Adopted
    BY <1>2 DEF Render
  <2>2. Plane(Wanted) \in {PlaneOf[f] : f \in Forms}
    BY <1>1, PlaneType
  <2>3. QED
    BY <1>1, <1>2, <2>1, <2>2 DEF Adopted, PhaseType
<1>3. CASE Reaction = "content"
  <2>1. phase' = [phase EXCEPT !.tabs = store.tabs]
    BY <1>3 DEF Render
  <2>2. QED
    BY <1>1, <1>3, <2>1 DEF PhaseType
<1>4. CASE Reaction = "prepare"
  <2>1. phase' = [phase EXCEPT !.preparing = TRUE]
    BY <1>4 DEF Render
  <2>2. QED
    BY <1>1, <1>4, <2>1 DEF PhaseType
<1>5. CASE Reaction = "none"
  <2>1. phase' = phase
    BY <1>5 DEF Render
  <2>2. QED
    BY <1>1, <1>5, <2>1
<1>6. QED
  BY <1>2, <1>3, <1>4, <1>5, ReactionFacts

\* The preparations waited for: those before and the one that opens.
LEMMA RenderWaiting ==
    ASSUME IInv, Render
    PROVE  /\ waiting' \subseteq WaitType
           /\ \A w \in waiting' :
                  w \in waiting
                  \/ /\ Reaction = "prepare" /\ w = Awaited
                     /\ w.serial = refs.serial + 1 /\ w.key = Wanted /\ w.revision = SeenRevision
<1>1. waiting \subseteq WaitType /\ refs \in RefsType /\ LedgerOK(ledger)
  BY TypeParts DEF IInv
<1>2. /\ Awaited.serial = refs.serial + 1 /\ Awaited.key = Wanted
      /\ Awaited.revision = SeenRevision
  BY DEF Awaited
<1>3. Awaited \in WaitType
  <2>1. SeenRevision \in 0..MaxRevisions /\ Wanted \in Shapes /\ 0 \in 0..MaxRevisions
    BY SeenIsHeld, BoundsAreNumbers
  <2>2. refs.serial + 1 \in Nat /\ Len(ledger.txns) + 1 \in Nat
    BY <1>1, LenProperties DEF RefsType, LedgerOK
  <2>3. QED
    BY <2>1, <2>2 DEF Awaited, WaitType
<1>4. waiting' = waiting \cup IF Reaction = "prepare" THEN {Awaited} ELSE {}
  BY DEF Render
<1>5. QED
  BY <1>1, <1>2, <1>3, <1>4

\* A render acknowledges what it shows.
LEMMA RenderAcknowledges ==
    ASSUME IInv, Render
    PROVE  /\ settled' \in 0..store'.revision
           /\ settled <= settled'
           /\ Commits /\ ~Travels => refs.pending.revision <= settled'
           /\ Faithful
<1>1. /\ settled \in 0..store.revision /\ store.revision \in Nat /\ store' = store
      /\ refs.pending.revision \in Nat /\ refs.pending.revision <= store.revision
  <2>1. refs \in RefsType /\ store.revision \in 0..MaxRevisions /\ settled \in 0..store.revision
    BY TypeParts DEF IInv
  <2>2. /\ refs.pending.revision \in 0..MaxRevisions
        /\ refs.observed.revision \in 0..MaxRevisions
    BY <2>1 DEF RefsType
  <2>3. QED
    BY <2>1, <2>2 DEF IInv, Recorded, Render
<1>2. settled' = Larger(settled, Acknowledged)
  BY DEF Render
<1>3. /\ SeenRevision \in 0..MaxRevisions /\ SeenRevision <= store.revision
      /\ Wanted \in held[SeenRevision]
  BY SeenIsHeld
<1>4. Acknowledged \in 0..store.revision
  BY <1>1, <1>3 DEF Acknowledged
<1>5. /\ settled' \in {settled, Acknowledged}
      /\ settled <= settled' /\ Acknowledged <= settled'
  BY <1>1, <1>2, <1>4 DEF Larger
<1>6. ASSUME Commits, ~Travels
      PROVE  refs.pending.revision <= settled'
  BY <1>5, <1>6 DEF Acknowledged, AtRest
<1>7. ASSUME settled' > settled
      PROVE  phase.displayed \in held[settled']
  <2>1. settled' = Acknowledged /\ Acknowledged # 0
    BY <1>1, <1>4, <1>5, <1>7
  <2>2. CASE AtRest
    BY <1>3, <2>1, <2>2 DEF AtRest, Acknowledged
  <2>3. CASE ~AtRest
    BY <2>1, <2>3 DEF Acknowledged, Commits, IInv, Shown
  <2>4. QED
    BY <2>2, <2>3
<1>8. QED
  BY <1>1, <1>4, <1>5, <1>6, <1>7 DEF Faithful

\* The ledger through a render.
LEMMA RenderLedger ==
    ASSUME IInv, Render
    PROVE  LedgerOK(ledger')
<1>1. LedgerOK(ledger)
  BY TypeParts DEF IInv
<1> DEFINE claimed == IF Claims
                      THEN [ledger EXCEPT !.intents[SeenRevision].claimed = TRUE]
                      ELSE ledger
<1>2. LedgerOK(claimed)
  <2>1. CASE Claims
    <3> DEFINE i == [ledger.intents[SeenRevision] EXCEPT !.claimed = TRUE]
    <3>1. SeenRevision \in Revisions
      BY <2>1 DEF Claims, Claimable
    <3>2. ledger.intents[SeenRevision] \in Intents
          /\ ledger.intents[SeenRevision].txn <= Len(ledger.txns)
      BY <1>1, <3>1 DEF LedgerOK
    <3>3. i \in Intents /\ i.txn <= Len(ledger.txns)
      BY <3>2 DEF Intents
    <3>4. claimed = [ledger EXCEPT !.intents = [@ EXCEPT ![SeenRevision] = i]]
      BY <2>1, <1>1, <3>1 DEF LedgerOK, Intents
    <3> HIDE DEF i, claimed
    <3>5. QED
      BY <1>1, <3>1, <3>3, <3>4, IntentType
  <2>2. CASE ~Claims
    BY <1>1, <2>2
  <2>3. QED
    BY <2>1, <2>2
<1>3. AfterReaction \in {claimed, Opened(claimed, 0)}
  BY DEF AfterReaction
<1> HIDE DEF claimed
<1>4. LedgerOK(AfterReaction)
  <2>1. 0 \in 0..MaxRevisions
    BY BoundsAreNumbers
  <2>2. QED
    BY <1>2, <1>3, <2>1, OpenedType
<1>5. LedgerOK(AfterCommit(AfterReaction))
  BY <1>4, CancelledType, FinishedType DEF AfterCommit
<1>6. QED
  BY <1>5 DEF Render

LEMMA RenderStep ==
    ASSUME IInv, Render
    PROVE  IInv' /\ Faithful
<1>1. /\ store' = store /\ held' = held /\ mounted' = mounted /\ spent' = spent
      /\ armed' = (Travels /\ (armed \/ refs.seen = <<>> \/ ~refs.seen[6]))
      /\ stale' \in {"no", "later", "now"}
      /\ stale' # "now" => Reaction = "none"
  BY DEF Render
<1>2. /\ refs \in RefsType /\ waiting \subseteq WaitType /\ phase \in PhaseType
      /\ held \in [0..MaxRevisions -> SUBSET Shapes]
  BY TypeParts DEF IInv
<1>3. /\ refs.serial \in Nat
      /\ refs.pending.revision \in Nat /\ refs.travel.revision \in Nat
      /\ refs.observed.revision \in Nat
      /\ \A w \in waiting : w.serial \in Nat /\ w.revision \in Nat
  BY <1>2 DEF RefsType, WaitType
<1>4. SeenRevision \in Nat /\ store.revision \in Nat
  <2>1. SeenRevision \in 0..MaxRevisions /\ store.revision \in 0..MaxRevisions
    BY SeenIsHeld, TypeParts DEF IInv
  <2>2. QED
    BY <2>1
<1>5. TypeOK'
  <2>1. TypeOK
    BY DEF IInv
  <2>2. armed' \in BOOLEAN
    BY <1>1 DEF Travels
  <2>3. QED
    BY <1>1, <2>1, <2>2, TypeParts, RenderLedger, RenderPhase, RenderParts, RenderWaiting,
       RenderAcknowledges DEF TypeOK, LedgerOK, PhaseType, RefsType, WaitType
<1>6. Recorded'
  <2>1. refs'.travel.revision \in {refs.pending.revision, refs.travel.revision}
        /\ refs'.pending.revision = 0
    BY RenderParts
  <2>2. refs'.travel.revision <= SeenRevision /\ refs'.pending.revision <= SeenRevision
    BY <1>3, <1>4, <2>1, SeenIsHeld DEF IInv, Recorded
  <2>3. ASSUME NEW w \in waiting'
        PROVE  w.revision <= SeenRevision /\ w.key \in held[w.revision]
    <3>1. CASE w \in waiting
      BY <1>3, <1>4, <3>1, SeenIsHeld DEF IInv, Recorded
    <3>2. CASE w \notin waiting
      BY <1>4, <3>2, RenderWaiting, SeenIsHeld
    <3>3. QED
      BY <3>1, <3>2
  <2>4. refs'.observed.shape = Wanted /\ refs'.observed.revision = SeenRevision
    BY RenderParts
  <2>5. Wanted' = Wanted /\ Wanted \in held[store.revision]
    BY <1>1 DEF Wanted, IInv, Recorded
  <2>6. QED
    BY <1>1, <2>2, <2>3, <2>4, <2>5, SeenIsHeld DEF Recorded
<1>7. Turns'
  <2>1. refs'.serial \in {refs.serial, refs.serial + 1} /\ refs'.pending.txn = 0
        /\ refs'.serial = IF Reaction = "prepare" THEN refs.serial + 1 ELSE refs.serial
    BY RenderParts
  <2>2. \A w \in waiting : w.serial <= refs.serial
    BY DEF IInv, Turns
  <2>3. ASSUME NEW w \in waiting'
        PROVE  w.serial <= refs'.serial
    BY <1>3, <2>1, <2>2, RenderWaiting
  <2>4. ASSUME NEW v \in waiting', NEW w \in waiting', v.serial = w.serial
        PROVE  v = w
    <3>1. CASE v \in waiting /\ w \in waiting
      BY <2>4, <3>1 DEF IInv, Turns
    <3>2. CASE v \notin waiting \/ w \notin waiting
      BY <1>3, <2>2, <2>4, <3>2, RenderWaiting
    <3>3. QED
      BY <3>1, <3>2
  <2>5. ASSUME NEW w \in waiting', w.serial = refs'.serial
        PROVE  /\ refs'.travel.revision <= w.revision
               /\ Apart(phase'.from, phase'.displayed) => ~Together(w.key)'
    <3>1. CASE Reaction = "prepare"
      <4>1. ~Travels
        BY <3>1, ReactionFacts
      <4>2. w.key = Wanted /\ w.revision = SeenRevision
        BY <1>3, <2>1, <2>2, <2>5, <3>1, RenderWaiting
      <4>3. refs'.travel.revision = refs.travel.revision
        BY <4>1, RenderParts
      <4>4. refs.travel.revision <= SeenRevision
        BY <1>3, <1>4, SeenIsHeld DEF IInv, Recorded
      <4>5. QED
        BY <3>1, <4>1, <4>2, <4>3, <4>4, RenderPhase
           DEF Travels, SamePlane, Together, Plane
    <3>2. CASE Reaction # "prepare"
      <4>1. w \in waiting /\ w.serial = refs.serial
        BY <2>1, <2>5, <3>2, RenderWaiting
      <4>2. /\ refs.pending.txn = 0 /\ refs.travel.revision <= w.revision
            /\ Apart(phase.from, phase.displayed) => ~Together(w.key)
        BY <4>1 DEF IInv, Turns, Current
      <4>3. refs'.travel.revision = refs.travel.revision
        BY <4>2, RenderParts DEF Commits
      <4>4. Apart(phase'.from, phase'.displayed)
                => /\ phase'.plane = phase.plane /\ phase'.displayed = phase.displayed
                   /\ Apart(phase.from, phase.displayed)
        BY ApartSelf, RenderPhase
      <4>5. QED
        BY <4>2, <4>3, <4>4 DEF Together, Plane
    <3>3. QED
      BY <3>1, <3>2
  <2>6. QED
    BY <2>1, <2>3, <2>4, <2>5 DEF Turns, Current, Apart
<1>8. Shown'
  <2>1. refs'.pending.txn = 0
    BY RenderParts
  <2>2. ASSUME Apart(phase'.from, phase'.displayed)
        PROVE  \/ phase'.displayed \in held[refs'.travel.revision]
               \/ refs'.travel.revision <= settled'
    <3>1. phase'.displayed = phase.displayed /\ Apart(phase.from, phase.displayed)
      BY <2>2, ApartSelf, RenderPhase
    <3>2. settled <= settled' /\ settled \in Nat /\ settled' \in Nat
      <4>1. settled \in 0..store.revision /\ settled' \in 0..store'.revision
        BY TypeParts, RenderAcknowledges DEF IInv
      <4>2. QED
        BY <1>1, <1>4, <4>1, RenderAcknowledges
    <3>3. CASE Commits /\ Travels /\ refs.pending.revision # 0
      BY <3>1, <3>3, RenderParts DEF Commits, IInv, Shown
    <3>4. CASE Commits /\ Travels /\ refs.pending.revision = 0
      <4>1. refs'.travel.revision = refs.travel.revision /\ refs.travel.revision <= 0
        BY <3>4, RenderParts DEF Commits, IInv, Shown
      <4>2. QED
        BY <1>3, <3>2, <4>1
    <3>5. CASE Commits /\ ~Travels
      <4>1. /\ refs'.travel.revision = refs.travel.revision
            /\ refs.travel.revision <= refs.pending.revision
            /\ refs.pending.revision <= settled'
        BY <3>5, RenderParts, RenderAcknowledges DEF Commits, IInv, Shown
      <4>2. QED
        BY <1>3, <3>2, <4>1
    <3>6. CASE ~Commits
      <4>1. /\ refs'.travel.revision = refs.travel.revision
            /\ \/ phase.displayed \in held[refs.travel.revision]
               \/ refs.travel.revision <= settled
        BY <3>1, <3>6, RenderParts DEF Commits, IInv, Shown
      <4>2. QED
        BY <1>3, <3>1, <3>2, <4>1
    <3>7. QED
      BY <3>3, <3>4, <3>5, <3>6
  <2>3. ASSUME armed', stale' # "now"
        PROVE  Apart(phase'.from, phase'.displayed) /\ SamePlane'
    <3>1. Travels /\ Reaction = "none"
      BY <1>1, <2>3
    <3>2. phase' = phase
      BY <3>1 DEF Render
    <3>3. QED
      BY <1>1, <3>1, <3>2 DEF Travels, SamePlane, Together, Wanted, Plane
  <2>4. QED
    BY <1>1, <2>1, <2>2, <2>3 DEF Shown, Apart
<1>9. QED
  BY <1>5, <1>6, <1>7, <1>8, RenderAcknowledges DEF IInv

\* A wait that ends without anything taken: the screen and what goes with it stay.
LEMMA WaitEnds ==
    ASSUME IInv, LedgerOK(ledger'), stale # "now", stale' \in {"no", "later"},
           waiting' \subseteq waiting, phase' \in PhaseType, refs' \in RefsType,
           refs'.serial = refs.serial, refs'.pending = refs.pending,
           refs'.travel = refs.travel, refs'.observed = refs.observed,
           phase'.from = phase.from, phase'.displayed = phase.displayed,
           phase'.plane = phase.plane,
           spent' \in [others : 0..MaxOthers, faults : 0..MaxFaults],
           spent'.others = spent.others,
           UNCHANGED <<store, settled, armed, mounted, held>>
    PROVE  IInv' /\ Faithful
<1> USE DEF IInv
<1>1. TypeOK'
  BY TypeParts DEF TypeOK, LedgerOK, PhaseType, RefsType, WaitType
<1>2. Recorded'
  BY DEF Recorded, Wanted
<1>3. Turns'
  BY DEF Turns, Current, Together, Plane, Apart
<1>4. Shown'
  BY DEF Shown, SamePlane, Together, Plane, Wanted, Apart
<1>5. Faithful
  BY TypeParts DEF Faithful
<1>6. QED
  BY <1>1, <1>2, <1>3, <1>4, <1>5

\* The hook's catch ends one wait.
LEMMA RefusedStep ==
    ASSUME IInv, NEW w \in waiting, NEW l, LedgerOK(l), Refused(w, l), stale # "now",
           spent' \in [others : 0..MaxOthers, faults : 0..MaxFaults],
           spent'.others = spent.others,
           UNCHANGED <<store, settled, armed, mounted, held>>
    PROVE  IInv' /\ Faithful
<1>1. phase \in PhaseType /\ refs \in RefsType /\ waiting \subseteq WaitType
      /\ stale \in {"no", "later", "now"}
  BY TypeParts DEF IInv
<1>2. w.key \in Shapes
  BY <1>1 DEF WaitType
<1>3. LedgerOK(ledger')
  BY FinishedType DEF Refused
<1>4. /\ phase' \in PhaseType
      /\ phase'.from = phase.from /\ phase'.displayed = phase.displayed
      /\ phase'.plane = phase.plane
  BY <1>1 DEF Refused, PhaseType
<1>5. /\ refs' \in RefsType /\ refs'.serial = refs.serial
      /\ refs'.pending = refs.pending /\ refs'.travel = refs.travel
      /\ refs'.observed = refs.observed
  BY <1>1, <1>2 DEF Refused, RefsType
<1>6. waiting' \subseteq waiting /\ stale' \in {"no", "later"}
  BY <1>1 DEF Refused
<1>7. QED
  BY <1>3, <1>4, <1>5, <1>6, WaitEnds

\* The preparation that is taken is the last one and of the newest solution: nothing
\* else is about to be committed, and no journey is on its way.
LEMMA AnswerTakenStep ==
    ASSUME IInv, NEW t \in DOMAIN ledger.txns, NEW w \in waiting, AnswerTaken(t, w),
           stale # "now",
           UNCHANGED <<store, settled, armed, mounted, held, spent>>
    PROVE  IInv' /\ Faithful
<1>1. /\ phase \in PhaseType /\ refs \in RefsType /\ waiting \subseteq WaitType
      /\ LedgerOK(ledger) /\ store.tabs \in Nat /\ settled \in Nat
      /\ held \in [0..MaxRevisions -> SUBSET Shapes]
  <2>1. /\ store \in [shape : Shapes, tabs : 0..MaxOthers, revision : 0..MaxRevisions]
        /\ settled \in 0..store.revision
    BY TypeParts DEF IInv
  <2>2. QED
    BY <2>1, TypeParts DEF IInv
<1>2. /\ w.serial = refs.serial /\ w.key = Wanted
      /\ w.revision \in 0..MaxRevisions /\ w.intent \in 0..MaxRevisions /\ w.key \in Shapes
  BY <1>1 DEF AnswerTaken, Outdated, WaitType
<1>3. t \in Nat /\ t # 0
  BY <1>1, LenProperties DEF LedgerOK
<1>4. /\ refs.pending.txn = 0 /\ refs.travel.revision <= w.revision
      /\ Apart(phase.from, phase.displayed) => ~Together(w.key)
  BY <1>2 DEF IInv, Turns, Current
<1>5. ~armed
  BY <1>2, <1>4 DEF IInv, Shown, SamePlane
<1>6. /\ refs' = [refs EXCEPT !.key = NoShape,
                    !.pending = [txn |-> t, revision |-> w.revision, intent |-> w.intent]]
      /\ phase' = [from |-> phase.displayed, displayed |-> w.key, plane |-> Plane(Wanted),
                   tabs |-> store.tabs, preparing |-> FALSE]
      /\ waiting' = waiting \ {w} /\ stale' = "later"
  BY DEF AnswerTaken
<1>7. /\ refs' \in RefsType /\ refs'.serial = refs.serial
      /\ refs'.pending = [txn |-> t, revision |-> w.revision, intent |-> w.intent]
      /\ refs'.travel = refs.travel /\ refs'.observed = refs.observed
  BY <1>1, <1>2, <1>3, <1>6 DEF RefsType
<1>8. phase' \in PhaseType /\ phase'.displayed = w.key /\ phase'.plane = Plane(Wanted)
  <2>1. Plane(Wanted) \in {PlaneOf[f] : f \in Forms}
    BY <1>2, PlaneType
  <2>2. QED
    BY <1>1, <1>2, <1>6, <2>1 DEF PhaseType
<1>9. LedgerOK(ledger')
  <2>1. LedgerOK(InPhase(ledger, t, "prepared"))
    BY <1>1, InPhaseType DEF TxnPhases
  <2>2. QED
    BY <2>1, CancelledType, AbandonedType DEF AnswerTaken
<1>10. TypeOK'
  BY <1>1, <1>6, <1>7, <1>8, <1>9, TypeParts
     DEF IInv, TypeOK, LedgerOK, PhaseType, RefsType, WaitType
<1>11. w.revision <= refs.observed.revision /\ w.key \in held[w.revision]
  BY DEF IInv, Recorded
<1>12. Recorded'
  BY <1>6, <1>7, <1>11 DEF IInv, Recorded, Wanted
<1>13. Turns'
  <2>1. ASSUME NEW v \in waiting'
        PROVE  v \in waiting /\ v.serial # refs.serial
    BY <1>2, <1>6 DEF IInv, Turns
  <2>2. QED
    BY <1>6, <1>7, <2>1 DEF IInv, Turns, Current
<1>14. Shown'
  BY <1>3, <1>4, <1>5, <1>7, <1>8, <1>11 DEF Shown
<1>15. Faithful
  BY <1>1 DEF Faithful
<1>16. QED
  BY <1>10, <1>12, <1>13, <1>14, <1>15 DEF IInv

\* The answer of a preparation.
LEMMA AnswerStep ==
    ASSUME IInv, NEW t \in DOMAIN ledger.txns, Answer(t)
    PROVE  IInv' /\ Faithful
<1>1. /\ stale # "now" /\ stale \in {"no", "later"}
      /\ UNCHANGED <<store, settled, armed, mounted, held>>
  BY TypeParts DEF Answer, IInv
<1>2. /\ phase \in PhaseType /\ refs \in RefsType
      /\ LedgerOK(ledger)
      /\ spent \in [others : 0..MaxOthers, faults : 0..MaxFaults]
  BY TypeParts DEF IInv
<1>3. /\ spent' \in [others : 0..MaxOthers, faults : 0..MaxFaults]
      /\ spent'.others = spent.others
  BY <1>2, BoundsAreNumbers DEF Answer, Staged, StagingFails
<1>4. ASSUME NEW answer \in {"prepared", "failed"}
      PROVE  LedgerOK(InPhase(ledger, t, answer))
  BY <1>2, InPhaseType DEF TxnPhases
<1>5. ASSUME NEW answer \in {"prepared", "failed"}, AnswerUnclaimed(t, answer)
      PROVE  IInv' /\ Faithful
  <2>1. LedgerOK(ledger') /\ UNCHANGED <<phase, refs, waiting, stale>>
    BY <1>4, <1>5, AbandonedType DEF AnswerUnclaimed
  <2>2. QED
    BY <1>1, <1>2, <1>3, <2>1, WaitEnds
<1>6. ASSUME NEW w \in waiting, AnswerOutdated(t, w)
      PROVE  IInv' /\ Faithful
  <2>1. LedgerOK(ledger')
    BY <1>4, <1>6, CancelledType, FinishedType, AbandonedType DEF AnswerOutdated
  <2>2. /\ refs' \in RefsType /\ refs'.serial = refs.serial
        /\ refs'.pending = refs.pending /\ refs'.travel = refs.travel
        /\ refs'.observed = refs.observed
    BY <1>2, <1>6 DEF AnswerOutdated, RefsType
  <2>3. waiting' \subseteq waiting /\ UNCHANGED <<phase, stale>>
    BY <1>6 DEF AnswerOutdated
  <2>4. QED
    BY <1>1, <1>2, <1>3, <2>1, <2>2, <2>3, WaitEnds
<1>7. ASSUME NEW w \in waiting, AnswerRefused(t, w)
      PROVE  IInv' /\ Faithful
  <2>1. PICK l \in {InPhase(ledger, t, "failed"), Abandoned(InPhase(ledger, t, "failed"), t)} :
            Refused(w, l)
    BY <1>7 DEF AnswerRefused
  <2>2. LedgerOK(l)
    BY <1>4, <2>1, AbandonedType
  <2>3. QED
    BY <1>1, <1>3, <2>1, <2>2, RefusedStep
<1>8. ASSUME NEW w \in waiting, AnswerTaken(t, w), UNCHANGED spent
      PROVE  IInv' /\ Faithful
  BY <1>1, <1>8, AnswerTakenStep
<1>9. QED
  BY <1>5, <1>6, <1>7, <1>8 DEF Answer, Staged, StagingFails

LEMMA ReplacedStep ==
    ASSUME IInv, NEW w \in waiting, Replaced(w)
    PROVE  IInv' /\ Faithful
<1>1. LedgerOK(ledger) /\ spent \in [others : 0..MaxOthers, faults : 0..MaxFaults]
  BY TypeParts DEF IInv
<1>2. QED
  BY <1>1, RefusedStep DEF Replaced

\* The types after a step that leaves the state and its history.
LEMMA TypesAfter ==
    ASSUME TypeOK, UNCHANGED <<store, waiting, held, spent>>,
           settled' \in 0..store.revision, LedgerOK(ledger'), phase' \in PhaseType,
           refs' \in RefsType, armed' \in BOOLEAN, mounted' \in BOOLEAN,
           stale' \in {"no", "later", "now"}
    PROVE  TypeOK'
  BY DEF TypeOK, LedgerOK, PhaseType, RefsType

\* The journey's end shows what it went to.
LEMMA LandStep ==
    ASSUME IInv, Land
    PROVE  IInv' /\ Faithful
<1>1. /\ phase \in PhaseType /\ refs \in RefsType /\ waiting \subseteq WaitType
      /\ LedgerOK(ledger) /\ store.tabs \in Nat /\ Wanted \in Shapes
      /\ settled \in 0..store.revision /\ store.revision \in Nat
      /\ 0 \in 0..MaxRevisions
  <2>1. store \in [shape : Shapes, tabs : 0..MaxOthers, revision : 0..MaxRevisions]
    BY TypeParts DEF IInv
  <2>2. QED
    BY <2>1, TypeParts, SeenIsHeld, BoundsAreNumbers DEF IInv
<1>2. /\ refs.travel.revision \in Nat /\ refs.observed.revision \in Nat
      /\ \A w \in waiting : w.revision \in Nat
  BY <1>1 DEF RefsType, WaitType
<1>3. armed /\ stale # "now" /\ ~armed'
      /\ UNCHANGED <<store, waiting, mounted, held, spent>>
  BY DEF Land
<1>4. /\ refs' \in RefsType /\ refs'.serial = refs.serial
      /\ refs'.pending = refs.pending /\ refs'.observed = refs.observed
      /\ refs'.travel.revision = 0
  BY <1>1 DEF Land, RefsType
<1>5. /\ phase' \in PhaseType
      /\ phase'.from = phase.displayed /\ phase'.displayed = phase.displayed
  <2>1. Plane(Wanted) \in {PlaneOf[f] : f \in Forms}
    BY <1>1, PlaneType
  <2>2. QED
    BY <1>1, <2>1 DEF Land, PhaseType
<1>6. refs.pending.txn = 0 /\ Apart(phase.from, phase.displayed)
  BY <1>3 DEF IInv, Shown
<1>7. /\ settled' \in 0..store.revision /\ settled' \in Nat /\ settled <= settled'
      /\ settled' \in {settled, refs.travel.revision}
  BY <1>1, <1>2 DEF Land, Larger, IInv, Recorded
<1>8. LedgerOK(ledger')
  BY <1>1, FinishedType DEF Land
<1>9. TypeOK'
  <2>1. mounted' \in BOOLEAN /\ armed' \in BOOLEAN /\ stale' = "later"
    BY <1>3, TypeParts DEF Land, IInv
  <2>2. QED
    BY <1>3, <1>4, <1>5, <1>7, <1>8, <2>1, TypesAfter DEF IInv
<1>10. Recorded'
  BY <1>2, <1>3, <1>4 DEF IInv, Recorded, Wanted
<1>11. ~Apart(phase'.from, phase'.displayed)
  BY <1>5, ApartSelf
<1>12. Turns'
  BY <1>2, <1>3, <1>4, <1>6, <1>11 DEF IInv, Turns, Current, Apart
<1>13. Shown'
  BY <1>3, <1>4, <1>6, <1>11 DEF Shown, Apart
<1>14. Faithful
  <2> SUFFICES ASSUME settled' > settled
               PROVE  phase.displayed \in held[settled']
    BY DEF Faithful
  <2>1. settled' = refs.travel.revision /\ ~(refs.travel.revision <= settled)
    BY <1>1, <1>2, <1>7
  <2>2. QED
    BY <1>6, <2>1 DEF IInv, Shown
<1>15. QED
  BY <1>9, <1>10, <1>12, <1>13, <1>14 DEF IInv

\* The plane goes and leaves nothing to commit and no journey.
LEMMA UnmountStep ==
    ASSUME IInv, Unmount
    PROVE  IInv' /\ Faithful
<1>1. /\ refs \in RefsType /\ waiting \subseteq WaitType /\ LedgerOK(ledger)
      /\ settled \in Nat /\ 0 \in 0..MaxRevisions
  <2>1. /\ store \in [shape : Shapes, tabs : 0..MaxOthers, revision : 0..MaxRevisions]
        /\ settled \in 0..store.revision
    BY TypeParts DEF IInv
  <2>2. QED
    BY <2>1, TypeParts, BoundsAreNumbers DEF IInv
<1>2. /\ mounted' = FALSE /\ armed' = FALSE /\ stale' = "no"
      /\ UNCHANGED <<store, settled, phase, waiting, held, spent>>
  BY DEF Unmount
<1>3. /\ refs' \in RefsType /\ refs'.serial = refs.serial /\ refs'.observed = refs.observed
      /\ refs'.pending.txn = 0 /\ refs'.pending.revision = 0 /\ refs'.travel.revision = 0
  BY <1>1 DEF Unmount, RefsType
<1>4. LedgerOK(ledger')
  <2> DEFINE over == [ledger EXCEPT !.intents = [r \in Revisions |->
                 IF @[r].at \in {"active", "queued"} THEN [@[r] EXCEPT !.at = "over"] ELSE @[r]]]
             gone == {ledger.intents[r].txn : r \in Holds(ledger, "active")}
                         \cup {refs.pending.txn}
             txns == [t \in DOMAIN over.txns |->
                 IF t \in gone /\ over.txns[t].phase = "prepared"
                 THEN [over.txns[t] EXCEPT !.phase = "cancelled"] ELSE over.txns[t]]
  <2>1. LedgerOK(over)
    BY <1>1 DEF LedgerOK, Intents
  <2>2. ledger' = [over EXCEPT !.txns = txns]
    BY DEF Unmount
  <2> HIDE DEF over, gone
  <2>3. Len(over.txns) \in Nat /\ over.txns \in [1..Len(over.txns) -> Txns]
    BY <2>1, LenProperties DEF LedgerOK
  <2>4. txns \in [1..Len(over.txns) -> Txns]
    BY <2>3 DEF Txns, TxnPhases
  <2> HIDE DEF txns
  <2>5. txns \in Seq(Txns) /\ Len(txns) = Len(over.txns)
    BY <2>3, <2>4, SeqDef, LenProperties
  <2>6. QED
    BY <2>1, <2>2, <2>5 DEF LedgerOK
<1>5. TypeOK'
  <2>1. phase' \in PhaseType /\ settled' \in 0..store.revision
    BY <1>2, TypeParts DEF IInv
  <2>2. QED
    BY <1>2, <1>3, <1>4, <2>1, TypesAfter DEF IInv
<1>6. /\ refs.observed.revision \in Nat
      /\ \A w \in waiting : w.revision \in Nat
  BY <1>1 DEF RefsType, WaitType
<1>7. Recorded'
  BY <1>2, <1>3, <1>6 DEF IInv, Recorded, Wanted
<1>8. Turns'
  BY <1>2, <1>3, <1>6 DEF IInv, Turns, Current, Together, Plane, Apart
<1>9. Shown'
  BY <1>1, <1>2, <1>3 DEF Shown
<1>10. QED
  BY <1>1, <1>2, <1>5, <1>7, <1>8, <1>9 DEF IInv, Faithful

\* Every step keeps the invariant and acknowledges only what is shown.
LEMMA InvStep == IInv /\ [Next]_vars => IInv' /\ Faithful
<1> SUFFICES ASSUME IInv, [Next]_vars
             PROVE  IInv' /\ Faithful
  OBVIOUS
<1>1. ASSUME NEW form \in Forms, Publish(form)
      PROVE  IInv' /\ Faithful
  BY <1>1, PublishStep
<1>2. ASSUME NEW form \in Forms, SwitchSpace(form)
      PROVE  IInv' /\ Faithful
  BY <1>2, OtherStep, StartIsAForm
<1>3. ASSUME NEW box \in Boxes, Reshape(box)
      PROVE  IInv' /\ Faithful
  BY <1>3, OtherStep, StartIsAForm
<1>4. ASSUME NEW focus \in Foci, NEW another \in {0, 1}, Activate(focus, another)
      PROVE  IInv' /\ Faithful
  BY <1>4, OtherStep, StartIsAForm
<1>5. CASE Render
  BY <1>5, RenderStep
<1>6. ASSUME NEW t \in DOMAIN ledger.txns, Answer(t)
      PROVE  IInv' /\ Faithful
  BY <1>6, AnswerStep
<1>7. ASSUME NEW w \in waiting, Replaced(w)
      PROVE  IInv' /\ Faithful
  BY <1>7, ReplacedStep
<1>8. CASE Land
  BY <1>8, LandStep
<1>9. CASE Unmount
  BY <1>9, UnmountStep
<1>10. CASE UNCHANGED vars
  <2>1. TypeOK' /\ Recorded'
    BY <1>10 DEF vars, IInv, TypeOK, Recorded, Wanted
  <2>2. Turns' /\ Shown'
    BY <1>10 DEF vars, IInv, Turns, Current, Shown, SamePlane, Together, Wanted, Plane, Apart
  <2>3. Faithful
    BY <1>10, TypeParts DEF vars, IInv, Faithful
  <2>4. QED
    BY <2>1, <2>2, <2>3 DEF IInv
<1>11. QED
  BY <1>1, <1>2, <1>3, <1>4, <1>5, <1>6, <1>7, <1>8, <1>9, <1>10 DEF Next

\* In every state, with whatever changes, sizes, refusals and unmounts.
THEOREM Invariance == Spec => []IInv
<1>1. IInv /\ [Next]_vars => IInv'
  BY InvStep
<1>2. QED
  BY InitInv, <1>1, PTL DEF Spec

\* The state, the queue, the journal, the hook's refs and its phase stay of their types.
THEOREM TypeCorrect == Spec => []TypeOK
<1>1. IInv => TypeOK
  BY DEF IInv
<1>2. QED
  BY Invariance, <1>1, PTL

\* At the moment a revision is acknowledged, by a render at rest, a commit without a
\* journey or a landing, what stands on screen is an arrangement the state held at
\* that revision (layoutSettlement.ts, useArrangementPhase.ts), also when the state
\* changes during a journey or a size returns while another is being prepared.
THEOREM WhatIsAcknowledgedIsShown == Spec => AcknowledgedIsShown
<1>1. IInv /\ [Next]_vars => (settled' > settled => phase.displayed \in held[settled'])
  BY InvStep DEF Faithful
<1>2. QED
  BY Invariance, <1>1, PTL DEF Spec, AcknowledgedIsShown
=============================================================================
