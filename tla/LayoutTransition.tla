------------------------ MODULE LayoutTransition ------------------------
(***************************************************************************)
(* How a change of a workspace's arrangement reaches the screen: the store *)
(* opens a revision and publishes an intent before it publishes the state  *)
(* (sessions.ts), the intent's queue starts the adapter's preparation      *)
(* (layoutTransitionIntent.ts, layoutTransitionHost.ts), the render claims *)
(* it, waits for it, commits it and travels (useArrangementPhase.ts), the  *)
(* journal keeps each transaction's phase (layoutTransitionJournal.ts) and *)
(* the revision is acknowledged (layoutSettlement.ts).                     *)
(*                                                                         *)
(* One workspace in one window.  The adapter is the one the repository     *)
(* has: it always glides, starts nothing shared and its commit is done     *)
(* before the next event, so a commit is part of the render that issues    *)
(* it.  A state publish, and a setPhase in a layout effect, is rendered    *)
(* before any other event (React renders both synchronously); a setPhase   *)
(* in a timer or after an await is rendered later.                         *)
(***************************************************************************)
EXTENDS Integers, FiniteSets, Sequences

CONSTANTS
    Forms,          \* what the store's mutations make of the space
    Start,          \* the form on screen when the plane mounts
    PlaneOf,        \* [Forms -> the plane (the space and its lines) of a form]
    Moves,          \* the pairs of forms that differ by a travel
    NoShape,
    Maximized,      \* [Forms -> the pane maximized in a form, or none]
    MaxRevisions,   \* bounds the changes the store publishes
    Boxes,          \* the sizes the plane is measured at; 0 is one
    Foci,           \* the focused panes: what a solution holds and its geometry
                    \* does not show; 0 is one
    MaxOthers,      \* bounds the changes it does not publish: the plane's size,
                    \* the active space, a tab, the focus
    MaxFaults,      \* bounds the preparations the adapter refuses
    Interrupts,     \* whether the solution changes while a journey runs, and the
                    \* active space while anything is under way
    Returns         \* whether a size or a focus may return to the one on screen
                    \* while another solution is being prepared

ASSUME StartIsAForm == Start \in Forms /\ 0 \in Boxes /\ 0 \in Foci
ASSUME PlanesAreGiven == DOMAIN PlaneOf = Forms /\ DOMAIN Maximized = Forms
ASSUME MovesHaveTwoEnds == \A m \in Moves : m[1] # m[2]
ASSUME BoundsAreNumbers == MaxRevisions \in Nat /\ MaxOthers \in Nat /\ MaxFaults \in Nat

VARIABLES
    store,      \* what the state holds: the arrangement, the tabs, the revision
    settled,    \* the newest revision acknowledged
    ledger,     \* the intents by revision and the transactions of the journal
    phase,      \* the hook's state: what is on screen
    refs,       \* the hook's refs
    waiting,    \* the preparations the hook waits for
    armed,      \* whether the journey's timer runs
    stale,      \* whether a render is due: no, later, or now, before any event
    mounted,
    held,       \* history: the arrangements the state held at each revision
    spent       \* how much of the bounds is used

vars == <<store, settled, ledger, phase, refs, waiting, armed, stale, mounted, held, spent>>

Revisions == 1..MaxRevisions

(* An arrangement is solved from a form in the plane's box, and tells the  *)
(* focus apart: its key has both.  Panes travel when they only change      *)
(* places.                                                                 *)
Shapes == [form : Forms, box : Boxes, focus : Foci]
First == [form |-> Start, box |-> 0, focus |-> 0]
Wanted == store.shape
Plane(s) == PlaneOf[s.form]
SameGeometry(s, t) == s.form = t.form /\ s.box = t.box
Apart(s, t) == s.box = t.box /\ <<s.form, t.form>> \in Moves

-----------------------------------------------------------------------------
(* The queue of intents and the journal: functions of a ledger.            *)

Holds(l, at) == {r \in Revisions : l.intents[r].at = at}
Phase(l, t) == l.txns[t].phase
InPhase(l, t, p) == [l EXCEPT !.txns[t].phase = p]

(* journalPreparingLayoutTransition, on behalf of an intent or of none.    *)
Opened(l, r) == [l EXCEPT !.txns = Append(@, [phase |-> "preparing", intent |-> r])]

(* start: the registered host prepares, on the caller's stack.             *)
Started(l, r) ==
    [Opened(l, r) EXCEPT !.intents[r].at = "active", !.intents[r].txn = Len(l.txns) + 1]

PromotedNever(l) == l

Promoted(l) ==
    IF Holds(l, "queued") = {} THEN l ELSE Started(l, CHOOSE r \in Holds(l, "queued") : TRUE)

Finished(l, r) ==
    IF r \in Holds(l, "active")
    THEN Promoted([l EXCEPT !.intents[r].at = "over"])
    ELSE l

(* cancel of a journaled transition: closes it unless it is closed.        *)
Cancelled(l, t) == IF Phase(l, t) = "prepared" THEN InPhase(l, t, "cancelled") ELSE l

Committed(l, t) == IF Phase(l, t) = "prepared" THEN InPhase(l, t, "committed") ELSE l

(* A newer intent replaces the queued one and abandons an active one whose *)
(* preparation is not there yet; the queue moves on when it answers.       *)
IsPrepared(l, r) == Phase(l, l.intents[r].txn) \notin {"preparing", "failed"}

Queued(l, r) ==
    LET replaced == [l EXCEPT !.intents = [q \in Revisions |->
            IF @[q].at = "queued" THEN [@[q] EXCEPT !.at = "over"] ELSE @[q]]]
        added == [replaced EXCEPT !.intents[r].at = "queued"]
        active == CHOOSE a \in Holds(l, "active") : TRUE
        abandoned == [added EXCEPT !.intents[active].superseded = TRUE]
    IN  IF IsPrepared(l, active) THEN added
        ELSE IF Phase(l, l.intents[active].txn) = "failed" THEN Finished(abandoned, active)
        ELSE abandoned

Published(l, r) == IF Holds(l, "active") = {} THEN Started(l, r) ELSE Queued(l, r)

Claimable(l, r) ==
    /\ r \in Revisions
    /\ l.intents[r].at \in {"active", "queued"}
    /\ ~l.intents[r].claimed
    /\ ~l.intents[r].superseded

Larger(a, b) == IF a > b THEN a ELSE b

-----------------------------------------------------------------------------

NoIntent == [at |-> "none", txn |-> 0, claimed |-> FALSE, superseded |-> FALSE]

Init ==
    /\ store = [shape |-> First, tabs |-> 0, revision |-> 0]
    /\ settled = 0
    /\ ledger = [intents |-> [r \in Revisions |-> NoIntent], txns |-> <<>>]
    /\ phase = [from |-> First, displayed |-> First, plane |-> Plane(First),
                tabs |-> 0, preparing |-> FALSE]
    /\ refs = [serial |-> 0, key |-> NoShape, failed |-> NoShape,
               pending |-> [txn |-> 0, revision |-> 0, intent |-> 0],
               travel |-> [revision |-> 0, intent |-> 0],
               observed |-> [shape |-> First, tabs |-> 0, revision |-> 0],
               fence |-> FALSE,
               seen |-> <<>>]
    /\ waiting = {}
    /\ armed = FALSE
    /\ stale = "now"
    /\ mounted = TRUE
    /\ held = [r \in 0..MaxRevisions |-> IF r = 0 THEN {First} ELSE {}]
    /\ spent = [others |-> 0, faults |-> 0]

-----------------------------------------------------------------------------
(* The state.                                                              *)

Changed(to) ==
    /\ store' = to
    /\ held' = [held EXCEPT ![to.revision] = @ \cup {to.shape}]
    /\ stale' = "now"
    /\ UNCHANGED <<settled, phase, refs, waiting, armed, mounted>>

(* Unless Returns, the solution on screen is not wanted again while        *)
(* another is being prepared.                                              *)
Leaves(shape) == Returns \/ ~phase.preparing \/ shape # phase.displayed

(* A journey whose transaction is prepared and not landed yet.             *)
UnderWay == refs.pending.txn # 0 \/ Apart(phase.from, phase.displayed)

(* openProjectArrangementTransition inside the mutation's set, when the    *)
(* geometry changes: the revision, then the intent, then the state.        *)
Publish(form) ==
    /\ mounted /\ stale # "now"
    /\ store.revision < MaxRevisions
    /\ form # Wanted.form
    /\ Interrupts \/ ~UnderWay
    /\ Changed([store EXCEPT !.shape.form = form, !.revision = @ + 1])
    /\ ledger' = Published(ledger, store.revision + 1)
    /\ UNCHANGED spent

(* setActiveContent: another space is active, and no revision is opened.   *)
SwitchSpace(form) ==
    /\ mounted /\ stale # "now"
    /\ spent.others < MaxOthers
    /\ PlaneOf[form] # Plane(Wanted)
    /\ Interrupts \/ (~UnderWay /\ waiting = {})
    /\ Changed([store EXCEPT !.shape.form = form])
    /\ spent' = [spent EXCEPT !.others = @ + 1]
    /\ UNCHANGED ledger

(* The plane's box is measured anew: another solution, and no revision.    *)
Reshape(box) ==
    /\ mounted /\ stale # "now"
    /\ spent.others < MaxOthers
    /\ box # Wanted.box
    /\ Leaves([Wanted EXCEPT !.box = box])
    /\ Changed([store EXCEPT !.shape.box = box])
    /\ spent' = [spent EXCEPT !.others = @ + 1]
    /\ UNCHANGED ledger

(* setActiveView, setActiveGroup where no pane moves: another tab, so      *)
(* other content, another pane in focus, or both; and no revision.         *)
Activate(focus, another) ==
    /\ mounted /\ stale # "now"
    /\ spent.others < MaxOthers
    /\ focus # Wanted.focus \/ another = 1
    /\ Interrupts \/ ~UnderWay \/ focus = Wanted.focus
    /\ focus = Wanted.focus \/ Leaves([Wanted EXCEPT !.focus = focus])
    /\ Changed([store EXCEPT !.shape.focus = focus, !.tabs = @ + another])
    /\ spent' = [spent EXCEPT !.others = @ + 1]
    /\ UNCHANGED ledger

-----------------------------------------------------------------------------
(* The render: its body, then its layout effects in their order.           *)

(* Entering or leaving a maximized pane counts as one plane.               *)
Together(s) ==
    phase.plane = Plane(s) \/ Maximized[phase.displayed.form] # Maximized[s.form]

SamePlane == Together(Wanted)
Travels == SamePlane /\ Apart(phase.from, phase.displayed)

SameIdentity == refs.observed.shape = Wanted /\ refs.observed.tabs = store.tabs
Fenced == refs.fence /\ SameIdentity
SeenRevision == IF Fenced THEN refs.observed.revision ELSE store.revision

(* A failed target is held no longer than it is the target.                *)
HeldKey == IF ~phase.preparing /\ refs.key # Wanted THEN NoShape ELSE refs.key

Seen == <<Wanted, phase.displayed, store.tabs, phase.tabs, SamePlane, Travels, SeenRevision>>

(* adopt: the newest solution at once, without a journey.                  *)
Adopted == [from |-> Wanted, displayed |-> Wanted, plane |-> Plane(Wanted),
            tabs |-> store.tabs, preparing |-> FALSE]

(* What the effect on a new solution does, in the order of its returns.    *)
Claims == Seen # refs.seen /\ Claimable(ledger, SeenRevision)

Reaction ==
    IF Seen = refs.seen THEN "none"
    ELSE IF ~SamePlane /\ ~Claims THEN "adopt"
    ELSE IF Travels /\ phase.tabs # store.tabs /\ Wanted = phase.displayed THEN "content"
    ELSE IF Wanted = phase.displayed /\ phase.tabs = store.tabs /\ ~Claims THEN "none"
    ELSE IF SameGeometry(Wanted, phase.displayed) /\ ~Claims THEN "adopt"
    ELSE IF Travels THEN "none"
    ELSE IF HeldKey = Wanted THEN "none"
    ELSE "prepare"

(* The preparation it opens: the claimed intent's, or one of its own.      *)
AfterReaction ==
    LET claimed == IF Claims
                   THEN [ledger EXCEPT !.intents[SeenRevision].claimed = TRUE]
                   ELSE ledger
    IN  IF Reaction = "prepare" /\ ~Claims THEN Opened(claimed, 0) ELSE claimed

Awaited ==
    [serial |-> refs.serial + 1, key |-> Wanted, revision |-> SeenRevision,
     intent |-> IF Claims THEN SeenRevision ELSE 0,
     txn |-> IF Claims THEN 0 ELSE Len(ledger.txns) + 1]

(* The pending transaction is committed right after the target is in the   *)
(* DOM.  Without a journey it is over; with one, landing closes it.        *)
Commits == refs.pending.txn # 0

AfterCommit(l) ==
    LET done == Committed(l, refs.pending.txn)
    IN  IF ~Commits THEN l
        ELSE IF Travels THEN done
        ELSE Finished(done, refs.pending.intent)

(* The acknowledgement every render ends with.                             *)
AtRestAnywhere == ~phase.preparing /\ ~Travels /\ ~Commits

AtRest == ~phase.preparing /\ ~Travels /\ ~Commits /\ Wanted = phase.displayed

Acknowledged ==
    IF AtRest THEN SeenRevision
    ELSE IF Commits /\ ~Travels THEN refs.pending.revision
    ELSE 0

Render ==
    /\ mounted /\ stale # "no"
    /\ phase' = CASE Reaction = "adopt"   -> Adopted
                  [] Reaction = "content" -> [phase EXCEPT !.tabs = store.tabs]
                  [] Reaction = "prepare" -> [phase EXCEPT !.preparing = TRUE]
                  [] Reaction = "none"    -> phase
    /\ ledger' = AfterCommit(AfterReaction)
    /\ waiting' = waiting \cup IF Reaction = "prepare" THEN {Awaited} ELSE {}
    /\ refs' = [refs EXCEPT
            !.serial = IF Reaction = "prepare" THEN @ + 1 ELSE @,
            !.key = IF Reaction = "prepare" THEN Wanted ELSE HeldKey,
            !.failed = IF Reaction = "prepare" THEN NoShape ELSE @,
            !.observed = [shape |-> Wanted, tabs |-> store.tabs, revision |-> SeenRevision],
            !.fence = IF Reaction = "prepare" THEN SeenRevision > 0 ELSE Fenced,
            !.seen = Seen,
            !.pending = [txn |-> 0, revision |-> 0, intent |-> 0],
            !.travel = IF Commits /\ Travels
                       THEN [revision |-> IF refs.pending.revision # 0
                                          THEN refs.pending.revision ELSE @.revision,
                             intent |-> IF refs.pending.intent # 0
                                        THEN refs.pending.intent ELSE @.intent]
                       ELSE @]
    /\ settled' = Larger(settled, Acknowledged)
    /\ armed' = (Travels /\ (armed \/ refs.seen = <<>> \/ ~refs.seen[6]))
    /\ stale' = IF Reaction # "none" THEN "now" ELSE IF Commits THEN "later" ELSE "no"
    /\ UNCHANGED <<store, mounted, held, spent>>

-----------------------------------------------------------------------------
(* The answer of a preparation, and what waited for it.                    *)

IntentOf(t) == ledger.txns[t].intent
Waiters(t) == {w \in waiting : IF IntentOf(t) = 0 THEN w.txn = t ELSE w.intent = IntentOf(t)}

(* The queue's own wait, after the hook's: an abandoned intent is          *)
(* cancelled and the queue moves on; so is one whose owner is gone.        *)
AbandonedWhileOwned(l, t) ==
    IF IntentOf(t) # 0 /\ l.intents[IntentOf(t)].superseded
    THEN Finished(Cancelled(l, t), IntentOf(t))
    ELSE l

Abandoned(l, t) ==
    LET r == IntentOf(t)
    IN  IF r = 0 THEN l
        ELSE IF ~mounted THEN Cancelled(l, t)
        ELSE IF l.intents[r].superseded THEN Finished(Cancelled(l, t), r)
        ELSE l

(* Nobody waits: the intent was never claimed, or its claim was dropped.   *)
AnswerUnclaimed(t, answer) ==
    /\ Phase(ledger, t) = "preparing"
    /\ Waiters(t) = {}
    /\ ledger' = Abandoned(InPhase(ledger, t, answer), t)
    /\ UNCHANGED <<phase, refs, waiting, stale>>

(* A newer preparation has begun, or a newer solution has arrived.         *)
Outdated(w) == w.serial # refs.serial \/ w.key # Wanted

AnswerOutdated(t, w) ==
    /\ Phase(ledger, t) = "preparing"
    /\ w \in Waiters(t)
    /\ Outdated(w)
    /\ ledger' = Abandoned(Finished(Cancelled(InPhase(ledger, t, "prepared"), t), w.intent), t)
    /\ refs' = [refs EXCEPT !.key = IF w.serial = refs.serial THEN NoShape ELSE @]
    /\ waiting' = waiting \ {w}
    /\ UNCHANGED <<phase, stale>>

(* The prepared transaction waits for the render of its target.            *)
AnswerTaken(t, w) ==
    /\ Phase(ledger, t) = "preparing"
    /\ w \in Waiters(t)
    /\ ~Outdated(w)
    /\ LET prepared == InPhase(ledger, t, "prepared")
           before == IF refs.pending.txn = 0 THEN prepared
                     ELSE Cancelled(prepared, refs.pending.txn)
       IN  ledger' = Abandoned(before, t)
    /\ refs' = [refs EXCEPT
            !.key = NoShape,
            !.pending = [txn |-> t, revision |-> w.revision, intent |-> w.intent]]
    /\ phase' = [from |-> phase.displayed, displayed |-> w.key, plane |-> Plane(Wanted),
                 tabs |-> store.tabs, preparing |-> FALSE]
    /\ waiting' = waiting \ {w}
    /\ stale' = "later"

(* The hook's catch.  The target is not tried again until it changes.      *)
Refused(w, l) ==
    /\ ledger' = IF w.serial = refs.serial THEN Finished(l, w.intent) ELSE l
    /\ refs' = IF w.serial = refs.serial
               THEN [refs EXCEPT !.key = w.key, !.failed = w.key] ELSE refs
    /\ phase' = IF w.serial = refs.serial THEN [phase EXCEPT !.preparing = FALSE] ELSE phase
    /\ stale' = IF w.serial = refs.serial THEN "later" ELSE stale
    /\ waiting' = waiting \ {w}

AnswerRefused(t, w) ==
    /\ Phase(ledger, t) = "preparing"
    /\ w \in Waiters(t)
    /\ LET l == InPhase(ledger, t, "failed")
       IN  IF w.serial = refs.serial THEN Refused(w, l) ELSE Refused(w, Abandoned(l, t))

(* The adapter stages, or cannot.  It takes no notice of an abort.         *)
Staged(t) ==
    /\ \/ AnswerUnclaimed(t, "prepared")
       \/ \E w \in waiting : AnswerOutdated(t, w) \/ AnswerTaken(t, w)
    /\ UNCHANGED spent

StagingFails(t) ==
    /\ spent.faults < MaxFaults
    /\ AnswerUnclaimed(t, "failed") \/ \E w \in waiting : AnswerRefused(t, w)
    /\ spent' = [spent EXCEPT !.faults = @ + 1]

Answer(t) ==
    /\ stale # "now"
    /\ Staged(t) \/ StagingFails(t)
    /\ UNCHANGED <<store, settled, armed, mounted, held>>

(* A queued intent that a newer one replaced rejects who claimed it.       *)
Replaced(w) ==
    /\ stale # "now"
    /\ w.intent # 0
    /\ ledger.intents[w.intent].at = "over" /\ ledger.intents[w.intent].txn = 0
    /\ Refused(w, ledger)
    /\ UNCHANGED <<store, settled, armed, mounted, held, spent>>

-----------------------------------------------------------------------------
(* The end of a journey: its timer.                                        *)

Land ==
    /\ armed /\ stale # "now"
    /\ armed' = FALSE
    /\ settled' = Larger(settled, refs.travel.revision)
    /\ ledger' = Finished(ledger, refs.travel.intent)
    /\ refs' = [refs EXCEPT !.travel = [revision |-> 0, intent |-> 0]]
    /\ phase' = [from |-> phase.displayed, displayed |-> phase.displayed,
                 plane |-> Plane(Wanted), tabs |-> store.tabs, preparing |-> FALSE]
    /\ stale' = "later"
    /\ UNCHANGED <<store, waiting, mounted, held, spent>>

(* The plane unmounts: the intents' host leaves and its owner's queue is   *)
(* discarded, then the hook cancels what it was about to commit.           *)
Unmount ==
    /\ mounted /\ stale # "now"
    /\ mounted' = FALSE
    /\ LET over == [ledger EXCEPT !.intents = [r \in Revisions |->
                IF @[r].at \in {"active", "queued"} THEN [@[r] EXCEPT !.at = "over"] ELSE @[r]]]
           gone == {ledger.intents[r].txn : r \in Holds(ledger, "active")} \cup {refs.pending.txn}
       IN  ledger' = [over EXCEPT !.txns = [t \in DOMAIN @ |->
                IF t \in gone /\ @[t].phase = "prepared"
                THEN [@[t] EXCEPT !.phase = "cancelled"] ELSE @[t]]]
    /\ refs' = [refs EXCEPT !.pending = [txn |-> 0, revision |-> 0, intent |-> 0],
                            !.travel = [revision |-> 0, intent |-> 0]]
    /\ armed' = FALSE
    /\ stale' = "no"
    /\ UNCHANGED <<store, settled, phase, waiting, held, spent>>

-----------------------------------------------------------------------------

Next ==
    \/ \E form \in Forms : Publish(form) \/ SwitchSpace(form)
    \/ \E box \in Boxes : Reshape(box)
    \/ \E focus \in Foci, another \in {0, 1} : Activate(focus, another)
    \/ Render
    \/ \E t \in DOMAIN ledger.txns : Answer(t)
    \/ \E w \in waiting : Replaced(w)
    \/ Land
    \/ Unmount

(* React renders what was set, the adapter answers, the timer runs out.    *)
Fairness ==
    /\ WF_vars(Render)
    /\ WF_vars(\E t \in DOMAIN ledger.txns : Answer(t))
    /\ WF_vars(\E w \in waiting : Replaced(w))
    /\ WF_vars(Land)

Spec == Init /\ [][Next]_vars /\ Fairness

-----------------------------------------------------------------------------
TxnPhases == {"preparing", "prepared", "committed", "cancelled", "failed"}

(* The variables hold what their descriptions say.                         *)
Intents == [at : {"none", "queued", "active", "over"}, txn : Nat,
            claimed : BOOLEAN, superseded : BOOLEAN]
Txns == [phase : TxnPhases, intent : 0..MaxRevisions]
Sightings == Shapes \X Shapes \X Nat \X Nat \X BOOLEAN \X BOOLEAN \X (0..MaxRevisions)

TypeOK ==
    /\ store \in [shape : Shapes, tabs : 0..MaxOthers, revision : 0..MaxRevisions]
    /\ settled \in 0..store.revision
    /\ ledger \in [intents : [Revisions -> Intents], txns : Seq(Txns)]
    /\ \A r \in Revisions : ledger.intents[r].txn <= Len(ledger.txns)
    /\ phase \in [from : Shapes, displayed : Shapes, plane : {PlaneOf[f] : f \in Forms},
                  tabs : Nat, preparing : BOOLEAN]
    /\ refs \in [serial : Nat, key : Shapes \cup {NoShape}, failed : Shapes \cup {NoShape},
                 pending : [txn : Nat, revision : 0..MaxRevisions, intent : 0..MaxRevisions],
                 travel : [revision : 0..MaxRevisions, intent : 0..MaxRevisions],
                 observed : [shape : Shapes, tabs : Nat, revision : 0..MaxRevisions],
                 fence : BOOLEAN,
                 seen : Sightings \cup {<<>>}]
    /\ waiting \subseteq [serial : Nat, key : Shapes, revision : 0..MaxRevisions,
                          intent : 0..MaxRevisions, txn : Nat]
    /\ armed \in BOOLEAN /\ mounted \in BOOLEAN
    /\ stale \in {"no", "later", "now"}
    /\ held \in [0..MaxRevisions -> SUBSET Shapes]
    /\ spent \in [others : 0..MaxOthers, faults : 0..MaxFaults]
    /\ store.tabs <= spent.others

(* settleLayout "closes only the exact revision it consumed. It never ACKs *)
(* a later revision": at the moment a revision is acknowledged, what       *)
(* stands on screen is an arrangement the state held at that revision,     *)
(* whatever was published, resized, refused or abandoned since.            *)
AcknowledgedIsShown ==
    [][settled' > settled => phase.displayed \in held[settled']]_vars

(* A change is not left behind: when the changes end, the newest           *)
(* arrangement is on screen and acknowledged, unless the adapter refused   *)
(* that very one.                                                          *)
Blocked == refs.failed = Wanted /\ refs.key = Wanted
Arrived == phase.displayed = Wanted /\ settled = store.revision /\ ~armed
NewestArrives == <>[](mounted => Arrived \/ Blocked)

(* "the next journey departs for the newest target after the first one     *)
(* ends": with an adapter that refuses nothing and changes that arrive     *)
(* during a journey as well, the newest still reaches the screen.          *)
NewestDeparts == <>[](mounted => Arrived)

(* "Layout transaction that must be closed by exactly one of DOM commit or *)
(* cancel after a successful prepare."  One exception: the preparation the *)
(* hook opened itself, without an intent, and still waited for when the    *)
(* plane unmounted; its continuation leaves it for a render that never     *)
(* comes.                                                                  *)
IsOpen(t) == Phase(ledger, t) \in {"preparing", "prepared"}
TransactionsClose ==
    <>[](\A t \in DOMAIN ledger.txns : IsOpen(t) => ~mounted /\ IntentOf(t) = 0)
=============================================================================
