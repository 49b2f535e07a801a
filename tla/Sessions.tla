------------------------------- MODULE Sessions -------------------------------
(***************************************************************************)
(* The open workspaces of one window: frontend/src/state/sessions.ts.      *)
(*                                                                         *)
(* A workspace holds spaces, a space holds panes on a plane, a pane holds  *)
(* tabs, and at every level one element is the active one.  The store's    *)
(* operations are the actions; an operation that answers an error leaves   *)
(* the store alone and is a disabled action here.                          *)
(*                                                                         *)
(* The plane is a library's (split-pane): of its geometry the model keeps  *)
(* which panes have a card and where the rail stands, named by the pane it *)
(* was last put beside.  Reading order is the library's, so "the first     *)
(* pane" is any pane, and whether a split leaves a pane its floor is the   *)
(* library's answer too.                                                   *)
(***************************************************************************)
EXTENDS Naturals, FiniteSets, Sequences, SequencesExt, Functions

CONSTANTS
    WorkspaceIds, SpaceIds, PaneIds, TabIds,   \* identities issueId can give
    Roots,                                     \* directories a workspace can stand in
    Views,                                     \* views the registered programs open
    None,                                      \* no id, and no rail on a plane
    Elsewhere                                  \* a line nobody's focus chose

\* A line of the rail's own is not the absence of a rail.
ASSUME SessionsAssumption == Elsewhere # None

VARIABLES
    workspaces,     \* the open workspaces, in the order of their tabs
    activeId,       \* the one on screen
    linked,         \* views of plugins whose section set in the rail has sections
    measured,       \* the host has measured the plane: its box is not empty
    settled         \* what the host's rail effect last ran for

vars == <<workspaces, activeId, linked, measured, settled>>

(***************************************************************************)
(* The records                                                             *)
(***************************************************************************)

Tab == [id : TabIds, view : Views]

Pane == [id : PaneIds, tabs : Seq(Tab), activeTabId : TabIds \cup {None}]

Space == [id : SpaceIds, panes : SUBSET Pane, cards : SUBSET PaneIds,
          rail : PaneIds \cup {None, Elsewhere},
          activePaneId : PaneIds, maximizedTabId : TabIds \cup {None}]

TabsOf(space) == UNION {Range(p.tabs) : p \in space.panes}
SpacesOf(w) == Range(w.spaces)
AllSpaces == UNION {SpacesOf(w) : w \in Range(workspaces)}
AllPanes == UNION {s.panes : s \in AllSpaces}
AllTabs == UNION {TabsOf(s) : s \in AllSpaces}

\* An id no live element carries: issueId answers a random name.
FreshWorkspace == WorkspaceIds \ {w.id : w \in Range(workspaces)}
FreshSpace == SpaceIds \ {s.id : s \in AllSpaces}
FreshPane == PaneIds \ {p.id : p \in AllPanes}
FreshTab == TabIds \ {t.id : t \in AllTabs}

(***************************************************************************)
(* Panes of a space                                                        *)
(***************************************************************************)

\* The panes that are both on the plane and in the array.
AllGroups(space) == {p \in space.panes : p.id \in space.cards}
AllViews(space) == UNION {Range(p.tabs) : p \in AllGroups(space)}

HasGroup(space, g) == g \in {p.id : p \in AllGroups(space)}
FindGroup(space, g) == CHOOSE p \in space.panes : p.id = g
FindGroupOfView(space, t) ==
    CHOOSE p \in space.panes : \E tab \in Range(p.tabs) : tab.id = t

MapGroup(space, g, tabs, shown) ==
    [space EXCEPT !.panes =
        {IF p.id = g THEN [p EXCEPT !.tabs = tabs, !.activeTabId = shown] ELSE p : p \in @}]

MakeGroup(g, tabs) ==
    [id |-> g, tabs |-> tabs,
     activeTabId |-> IF tabs = <<>> THEN None ELSE Head(tabs).id]

\* Mutant: the card goes and the pane stays in the array.
RemoveCard(space, g) ==
    IF Cardinality(space.cards) = 1 THEN space
    ELSE [space EXCEPT !.cards = @ \ {g}]

\* closePane refuses the last card; removeGroup answers null then.
RemoveGroup(space, g) ==
    IF Cardinality(space.cards) = 1 THEN space
    ELSE [space EXCEPT !.cards = @ \ {g},
                       !.panes = {p \in @ : p.id # g},
                       !.rail = IF @ = g THEN Elsewhere ELSE @]

\* Mutant: the pane that takes a tab takes a copy of it.
CopyView(space, t) == space

\* Mutant: whichever tab closes, its neighbour comes to the front.
RemoveViewToFront(space, t) ==
    LET owner == FindGroupOfView(space, t)
        tabs == SelectSeq(owner.tabs, LAMBDA tab : tab.id # t)
        kept == MapGroup(space, owner.id, tabs,
                         IF tabs = <<>> THEN None ELSE Last(tabs).id)
    IN IF tabs = <<>> THEN RemoveGroup(kept, owner.id) ELSE kept

\* Mutant: a tab closes with its pane's other tabs of the same view.
RemoveViewsAlike(space, t) ==
    LET owner == FindGroupOfView(space, t)
        kind == {tab.view : tab \in {u \in Range(owner.tabs) : u.id = t}}
        tabs == SelectSeq(owner.tabs, LAMBDA tab : tab.view \notin kind)
        kept == MapGroup(space, owner.id, tabs, IF tabs = <<>> THEN None ELSE Last(tabs).id)
    IN IF tabs = <<>> THEN RemoveGroup(kept, owner.id) ELSE kept

\* The tab leaves its pane, the one after it succeeds it (before it when it
\* was the last), and a pane left empty leaves the plane unless it is alone.
RemoveView(space, t) ==
    LET owner == FindGroupOfView(space, t)
        at == CHOOSE i \in DOMAIN owner.tabs : owner.tabs[i].id = t
        tabs == RemoveAt(owner.tabs, at)
        next == CASE owner.activeTabId # t -> owner.activeTabId
                  [] tabs = <<>> -> None
                  [] OTHER -> tabs[IF at <= Len(tabs) THEN at ELSE at - 1].id
        kept == MapGroup(space, owner.id, tabs, next)
    IN IF tabs = <<>> THEN RemoveGroup(kept, owner.id) ELSE kept

SplitAtGroup(space, fresh) ==
    [space EXCEPT !.cards = @ \cup {fresh.id}, !.panes = @ \cup {fresh}]

\* Mutant: maximize is cleared and the focus left where it was.
NormalizeMaximizeOnly(space) ==
    {[space EXCEPT !.maximizedTabId =
        IF @ \in {t.id : t \in AllViews(space)} THEN @ ELSE None]}

\* What normalizeActiveGroupC can answer: the focus on some pane when its
\* pane is gone, maximize cleared when its tab is gone.
NormalizeActiveGroup(space) ==
    LET shown == [space EXCEPT !.maximizedTabId =
                    IF @ \in {t.id : t \in AllViews(space)} THEN @ ELSE None]
    IN IF HasGroup(shown, shown.activePaneId) THEN {shown}
       ELSE {[shown EXCEPT !.activePaneId = p.id] : p \in AllGroups(shown)}

(***************************************************************************)
(* The rail                                                                *)
(***************************************************************************)

ActiveSpace(w) == CHOOSE s \in SpacesOf(w) : s.id = w.activeSpaceId

\* The views of the focused tab's plugin: none when the focused pane is empty.
FocusedView(w) ==
    LET s == ActiveSpace(w)
    IN UNION {{t.view : t \in {u \in Range(p.tabs) : u.id = p.activeTabId}} :
              p \in {q \in AllGroups(s) : q.id = s.activePaneId}}

RailPresent(w) == w.railOpen /\ FocusedView(w) \cap linked # {}

SettleRail(space, placement, present) ==
    [space EXCEPT !.rail =
        CASE ~measured -> @
          [] measured /\ ~present -> None
          [] measured /\ present /\ (placement = "flow" \/ @ = None) -> space.activePaneId
          [] OTHER -> @]

MapContent(w, s) ==
    [w EXCEPT !.spaces = [i \in DOMAIN @ |-> IF @[i].id = s.id THEN s ELSE @[i]]]

SettleWorkspaceRail(w) ==
    MapContent(w, SettleRail(ActiveSpace(w), w.railPlacement, RailPresent(w)))

MapWorkspace(w) ==
    workspaces' = [i \in DOMAIN workspaces |->
                     IF workspaces[i].id = w.id THEN w ELSE workspaces[i]]

\* The end of most operations: one space replaced, the rail settled, stored.
StoreSettled(w) == MapWorkspace(SettleWorkspaceRail(w))

(***************************************************************************)
(* Workspaces                                                              *)
(***************************************************************************)

MakeContent(s, g, tabs) ==
    [id |-> s, panes |-> {MakeGroup(g, tabs)}, cards |-> {g}, rail |-> None,
     activePaneId |-> g, maximizedTabId |-> None]

MakeWorkspace(w, root, space) ==
    [id |-> w, root |-> root, railOpen |-> TRUE, railPlacement |-> "flow",
     spaces |-> <<space>>, activeSpaceId |-> space.id]

\* No view, or one of a registered program.
NewTabs == {<<>>} \cup {<<[id |-> t, view |-> v]>> : t \in FreshTab, v \in Views}

Init ==
    /\ workspaces = <<>>
    /\ activeId = None
    /\ linked \in SUBSET Views
    /\ measured = FALSE
    /\ settled = <<None, FALSE, FALSE>>

BootstrapFirstWorkspace(root) ==
    /\ workspaces = <<>>
    /\ \E w \in FreshWorkspace, s \in FreshSpace, g \in FreshPane :
         /\ workspaces' = <<MakeWorkspace(w, root, MakeContent(s, g, <<>>))>>
         /\ activeId' = w
    /\ UNCHANGED <<linked, measured, settled>>

\* The window starts again from its own snapshot, which keeps every id and
\* every active reference; nothing is measured yet.
RestoreWorkspaces ==
    /\ workspaces # <<>>
    /\ activeId' = IF activeId \in {w.id : w \in Range(workspaces)} THEN activeId
                   ELSE Head(workspaces).id
    /\ measured' = FALSE
    /\ settled' = <<None, FALSE, FALSE>>
    /\ UNCHANGED <<workspaces, linked>>

\* A root that is open already is activated instead.
AddWorkspace(root, tabs) ==
    /\ \/ \E dup \in {w \in Range(workspaces) : w.root = root} :
            activeId' = dup.id /\ UNCHANGED workspaces
       \/ /\ \A w \in Range(workspaces) : w.root # root
          /\ \E w \in FreshWorkspace, s \in FreshSpace, g \in FreshPane :
               /\ workspaces' = Append(workspaces,
                                  MakeWorkspace(w, root, MakeContent(s, g, tabs)))
               /\ activeId' = w
    /\ UNCHANGED <<linked, measured, settled>>

CloseTab(i) ==
    /\ Len(workspaces) > 1
    /\ workspaces' = RemoveAt(workspaces, i)
    /\ activeId' = IF activeId # workspaces[i].id THEN activeId
                   ELSE workspaces'[IF i <= Len(workspaces') THEN i ELSE i - 1].id
    /\ UNCHANGED <<linked, measured, settled>>

SetActive(w) ==
    /\ activeId' = w.id
    /\ UNCHANGED <<workspaces, linked, measured, settled>>

ToggleRegion(w) ==
    /\ StoreSettled([w EXCEPT !.railOpen = ~@])
    /\ UNCHANGED <<activeId, linked, measured, settled>>

SetLeftRailPlacement(w, mode) ==
    /\ w.railPlacement # mode
    /\ StoreSettled([w EXCEPT !.railPlacement = mode])
    /\ UNCHANGED <<activeId, linked, measured, settled>>

(***************************************************************************)
(* Spaces                                                                  *)
(***************************************************************************)

AddContent(w, tabs) ==
    /\ \E s \in FreshSpace, g \in FreshPane :
         StoreSettled([w EXCEPT !.spaces = Append(@, MakeContent(s, g, tabs)),
                                !.activeSpaceId = s])
    /\ UNCHANGED <<activeId, linked, measured, settled>>

CloseContent(w, i) ==
    /\ Len(w.spaces) > 1
    /\ LET rest == RemoveAt(w.spaces, i)
       IN StoreSettled([w EXCEPT
            !.spaces = rest,
            !.activeSpaceId = IF @ # w.spaces[i].id THEN @
                              ELSE rest[IF i <= Len(rest) THEN i ELSE i - 1].id])
    /\ UNCHANGED <<activeId, linked, measured, settled>>

SetActiveContent(w, s) ==
    /\ w.activeSpaceId # s.id
    /\ StoreSettled([w EXCEPT !.activeSpaceId = s.id])
    /\ UNCHANGED <<activeId, linked, measured, settled>>

(***************************************************************************)
(* Tabs                                                                    *)
(***************************************************************************)

WithTab(space, g, tab) ==
    MapGroup(space, g, Append(FindGroup(space, g).tabs, tab), tab.id)

\* Into a named pane, of whichever space, or into the focused one: the focus
\* goes to that pane and the rail is not settled.
AddViewToGroup(w, s, g, tab) ==
    /\ MapWorkspace(MapContent(w, [WithTab(s, g, tab) EXCEPT !.activePaneId = g]))
    /\ UNCHANGED <<activeId, linked, measured, settled>>

\* A view that is open in the active space is shown, a new one is added to the
\* focused pane; neither settles the rail.
OpenPluginView(w, view) ==
    LET s == ActiveSpace(w)
        open == {t \in AllViews(s) : t.view = view}
    IN /\ \/ \E t \in open :
               LET p == FindGroupOfView(s, t.id)
               IN MapWorkspace(MapContent(w,
                    [MapGroup(s, p.id, p.tabs, t.id) EXCEPT !.activePaneId = p.id]))
          \/ /\ open = {}
             /\ \E t \in FreshTab :
                  MapWorkspace(MapContent(w,
                    WithTab(s, s.activePaneId, [id |-> t, view |-> view])))
       /\ UNCHANGED <<activeId, linked, measured, settled>>

CloseView(w, s, t) ==
    /\ \E next \in NormalizeActiveGroup(RemoveView(s, t)) :
         StoreSettled(MapContent(w, next))
    /\ UNCHANGED <<activeId, linked, measured, settled>>

\* The whole chain turns to the tab: workspace, space, pane.
SetActiveView(w, s, t) ==
    /\ LET p == FindGroupOfView(s, t)
           shown == [MapGroup(s, p.id, p.tabs, t) EXCEPT !.activePaneId = p.id]
           changed == \/ activeId # w.id
                      \/ w.activeSpaceId # s.id
                      \/ shown # s
       IN changed /\ StoreSettled([MapContent(w, shown) EXCEPT !.activeSpaceId = s.id])
    /\ activeId' = w.id
    /\ UNCHANGED <<linked, measured, settled>>

SetActiveGroup(w, s, g) ==
    /\ w.activeSpaceId # s.id \/ s.activePaneId # g
    /\ StoreSettled([MapContent(w, [s EXCEPT !.activePaneId = g])
                       EXCEPT !.activeSpaceId = s.id])
    /\ UNCHANGED <<activeId, linked, measured, settled>>

MaximizeView(w, s, t) ==
    /\ LET p == FindGroupOfView(s, t)
           filled == [MapGroup(s, p.id, p.tabs, t)
                        EXCEPT !.maximizedTabId = t, !.activePaneId = p.id]
       IN StoreSettled([MapContent(w, filled) EXCEPT !.activeSpaceId = s.id])
    /\ UNCHANGED <<activeId, linked, measured, settled>>

RestoreView(w) ==
    /\ ActiveSpace(w).maximizedTabId # None
    /\ MapWorkspace(MapContent(w, [ActiveSpace(w) EXCEPT !.maximizedTabId = None]))
    /\ UNCHANGED <<activeId, linked, measured, settled>>

\* Into the middle of another pane.
JoinViewToGroup(w, s, t, g) ==
    /\ FindGroupOfView(s, t).id # g
    /\ LET tab == CHOOSE u \in TabsOf(s) : u.id = t
           gone == RemoveView(s, t)
       IN /\ HasGroup(gone, g)
          /\ \E next \in NormalizeActiveGroup(
                           [WithTab(gone, g, tab) EXCEPT !.activePaneId = g]) :
               StoreSettled(MapContent(w, next))
    /\ UNCHANGED <<activeId, linked, measured, settled>>

\* To a side of a pane: a tab alone in its pane takes the pane with it, and
\* movePane refuses a pane dropped on itself.
SplitViewToGroup(w, s, t, g) ==
    /\ Cardinality(AllViews(s)) > 1
    /\ LET src == FindGroupOfView(s, t)
           tab == CHOOSE u \in TabsOf(s) : u.id = t
       IN \/ /\ Len(src.tabs) = 1
             /\ src.id # g
             /\ \E next \in NormalizeActiveGroup([s EXCEPT !.activePaneId = src.id]) :
                  StoreSettled(MapContent(w, next))
          \/ /\ Len(src.tabs) > 1
             /\ \E fresh \in FreshPane :
                  LET left == RemoveView(s, t)
                      split == SplitAtGroup(left, MakeGroup(fresh, <<tab>>))
                  IN \E next \in NormalizeActiveGroup([split EXCEPT !.activePaneId = fresh]) :
                       StoreSettled(MapContent(w, next))
    /\ UNCHANGED <<activeId, linked, measured, settled>>

(***************************************************************************)
(* Panes                                                                   *)
(***************************************************************************)

CloseGroup(w, s, g) ==
    /\ Cardinality(AllGroups(s)) > 1
    /\ \E next \in NormalizeActiveGroup(RemoveGroup(s, g)) :
         StoreSettled(MapContent(w, next))
    /\ UNCHANGED <<activeId, linked, measured, settled>>

\* Into the middle of another pane: every tab joins it, and the source's
\* active tab becomes the target's.
JoinGroupToGroup(w, s, source, target) ==
    /\ source # target
    /\ LET from == FindGroup(s, source)
           joined == MapGroup(RemoveGroup(s, source), target,
                              FindGroup(s, target).tabs \o from.tabs, from.activeTabId)
       IN \E next \in NormalizeActiveGroup([joined EXCEPT !.activePaneId = target]) :
            StoreSettled(MapContent(w, next))
    /\ UNCHANGED <<activeId, linked, measured, settled>>

\* To a side of another pane: the card moves, the pane stays what it is.
MoveGroupBeside(w, s, source, target) ==
    /\ source # target
    /\ \E next \in NormalizeActiveGroup([s EXCEPT !.activePaneId = source]) :
         StoreSettled(MapContent(w, next))
    /\ UNCHANGED <<activeId, linked, measured, settled>>

SplitWithNewView(w, s, tabs) ==
    /\ \E fresh \in FreshPane :
         \E next \in NormalizeActiveGroup(
                       [SplitAtGroup(s, MakeGroup(fresh, tabs)) EXCEPT !.activePaneId = fresh]) :
           StoreSettled(MapContent(w, next))
    /\ UNCHANGED <<activeId, linked, measured, settled>>

\* The rail dragged to a line of its own is pinned there.
MoveRail(w) ==
    /\ ActiveSpace(w).rail # None
    /\ MapWorkspace([MapContent(w, [ActiveSpace(w) EXCEPT !.rail = Elsewhere])
                       EXCEPT !.railPlacement = "pin"])
    /\ UNCHANGED <<activeId, linked, measured, settled>>

(***************************************************************************)
(* The host (App.tsx)                                                      *)
(***************************************************************************)

\* What the rail effect depends on: the workspace on screen, whether its rail
\* is present, the plane's box.
OnScreen == CHOOSE w \in Range(workspaces) : w.id = activeId
RailDeps == <<activeId, RailPresent(OnScreen), measured>>

RailEffect ==
    /\ workspaces # <<>>
    /\ settled # RailDeps
    /\ settled' = RailDeps
    /\ StoreSettled(OnScreen)
    /\ UNCHANGED <<activeId, linked, measured>>

MeasurePlane ==
    /\ workspaces # <<>>
    /\ ~measured
    /\ measured' = TRUE
    /\ UNCHANGED <<workspaces, activeId, linked, settled>>

\* sections.link: a set with sections stands in the rail for a plugin, or no
\* longer does.
LinkSections(v) ==
    /\ linked' = IF v \in linked THEN linked \ {v} ELSE linked \cup {v}
    /\ UNCHANGED <<workspaces, activeId, measured, settled>>

(***************************************************************************)
(* The specification                                                       *)
(***************************************************************************)

WorkspaceStep ==
    \/ \E root \in Roots : BootstrapFirstWorkspace(root)
    \/ RestoreWorkspaces
    \/ \E root \in Roots, tabs \in NewTabs : AddWorkspace(root, tabs)
    \/ \E i \in DOMAIN workspaces : CloseTab(i)
    \/ \E w \in Range(workspaces) :
         \/ SetActive(w)
         \/ ToggleRegion(w)
         \/ \E mode \in {"flow", "pin"} : SetLeftRailPlacement(w, mode)

SpaceStep ==
    \E w \in Range(workspaces) :
       \/ \E tabs \in NewTabs : AddContent(w, tabs)
       \/ \E i \in DOMAIN w.spaces : CloseContent(w, i)
       \/ \E s \in SpacesOf(w) : SetActiveContent(w, s)
       \/ RestoreView(w)
       \/ MoveRail(w)
       \/ \E v \in Views : OpenPluginView(w, v)

TabStep ==
    \E w \in Range(workspaces) : \E s \in SpacesOf(w) :
       \/ \E g \in {p.id : p \in AllGroups(s)}, tabs \in NewTabs \ {<<>>} :
            AddViewToGroup(w, s, g, Head(tabs))
       \/ \E t \in {u.id : u \in AllViews(s)} :
            \/ CloseView(w, s, t)
            \/ SetActiveView(w, s, t)
            \/ MaximizeView(w, s, t)
            \/ \E g \in {p.id : p \in AllGroups(s)} :
                 JoinViewToGroup(w, s, t, g) \/ SplitViewToGroup(w, s, t, g)

PaneStep ==
    \E w \in Range(workspaces) : \E s \in SpacesOf(w) :
       \/ \E tabs \in NewTabs : SplitWithNewView(w, s, tabs)
       \/ \E g \in {p.id : p \in AllGroups(s)} :
            \/ SetActiveGroup(w, s, g)
            \/ CloseGroup(w, s, g)
            \/ \E target \in {p.id : p \in AllGroups(s)} :
                 JoinGroupToGroup(w, s, g, target) \/ MoveGroupBeside(w, s, g, target)

HostStep == RailEffect \/ MeasurePlane \/ \E v \in Views : LinkSections(v)

Next == WorkspaceStep \/ SpaceStep \/ TabStep \/ PaneStep \/ HostStep

Spec == Init /\ [][Next]_vars

(***************************************************************************)
(* Properties                                                              *)
(***************************************************************************)

\* Every workspace is one of the records above.
TypeOK ==
    /\ activeId \in WorkspaceIds \cup {None}
    /\ linked \subseteq Views /\ measured \in BOOLEAN
    /\ \A w \in Range(workspaces) :
         /\ w.id \in WorkspaceIds /\ w.root \in Roots /\ w.railOpen \in BOOLEAN
         /\ w.railPlacement \in {"flow", "pin"}
         /\ \A s \in SpacesOf(w) :
              /\ s.id \in SpaceIds /\ s.cards \subseteq PaneIds
              /\ s.rail \in PaneIds \cup {None, Elsewhere}
              /\ s.maximizedTabId \in TabIds \cup {None}
              /\ \A p \in s.panes :
                   /\ p.id \in PaneIds /\ p.activeTabId \in TabIds \cup {None}
                   /\ \A t \in Range(p.tabs) : t \in Tab

\* A tab is in one pane and at one place in it, a pane in one space, a space
\* in one workspace: what a drag, a merge or a split moves is never copied.
Places == UNION {UNION {UNION {
            {<<w.id, s.id, p.id, i, p.tabs[i].id>> : i \in DOMAIN p.tabs} :
            p \in s.panes} : s \in SpacesOf(w)} : w \in Range(workspaces)}
Cards == UNION {UNION {{<<w.id, s.id, p.id>> : p \in s.panes} :
                       s \in SpacesOf(w)} : w \in Range(workspaces)}
OneHome ==
    /\ \A a, b \in Places : a[5] = b[5] => a = b
    /\ \A a, b \in Cards : a[3] = b[3] => a = b
    /\ \A a, b \in Cards : a[2] = b[2] => a[1] = b[1]

\* The plane and the array hold the same panes, each once, and at least one:
\* normalizeActiveGroupC throws on anything else, and a snapshot of anything
\* else is refused at the next start.
PlaneHoldsPanes ==
    \A s \in AllSpaces :
       /\ s.cards = {p.id : p \in s.panes}
       /\ Cardinality(s.cards) = Cardinality(s.panes)
       /\ s.panes # {}

\* Each level names an element it holds, wherever tabs and panes were moved,
\* merged or closed; a pane may show none of its tabs, and a space be filled by
\* none.  A broken link leaves nothing to draw under it.
FocusChain ==
    /\ workspaces # <<>> => activeId \in {w.id : w \in Range(workspaces)}
    /\ \A w \in Range(workspaces) :
         /\ w.activeSpaceId \in {s.id : s \in SpacesOf(w)}
         /\ \A s \in SpacesOf(w) :
              /\ HasGroup(s, s.activePaneId)
              /\ s.maximizedTabId \in {t.id : t \in TabsOf(s)} \cup {None}
              /\ \A p \in s.panes :
                   p.activeTabId \in {t.id : t \in Range(p.tabs)} \cup {None}

\* A step that takes tabs away takes the focus from nothing that stays: a
\* pane whose active tab is still there shows it, a space whose active pane is
\* still there focuses it, and so up to the window.
Closing == AllTabs' \subseteq AllTabs /\ AllTabs' # AllTabs
KeepsFocus ==
    /\ activeId \in {w.id : w \in Range(workspaces')} => activeId' = activeId
    /\ \A w \in Range(workspaces), v \in Range(workspaces') : w.id = v.id =>
         /\ w.activeSpaceId \in {s.id : s \in SpacesOf(v)} =>
              v.activeSpaceId = w.activeSpaceId
         /\ \A s \in SpacesOf(w), r \in SpacesOf(v) : s.id = r.id =>
              /\ s.activePaneId \in r.cards => r.activePaneId = s.activePaneId
              /\ \A p \in s.panes, q \in r.panes :
                   (p.id = q.id /\ p.activeTabId \in {t.id : t \in Range(q.tabs)})
                     => q.activeTabId = p.activeTabId
ClosingKeepsFocus == [][Closing => KeepsFocus]_vars

\* A tab leaves the space it stands in only when it is closed, or its pane, its
\* space or its workspace is, and such a step takes nothing else: what a drag, a
\* merge or a split moves is not lost on the way, and stays in its space.
Standing(w) == UNION {{<<w.id, s.id, t>> : t \in TabsOf(s)} : s \in SpacesOf(w)}
AllStanding == UNION {Standing(w) : w \in Range(workspaces)}
Gone == AllStanding \ AllStanding'
ClosedAway(gone) ==
    \/ \E i \in DOMAIN workspaces : CloseTab(i) /\ gone = Standing(workspaces[i])
    \/ \E w \in Range(workspaces) :
         \/ \E i \in DOMAIN w.spaces :
              CloseContent(w, i) /\ gone = {<<w.id, w.spaces[i].id, t>> : t \in TabsOf(w.spaces[i])}
         \/ \E s \in SpacesOf(w) :
              \/ \E p \in AllGroups(s) :
                   CloseGroup(w, s, p.id) /\ gone = {<<w.id, s.id, t>> : t \in Range(p.tabs)}
              \/ \E t \in AllViews(s) : CloseView(w, s, t.id) /\ gone = {<<w.id, s.id, t>>}
TabsGoByClosing == [][Gone # {} => ClosedAway(Gone)]_vars

\* A pinned rail stays where it stands, whatever the focus does; only a person
\* dragging it, or the close of the pane beside it, changes its line.
PinnedRailStays ==
    [][\A w \in Range(workspaces), v \in Range(workspaces') :
         (w.id = v.id /\ w.railPlacement = "pin" /\ v.railPlacement = "pin") =>
           \A s \in SpacesOf(w), r \in SpacesOf(v) :
             (s.id = r.id /\ s.rail # None /\ r.rail # None) =>
               r.rail \in {s.rail, Elsewhere}]_vars

\* The code breaks the two that follow (README, Disagreements).

\* Under FLOW the rail stands beside the focused pane of the space on screen,
\* once the host's effect has nothing left to run for.
RailFollowsFocus ==
    workspaces # <<>> /\ measured /\ settled = RailDeps =>
      LET w == OnScreen IN
        w.railPlacement = "flow" /\ RailPresent(w) =>
          ActiveSpace(w).rail = ActiveSpace(w).activePaneId

\* A pane with tabs shows one of them.
PaneShowsATab ==
    \A p \in AllPanes : p.tabs # <<>> => p.activeTabId # None

=============================================================================
