---------------------------- MODULE Sessions_proofs ----------------------------
(***************************************************************************)
(* Proofs about Sessions, for any identities, roots and views: types, the  *)
(* shape of every plane, one home for every tab, pane and space, and a     *)
(* focus chain that no operation breaks.                                   *)
(*                                                                         *)
(* The operations are compositions of a few helpers on one space, so the   *)
(* argument goes up the levels: what each helper keeps of a plane, what    *)
(* the replacement of one space keeps of its workspace, and of one         *)
(* workspace in the window.                                                *)
(***************************************************************************)
EXTENDS Sessions, SequenceTheorems, FunctionTheorems, FiniteSetTheorems, TLAPS

(* The names in a sequence of tabs, spaces or workspaces, each there once. *)
Names(seq) == {x.id : x \in Range(seq)}
Distinct(seq) == \A i, j \in DOMAIN seq : seq[i].id = seq[j].id => i = j
TabNames(s) == {tab.id : tab \in TabsOf(s)}

(* A pane shows one of its tabs or none, and has each tab once. *)
GoodPane(p) == Distinct(p.tabs) /\ p.activeTabId \in Names(p.tabs) \cup {None}

(* The plane of a space, whatever its focus is. *)
Plane(s) ==
    /\ s \in Space /\ IsFiniteSet(s.panes) /\ s.panes # {}
    /\ s.cards = {p.id : p \in s.panes}
    /\ \A p, q \in s.panes : p.id = q.id => p = q
    /\ \A p, q \in s.panes : p # q => Names(p.tabs) \cap Names(q.tabs) = {}
    /\ \A p \in s.panes : GoodPane(p)

Whole(s) ==
    /\ Plane(s)
    /\ s.activePaneId \in s.cards
    /\ s.maximizedTabId \in TabNames(s) \cup {None}

(* No two of these spaces share a name, a pane or a tab. *)
Apart(S) ==
    \A s, r \in S : s # r =>
       s.id # r.id /\ s.cards \cap r.cards = {} /\ TabNames(s) \cap TabNames(r) = {}

Workspace == [id : WorkspaceIds, root : Roots, railOpen : BOOLEAN,
              railPlacement : {"flow", "pin"}, spaces : Seq(Space),
              activeSpaceId : SpaceIds]

SpaceNames(w) == {s.id : s \in SpacesOf(w)}
PaneNames(w) == UNION {s.cards : s \in SpacesOf(w)}
TabNamesOf(w) == UNION {TabNames(s) : s \in SpacesOf(w)}

Sound(w) ==
    /\ w \in Workspace
    /\ \A s \in SpacesOf(w) : Whole(s)
    /\ Distinct(w.spaces) /\ Apart(SpacesOf(w))
    /\ w.activeSpaceId \in SpaceNames(w)

(* No two workspaces share a name, a space, a pane or a tab. *)
Separate(W) ==
    \A w, v \in W : w # v =>
       /\ w.id # v.id /\ SpaceNames(w) \cap SpaceNames(v) = {}
       /\ PaneNames(w) \cap PaneNames(v) = {} /\ TabNamesOf(w) \cap TabNamesOf(v) = {}

Window ==
    /\ workspaces \in Seq(Workspace)
    /\ \A w \in Range(workspaces) : Sound(w)
    /\ Distinct(workspaces) /\ Separate(Range(workspaces))

OpenNames == {w.id : w \in Range(workspaces)}

IInv ==
    /\ Window
    /\ activeId \in WorkspaceIds \cup {None} /\ linked \subseteq Views /\ measured \in BOOLEAN
    /\ workspaces # <<>> => activeId \in OpenNames

------------------------------------------------------------------------------
(* Sequences. *)

(* A sequence less one element is a sequence of what it held before and
   after, in their order.                                                  *)
LEMMA RemoveAtFacts ==
    ASSUME NEW S, NEW s \in Seq(S), NEW i \in DOMAIN s
    PROVE  /\ RemoveAt(s, i) \in Seq(S)
           /\ Len(RemoveAt(s, i)) = Len(s) - 1
           /\ \A j \in 1 .. Len(s) - 1 :
                RemoveAt(s, i)[j] = IF j < i THEN s[j] ELSE s[j + 1]
<1> DEFINE a == SubSeq(s, 1, i - 1)
           b == SubSeq(s, i + 1, Len(s))
<1>0. /\ Len(s) \in Nat /\ DOMAIN s = 1 .. Len(s) /\ i \in 1 .. Len(s)
      /\ \A j \in 1 .. Len(s) : s[j] \in S
  BY LenProperties, ElementOfSeq
<1>1. a \in Seq(S) /\ Len(a) = i - 1 /\ \A j \in 1 .. i - 1 : a[j] = s[j]
<2>1. \A j \in 1 .. i - 1 : s[j] \in S
  BY <1>0
<2>2. /\ a \in Seq(S)
      /\ Len(a) = IF 1 <= i - 1 THEN i - 1 - 1 + 1 ELSE 0
      /\ \A j \in 1 .. (i - 1) - 1 + 1 : a[j] = s[1 + j - 1]
  BY <1>0, <2>1, SubSeqProperties
<2>3. QED
  BY <1>0, <2>2
<1>2. b \in Seq(S) /\ Len(b) = Len(s) - i /\ \A j \in 1 .. Len(s) - i : b[j] = s[i + j]
<2>1. \A j \in i + 1 .. Len(s) : s[j] \in S
  BY <1>0
<2>2. /\ b \in Seq(S)
      /\ Len(b) = IF i + 1 <= Len(s) THEN Len(s) - (i + 1) + 1 ELSE 0
      /\ \A j \in 1 .. Len(s) - (i + 1) + 1 : b[j] = s[(i + 1) + j - 1]
  BY <1>0, <2>1, SubSeqProperties
<2>3. \A j \in 1 .. Len(s) - i : j \in 1 .. Len(s) - (i + 1) + 1 /\ (i + 1) + j - 1 = i + j
  BY <1>0
<2>4. Len(b) = Len(s) - i
  BY <1>0, <2>2
<2>5. QED
  BY <2>2, <2>3, <2>4
<1> HIDE DEF a, b
<1>3. /\ a \o b \in Seq(S)
      /\ Len(a \o b) = Len(s) - 1
      /\ \A j \in 1 .. Len(s) - 1 : (a \o b)[j] = IF j <= i - 1 THEN a[j] ELSE b[j - (i - 1)]
<2>1. /\ a \o b \in Seq(S) /\ Len(a \o b) = Len(a) + Len(b)
      /\ \A j \in 1 .. Len(a) + Len(b) :
           (a \o b)[j] = IF j <= Len(a) THEN a[j] ELSE b[j - Len(a)]
  BY <1>1, <1>2, ConcatProperties
<2>2. Len(a) + Len(b) = Len(s) - 1
  BY <1>0, <1>1, <1>2
<2>3. QED
  BY <1>1, <2>1, <2>2
<1>4. ASSUME NEW j \in 1 .. Len(s) - 1
      PROVE  (a \o b)[j] = IF j < i THEN s[j] ELSE s[j + 1]
<2>1. CASE j < i
<3>1. j \in 1 .. i - 1 /\ j <= i - 1
  BY <1>0, <2>1
<3>2. QED
  BY <1>1, <1>3, <2>1, <3>1
<2>2. CASE ~(j < i)
<3>1. j - (i - 1) \in 1 .. Len(s) - i /\ i + (j - (i - 1)) = j + 1 /\ ~(j <= i - 1)
  BY <1>0, <2>2
<3>2. QED
  BY <1>2, <1>3, <2>2, <3>1
<2>3. QED
  BY <2>1, <2>2
<1>5. QED
  BY <1>3, <1>4 DEF RemoveAt, a, b

(* What stands in a sequence less one element stood in it. *)
LEMMA RemoveAtRange ==
    ASSUME NEW S, NEW s \in Seq(S), NEW i \in DOMAIN s
    PROVE  /\ Range(RemoveAt(s, i)) \subseteq Range(s)
           /\ \A j \in DOMAIN s : j # i => s[j] \in Range(RemoveAt(s, i))
<1> DEFINE r == RemoveAt(s, i)
<1>1. /\ Len(s) \in Nat /\ DOMAIN s = 1 .. Len(s) /\ i \in 1 .. Len(s)
      /\ r \in Seq(S) /\ Len(r) = Len(s) - 1 /\ DOMAIN r = 1 .. Len(s) - 1
      /\ \A j \in 1 .. Len(s) - 1 : r[j] = IF j < i THEN s[j] ELSE s[j + 1]
  BY LenProperties, RemoveAtFacts
<1>2. ASSUME NEW j \in DOMAIN r
      PROVE  r[j] \in Range(s)
<2>1. j \in DOMAIN s /\ j + 1 \in DOMAIN s
  BY <1>1
<2>2. r[j] = s[j] \/ r[j] = s[j + 1]
  BY <1>1
<2>3. QED
  BY <2>1, <2>2 DEF Range
<1>3. ASSUME NEW j \in DOMAIN s, j # i
      PROVE  s[j] \in Range(r)
<2>1. CASE j < i
<3>1. j \in DOMAIN r /\ r[j] = s[j]
  BY <1>1, <2>1
<3>2. QED
  BY <3>1 DEF Range
<2>2. CASE j > i
<3>1. j - 1 \in DOMAIN r /\ r[j - 1] = s[j]
  BY <1>1, <2>2
<3>2. QED
  BY <3>1 DEF Range
<2>3. QED
  BY <1>1, <1>3, <2>1, <2>2
<1>4. QED
  BY <1>2, <1>3 DEF Range

(* The names that stay when an element leaves a sequence that has each name
   once: a tab its pane, a space its workspace, a workspace the window.    *)
LEMMA RemoveAtNames ==
    ASSUME NEW S, NEW s \in Seq(S), Distinct(s), NEW i \in DOMAIN s
    PROVE  /\ Distinct(RemoveAt(s, i))
           /\ Range(RemoveAt(s, i)) = {tab \in Range(s) : tab.id # s[i].id}
           /\ Names(RemoveAt(s, i)) = Names(s) \ {s[i].id}
<1> DEFINE r == RemoveAt(s, i)
<1>1. /\ Len(s) \in Nat /\ DOMAIN s = 1 .. Len(s) /\ i \in 1 .. Len(s)
      /\ r \in Seq(S) /\ Len(r) = Len(s) - 1 /\ DOMAIN r = 1 .. Len(s) - 1
      /\ \A j \in 1 .. Len(s) - 1 : r[j] = IF j < i THEN s[j] ELSE s[j + 1]
  BY LenProperties, RemoveAtFacts
<1> HIDE DEF r
<1>2. ASSUME NEW j \in DOMAIN r
      PROVE  \E k \in DOMAIN s : /\ k = IF j < i THEN j ELSE j + 1
                                 /\ k # i /\ r[j] = s[k]
  BY <1>1
<1>3. Distinct(r)
<2> SUFFICES ASSUME NEW j \in DOMAIN r, NEW k \in DOMAIN r, r[j].id = r[k].id
             PROVE  j = k
  BY DEF Distinct
<2>1. PICK a \in DOMAIN s : a = (IF j < i THEN j ELSE j + 1) /\ r[j] = s[a]
  BY <1>2
<2>2. PICK b \in DOMAIN s : b = (IF k < i THEN k ELSE k + 1) /\ r[k] = s[b]
  BY <1>2
<2>3. a = b
  BY <2>1, <2>2 DEF Distinct
<2>4. QED
  BY <1>1, <2>1, <2>2, <2>3
<1>4. ASSUME NEW tab \in Range(r)
      PROVE  tab \in Range(s) /\ tab.id # s[i].id
<2>1. PICK j \in DOMAIN r : tab = r[j]
  BY DEF Range
<2>2. PICK k \in DOMAIN s : k # i /\ r[j] = s[k]
  BY <1>2
<2>3. QED
  BY <2>1, <2>2 DEF Range, Distinct
<1>5. ASSUME NEW tab \in Range(s), tab.id # s[i].id
      PROVE  tab \in Range(r)
<2>1. PICK j \in DOMAIN s : tab = s[j]
  BY DEF Range
<2>2. j # i
  BY <1>5, <2>1
<2>3. QED
  BY <2>1, <2>2, RemoveAtRange DEF r
<1>6. Range(r) = {tab \in Range(s) : tab.id # s[i].id}
  BY <1>4, <1>5
<1>7. Names(r) = Names(s) \ {s[i].id}
  BY <1>6 DEF Names
<1>8. QED
  BY <1>3, <1>6, <1>7 DEF r

(* A tab at the end of a pane, or the tabs of another pane after its own. *)
LEMMA ConcatNames ==
    ASSUME NEW S, NEW s \in Seq(S), NEW t \in Seq(S), Distinct(s), Distinct(t),
           Names(s) \cap Names(t) = {}
    PROVE  /\ s \o t \in Seq(S) /\ Distinct(s \o t)
           /\ Range(s \o t) = Range(s) \cup Range(t)
           /\ Names(s \o t) = Names(s) \cup Names(t)
<1> DEFINE u == s \o t
<1>1. /\ Len(s) \in Nat /\ Len(t) \in Nat /\ DOMAIN s = 1 .. Len(s) /\ DOMAIN t = 1 .. Len(t)
      /\ u \in Seq(S) /\ Len(u) = Len(s) + Len(t) /\ DOMAIN u = 1 .. Len(s) + Len(t)
      /\ \A i \in 1 .. Len(s) + Len(t) : u[i] = IF i <= Len(s) THEN s[i] ELSE t[i - Len(s)]
  BY LenProperties, ConcatProperties
<1> HIDE DEF u
<1>2. \A i \in DOMAIN s : i \in DOMAIN u /\ u[i] = s[i]
  BY <1>1
<1>3. \A i \in DOMAIN t : i + Len(s) \in DOMAIN u /\ u[i + Len(s)] = t[i]
  BY <1>1
<1>4. \A i \in DOMAIN u : \/ i \in DOMAIN s /\ u[i] = s[i]
                          \/ /\ i \notin DOMAIN s /\ i - Len(s) \in DOMAIN t
                             /\ u[i] = t[i - Len(s)]
  BY <1>1
<1>5. Range(u) = Range(s) \cup Range(t)
  BY <1>2, <1>3, <1>4 DEF Range
<1>6. Names(u) = Names(s) \cup Names(t)
  BY <1>5 DEF Names
<1>7. Distinct(u)
<2> SUFFICES ASSUME NEW i \in DOMAIN u, NEW j \in DOMAIN u, u[i].id = u[j].id
             PROVE  i = j
  BY DEF Distinct
<2>1. \A k \in DOMAIN s : s[k].id \in Names(s)
  BY DEF Names, Range
<2>2. \A k \in DOMAIN t : t[k].id \in Names(t)
  BY DEF Names, Range
<2>3. CASE i \in DOMAIN s /\ j \in DOMAIN s
  BY <1>4, <2>3 DEF Distinct
<2>4. CASE i \notin DOMAIN s /\ j \notin DOMAIN s
<3>1. i - Len(s) = j - Len(s)
  BY <1>4, <2>4 DEF Distinct
<3>2. QED
  BY <1>1, <3>1
<2>5. CASE i \in DOMAIN s /\ j \notin DOMAIN s
  BY <1>4, <2>1, <2>2, <2>5
<2>6. CASE i \notin DOMAIN s /\ j \in DOMAIN s
  BY <1>4, <2>1, <2>2, <2>6
<2>7. QED
  BY <2>3, <2>4, <2>5, <2>6
<1>8. QED
  BY <1>1, <1>5, <1>6, <1>7 DEF u

(* A sequence of one element. *)
LEMMA OneElement ==
    ASSUME NEW S, NEW tab \in S
    PROVE  /\ <<tab>> \in Seq(S) /\ Distinct(<<tab>>) /\ <<tab>> # <<>>
           /\ Range(<<tab>>) = {tab} /\ Names(<<tab>>) = {tab.id}
<1>1. /\ <<tab>> \in Seq(S) /\ DOMAIN <<tab>> = {1} /\ <<tab>>[1] = tab /\ <<tab>> # <<>>
  OBVIOUS
<1>2. Range(<<tab>>) = {tab}
  BY <1>1 DEF Range
<1>3. Names(<<tab>>) = {tab.id}
  BY <1>2 DEF Names
<1>4. Distinct(<<tab>>)
  BY <1>1 DEF Distinct
<1>5. QED
  BY <1>1, <1>2, <1>3, <1>4

(* An element of a new name at the end of a sequence. *)
LEMMA AppendNames ==
    ASSUME NEW S, NEW s \in Seq(S), NEW tab \in S, Distinct(s), tab.id \notin Names(s)
    PROVE  /\ Append(s, tab) \in Seq(S) /\ Distinct(Append(s, tab))
           /\ Range(Append(s, tab)) = Range(s) \cup {tab}
           /\ Names(Append(s, tab)) = Names(s) \cup {tab.id}
<1> DEFINE t == <<tab>>
<1>1. Append(s, tab) = s \o t
  BY AppendIsConcat
<1>2. t \in Seq(S) /\ Distinct(t) /\ Range(t) = {tab} /\ Names(t) = {tab.id}
  BY OneElement
<1> HIDE DEF t
<1>3. Names(s) \cap Names(t) = {}
  BY <1>2
<1>4. /\ s \o t \in Seq(S) /\ Distinct(s \o t)
      /\ Range(s \o t) = Range(s) \cup Range(t) /\ Names(s \o t) = Names(s) \cup Names(t)
  BY <1>2, <1>3, ConcatNames
<1>5. QED
  BY <1>1, <1>2, <1>4

------------------------------------------------------------------------------
(* Planes. *)

(* On a plane the panes with a card are the panes. *)
LEMMA PlaneFacts ==
    ASSUME NEW s, Plane(s)
    PROVE  /\ AllGroups(s) = s.panes /\ AllViews(s) = TabsOf(s)
           /\ \A g : HasGroup(s, g) <=> g \in s.cards
           /\ \A p \in s.panes : p \in Pane /\ p.id \in s.cards
           /\ TabsOf(s) \subseteq Tab
           /\ \A t : t \in TabNames(s) <=> \E p \in s.panes : t \in Names(p.tabs)
           /\ \A p \in s.panes : Names(p.tabs) \subseteq TabNames(s)
<1>1. AllGroups(s) = s.panes
  BY DEF Plane, AllGroups
<1>2. AllViews(s) = TabsOf(s)
  BY <1>1 DEF AllViews, TabsOf
<1>3. \A g : HasGroup(s, g) <=> g \in s.cards
  BY <1>1 DEF HasGroup, Plane
<1>4. \A p \in s.panes : p \in Pane /\ p.id \in s.cards
  BY DEF Plane, Space
<1>5. \A p \in s.panes : Range(p.tabs) \subseteq Tab
  BY <1>4, ElementOfSeq, LenProperties DEF Pane, Range
<1>6. TabsOf(s) \subseteq Tab
  BY <1>5 DEF TabsOf
<1>7. \A t : t \in TabNames(s) <=> \E p \in s.panes : t \in Names(p.tabs)
  BY DEF TabNames, TabsOf, Names
<1>8. QED
  BY <1>1, <1>2, <1>3, <1>4, <1>6, <1>7

(* A pane and its card are found by name, a tab's pane by the tab. *)
LEMMA FindGroupFacts ==
    ASSUME NEW s, Plane(s), NEW g \in s.cards
    PROVE  FindGroup(s, g) \in s.panes /\ FindGroup(s, g).id = g
  BY DEF Plane, FindGroup

(* A tab's pane is found by the tab's name. *)
LEMMA FindGroupOfViewFacts ==
    ASSUME NEW s, Plane(s), NEW t \in TabNames(s)
    PROVE  /\ FindGroupOfView(s, t) \in s.panes
           /\ t \in Names(FindGroupOfView(s, t).tabs)
<1>1. \E p \in s.panes : \E tab \in Range(p.tabs) : tab.id = t
  BY DEF TabNames, TabsOf
<1>2. /\ FindGroupOfView(s, t) \in s.panes
      /\ \E tab \in Range(FindGroupOfView(s, t).tabs) : tab.id = t
  BY <1>1 DEF FindGroupOfView
<1>3. QED
  BY <1>2 DEF Names

(* The cards are as many as the panes. *)
LEMMA CardsCount ==
    ASSUME NEW s, Plane(s)
    PROVE  IsFiniteSet(s.cards) /\ Cardinality(s.cards) = Cardinality(s.panes)
<1> DEFINE f == [p \in s.panes |-> p.id]
<1>1. f \in Bijection(s.panes, s.cards)
<2>1. f \in [s.panes -> s.cards]
  BY DEF Plane
<2>2. \A p, q \in s.panes : f[p] = f[q] => p = q
  BY DEF Plane
<2>3. \A g \in s.cards : \E p \in s.panes : f[p] = g
  BY DEF Plane
<2>4. QED
  BY <2>1, <2>2, <2>3, Fun_IsBij
<1>2. ExistsBijection(s.panes, s.cards)
  BY <1>1 DEF ExistsBijection
<1>3. QED
  BY <1>2, FS_Bijection DEF Plane

(* Where nothing but the focus and the rail differs, the plane is one. *)
LEMMA SamePlane ==
    ASSUME NEW s, Plane(s), NEW r \in Space, r.panes = s.panes, r.cards = s.cards
    PROVE  Plane(r) /\ TabsOf(r) = TabsOf(s)
  BY DEF Plane, TabsOf

(* One pane in the place of another of that name. *)
LEMMA PaneReplaced ==
    ASSUME NEW s, Plane(s), NEW r \in Space, r.cards = s.cards,
           NEW old \in s.panes, NEW new \in Pane, new.id = old.id, GoodPane(new),
           \A q \in s.panes \ {old} : Names(new.tabs) \cap Names(q.tabs) = {},
           r.panes = (s.panes \ {old}) \cup {new}
    PROVE  Plane(r) /\ TabsOf(r) = Range(new.tabs) \cup UNION {Range(q.tabs) : q \in s.panes \ {old}}
<1>1. IsFiniteSet(r.panes)
<2>1. IsFiniteSet(s.panes)
  BY DEF Plane
<2>2. IsFiniteSet(s.panes \ {old})
  BY <2>1, FS_RemoveElement
<2>3. QED
  BY <2>2, FS_AddElement
<1>2. r.panes # {}
  OBVIOUS
<1>3. r.cards = {p.id : p \in r.panes}
<2>1. s.cards = {p.id : p \in s.panes}
  BY DEF Plane
<2>2. \A p \in r.panes : p.id \in s.cards
  BY <2>1
<2>3. \A g \in s.cards : \E p \in r.panes : p.id = g
<3>1. new \in r.panes /\ new.id = old.id /\ \A p \in s.panes : p = old \/ p \in r.panes
  OBVIOUS
<3>2. QED
  BY <2>1, <3>1
<2>4. QED
  BY <2>2, <2>3
<1>4. \A p, q \in r.panes : p.id = q.id => p = q
  BY DEF Plane
<1>5. \A p, q \in r.panes : p # q => Names(p.tabs) \cap Names(q.tabs) = {}
<2> SUFFICES ASSUME NEW p \in r.panes, NEW q \in r.panes, p # q
             PROVE  Names(p.tabs) \cap Names(q.tabs) = {}
  OBVIOUS
<2>1. CASE p = new
  BY <2>1
<2>2. CASE q = new
  BY <2>2
<2>3. CASE p # new /\ q # new
  BY <2>3 DEF Plane
<2>4. QED
  BY <2>1, <2>2, <2>3
<1>6. \A p \in r.panes : GoodPane(p)
  BY DEF Plane
<1>7. TabsOf(r) = Range(new.tabs) \cup UNION {Range(q.tabs) : q \in s.panes \ {old}}
  BY DEF TabsOf
<1>8. QED
  BY <1>1, <1>2, <1>3, <1>4, <1>5, <1>6, <1>7 DEF Plane

(* One pane less, with its card. *)
LEMMA PaneRemoved ==
    ASSUME NEW s, Plane(s), NEW r \in Space, NEW old \in s.panes, s.panes # {old},
           r.panes = s.panes \ {old}, r.cards = s.cards \ {old.id}
    PROVE  /\ Plane(r)
           /\ TabsOf(r) = {tab \in TabsOf(s) : tab.id \notin Names(old.tabs)}
<1>1. IsFiniteSet(r.panes) /\ r.panes # {}
  BY FS_RemoveElement DEF Plane
<1>2. r.cards = {p.id : p \in r.panes}
  BY DEF Plane
<1>3. ASSUME NEW tab \in TabsOf(r)
      PROVE  tab \in TabsOf(s) /\ tab.id \notin Names(old.tabs)
<2>1. PICK p \in r.panes : tab \in Range(p.tabs)
  BY DEF TabsOf
<2>2. p \in s.panes /\ p # old /\ tab.id \in Names(p.tabs)
  BY <2>1 DEF Names
<2>3. Names(p.tabs) \cap Names(old.tabs) = {}
  BY <2>2 DEF Plane
<2>4. QED
  BY <2>1, <2>2, <2>3 DEF TabsOf
<1>4. ASSUME NEW tab \in TabsOf(s), tab.id \notin Names(old.tabs)
      PROVE  tab \in TabsOf(r)
<2>1. PICK p \in s.panes : tab \in Range(p.tabs)
  BY DEF TabsOf
<2>2. p # old
  BY <1>4, <2>1 DEF Names
<2>3. QED
  BY <2>1, <2>2 DEF TabsOf
<1>5. QED
  BY <1>1, <1>2, <1>3, <1>4 DEF Plane

(* One pane more, with its card and no tab that is on the plane. *)
LEMMA PaneAdded ==
    ASSUME NEW s, Plane(s), NEW r \in Space, NEW new \in Pane, GoodPane(new),
           new.id \notin s.cards, Names(new.tabs) \cap TabNames(s) = {},
           r.panes = s.panes \cup {new}, r.cards = s.cards \cup {new.id}
    PROVE  Plane(r) /\ TabsOf(r) = TabsOf(s) \cup Range(new.tabs)
<1>1. IsFiniteSet(r.panes) /\ r.panes # {}
  BY FS_AddElement DEF Plane
<1>2. r.cards = {p.id : p \in r.panes}
  BY DEF Plane
<1>3. \A p, q \in r.panes : p.id = q.id => p = q
  BY DEF Plane
<1>4. \A p, q \in r.panes : p # q => Names(p.tabs) \cap Names(q.tabs) = {}
<2>1. \A p \in s.panes : Names(p.tabs) \cap Names(new.tabs) = {}
  BY PlaneFacts
<2>2. QED
  BY <2>1 DEF Plane
<1>5. \A p \in r.panes : GoodPane(p)
  BY DEF Plane
<1>6. TabsOf(r) = TabsOf(s) \cup Range(new.tabs)
  BY DEF TabsOf
<1>7. QED
  BY <1>1, <1>2, <1>3, <1>4, <1>5, <1>6 DEF Plane

------------------------------------------------------------------------------
(* What each helper makes of a plane.  The rail is kept, or left behind when
   the pane beside it goes.                                                *)
RailKept(s, r) == r.rail \in {s.rail, Elsewhere}

(* A pane whose tabs and shown tab are replaced, the other panes untouched. *)
LEMMA MapGroupFacts ==
    ASSUME NEW s, Plane(s), NEW g \in s.cards, NEW tabs \in Seq(Tab), Distinct(tabs),
           NEW shown \in Names(tabs) \cup {None},
           \A q \in s.panes : q.id # g => Names(tabs) \cap Names(q.tabs) = {},
           NEW r, r = MapGroup(s, g, tabs, shown)
    PROVE  /\ Plane(r) /\ r.id = s.id /\ r.cards = s.cards /\ r.rail = s.rail
           /\ r.activePaneId = s.activePaneId /\ r.maximizedTabId = s.maximizedTabId
           /\ TabsOf(r) = Range(tabs) \cup
                          UNION {Range(q.tabs) : q \in {p \in s.panes : p.id # g}}
           /\ \A q \in r.panes : q.id = g => q.tabs = tabs /\ q.activeTabId = shown
           /\ \A q \in r.panes : q.id # g => q \in s.panes
<1> DEFINE old == FindGroup(s, g)
<1>1. old \in s.panes /\ old.id = g /\ \A p \in s.panes : p.id = g <=> p = old
<2>1. old \in s.panes /\ old.id = g
  BY FindGroupFacts
<2>2. \A p, q \in s.panes : p.id = q.id => p = q
  BY DEF Plane
<2>3. QED
  BY <2>1, <2>2
<1> HIDE DEF old
<1> DEFINE new == [old EXCEPT !.tabs = tabs, !.activeTabId = shown]
           all == {IF p.id = g THEN [p EXCEPT !.tabs = tabs, !.activeTabId = shown] ELSE p :
                     p \in s.panes}
<1>2. s \in Space /\ \A p \in s.panes : p \in Pane
  BY PlaneFacts DEF Plane
<1>3. new \in Pane /\ new.id = g /\ new.tabs = tabs /\ new.activeTabId = shown
<2>1. shown \in TabIds \cup {None}
<3>1. \A tab \in Range(tabs) : tab \in Tab
  BY ElementOfSeq, LenProperties DEF Range
<3>2. QED
  BY <3>1 DEF Names, Tab
<2>2. QED
  BY <1>1, <1>2, <2>1 DEF Pane
<1>4. all = (s.panes \ {old}) \cup {new}
<2>1. \A p \in s.panes : p # old => p.id # g
  BY <1>1
<2>2. QED
  BY <1>1, <2>1
<1> HIDE DEF new
<1>5. r = [s EXCEPT !.panes = all]
  BY DEF MapGroup
<1> HIDE DEF all
<1>6. /\ r \in Space /\ r.panes = all /\ r.id = s.id /\ r.cards = s.cards /\ r.rail = s.rail
      /\ r.activePaneId = s.activePaneId /\ r.maximizedTabId = s.maximizedTabId
<2>1. all \in SUBSET Pane
  BY <1>2, <1>3, <1>4
<2>2. QED
  BY <1>2, <1>5, <2>1 DEF Space
<1>7. GoodPane(new)
  BY <1>3 DEF GoodPane
<1>8. \A q \in s.panes \ {old} : Names(new.tabs) \cap Names(q.tabs) = {}
  BY <1>1, <1>3
<1>9. Plane(r) /\ TabsOf(r) = Range(new.tabs) \cup UNION {Range(q.tabs) : q \in s.panes \ {old}}
  BY <1>1, <1>3, <1>4, <1>6, <1>7, <1>8, PaneReplaced
<1>10. s.panes \ {old} = {p \in s.panes : p.id # g}
  BY <1>1
<1>11. QED
  BY <1>1, <1>3, <1>4, <1>6, <1>9, <1>10

(* A pane that shows another of its tabs. *)
LEMMA ShowFacts ==
    ASSUME NEW s, Plane(s), NEW p \in s.panes, NEW t \in Names(p.tabs) \cup {None},
           NEW r, r = MapGroup(s, p.id, p.tabs, t)
    PROVE  /\ Plane(r) /\ r.id = s.id /\ r.cards = s.cards /\ r.rail = s.rail
           /\ r.activePaneId = s.activePaneId /\ r.maximizedTabId = s.maximizedTabId
           /\ TabsOf(r) = TabsOf(s)
<1>1. p.id \in s.cards /\ p.tabs \in Seq(Tab) /\ Distinct(p.tabs)
  BY PlaneFacts DEF Plane, GoodPane, Pane
<1>2. \A q \in s.panes : q.id # p.id => Names(p.tabs) \cap Names(q.tabs) = {}
  BY DEF Plane
<1>3. Range(p.tabs) \cup UNION {Range(q.tabs) : q \in {q \in s.panes : q.id # p.id}} = TabsOf(s)
<2>1. \A q \in s.panes : q.id = p.id => q = p
  BY DEF Plane
<2>2. QED
  BY <2>1 DEF TabsOf
<1>4. /\ Plane(r) /\ r.id = s.id /\ r.cards = s.cards /\ r.rail = s.rail
      /\ r.activePaneId = s.activePaneId /\ r.maximizedTabId = s.maximizedTabId
      /\ TabsOf(r) = Range(p.tabs) \cup UNION {Range(q.tabs) : q \in {q \in s.panes : q.id # p.id}}
  BY <1>1, <1>2, MapGroupFacts
<1>5. QED
  BY <1>3, <1>4

(* A tab that is not on the plane joins a pane of it. *)
LEMMA WithTabFacts ==
    ASSUME NEW s, Plane(s), NEW g \in s.cards, NEW tab \in Tab, tab.id \notin TabNames(s),
           NEW r, r = WithTab(s, g, tab)
    PROVE  /\ Plane(r) /\ r.id = s.id /\ r.cards = s.cards /\ r.rail = s.rail
           /\ r.activePaneId = s.activePaneId /\ r.maximizedTabId = s.maximizedTabId
           /\ TabsOf(r) = TabsOf(s) \cup {tab}
<1> DEFINE p == FindGroup(s, g)
           tabs == Append(p.tabs, tab)
<1>1. p \in s.panes /\ p.id = g /\ \A q \in s.panes : q.id = g <=> q = p
<2>1. p \in s.panes /\ p.id = g
  BY FindGroupFacts
<2>2. \A q, x \in s.panes : q.id = x.id => q = x
  BY DEF Plane
<2>3. QED
  BY <2>1, <2>2
<1> HIDE DEF p
<1>2. p.tabs \in Seq(Tab) /\ Distinct(p.tabs) /\ tab.id \notin Names(p.tabs)
  BY <1>1, PlaneFacts DEF Plane, GoodPane, Pane
<1>3. /\ tabs \in Seq(Tab) /\ Distinct(tabs)
      /\ Range(tabs) = Range(p.tabs) \cup {tab} /\ Names(tabs) = Names(p.tabs) \cup {tab.id}
  BY <1>2, AppendNames
<1>4. r = MapGroup(s, g, tabs, tab.id)
  BY DEF WithTab, p
<1> HIDE DEF tabs
<1>5. \A q \in s.panes : q.id # g => Names(tabs) \cap Names(q.tabs) = {}
<2> SUFFICES ASSUME NEW q \in s.panes, q.id # g PROVE Names(tabs) \cap Names(q.tabs) = {}
  OBVIOUS
<2>1. Names(p.tabs) \cap Names(q.tabs) = {}
  BY <1>1 DEF Plane
<2>2. tab.id \notin Names(q.tabs)
  BY PlaneFacts
<2>3. QED
  BY <1>3, <2>1, <2>2
<1>6. tab.id \in Names(tabs) \cup {None}
  BY <1>3
<1>7. Range(tabs) \cup UNION {Range(q.tabs) : q \in {q \in s.panes : q.id # g}}
        = TabsOf(s) \cup {tab}
  BY <1>1, <1>3 DEF TabsOf
<1>8. QED
  BY <1>3, <1>4, <1>5, <1>6, <1>7, MapGroupFacts

(* The last pane stays; another goes with its card and its tabs. *)
LEMMA RemoveGroupFacts ==
    ASSUME NEW s, Plane(s), NEW g \in s.cards, NEW r, r = RemoveGroup(s, g)
    PROVE  /\ Plane(r) /\ r.id = s.id /\ RailKept(s, r)
           /\ r.activePaneId = s.activePaneId /\ r.maximizedTabId = s.maximizedTabId
           /\ r.panes \subseteq s.panes /\ TabsOf(r) \subseteq TabsOf(s)
           /\ \/ s.cards = {g} /\ r = s
              \/ /\ s.cards # {g} /\ r.cards = s.cards \ {g}
                 /\ r.panes = {p \in s.panes : p.id # g}
                 /\ TabsOf(r) = {tab \in TabsOf(s) :
                                    tab.id \notin Names(FindGroup(s, g).tabs)}
<1> DEFINE old == FindGroup(s, g)
<1>1. old \in s.panes /\ old.id = g /\ \A p \in s.panes : p.id = g <=> p = old
<2>1. old \in s.panes /\ old.id = g
  BY FindGroupFacts
<2>2. \A p, q \in s.panes : p.id = q.id => p = q
  BY DEF Plane
<2>3. QED
  BY <2>1, <2>2
<1>2. Cardinality(s.cards) = 1 <=> s.cards = {g}
  BY CardsCount, FS_Singleton
<1>3. CASE s.cards = {g}
  BY <1>2, <1>3 DEF RemoveGroup, RailKept
<1>4. CASE s.cards # {g}
<2>1. r = [s EXCEPT !.cards = s.cards \ {g}, !.panes = {p \in s.panes : p.id # g},
                    !.rail = IF s.rail = g THEN Elsewhere ELSE s.rail]
  BY <1>2, <1>4 DEF RemoveGroup
<2>2. s \in Space
  BY DEF Plane
<2>3. /\ r \in Space /\ r.id = s.id /\ r.cards = s.cards \ {g}
      /\ r.panes = {p \in s.panes : p.id # g}
      /\ r.rail = IF s.rail = g THEN Elsewhere ELSE s.rail
      /\ r.activePaneId = s.activePaneId /\ r.maximizedTabId = s.maximizedTabId
  BY <2>1, <2>2 DEF Space
<2>4. r.panes = s.panes \ {old} /\ s.panes # {old}
  BY <1>1, <1>4, <2>3 DEF Plane
<2>5. Plane(r) /\ TabsOf(r) = {tab \in TabsOf(s) : tab.id \notin Names(old.tabs)}
  BY <1>1, <2>3, <2>4, PaneRemoved
<2>6. QED
  BY <1>4, <2>3, <2>5 DEF RailKept
<1>5. QED
  BY <1>3, <1>4

(* A pane of its own for what is not on the plane. *)
LEMMA SplitAtGroupFacts ==
    ASSUME NEW s, Plane(s), NEW fresh \in Pane, GoodPane(fresh), fresh.id \notin s.cards,
           Names(fresh.tabs) \cap TabNames(s) = {}, NEW r, r = SplitAtGroup(s, fresh)
    PROVE  /\ Plane(r) /\ r.id = s.id /\ r.cards = s.cards \cup {fresh.id} /\ r.rail = s.rail
           /\ r.activePaneId = s.activePaneId /\ r.maximizedTabId = s.maximizedTabId
           /\ TabsOf(r) = TabsOf(s) \cup Range(fresh.tabs)
<1>1. s \in Space
  BY DEF Plane
<1>2. /\ r \in Space /\ r.id = s.id /\ r.cards = s.cards \cup {fresh.id} /\ r.rail = s.rail
      /\ r.panes = s.panes \cup {fresh}
      /\ r.activePaneId = s.activePaneId /\ r.maximizedTabId = s.maximizedTabId
  BY <1>1 DEF SplitAtGroup, Space, Pane
<1>3. QED
  BY <1>2, PaneAdded

(* A tab leaves its pane, and the pane, when that was its last, the plane.
   The pane shows what it showed, or the neighbour that follows it.        *)
LEMMA RemoveViewFacts ==
    ASSUME NEW s, Plane(s), NEW t \in TabNames(s), NEW r, r = RemoveView(s, t)
    PROVE  /\ Plane(r) /\ r.id = s.id /\ RailKept(s, r)
           /\ r.activePaneId = s.activePaneId /\ r.maximizedTabId = s.maximizedTabId
           /\ r.cards \subseteq s.cards
           /\ TabsOf(r) = {tab \in TabsOf(s) : tab.id # t}
           /\ \A q \in r.panes : \E p \in s.panes :
                p.id = q.id /\ (p.activeTabId # t => q.activeTabId = p.activeTabId)
<1> DEFINE owner == FindGroupOfView(s, t)
           at == CHOOSE i \in DOMAIN owner.tabs : owner.tabs[i].id = t
           tabs == RemoveAt(owner.tabs, at)
           next == CASE owner.activeTabId # t -> owner.activeTabId
                     [] tabs = <<>> -> None
                     [] OTHER -> tabs[IF at <= Len(tabs) THEN at ELSE at - 1].id
           kept == MapGroup(s, owner.id, tabs, next)
<1>1. r = IF tabs = <<>> THEN RemoveGroup(kept, owner.id) ELSE kept
  BY DEF RemoveView
<1>2. owner \in s.panes /\ t \in Names(owner.tabs)
  BY FindGroupOfViewFacts
<1> HIDE DEF owner
<1>3. /\ owner.id \in s.cards /\ owner.tabs \in Seq(Tab) /\ Distinct(owner.tabs)
      /\ owner.activeTabId \in Names(owner.tabs) \cup {None}
  BY <1>2, PlaneFacts DEF Plane, GoodPane, Pane
<1>4. at \in DOMAIN owner.tabs /\ owner.tabs[at].id = t
  BY <1>2 DEF Names, Range
<1> HIDE DEF at
<1>5. /\ tabs \in Seq(Tab) /\ Distinct(tabs) /\ Len(tabs) = Len(owner.tabs) - 1
      /\ Range(tabs) = {tab \in Range(owner.tabs) : tab.id # t}
      /\ Names(tabs) = Names(owner.tabs) \ {t}
<2>1. tabs \in Seq(Tab) /\ Len(tabs) = Len(owner.tabs) - 1
  BY <1>3, <1>4, RemoveAtFacts
<2>2. /\ Distinct(tabs) /\ Range(tabs) = {tab \in Range(owner.tabs) : tab.id # owner.tabs[at].id}
      /\ Names(tabs) = Names(owner.tabs) \ {owner.tabs[at].id}
  BY <1>3, <1>4, RemoveAtNames
<2>3. QED
  BY <1>4, <2>1, <2>2
<1>6. at \in 1 .. Len(tabs) + 1 /\ Len(tabs) \in Nat /\ DOMAIN tabs = 1 .. Len(tabs)
<2>1. DOMAIN owner.tabs = 1 .. Len(owner.tabs) /\ Len(owner.tabs) \in Nat
  BY <1>3, LenProperties
<2>2. Len(tabs) \in Nat /\ DOMAIN tabs = 1 .. Len(tabs)
  BY <1>5, LenProperties
<2>3. QED
  BY <1>4, <1>5, <2>1, <2>2
<1> HIDE DEF tabs
<1>7. next \in Names(tabs) \cup {None}
<2>1. CASE owner.activeTabId # t
  BY <1>3, <1>5, <2>1
<2>2. CASE owner.activeTabId = t /\ tabs = <<>>
  BY <2>2
<2>3. CASE owner.activeTabId = t /\ tabs # <<>>
<3>1. Len(tabs) # 0
  BY <1>5, <2>3, EmptySeq
<3>2. (IF at <= Len(tabs) THEN at ELSE at - 1) \in DOMAIN tabs
  BY <1>6, <3>1
<3>3. next = tabs[IF at <= Len(tabs) THEN at ELSE at - 1].id
  BY <2>3
<3>4. QED
  BY <3>2, <3>3 DEF Names, Range
<2>4. QED
  BY <2>1, <2>2, <2>3
<1>8. ASSUME owner.activeTabId # t
      PROVE  next = owner.activeTabId
<2>1. tabs = <<>> => Names(tabs) = {}
  BY DEF Names, Range
<2>2. tabs = <<>> => owner.activeTabId = None
  BY <1>3, <1>5, <1>8, <2>1
<2>3. QED
  BY <1>8, <2>2
<1> HIDE DEF next
<1>9. \A q \in s.panes : q.id # owner.id => Names(owner.tabs) \cap Names(q.tabs) = {}
  BY <1>2 DEF Plane
<1>10. \A q \in s.panes : q.id # owner.id => Names(tabs) \cap Names(q.tabs) = {}
  BY <1>5, <1>9
<1>11. /\ Plane(kept) /\ kept.id = s.id /\ kept.cards = s.cards /\ kept.rail = s.rail
       /\ kept.activePaneId = s.activePaneId /\ kept.maximizedTabId = s.maximizedTabId
       /\ TabsOf(kept) = Range(tabs) \cup
                         UNION {Range(q.tabs) : q \in {p \in s.panes : p.id # owner.id}}
       /\ \A q \in kept.panes : q.id = owner.id => q.tabs = tabs /\ q.activeTabId = next
       /\ \A q \in kept.panes : q.id # owner.id => q \in s.panes
  BY <1>3, <1>5, <1>7, <1>10, MapGroupFacts
<1> HIDE DEF kept
<1>12. TabsOf(kept) = {tab \in TabsOf(s) : tab.id # t}
<2>1. \A q \in s.panes : q.id # owner.id => \A tab \in Range(q.tabs) : tab.id # t
  BY <1>2, <1>9 DEF Names
<2>2. \A tab \in TabsOf(s) : tab \in Range(owner.tabs)
                             \/ \E q \in s.panes : q.id # owner.id /\ tab \in Range(q.tabs)
  BY <1>2 DEF TabsOf, Plane
<2>3. Range(owner.tabs) \subseteq TabsOf(s)
      /\ \A q \in s.panes : Range(q.tabs) \subseteq TabsOf(s)
  BY <1>2 DEF TabsOf
<2>4. QED
  BY <1>5, <1>11, <2>1, <2>2, <2>3
<1>13. \A q \in kept.panes : \E p \in s.panes :
         p.id = q.id /\ (p.activeTabId # t => q.activeTabId = p.activeTabId)
  BY <1>2, <1>8, <1>11
<1>14. CASE tabs # <<>>
  BY <1>1, <1>11, <1>12, <1>13, <1>14 DEF RailKept
<1>15. CASE tabs = <<>>
<2>1. r = RemoveGroup(kept, owner.id) /\ owner.id \in kept.cards
  BY <1>1, <1>3, <1>11, <1>15
<2>2. /\ Plane(r) /\ r.id = kept.id /\ RailKept(kept, r)
      /\ r.activePaneId = kept.activePaneId /\ r.maximizedTabId = kept.maximizedTabId
      /\ r.panes \subseteq kept.panes
      /\ \/ kept.cards = {owner.id} /\ r = kept
         \/ /\ r.cards = kept.cards \ {owner.id}
            /\ TabsOf(r) = {tab \in TabsOf(kept) :
                               tab.id \notin Names(FindGroup(kept, owner.id).tabs)}
  BY <1>11, <2>1, RemoveGroupFacts
<2>3. Names(FindGroup(kept, owner.id).tabs) = {}
<3>1. FindGroup(kept, owner.id) \in kept.panes /\ FindGroup(kept, owner.id).id = owner.id
  BY <1>11, <2>1, FindGroupFacts
<3>2. FindGroup(kept, owner.id).tabs = <<>>
  BY <1>11, <1>15, <3>1
<3>3. QED
  BY <3>2 DEF Names, Range
<2>4. TabsOf(r) = TabsOf(kept)
  BY <2>2, <2>3
<2>5. r.cards \subseteq s.cards
  BY <1>11, <2>2
<2>6. QED
  BY <1>11, <1>12, <1>13, <2>2, <2>4, <2>5 DEF RailKept
<1>16. QED
  BY <1>14, <1>15

(* A space whose focus was put right is whole, and otherwise what it was. *)
LEMMA NormalizeFacts ==
    ASSUME NEW s, Plane(s), NEW r \in NormalizeActiveGroup(s)
    PROVE  /\ Whole(r) /\ r.id = s.id /\ r.panes = s.panes /\ r.cards = s.cards
           /\ r.rail = s.rail /\ TabsOf(r) = TabsOf(s)
           /\ s.activePaneId \in s.cards => r.activePaneId = s.activePaneId
<1> DEFINE max == IF s.maximizedTabId \in {t.id : t \in AllViews(s)}
                  THEN s.maximizedTabId ELSE None
           shown == [s EXCEPT !.maximizedTabId = max]
<1>1. s \in Space /\ AllViews(s) = TabsOf(s)
  BY PlaneFacts DEF Plane
<1>2. max \in TabNames(s) \cup {None} /\ max \in TabIds \cup {None}
  BY <1>1 DEF TabNames, Space
<1> HIDE DEF max
<1>3. /\ shown \in Space /\ shown.id = s.id /\ shown.panes = s.panes
      /\ shown.cards = s.cards /\ shown.rail = s.rail
      /\ shown.activePaneId = s.activePaneId /\ shown.maximizedTabId = max
  BY <1>1, <1>2 DEF Space
<1>4. \/ HasGroup(shown, shown.activePaneId) /\ r = shown
      \/ /\ ~HasGroup(shown, shown.activePaneId)
         /\ \E p \in AllGroups(shown) : r = [shown EXCEPT !.activePaneId = p.id]
  BY DEF NormalizeActiveGroup, max
<1> HIDE DEF shown
<1>5. Plane(shown) /\ TabsOf(shown) = TabsOf(s)
  BY <1>3, SamePlane
<1>6. CASE HasGroup(shown, shown.activePaneId) /\ r = shown
<2>1. r.activePaneId \in r.cards
  BY <1>5, <1>6, PlaneFacts
<2>2. QED
  BY <1>2, <1>3, <1>5, <1>6, <2>1 DEF Whole, TabNames
<1>7. CASE /\ ~HasGroup(shown, shown.activePaneId)
           /\ \E p \in AllGroups(shown) : r = [shown EXCEPT !.activePaneId = p.id]
<2>1. PICK p \in shown.panes : r = [shown EXCEPT !.activePaneId = p.id]
  BY <1>7 DEF AllGroups
<2>2. p.id \in shown.cards /\ shown.activePaneId \notin shown.cards
  BY <1>5, <1>7, PlaneFacts
<2>3. p.id \in PaneIds
  BY <1>3, <2>2 DEF Space
<2>4. /\ r \in Space /\ r.id = s.id /\ r.panes = s.panes /\ r.cards = s.cards
      /\ r.rail = s.rail /\ r.activePaneId = p.id /\ r.maximizedTabId = max
  BY <1>3, <2>1, <2>3 DEF Space
<2>5. Plane(r) /\ TabsOf(r) = TabsOf(s)
  BY <2>4, SamePlane
<2>6. QED
  BY <1>2, <1>3, <2>2, <2>4, <2>5 DEF Whole, TabNames
<1>8. QED
  BY <1>4, <1>6, <1>7

(* The rail moves and nothing else does.  Under PIN it moves to or from no
   line at all, when its section set comes or goes.                        *)
LEMMA SettleRailFacts ==
    ASSUME NEW s, Whole(s), NEW placement, NEW present \in BOOLEAN, measured \in BOOLEAN,
           NEW r, r = SettleRail(s, placement, present)
    PROVE  /\ Whole(r) /\ r.id = s.id /\ r.panes = s.panes /\ r.cards = s.cards
           /\ TabsOf(r) = TabsOf(s) /\ r.activePaneId = s.activePaneId
           /\ placement # "flow" /\ s.rail # None => r.rail \in {s.rail, None}
<1> DEFINE rail == CASE ~measured -> s.rail
                     [] measured /\ ~present -> None
                     [] measured /\ present /\ (placement = "flow" \/ s.rail = None) -> s.activePaneId
                     [] OTHER -> s.rail
<1>1. Plane(s) /\ s \in Space
  BY DEF Whole, Plane
<1>2. rail \in {s.rail, None, s.activePaneId}
  OBVIOUS
<1>3. placement # "flow" /\ s.rail # None => rail \in {s.rail, None}
  OBVIOUS
<1>4. r = [s EXCEPT !.rail = rail]
  BY DEF SettleRail
<1> HIDE DEF rail
<1>5. /\ r \in Space /\ r.id = s.id /\ r.panes = s.panes /\ r.cards = s.cards
      /\ r.activePaneId = s.activePaneId /\ r.maximizedTabId = s.maximizedTabId /\ r.rail = rail
  BY <1>1, <1>2, <1>4 DEF Space
<1>6. Plane(r) /\ TabsOf(r) = TabsOf(s)
  BY <1>1, <1>5, SamePlane
<1>7. QED
  BY <1>3, <1>5, <1>6 DEF Whole, TabNames

(* A new space: one pane, with one fresh tab or none. *)
LEMMA MakeGroupFacts ==
    ASSUME NEW g \in PaneIds, NEW tabs \in Seq(Tab), Distinct(tabs)
    PROVE  /\ MakeGroup(g, tabs) \in Pane /\ GoodPane(MakeGroup(g, tabs))
           /\ MakeGroup(g, tabs).id = g /\ MakeGroup(g, tabs).tabs = tabs
<1> DEFINE shown == IF tabs = <<>> THEN None ELSE Head(tabs).id
<1>1. shown \in Names(tabs) \cup {None} /\ shown \in TabIds \cup {None}
<2>1. CASE tabs = <<>>
  BY <2>1
<2>2. CASE tabs # <<>>
<3>1. 1 \in DOMAIN tabs /\ Head(tabs) = tabs[1] /\ Head(tabs) \in Tab
  BY <2>2, EmptySeq, LenProperties, HeadTailProperties
<3>2. QED
  BY <2>2, <3>1 DEF Names, Range, Tab
<2>3. QED
  BY <2>1, <2>2
<1>2. MakeGroup(g, tabs) = [id |-> g, tabs |-> tabs, activeTabId |-> shown]
  BY DEF MakeGroup
<1>3. QED
  BY <1>1, <1>2 DEF Pane, GoodPane

(* The space around that pane is whole. *)
LEMMA MakeContentFacts ==
    ASSUME NEW i \in SpaceIds, NEW g \in PaneIds, NEW tabs \in Seq(Tab), Distinct(tabs),
           NEW s, s = MakeContent(i, g, tabs)
    PROVE  Whole(s) /\ s.id = i /\ s.cards = {g} /\ TabsOf(s) = Range(tabs)
<1> DEFINE p == MakeGroup(g, tabs)
<1>1. p \in Pane /\ GoodPane(p) /\ p.id = g /\ p.tabs = tabs
  BY MakeGroupFacts
<1>2. s = [id |-> i, panes |-> {p}, cards |-> {g}, rail |-> None,
           activePaneId |-> g, maximizedTabId |-> None]
  BY DEF MakeContent
<1> HIDE DEF p
<1>3. s \in Space
  BY <1>1, <1>2 DEF Space
<1>4. IsFiniteSet(s.panes)
<2>1. IsFiniteSet({p})
  BY FS_Singleton
<2>2. QED
  BY <1>2, <2>1
<1>5. Plane(s) /\ TabsOf(s) = Range(tabs)
  BY <1>1, <1>2, <1>3, <1>4 DEF Plane, TabsOf
<1>6. QED
  BY <1>2, <1>5 DEF Whole

------------------------------------------------------------------------------
(* One space of a workspace replaced by another of that name. *)
TabsIn(w) == UNION {TabsOf(s) : s \in SpacesOf(w)}

(* The focus a space keeps: it focuses the pane it did, and each pane shows
   the tab it did, where those stay.                                       *)
SpaceFocusKept(s, r) ==
    /\ s.activePaneId \in r.cards => r.activePaneId = s.activePaneId
    /\ \A p \in s.panes, q \in r.panes :
         p.id = q.id /\ p.activeTabId \in Names(q.tabs) => q.activeTabId = p.activeTabId

FocusKept(w, v) ==
    /\ w.activeSpaceId \in SpaceNames(v) => v.activeSpaceId = w.activeSpaceId
    /\ \A s \in SpacesOf(w), r \in SpacesOf(v) : s.id = r.id => SpaceFocusKept(s, r)

RailsKept(w, v) == \A s \in SpacesOf(w), r \in SpacesOf(v) : s.id = r.id => RailKept(s, r)

PinKept(w, v) ==
    w.railPlacement = "pin" /\ v.railPlacement = "pin" =>
      \A s \in SpacesOf(w), r \in SpacesOf(v) :
        s.id = r.id /\ s.rail # None /\ r.rail # None => r.rail \in {s.rail, Elsewhere}

(* What an operation makes of a space before the rail is settled: a whole
   space, whose panes and tabs are its own or fresh.                       *)
SpaceDraft(s, r) ==
    /\ Whole(r) /\ r.id = s.id /\ RailKept(s, r)
    /\ r.cards \subseteq s.cards \cup FreshPane
    /\ TabNames(r) \subseteq TabNames(s) \cup FreshTab
    /\ TabsOf(s) \subseteq TabsOf(r) \/ SpaceFocusKept(s, r)

(* What it makes of a workspace: names of its own or fresh, no tab less or
   the focus kept.                                                         *)
Heir(w, v) ==
    /\ Sound(v) /\ v.id = w.id
    /\ SpaceNames(v) \subseteq SpaceNames(w) \cup FreshSpace
    /\ PaneNames(v) \subseteq PaneNames(w) \cup FreshPane
    /\ TabNamesOf(v) \subseteq TabNamesOf(w) \cup FreshTab
    /\ TabsIn(w) \subseteq TabsIn(v) \/ FocusKept(w, v)

(* What a sound workspace gives its operations. *)
LEMMA SoundFacts ==
    ASSUME NEW w, Sound(w)
    PROVE  /\ w.spaces \in Seq(Space) /\ w \in Workspace
           /\ \A s \in SpacesOf(w) : s \in Space /\ Whole(s) /\ Plane(s)
           /\ \A s, r \in SpacesOf(w) : s.id = r.id => s = r
           /\ ActiveSpace(w) \in SpacesOf(w) /\ ActiveSpace(w).id = w.activeSpaceId
<1>1. w.spaces \in Seq(Space) /\ w \in Workspace
  BY DEF Sound, Workspace
<1>2. \A s \in SpacesOf(w) : s \in Space /\ Whole(s) /\ Plane(s)
  BY DEF Sound, Whole, Plane
<1>3. \A s, r \in SpacesOf(w) : s.id = r.id => s = r
  BY DEF Sound, Apart
<1>4. ActiveSpace(w) \in SpacesOf(w) /\ ActiveSpace(w).id = w.activeSpaceId
  BY DEF Sound, SpaceNames, ActiveSpace
<1>5. QED
  BY <1>1, <1>2, <1>3, <1>4

(* A sequence of spaces with one replaced wherever it stands. *)
LEMMA MapContentRange ==
    ASSUME NEW w, Sound(w), NEW s \in SpacesOf(w), NEW r \in Space, r.id = s.id,
           NEW v, v = MapContent(w, r)
    PROVE  /\ v \in Workspace /\ SpacesOf(v) = (SpacesOf(w) \ {s}) \cup {r}
           /\ Distinct(v.spaces)
           /\ v.id = w.id /\ v.activeSpaceId = w.activeSpaceId
           /\ v.railOpen = w.railOpen /\ v.railPlacement = w.railPlacement
<1> DEFINE old == w.spaces
           new == [i \in DOMAIN old |-> IF old[i].id = r.id THEN r ELSE old[i]]
<1>1. old \in Seq(Space) /\ w \in Workspace
  BY SoundFacts
<1>2. \A x \in Range(old) : x.id = r.id <=> x = s
  BY SoundFacts DEF SpacesOf
<1>3. s \in Range(old) /\ SpacesOf(w) = Range(old)
  BY DEF SpacesOf
<1>4. v = [w EXCEPT !.spaces = new]
  BY DEF MapContent
<1> HIDE DEF old
<1>5. DOMAIN old = 1 .. Len(old) /\ Len(old) \in Nat /\ \A i \in DOMAIN old : old[i] \in Space
  BY <1>1, LenProperties, ElementOfSeq
<1>6. new \in Seq(Space)
<2>1. new \in [1 .. Len(old) -> Space]
  BY <1>5
<2>2. QED
  BY <1>5, <2>1
<1>7. DOMAIN new = DOMAIN old
  OBVIOUS
<1>8. \A i \in DOMAIN old : new[i] = IF old[i] = s THEN r ELSE old[i]
  BY <1>2 DEF Range
<1> HIDE DEF new
<1>9. Range(new) = (Range(old) \ {s}) \cup {r}
<2>1. \A i \in DOMAIN new : new[i] \in (Range(old) \ {s}) \cup {r}
  BY <1>7, <1>8 DEF Range
<2>2. r \in Range(new)
  BY <1>3, <1>7, <1>8 DEF Range
<2>3. \A x \in Range(old) \ {s} : x \in Range(new)
  BY <1>7, <1>8 DEF Range
<2>4. QED
  BY <2>1, <2>2, <2>3 DEF Range
<1>10. /\ v \in Workspace /\ v.spaces = new /\ v.id = w.id
       /\ v.activeSpaceId = w.activeSpaceId
       /\ v.railOpen = w.railOpen /\ v.railPlacement = w.railPlacement
  BY <1>1, <1>4, <1>6 DEF Workspace
<1>11. Distinct(new)
<2>1. \A i \in DOMAIN old : new[i].id = old[i].id
  BY <1>8
<2>2. Distinct(old)
  BY DEF Sound, old
<2>3. QED
  BY <1>7, <2>1, <2>2 DEF Distinct
<1>12. QED
  BY <1>3, <1>9, <1>10, <1>11 DEF SpacesOf

(* The workspace stays sound when the new space holds nothing of the others. *)
LEMMA SpaceReplaced ==
    ASSUME NEW w, Sound(w), NEW s \in SpacesOf(w), NEW r, Whole(r), r.id = s.id,
           NEW v, v = MapContent(w, r),
           \A x \in SpacesOf(w) \ {s} :
              r.cards \cap x.cards = {} /\ TabNames(r) \cap TabNames(x) = {}
    PROVE  /\ Sound(v) /\ SpaceNames(v) = SpaceNames(w)
           /\ SpacesOf(v) = (SpacesOf(w) \ {s}) \cup {r}
           /\ v.id = w.id /\ v.activeSpaceId = w.activeSpaceId
           /\ v.railOpen = w.railOpen /\ v.railPlacement = w.railPlacement
<1>1. r \in Space
  BY DEF Whole, Plane
<1>2. /\ v \in Workspace /\ SpacesOf(v) = (SpacesOf(w) \ {s}) \cup {r}
      /\ Distinct(v.spaces)
      /\ v.id = w.id /\ v.activeSpaceId = w.activeSpaceId
      /\ v.railOpen = w.railOpen /\ v.railPlacement = w.railPlacement
  BY <1>1, MapContentRange
<1>3. \A x \in SpacesOf(v) : Whole(x)
  BY <1>2, SoundFacts
<1>4. Apart(SpacesOf(v))
<2>1. \A x \in SpacesOf(w) \ {s} :
        x.id # r.id /\ r.cards \cap x.cards = {} /\ TabNames(r) \cap TabNames(x) = {}
  BY SoundFacts
<2>2. Apart(SpacesOf(w))
  BY DEF Sound
<2>3. QED
  BY <1>2, <2>1, <2>2 DEF Apart
<1>5. SpaceNames(v) = SpaceNames(w)
<2>1. \A x \in SpacesOf(v) : x.id \in SpaceNames(w)
  BY <1>2 DEF SpaceNames
<2>2. \A x \in SpacesOf(w) : x.id \in SpaceNames(v)
  BY <1>2 DEF SpaceNames
<2>3. QED
  BY <2>1, <2>2 DEF SpaceNames
<1>6. v.activeSpaceId \in SpaceNames(v)
  BY <1>2, <1>5 DEF Sound
<1>7. QED
  BY <1>2, <1>3, <1>4, <1>5, <1>6 DEF Sound

(* What is fresh is nowhere in the window. *)
LEMMA FreshFacts ==
    ASSUME Window, NEW w \in Range(workspaces)
    PROVE  /\ FreshSpace \cap SpaceNames(w) = {} /\ FreshPane \cap PaneNames(w) = {}
           /\ FreshTab \cap TabNamesOf(w) = {}
           /\ \A s \in SpacesOf(w) : /\ FreshPane \cap s.cards = {}
                                     /\ FreshTab \cap TabNames(s) = {}
<1>1. \A s \in SpacesOf(w) : s \in AllSpaces
  BY DEF AllSpaces
<1>2. FreshSpace \cap SpaceNames(w) = {}
  BY <1>1 DEF FreshSpace, SpaceNames
<1>3. \A s \in SpacesOf(w) : FreshPane \cap s.cards = {}
<2>1. \A s \in SpacesOf(w) : s.cards = {p.id : p \in s.panes}
  BY SoundFacts DEF Window, Plane
<2>2. \A s \in SpacesOf(w) : \A p \in s.panes : p \in AllPanes
  BY <1>1 DEF AllPanes
<2>3. QED
  BY <2>1, <2>2 DEF FreshPane
<1>4. \A s \in SpacesOf(w) : FreshTab \cap TabNames(s) = {}
  BY <1>1 DEF FreshTab, AllTabs, TabNames
<1>5. QED
  BY <1>2, <1>3, <1>4 DEF PaneNames, TabNamesOf

(* A space drafted makes a workspace drafted. *)
LEMMA DraftSpace ==
    ASSUME Window, NEW w \in Range(workspaces), NEW s \in SpacesOf(w), NEW r, SpaceDraft(s, r),
           NEW v, v = MapContent(w, r)
    PROVE  /\ Heir(w, v) /\ RailsKept(w, v) /\ SpaceNames(v) = SpaceNames(w)
           /\ v.activeSpaceId = w.activeSpaceId /\ v.railPlacement = w.railPlacement
           /\ TabsOf(s) \subseteq TabsOf(r) => TabsIn(w) \subseteq TabsIn(v)
<1>1. Sound(w)
  BY DEF Window
<1>2. Whole(r) /\ r.id = s.id
  BY DEF SpaceDraft
<1>3. ASSUME NEW x \in SpacesOf(w) \ {s}
      PROVE  r.cards \cap x.cards = {} /\ TabNames(r) \cap TabNames(x) = {}
<2>1. s.cards \cap x.cards = {} /\ TabNames(s) \cap TabNames(x) = {}
  BY <1>1, <1>3 DEF Sound, Apart
<2>2. FreshPane \cap x.cards = {} /\ FreshTab \cap TabNames(x) = {}
  BY <1>3, FreshFacts
<2>3. QED
  BY <2>1, <2>2 DEF SpaceDraft
<1>4. /\ Sound(v) /\ SpaceNames(v) = SpaceNames(w)
      /\ SpacesOf(v) = (SpacesOf(w) \ {s}) \cup {r}
      /\ v.id = w.id /\ v.activeSpaceId = w.activeSpaceId
      /\ v.railPlacement = w.railPlacement
  BY <1>1, <1>2, <1>3, SpaceReplaced
<1>5. ASSUME NEW x \in SpacesOf(w), NEW y \in SpacesOf(v), x.id = y.id
      PROVE  x = y \/ (x = s /\ y = r)
<2>1. \A z \in SpacesOf(w) : x.id = z.id => x = z
  BY <1>1, SoundFacts
<2>2. CASE y \in SpacesOf(w)
  BY <1>5, <2>1, <2>2
<2>3. CASE y = r
  BY <1>2, <1>5, <2>1, <2>3
<2>4. QED
  BY <1>4, <2>2, <2>3
<1>6. RailsKept(w, v)
  BY <1>5 DEF RailsKept, RailKept, SpaceDraft
<1>7. PaneNames(v) \subseteq PaneNames(w) \cup FreshPane
<2>1. \A x \in SpacesOf(v) : x.cards \subseteq PaneNames(w) \cup FreshPane
  BY <1>4 DEF PaneNames, SpaceDraft
<2>2. QED
  BY <2>1 DEF PaneNames
<1>8. TabNamesOf(v) \subseteq TabNamesOf(w) \cup FreshTab
<2>1. \A x \in SpacesOf(v) : TabNames(x) \subseteq TabNamesOf(w) \cup FreshTab
  BY <1>4 DEF TabNamesOf, SpaceDraft
<2>2. QED
  BY <2>1 DEF TabNamesOf
<1>9. TabsOf(s) \subseteq TabsOf(r) => TabsIn(w) \subseteq TabsIn(v)
  BY <1>4 DEF TabsIn
<1>10. SpaceFocusKept(s, r) => FocusKept(w, v)
<2>1. ASSUME NEW x \in SpacesOf(w)
      PROVE  SpaceFocusKept(x, x)
<3>1. \A p, q \in x.panes : p.id = q.id => p = q
  BY <1>1, SoundFacts DEF Plane
<3>2. QED
  BY <3>1 DEF SpaceFocusKept
<2>2. QED
  BY <1>4, <1>5, <2>1 DEF FocusKept
<1>11. QED
  BY <1>4, <1>6, <1>7, <1>8, <1>9, <1>10 DEF Heir, SpaceDraft

(* The rail settled: the focus, the panes and the tabs are what they were. *)
LEMMA SettledRail ==
    ASSUME measured \in BOOLEAN, NEW w, Sound(w), NEW v, Heir(w, v), RailsKept(w, v),
           NEW u, u = SettleWorkspaceRail(v)
    PROVE  Heir(w, u) /\ PinKept(w, u) /\ (TabsIn(w) \subseteq TabsIn(v) => TabsIn(w) \subseteq TabsIn(u))
<1> DEFINE s == ActiveSpace(v)
           r == SettleRail(s, v.railPlacement, RailPresent(v))
<1>1. Sound(v) /\ s \in SpacesOf(v) /\ Whole(s)
  BY SoundFacts DEF Heir
<1>2. RailPresent(v) \in BOOLEAN
  BY DEF RailPresent
<1> HIDE DEF s
<1>3. /\ Whole(r) /\ r.id = s.id /\ r.panes = s.panes /\ r.cards = s.cards
      /\ TabsOf(r) = TabsOf(s) /\ r.activePaneId = s.activePaneId
      /\ v.railPlacement # "flow" /\ s.rail # None => r.rail \in {s.rail, None}
  BY <1>1, <1>2, SettleRailFacts
<1>4. u = MapContent(v, r)
  BY DEF SettleWorkspaceRail, s
<1> HIDE DEF r
<1>5. TabNames(r) = TabNames(s)
  BY <1>3 DEF TabNames
<1>6. \A x \in SpacesOf(v) \ {s} : r.cards \cap x.cards = {} /\ TabNames(r) \cap TabNames(x) = {}
  BY <1>1, <1>3, <1>5 DEF Sound, Apart
<1>7. /\ Sound(u) /\ SpaceNames(u) = SpaceNames(v)
      /\ SpacesOf(u) = (SpacesOf(v) \ {s}) \cup {r}
      /\ u.id = v.id /\ u.activeSpaceId = v.activeSpaceId
      /\ u.railPlacement = v.railPlacement
  BY <1>1, <1>3, <1>4, <1>6, SpaceReplaced
<1>8. PaneNames(u) = PaneNames(v) /\ TabNamesOf(u) = TabNamesOf(v) /\ TabsIn(u) = TabsIn(v)
<2>1. PaneNames(u) = PaneNames(v)
  BY <1>1, <1>3, <1>7 DEF PaneNames
<2>2. TabNamesOf(u) = TabNamesOf(v)
  BY <1>1, <1>5, <1>7 DEF TabNamesOf
<2>3. TabsIn(u) = TabsIn(v)
  BY <1>1, <1>3, <1>7 DEF TabsIn
<2>4. QED
  BY <2>1, <2>2, <2>3
<1>9. FocusKept(w, v) => FocusKept(w, u)
<2>1. ASSUME FocusKept(w, v), NEW x \in SpacesOf(w), NEW y \in SpacesOf(u), x.id = y.id
      PROVE  SpaceFocusKept(x, y)
<3>1. CASE y \in SpacesOf(v)
  BY <2>1, <3>1 DEF FocusKept
<3>2. CASE y = r
<4>1. SpaceFocusKept(x, s)
  BY <1>1, <1>3, <2>1, <3>2 DEF FocusKept
<4>2. QED
  BY <1>3, <3>2, <4>1 DEF SpaceFocusKept
<3>3. QED
  BY <1>7, <3>1, <3>2
<2>2. QED
  BY <1>7, <2>1 DEF FocusKept
<1>10. PinKept(w, u)
<2> SUFFICES ASSUME u.railPlacement = "pin", NEW x \in SpacesOf(w), NEW y \in SpacesOf(u),
                    x.id = y.id, x.rail # None, y.rail # None
             PROVE  y.rail \in {x.rail, Elsewhere}
  BY DEF PinKept
<2>1. CASE y \in SpacesOf(v)
  BY <2>1 DEF RailsKept, RailKept
<2>2. CASE y = r
<3>1. s.rail \in {x.rail, Elsewhere}
  BY <1>1, <1>3, <2>2 DEF RailsKept, RailKept
<3>2. s.rail # None /\ v.railPlacement # "flow"
  BY <1>7, <3>1, SessionsAssumption
<3>3. QED
  BY <1>3, <2>2, <3>1, <3>2
<2>3. QED
  BY <1>7, <2>1, <2>2
<1>11. QED
  BY <1>7, <1>8, <1>9, <1>10 DEF Heir

(* Where tabs stand when a space is replaced: as they did, but for those the
   new one lacks.                                                          *)
LEMMA StandingReplaced ==
    ASSUME NEW w, NEW v, v.id = w.id, NEW s \in SpacesOf(w), NEW r, r.id = s.id,
           \A x \in SpacesOf(w) : x.id = s.id => x = s,
           SpacesOf(v) = (SpacesOf(w) \ {s}) \cup {r}
    PROVE  /\ Standing(w) \ Standing(v) = {<<w.id, s.id, t>> : t \in TabsOf(s) \ TabsOf(r)}
           /\ TabsOf(r) = TabsOf(s) => Standing(v) = Standing(w)
<1>1. \A z : z \in Standing(w) <=>
           \E x \in SpacesOf(w) : \E t \in TabsOf(x) : z = <<w.id, x.id, t>>
  BY DEF Standing
<1>2. \A z : z \in Standing(v) <=>
           \/ \E x \in SpacesOf(w) \ {s} : \E t \in TabsOf(x) : z = <<w.id, x.id, t>>
           \/ \E t \in TabsOf(r) : z = <<w.id, s.id, t>>
  BY DEF Standing
<1>3. \A z : z \in Standing(w) \ Standing(v) <=>
           \E t \in TabsOf(s) \ TabsOf(r) : z = <<w.id, s.id, t>>
  BY <1>1, <1>2
<1>4. TabsOf(r) = TabsOf(s) => \A z : z \in Standing(v) <=> z \in Standing(w)
  BY <1>1, <1>2
<1>5. QED
  BY <1>3, <1>4

(* A space drafted takes from where it stands what it lacks. *)
LEMMA StandingDrafted ==
    ASSUME NEW w, Sound(w), NEW s \in SpacesOf(w), NEW r \in Space, r.id = s.id,
           NEW v, v = MapContent(w, r)
    PROVE  /\ Standing(w) \ Standing(v) = {<<w.id, s.id, t>> : t \in TabsOf(s) \ TabsOf(r)}
           /\ TabsOf(r) = TabsOf(s) => Standing(v) = Standing(w)
<1>1. \A x \in SpacesOf(w) : x.id = s.id => x = s
  BY SoundFacts
<1>2. v.id = w.id /\ SpacesOf(v) = (SpacesOf(w) \ {s}) \cup {r}
  BY MapContentRange
<1>3. QED
  BY <1>1, <1>2, StandingReplaced

(* The rail settled, every tab stands where it did. *)
LEMMA StandingSettled ==
    ASSUME measured \in BOOLEAN, NEW v, Sound(v)
    PROVE  Standing(SettleWorkspaceRail(v)) = Standing(v)
<1> DEFINE s == ActiveSpace(v)
           r == SettleRail(s, v.railPlacement, RailPresent(v))
<1>1. s \in SpacesOf(v) /\ Whole(s)
  BY SoundFacts
<1>2. RailPresent(v) \in BOOLEAN
  BY DEF RailPresent
<1>3. SettleWorkspaceRail(v) = MapContent(v, r)
  BY DEF SettleWorkspaceRail
<1> HIDE DEF s
<1>4. Whole(r) /\ r.id = s.id /\ TabsOf(r) = TabsOf(s)
  BY <1>1, <1>2, SettleRailFacts
<1> HIDE DEF r
<1>5. r \in Space
  BY <1>4 DEF Whole, Plane
<1>6. QED
  BY <1>1, <1>3, <1>4, <1>5, StandingDrafted

(* It is the spaces that tell where tabs stand. *)
LEMMA StandingSame ==
    ASSUME NEW v, NEW u, u.id = v.id, u.spaces = v.spaces
    PROVE  Standing(u) = Standing(v)
  BY DEF Standing, SpacesOf

------------------------------------------------------------------------------
(* One workspace of the window replaced by its heir. *)
PinStep ==
    \A w \in Range(workspaces), v \in Range(workspaces') :
      (w.id = v.id /\ w.railPlacement = "pin" /\ v.railPlacement = "pin") =>
        \A s \in SpacesOf(w), r \in SpacesOf(v) :
          (s.id = r.id /\ s.rail # None /\ r.rail # None) => r.rail \in {s.rail, Elsewhere}

(* The tabs of the window are those of its workspaces, before a step and
   after it.                                                          *)
LEMMA AllTabsFacts == AllTabs = UNION {TabsIn(w) : w \in Range(workspaces)}
  BY DEF AllTabs, AllSpaces, TabsIn

LEMMA AllTabsFacts2 == AllTabs' = UNION {TabsIn(w) : w \in Range(workspaces')}
  BY DEF AllTabs, AllSpaces, TabsIn, SpacesOf, TabsOf

(* So is where they stand. *)
LEMMA AllStandingFacts ==
    AllStanding' = UNION {Standing(w) : w \in Range(workspaces')}
  BY DEF AllStanding, Standing, SpacesOf, TabsOf

(* A workspace is of its own rails and focus. *)
LEMMA SameWorkspace ==
    ASSUME NEW w, Sound(w)
    PROVE  FocusKept(w, w) /\ PinKept(w, w)
<1>1. \A s, r \in SpacesOf(w) : s.id = r.id => s = r
  BY SoundFacts
<1>2. \A s \in SpacesOf(w) : \A p, q \in s.panes : p.id = q.id => p = q
  BY SoundFacts DEF Plane
<1>3. FocusKept(w, w)
  BY <1>1, <1>2 DEF FocusKept, SpaceFocusKept
<1>4. QED
  BY <1>1, <1>3 DEF PinKept

(* The workspaces of the window with one replaced wherever it stands. *)
LEMMA MapWorkspaceRange ==
    ASSUME Window, NEW w \in Range(workspaces), NEW v \in Workspace, v.id = w.id, MapWorkspace(v)
    PROVE  /\ workspaces' \in Seq(Workspace) /\ workspaces' # <<>> /\ Distinct(workspaces')
           /\ Range(workspaces') = (Range(workspaces) \ {w}) \cup {v}
<1>1. /\ workspaces \in Seq(Workspace) /\ Len(workspaces) \in Nat
      /\ DOMAIN workspaces = 1 .. Len(workspaces)
      /\ \A i \in DOMAIN workspaces : workspaces[i] \in Workspace
  BY LenProperties, ElementOfSeq DEF Window
<1>2. \A x \in Range(workspaces) : x.id = v.id <=> x = w
  BY DEF Window, Separate
<1>3. /\ DOMAIN workspaces' = DOMAIN workspaces
      /\ \A i \in DOMAIN workspaces :
           workspaces'[i] = IF workspaces[i] = w THEN v ELSE workspaces[i]
  BY <1>2 DEF MapWorkspace, Range
<1>4. workspaces' \in Seq(Workspace)
<2>1. workspaces' \in [1 .. Len(workspaces) -> Workspace]
  BY <1>1 DEF MapWorkspace
<2>2. QED
  BY <1>1, <2>1
<1>5. Range(workspaces') = (Range(workspaces) \ {w}) \cup {v}
<2>1. \A i \in DOMAIN workspaces' : workspaces'[i] \in (Range(workspaces) \ {w}) \cup {v}
  BY <1>3 DEF Range
<2>2. v \in Range(workspaces')
  BY <1>3 DEF Range
<2>3. \A x \in Range(workspaces) \ {w} : x \in Range(workspaces')
  BY <1>3 DEF Range
<2>4. QED
  BY <2>1, <2>2, <2>3 DEF Range
<1>6. workspaces' # <<>>
<2>1. PICK i \in DOMAIN workspaces : workspaces[i] = w
  BY DEF Range
<2>2. DOMAIN workspaces' # {}
  BY <1>3, <2>1
<2>3. QED
  BY <2>2
<1>7. Distinct(workspaces')
<2>1. \A i \in DOMAIN workspaces : workspaces'[i].id = workspaces[i].id
  BY <1>3
<2>2. QED
  BY <1>3, <2>1 DEF Window, Distinct
<1>8. QED
  BY <1>4, <1>5, <1>6, <1>7

(* An heir holds nothing of the other workspaces, so the window stays sound. *)
LEMMA WorkspaceReplaced ==
    ASSUME Window, NEW w \in Range(workspaces), NEW v, Heir(w, v), MapWorkspace(v)
    PROVE  /\ Window' /\ workspaces' # <<>> /\ OpenNames' = OpenNames
           /\ PinKept(w, v) => PinStep
           /\ TabsIn(w) \subseteq TabsIn(v) => ~Closing
           /\ FocusKept(w, v) /\ activeId' = activeId => KeepsFocus
<1>1. Sound(v) /\ v.id = w.id /\ v \in Workspace
  BY DEF Heir, Sound
<1>2. /\ workspaces' \in Seq(Workspace) /\ workspaces' # <<>> /\ Distinct(workspaces')
      /\ Range(workspaces') = (Range(workspaces) \ {w}) \cup {v}
  BY <1>1, MapWorkspaceRange
<1>3. \A x \in Range(workspaces) : Sound(x)
  BY DEF Window
<1>4. \A x \in Range(workspaces') : Sound(x)
  BY <1>1, <1>2, <1>3
<1>5. Separate(Range(workspaces'))
<2>1. ASSUME NEW x \in Range(workspaces), x # w
      PROVE  /\ v.id # x.id /\ SpaceNames(v) \cap SpaceNames(x) = {}
             /\ PaneNames(v) \cap PaneNames(x) = {}
             /\ TabNamesOf(v) \cap TabNamesOf(x) = {}
<3>1. /\ w.id # x.id /\ SpaceNames(w) \cap SpaceNames(x) = {}
      /\ PaneNames(w) \cap PaneNames(x) = {} /\ TabNamesOf(w) \cap TabNamesOf(x) = {}
  BY <2>1 DEF Window, Separate
<3>2. /\ FreshSpace \cap SpaceNames(x) = {} /\ FreshPane \cap PaneNames(x) = {}
      /\ FreshTab \cap TabNamesOf(x) = {}
  BY FreshFacts
<3>3. QED
  BY <1>1, <3>1, <3>2 DEF Heir
<2>2. Separate(Range(workspaces))
  BY DEF Window
<2>3. QED
  BY <1>2, <2>1, <2>2 DEF Separate
<1>6. Window'
<2>1. \A x : Sound(x)' <=> Sound(x)
  BY DEF Sound, Workspace, SpacesOf, Distinct, Whole, Plane, Apart, SpaceNames
<2>2. QED
  BY <1>2, <1>4, <1>5 DEF Window
<1>7. OpenNames' = OpenNames
  BY <1>1, <1>2 DEF OpenNames
<1>8. \A x \in Range(workspaces), y \in Range(workspaces') :
        x.id = y.id => x = y \/ (x = w /\ y = v)
  BY <1>1, <1>2 DEF Window, Separate
<1>9. PinKept(w, v) => PinStep
<2> SUFFICES ASSUME PinKept(w, v), NEW x \in Range(workspaces), NEW y \in Range(workspaces'),
                    x.id = y.id
             PROVE  PinKept(x, y)
  BY DEF PinStep, PinKept
<2>1. QED
  BY <1>3, <1>8, SameWorkspace
<1>10. TabsIn(w) \subseteq TabsIn(v) => ~Closing
<2>1. ASSUME TabsIn(w) \subseteq TabsIn(v)
      PROVE  AllTabs \subseteq AllTabs'
  BY <1>2, <2>1, AllTabsFacts, AllTabsFacts2
<2>2. QED
  BY <2>1 DEF Closing
<1>11. FocusKept(w, v) /\ activeId' = activeId => KeepsFocus
<2> SUFFICES ASSUME FocusKept(w, v), NEW x \in Range(workspaces), NEW y \in Range(workspaces'),
                    x.id = y.id
             PROVE  FocusKept(x, y)
  BY DEF KeepsFocus, FocusKept, SpaceFocusKept, SpaceNames, Names
<2>1. QED
  BY <1>3, <1>8, SameWorkspace
<1>12. QED
  BY <1>2, <1>6, <1>7, <1>9, <1>10, <1>11

(* What is gone from the window is gone from the workspace replaced. *)
LEMMA GoneReplaced ==
    ASSUME Window, NEW w \in Range(workspaces), NEW v, Heir(w, v), MapWorkspace(v)
    PROVE  Gone = Standing(w) \ Standing(v)
<1>1. v \in Workspace /\ v.id = w.id
  BY DEF Heir, Sound
<1>2. Range(workspaces') = (Range(workspaces) \ {w}) \cup {v}
  BY <1>1, MapWorkspaceRange
<1>3. \A x \in Range(workspaces) : x.id = w.id => x = w
  BY DEF Window, Separate
<1>4. \A x : \A z \in Standing(x) : z[1] = x.id
  BY DEF Standing
<1>5. \A z : z \in AllStanding <=> \E x \in Range(workspaces) : z \in Standing(x)
  BY DEF AllStanding
<1>6. \A z : z \in AllStanding' <=>
              z \in Standing(v) \/ \E x \in Range(workspaces) \ {w} : z \in Standing(x)
  BY <1>2, AllStandingFacts
<1>7. \A z : z \in Gone <=> z \in Standing(w) \ Standing(v)
  BY <1>3, <1>4, <1>5, <1>6 DEF Gone
<1>8. QED
  BY <1>7

------------------------------------------------------------------------------
(* What every step keeps. *)
TabsGo == Gone # {} => ClosedAway(Gone)
GoodStep == IInv' /\ PinStep /\ (Closing => KeepsFocus) /\ TabsGo

(* What an operation takes from a workspace is nothing, or was closed. *)
Takes(w, v) == Standing(w) \subseteq Standing(v) \/ ClosedAway(Standing(w) \ Standing(v))

(* A workspace is its own heir, and stays one when it turns to another of its
   spaces or its rail is switched.                                         *)
LEMMA OwnHeir ==
    ASSUME NEW w, Sound(w)
    PROVE  Heir(w, w) /\ RailsKept(w, w)
<1>1. \A s, r \in SpacesOf(w) : s.id = r.id => s = r
  BY SoundFacts
<1>2. QED
  BY <1>1 DEF Heir, RailsKept, RailKept

(* An heir that differs in what is not its spaces is one. *)
LEMMA SameSpaces ==
    ASSUME NEW w, NEW v, Heir(w, v), RailsKept(w, v), TabsIn(w) \subseteq TabsIn(v),
           NEW u \in Workspace, u.id = v.id, u.spaces = v.spaces,
           u.activeSpaceId \in SpaceNames(v)
    PROVE  /\ Heir(w, u) /\ RailsKept(w, u) /\ TabsIn(w) \subseteq TabsIn(u)
           /\ Standing(u) = Standing(v)
<1>1. SpacesOf(u) = SpacesOf(v)
  BY DEF SpacesOf
<1>2. /\ SpaceNames(u) = SpaceNames(v) /\ PaneNames(u) = PaneNames(v)
      /\ TabNamesOf(u) = TabNamesOf(v) /\ TabsIn(u) = TabsIn(v)
  BY <1>1 DEF SpaceNames, PaneNames, TabNamesOf, TabsIn
<1>3. Sound(u)
  BY <1>1, <1>2 DEF Heir, Sound
<1>4. Heir(w, u)
  BY <1>2, <1>3 DEF Heir
<1>5. RailsKept(w, u)
  BY <1>1 DEF RailsKept
<1>6. QED
  BY <1>2, <1>4, <1>5, StandingSame

(* So is one that turned to another of its spaces. *)
LEMMA Turned ==
    ASSUME NEW w, NEW v, Heir(w, v), RailsKept(w, v), TabsIn(w) \subseteq TabsIn(v),
           NEW i \in SpaceNames(v), NEW u, u = [v EXCEPT !.activeSpaceId = i]
    PROVE  /\ Heir(w, u) /\ RailsKept(w, u) /\ TabsIn(w) \subseteq TabsIn(u)
           /\ Standing(u) = Standing(v)
<1>1. v \in Workspace /\ \A s \in SpacesOf(v) : s \in Space
  BY SoundFacts DEF Heir
<1>2. i \in SpaceIds
  BY <1>1 DEF SpaceNames, Space
<1>3. u \in Workspace /\ u.id = v.id /\ u.spaces = v.spaces /\ u.activeSpaceId = i
  BY <1>1, <1>2 DEF Workspace
<1>4. Heir(w, v) /\ RailsKept(w, v) /\ TabsIn(w) \subseteq TabsIn(v) /\ i \in SpaceNames(v)
  OBVIOUS
<1>5. QED
  BY ONLY <1>3, <1>4, SameSpaces

(* An heir stored, with its rail settled or as it is. *)
LEMMA StoredAsIs ==
    ASSUME IInv, NEW w \in Range(workspaces), NEW v, Heir(w, v), PinKept(w, v), MapWorkspace(v),
           activeId' \in OpenNames, linked' \subseteq Views, measured' \in BOOLEAN,
           TabsIn(w) \subseteq TabsIn(v) \/ activeId' = activeId, Takes(w, v)
    PROVE  GoodStep
<1>1. /\ Window' /\ workspaces' # <<>> /\ OpenNames' = OpenNames /\ PinStep
      /\ TabsIn(w) \subseteq TabsIn(v) => ~Closing
      /\ FocusKept(w, v) /\ activeId' = activeId => KeepsFocus
  BY WorkspaceReplaced DEF IInv
<1>2. activeId' \in WorkspaceIds \cup {None}
<2>1. \A x \in Range(workspaces) : x.id \in WorkspaceIds
  BY SoundFacts DEF IInv, Window, Workspace
<2>2. QED
  BY <2>1 DEF OpenNames
<1>3. IInv'
  BY <1>1, <1>2 DEF IInv
<1>4. Closing => KeepsFocus
  BY <1>1 DEF Heir
<1>5. TabsGo
<2>1. Gone = Standing(w) \ Standing(v)
  BY GoneReplaced DEF IInv
<2>2. QED
  BY <2>1 DEF TabsGo, Takes
<1>6. QED
  BY <1>1, <1>3, <1>4, <1>5 DEF GoodStep

(* And with the rail settled first. *)
LEMMA Stored ==
    ASSUME IInv, NEW w \in Range(workspaces), NEW v, Heir(w, v), RailsKept(w, v), StoreSettled(v),
           activeId' \in OpenNames, linked' \subseteq Views, measured' \in BOOLEAN,
           TabsIn(w) \subseteq TabsIn(v) \/ activeId' = activeId, Takes(w, v)
    PROVE  GoodStep
<1> DEFINE u == SettleWorkspaceRail(v)
<1>1. Sound(w) /\ measured \in BOOLEAN
  BY DEF IInv, Window
<1>2. /\ Heir(w, u) /\ PinKept(w, u)
      /\ TabsIn(w) \subseteq TabsIn(v) => TabsIn(w) \subseteq TabsIn(u)
  BY <1>1, SettledRail
<1>3. MapWorkspace(u)
  BY DEF StoreSettled
<1>4. Takes(w, u)
<2>1. Standing(u) = Standing(v)
  BY <1>1, StandingSettled DEF Heir
<2>2. QED
  BY <2>1 DEF Takes
<1> HIDE DEF u
<1>5. QED
  BY <1>2, <1>3, <1>4, StoredAsIs

(* The window's own variables after an operation on a workspace. *)
LEMMA Unmoved ==
    ASSUME IInv, NEW w \in Range(workspaces), UNCHANGED <<activeId, linked, measured>>
    PROVE  activeId' \in OpenNames /\ linked' \subseteq Views /\ measured' \in BOOLEAN
<1>1. workspaces # <<>>
  BY DEF Range
<1>2. QED
  BY <1>1 DEF IInv

(* A space drafted, stored with the rest of its workspace. *)
LEMMA DraftStored ==
    ASSUME IInv, NEW w \in Range(workspaces), NEW s \in SpacesOf(w), NEW r, SpaceDraft(s, r),
           UNCHANGED <<activeId, linked, measured>>,
           StoreSettled(MapContent(w, r)) \/ MapWorkspace(MapContent(w, r)),
           \/ TabsOf(s) \subseteq TabsOf(r)
           \/ ClosedAway({<<w.id, s.id, t>> : t \in TabsOf(s) \ TabsOf(r)})
    PROVE  GoodStep
<1> DEFINE v == MapContent(w, r)
<1>1. Heir(w, v) /\ RailsKept(w, v)
  BY DraftSpace DEF IInv
<1>2. PinKept(w, v)
  BY <1>1 DEF RailsKept, RailKept, PinKept
<1>3. Takes(w, v)
<2>1. Standing(w) \ Standing(v) = {<<w.id, s.id, t>> : t \in TabsOf(s) \ TabsOf(r)}
  BY StandingDrafted DEF IInv, Window, SpaceDraft, Whole, Plane
<2>2. TabsOf(s) \subseteq TabsOf(r) => Standing(w) \ Standing(v) = {}
  BY <2>1
<2>3. QED
  BY <2>1, <2>2 DEF Takes
<1> HIDE DEF v
<1>4. activeId' \in OpenNames /\ linked' \subseteq Views /\ measured' \in BOOLEAN
  BY Unmoved
<1>5. CASE StoreSettled(v)
  BY <1>1, <1>3, <1>4, <1>5, Stored
<1>6. CASE MapWorkspace(v)
  BY <1>1, <1>2, <1>3, <1>4, <1>6, StoredAsIs
<1>7. QED
  BY <1>5, <1>6 DEF v

(* The same, and the workspace turns to the space: no tab may be lost then. *)
LEMMA DraftTurned ==
    ASSUME IInv, NEW w \in Range(workspaces), NEW s \in SpacesOf(w), NEW r, SpaceDraft(s, r),
           TabsOf(s) \subseteq TabsOf(r),
           activeId' \in OpenNames, linked' \subseteq Views, measured' \in BOOLEAN,
           StoreSettled([MapContent(w, r) EXCEPT !.activeSpaceId = s.id])
    PROVE  GoodStep
<1> DEFINE v == MapContent(w, r)
           u == [v EXCEPT !.activeSpaceId = s.id]
<1>1. /\ Heir(w, v) /\ RailsKept(w, v) /\ SpaceNames(v) = SpaceNames(w)
      /\ TabsIn(w) \subseteq TabsIn(v)
  BY DraftSpace DEF IInv
<1>2. s.id \in SpaceNames(v)
  BY <1>1 DEF SpaceNames
<1>3. Standing(w) \subseteq Standing(v)
<2>1. Standing(w) \ Standing(v) = {<<w.id, s.id, t>> : t \in TabsOf(s) \ TabsOf(r)}
  BY StandingDrafted DEF IInv, Window, SpaceDraft, Whole, Plane
<2>2. QED
  BY <2>1
<1> HIDE DEF v
<1>4. /\ Heir(w, u) /\ RailsKept(w, u) /\ TabsIn(w) \subseteq TabsIn(u)
      /\ Standing(u) = Standing(v)
  BY <1>1, <1>2, Turned
<1>5. StoreSettled(u)
  BY DEF v
<1> HIDE DEF u
<1>6. Takes(w, u)
  BY <1>3, <1>4 DEF Takes
<1>7. QED
  BY <1>4, <1>5, <1>6, Stored

(* The focus turned to a pane of the plane. *)
LEMMA RefocusFacts ==
    ASSUME NEW s, Plane(s), NEW g \in s.cards, NEW r, r = [s EXCEPT !.activePaneId = g]
    PROVE  /\ Plane(r) /\ r.id = s.id /\ r.cards = s.cards /\ r.panes = s.panes
           /\ r.rail = s.rail /\ r.activePaneId = g /\ r.maximizedTabId = s.maximizedTabId
           /\ TabsOf(r) = TabsOf(s)
<1>1. s \in Space /\ g \in PaneIds
  BY DEF Plane, Space
<1>2. /\ r \in Space /\ r.id = s.id /\ r.cards = s.cards /\ r.panes = s.panes
      /\ r.rail = s.rail /\ r.activePaneId = g /\ r.maximizedTabId = s.maximizedTabId
  BY <1>1 DEF Space
<1>3. QED
  BY <1>2, SamePlane

(* A draft that loses no tab and names what fills it and what it focuses. *)
LEMMA GrownDraft ==
    ASSUME NEW s, Whole(s), NEW r, Plane(r), r.id = s.id, RailKept(s, r),
           r.activePaneId \in r.cards, r.maximizedTabId \in TabNames(r) \cup {None},
           r.cards \subseteq s.cards \cup FreshPane,
           TabsOf(s) \subseteq TabsOf(r), TabNames(r) \subseteq TabNames(s) \cup FreshTab
    PROVE  SpaceDraft(s, r)
  BY DEF SpaceDraft, Whole

(* A draft whose focus was put right. *)
LEMMA NormalizedDraft ==
    ASSUME NEW s, Whole(s), NEW m, Plane(m), m.id = s.id, RailKept(s, m),
           m.cards \subseteq s.cards \cup FreshPane,
           TabNames(m) \subseteq TabNames(s) \cup FreshTab,
           \/ TabsOf(s) \subseteq TabsOf(m)
           \/ SpaceFocusKept(s, m) /\ m.activePaneId = s.activePaneId,
           NEW r \in NormalizeActiveGroup(m)
    PROVE  SpaceDraft(s, r) /\ TabsOf(r) = TabsOf(m)
<1>1. /\ Whole(r) /\ r.id = m.id /\ r.panes = m.panes /\ r.cards = m.cards
      /\ r.rail = m.rail /\ TabsOf(r) = TabsOf(m)
      /\ m.activePaneId \in m.cards => r.activePaneId = m.activePaneId
  BY NormalizeFacts
<1>2. TabNames(r) = TabNames(m)
  BY <1>1 DEF TabNames
<1>3. SpaceFocusKept(s, m) /\ m.activePaneId = s.activePaneId => SpaceFocusKept(s, r)
  BY <1>1 DEF SpaceFocusKept
<1>4. QED
  BY <1>1, <1>2, <1>3 DEF SpaceDraft, RailKept

(* No view, or one fresh tab of one. *)
LEMMA NewTabsFacts ==
    ASSUME NEW tabs \in NewTabs
    PROVE  /\ tabs \in Seq(Tab) /\ Distinct(tabs) /\ Names(tabs) \subseteq FreshTab
           /\ tabs # <<>> => Head(tabs) \in Tab /\ Head(tabs).id \in FreshTab
<1>1. CASE tabs = <<>>
<2>1. Names(tabs) = {} /\ Distinct(tabs)
  BY <1>1 DEF Names, Range, Distinct
<2>2. QED
  BY <1>1, <2>1, EmptySeq
<1>2. CASE \E t \in FreshTab, v \in Views : tabs = <<[id |-> t, view |-> v]>>
<2>1. PICK t \in FreshTab, v \in Views : tabs = <<[id |-> t, view |-> v]>>
  BY <1>2
<2> DEFINE tab == [id |-> t, view |-> v]
<2>2. tab \in Tab /\ tab.id \in FreshTab
  BY DEF FreshTab, Tab
<2> HIDE DEF tab
<2>3. <<tab>> \in Seq(Tab) /\ Distinct(<<tab>>) /\ Names(<<tab>>) = {tab.id}
  BY <2>2, OneElement
<2>4. Head(<<tab>>) = tab
  OBVIOUS
<2>5. QED
  BY <2>1, <2>2, <2>3, <2>4 DEF tab
<1>3. QED
  BY <1>1, <1>2 DEF NewTabs

------------------------------------------------------------------------------
(* The operations of the tabs. *)
LEMMA AddViewToGroupStep ==
    ASSUME IInv, NEW w \in Range(workspaces), NEW s \in SpacesOf(w), NEW g \in s.cards,
           NEW tab \in Tab, tab.id \in FreshTab, AddViewToGroup(w, s, g, tab)
    PROVE  GoodStep
<1> DEFINE m == WithTab(s, g, tab)
           r == [m EXCEPT !.activePaneId = g]
<1>1. Whole(s) /\ Plane(s) /\ tab.id \notin TabNames(s)
  BY SoundFacts, FreshFacts DEF IInv, Window
<1>2. /\ Plane(m) /\ m.id = s.id /\ m.cards = s.cards /\ m.rail = s.rail
      /\ m.activePaneId = s.activePaneId /\ m.maximizedTabId = s.maximizedTabId
      /\ TabsOf(m) = TabsOf(s) \cup {tab}
  BY <1>1, WithTabFacts
<1> HIDE DEF m
<1>3. /\ Plane(r) /\ r.id = m.id /\ r.cards = m.cards /\ r.rail = m.rail
      /\ r.activePaneId = g /\ r.maximizedTabId = m.maximizedTabId /\ TabsOf(r) = TabsOf(m)
  BY <1>2, RefocusFacts
<1>4. MapWorkspace(MapContent(w, r)) /\ UNCHANGED <<activeId, linked, measured>>
  BY DEF AddViewToGroup, m
<1> HIDE DEF r
<1>5. TabNames(r) = TabNames(s) \cup {tab.id}
  BY <1>2, <1>3 DEF TabNames
<1>6. SpaceDraft(s, r)
  BY <1>1, <1>2, <1>3, <1>5, GrownDraft DEF RailKept, Whole
<1>7. QED
  BY <1>2, <1>3, <1>4, <1>6, DraftStored

(* A view shown where it is open, or added to the focused pane. *)
LEMMA OpenPluginViewStep ==
    ASSUME IInv, NEW w \in Range(workspaces), NEW view \in Views, OpenPluginView(w, view)
    PROVE  GoodStep
<1> DEFINE s == ActiveSpace(w)
           open == {t \in AllViews(s) : t.view = view}
<1>1. s \in SpacesOf(w) /\ Whole(s) /\ Plane(s) /\ AllViews(s) = TabsOf(s)
  BY SoundFacts, PlaneFacts DEF IInv, Window
<1>2. UNCHANGED <<activeId, linked, measured>>
  BY DEF OpenPluginView
<1>3. \/ \E t \in open : LET p == FindGroupOfView(s, t.id) IN
           MapWorkspace(MapContent(w, [MapGroup(s, p.id, p.tabs, t.id) EXCEPT !.activePaneId = p.id]))
      \/ \E t \in FreshTab :
           MapWorkspace(MapContent(w, WithTab(s, s.activePaneId, [id |-> t, view |-> view])))
  BY DEF OpenPluginView
<1> HIDE DEF s
<1>4. ASSUME NEW t \in open,
             LET p == FindGroupOfView(s, t.id) IN
           MapWorkspace(MapContent(w, [MapGroup(s, p.id, p.tabs, t.id) EXCEPT !.activePaneId = p.id]))
      PROVE  GoodStep
<2> DEFINE p == FindGroupOfView(s, t.id)
           m == MapGroup(s, p.id, p.tabs, t.id)
           r == [m EXCEPT !.activePaneId = p.id]
<2>1. t.id \in TabNames(s)
  BY <1>1 DEF TabNames
<2>2. p \in s.panes /\ t.id \in Names(p.tabs) /\ p.id \in s.cards
  BY <1>1, <2>1, FindGroupOfViewFacts, PlaneFacts
<2>3. MapWorkspace(MapContent(w, r))
  BY <1>4
<2> HIDE DEF p
<2>4. /\ Plane(m) /\ m.id = s.id /\ m.cards = s.cards /\ m.rail = s.rail
      /\ m.activePaneId = s.activePaneId /\ m.maximizedTabId = s.maximizedTabId
      /\ TabsOf(m) = TabsOf(s)
  BY <1>1, <2>2, ShowFacts
<2> HIDE DEF m
<2>5. /\ Plane(r) /\ r.id = m.id /\ r.cards = m.cards /\ r.rail = m.rail
      /\ r.activePaneId = p.id /\ r.maximizedTabId = m.maximizedTabId /\ TabsOf(r) = TabsOf(m)
  BY <2>2, <2>4, RefocusFacts
<2> HIDE DEF r
<2>6. TabNames(r) = TabNames(s)
  BY <2>4, <2>5 DEF TabNames
<2>7. SpaceDraft(s, r)
  BY <1>1, <2>2, <2>4, <2>5, <2>6, GrownDraft DEF RailKept, Whole
<2>8. QED
  BY <1>1, <1>2, <2>3, <2>4, <2>5, <2>7, DraftStored
<1>5. ASSUME NEW t \in FreshTab,
             MapWorkspace(MapContent(w, WithTab(s, s.activePaneId, [id |-> t, view |-> view])))
      PROVE  GoodStep
<2> DEFINE tab == [id |-> t, view |-> view]
           r == WithTab(s, s.activePaneId, tab)
<2>1. MapWorkspace(MapContent(w, r))
  BY <1>5
<2>2. tab \in Tab /\ tab.id = t
  BY DEF FreshTab, Tab
<2> HIDE DEF tab
<2>3. t \notin TabNames(s) /\ s.activePaneId \in s.cards
  BY <1>1, FreshFacts DEF IInv, Whole
<2>4. /\ Plane(r) /\ r.id = s.id /\ r.cards = s.cards /\ r.rail = s.rail
      /\ r.activePaneId = s.activePaneId /\ r.maximizedTabId = s.maximizedTabId
      /\ TabsOf(r) = TabsOf(s) \cup {tab}
  BY <1>1, <2>2, <2>3, WithTabFacts
<2> HIDE DEF r
<2>5. TabNames(r) = TabNames(s) \cup {t}
  BY <2>2, <2>4 DEF TabNames
<2>6. SpaceDraft(s, r)
  BY <1>1, <2>3, <2>4, <2>5, GrownDraft DEF RailKept, Whole
<2>7. QED
  BY <1>1, <1>2, <2>1, <2>4, <2>6, DraftStored
<1>6. QED
  BY <1>3, <1>4, <1>5

(* A tab that leaves takes no focus with it that stays. *)
LEMMA RemoveViewKeeps ==
    ASSUME NEW s, Plane(s), NEW t \in TabNames(s), NEW r, r = RemoveView(s, t)
    PROVE  SpaceFocusKept(s, r)
<1>1. /\ Plane(r) /\ r.activePaneId = s.activePaneId
      /\ TabsOf(r) = {tab \in TabsOf(s) : tab.id # t}
      /\ \A q \in r.panes : \E p \in s.panes :
           p.id = q.id /\ (p.activeTabId # t => q.activeTabId = p.activeTabId)
  BY RemoveViewFacts
<1>2. \A q \in r.panes : t \notin Names(q.tabs)
  BY <1>1 DEF TabsOf, Names
<1>3. \A p, q \in s.panes : p.id = q.id => p = q
  BY DEF Plane
<1>4. ASSUME NEW p \in s.panes, NEW q \in r.panes, p.id = q.id, p.activeTabId \in Names(q.tabs)
      PROVE  q.activeTabId = p.activeTabId
<2>1. p.activeTabId # t
  BY <1>2, <1>4
<2>2. QED
  BY <1>1, <1>3, <1>4, <2>1
<1>5. QED
  BY <1>1, <1>4 DEF SpaceFocusKept

(* A name is one tab's. *)
LEMMA OneOfAName ==
    ASSUME NEW s, Plane(s), NEW a \in TabsOf(s), NEW b \in TabsOf(s), a.id = b.id
    PROVE  a = b
<1>1. PICK p \in s.panes : a \in Range(p.tabs)
  BY DEF TabsOf
<1>2. PICK q \in s.panes : b \in Range(q.tabs)
  BY DEF TabsOf
<1>3. a.id \in Names(p.tabs) /\ a.id \in Names(q.tabs)
  BY <1>1, <1>2 DEF Names
<1>4. p = q /\ Distinct(p.tabs)
  BY <1>3 DEF Plane, GoodPane
<1>5. QED
  BY <1>1, <1>2, <1>4 DEF Distinct, Range

(* A tab closed, by itself or with the pane it leaves empty. *)
LEMMA CloseViewStep ==
    ASSUME IInv, NEW w \in Range(workspaces), NEW s \in SpacesOf(w), NEW t \in TabNames(s),
           CloseView(w, s, t)
    PROVE  GoodStep
<1> DEFINE m == RemoveView(s, t)
<1>1. Whole(s) /\ Plane(s)
  BY SoundFacts DEF IInv, Window
<1>2. /\ Plane(m) /\ m.id = s.id /\ RailKept(s, m) /\ m.activePaneId = s.activePaneId
      /\ m.cards \subseteq s.cards /\ TabsOf(m) = {tab \in TabsOf(s) : tab.id # t}
      /\ SpaceFocusKept(s, m)
  BY <1>1, RemoveViewFacts, RemoveViewKeeps
<1>3. PICK r \in NormalizeActiveGroup(m) : StoreSettled(MapContent(w, r))
  BY DEF CloseView
<1> HIDE DEF m
<1>4. TabNames(m) \subseteq TabNames(s)
  BY <1>2 DEF TabNames
<1>5. SpaceDraft(s, r) /\ TabsOf(r) = TabsOf(m)
  BY <1>1, <1>2, <1>4, NormalizedDraft
<1>6. PICK tab \in TabsOf(s) : tab.id = t
  BY DEF TabNames
<1>7. TabsOf(s) \ TabsOf(r) = {tab}
  BY <1>1, <1>2, <1>5, <1>6, OneOfAName
<1>8. tab \in AllViews(s)
  BY <1>1, <1>6, PlaneFacts
<1>9. ClosedAway({<<w.id, s.id, x>> : x \in TabsOf(s) \ TabsOf(r)})
<2>1. {<<w.id, s.id, x>> : x \in TabsOf(s) \ TabsOf(r)} = {<<w.id, s.id, tab>>}
  BY <1>7
<2>2. QED
  BY <1>6, <1>8, <2>1 DEF ClosedAway
<1>10. QED
  BY <1>3, <1>5, <1>9, DraftStored DEF CloseView

(* A pane turned to one of its tabs, and the space to the pane. *)
LEMMA ShownFocused ==
    ASSUME NEW s, Whole(s), NEW t \in TabNames(s), NEW p, p = FindGroupOfView(s, t),
           NEW r, r = [MapGroup(s, p.id, p.tabs, t) EXCEPT !.activePaneId = p.id]
    PROVE  /\ SpaceDraft(s, r) /\ TabsOf(r) = TabsOf(s) /\ r.rail = s.rail
           /\ r.activePaneId \in r.cards
<1> DEFINE m == MapGroup(s, p.id, p.tabs, t)
<1>1. Plane(s) /\ p \in s.panes /\ t \in Names(p.tabs) /\ p.id \in s.cards
  BY FindGroupOfViewFacts, PlaneFacts DEF Whole
<1>2. /\ Plane(m) /\ m.id = s.id /\ m.cards = s.cards /\ m.rail = s.rail
      /\ m.activePaneId = s.activePaneId /\ m.maximizedTabId = s.maximizedTabId
      /\ TabsOf(m) = TabsOf(s)
  BY <1>1, ShowFacts
<1>3. r = [m EXCEPT !.activePaneId = p.id]
  OBVIOUS
<1> HIDE DEF m
<1>4. /\ Plane(r) /\ r.id = m.id /\ r.cards = m.cards /\ r.rail = m.rail
      /\ r.activePaneId = p.id /\ r.maximizedTabId = m.maximizedTabId /\ TabsOf(r) = TabsOf(m)
  BY ONLY <1>1, <1>2, <1>3, RefocusFacts
<1>5. TabNames(r) = TabNames(s)
  BY <1>2, <1>4 DEF TabNames
<1>6. SpaceDraft(s, r)
  BY <1>1, <1>2, <1>4, <1>5, GrownDraft DEF RailKept, Whole
<1>7. QED
  BY <1>1, <1>2, <1>4, <1>6

(* The chain turned to a tab. *)
LEMMA SetActiveViewStep ==
    ASSUME IInv, NEW w \in Range(workspaces), NEW s \in SpacesOf(w), NEW t \in TabNames(s),
           SetActiveView(w, s, t)
    PROVE  GoodStep
<1> DEFINE p == FindGroupOfView(s, t)
           r == [MapGroup(s, p.id, p.tabs, t) EXCEPT !.activePaneId = p.id]
<1>1. Whole(s)
  BY SoundFacts DEF IInv, Window
<1>2. SpaceDraft(s, r) /\ TabsOf(r) = TabsOf(s)
  BY <1>1, ShownFocused
<1>3. StoreSettled([MapContent(w, r) EXCEPT !.activeSpaceId = s.id])
  BY DEF SetActiveView
<1> HIDE DEF r
<1>4. activeId' \in OpenNames /\ linked' \subseteq Views /\ measured' \in BOOLEAN
  BY DEF SetActiveView, OpenNames, IInv
<1>5. QED
  BY <1>2, <1>3, <1>4, DraftTurned

(* The same, and the tab fills the space. *)
LEMMA MaximizeViewStep ==
    ASSUME IInv, NEW w \in Range(workspaces), NEW s \in SpacesOf(w), NEW t \in TabNames(s),
           MaximizeView(w, s, t)
    PROVE  GoodStep
<1> DEFINE p == FindGroupOfView(s, t)
           m == [MapGroup(s, p.id, p.tabs, t) EXCEPT !.activePaneId = p.id]
           r == [MapGroup(s, p.id, p.tabs, t) EXCEPT !.maximizedTabId = t, !.activePaneId = p.id]
<1>1. Whole(s)
  BY SoundFacts DEF IInv, Window
<1>2. /\ SpaceDraft(s, m) /\ TabsOf(m) = TabsOf(s) /\ m.rail = s.rail
      /\ m.activePaneId \in m.cards
  BY <1>1, ShownFocused
<1>3. StoreSettled([MapContent(w, r) EXCEPT !.activeSpaceId = s.id])
  BY DEF MaximizeView
<1>4. r = [m EXCEPT !.maximizedTabId = t]
<2>1. /\ MapGroup(s, p.id, p.tabs, t) \in Space
<3>1. Plane(s) /\ p \in s.panes /\ t \in Names(p.tabs)
  BY <1>1, FindGroupOfViewFacts DEF Whole
<3>2. Plane(MapGroup(s, p.id, p.tabs, t))
  BY <3>1, ShowFacts
<3>3. QED
  BY <3>2 DEF Plane
<2>2. QED
  BY <2>1 DEF Space
<1>5. m \in Space /\ t \in TabIds /\ Plane(m)
<2>1. Plane(m) /\ Plane(s)
  BY <1>1, <1>2 DEF SpaceDraft, Whole
<2>2. TabsOf(s) \subseteq Tab
  BY <2>1, PlaneFacts
<2>3. QED
  BY <2>1, <2>2 DEF Plane, TabNames, Tab
<1> HIDE DEF m, r
<1>6. /\ r \in Space /\ r.id = m.id /\ r.cards = m.cards /\ r.panes = m.panes /\ r.rail = m.rail
      /\ r.activePaneId = m.activePaneId /\ r.maximizedTabId = t
  BY <1>4, <1>5 DEF Space
<1>7. Plane(r) /\ TabsOf(r) = TabsOf(m)
  BY <1>5, <1>6, SamePlane
<1>8. TabNames(r) = TabNames(s) /\ TabNames(m) = TabNames(s)
  BY <1>2, <1>7 DEF TabNames
<1>9. SpaceDraft(s, r)
  BY <1>1, <1>2, <1>6, <1>7, <1>8, GrownDraft DEF RailKept, SpaceDraft
<1>10. UNCHANGED <<activeId, linked, measured>>
  BY DEF MaximizeView
<1>11. QED
  BY <1>2, <1>3, <1>7, <1>9, <1>10, Unmoved, DraftTurned

(* A pane moved beside another: nothing but the focus differs. *)
LEMMA MovedBeside ==
    ASSUME NEW s, Whole(s), NEW g \in s.cards,
           NEW r \in NormalizeActiveGroup([s EXCEPT !.activePaneId = g])
    PROVE  SpaceDraft(s, r) /\ TabsOf(r) = TabsOf(s)
<1> DEFINE m == [s EXCEPT !.activePaneId = g]
<1>1. Plane(s)
  BY DEF Whole
<1>2. /\ Plane(m) /\ m.id = s.id /\ m.cards = s.cards /\ m.rail = s.rail
      /\ TabsOf(m) = TabsOf(s)
  BY <1>1, RefocusFacts
<1>3. r \in NormalizeActiveGroup(m)
  OBVIOUS
<1> HIDE DEF m
<1>4. TabNames(m) = TabNames(s) /\ RailKept(s, m)
  BY <1>2 DEF TabNames, RailKept
<1>5. QED
  BY <1>2, <1>3, <1>4, NormalizedDraft

(* A drag: the tab is in one pane less and in one pane more. *)
LEMMA JoinViewToGroupStep ==
    ASSUME IInv, NEW w \in Range(workspaces), NEW s \in SpacesOf(w), NEW t \in TabNames(s),
           NEW g, JoinViewToGroup(w, s, t, g)
    PROVE  GoodStep
<1> DEFINE gone == RemoveView(s, t)
           tab == CHOOSE u \in TabsOf(s) : u.id = t
           with == WithTab(gone, g, tab)
           m == [with EXCEPT !.activePaneId = g]
<1>1. Whole(s) /\ Plane(s)
  BY SoundFacts DEF IInv, Window
<1>2. tab \in TabsOf(s) /\ tab.id = t /\ tab \in Tab
  BY <1>1, PlaneFacts DEF TabNames
<1>3. /\ Plane(gone) /\ gone.id = s.id /\ RailKept(s, gone) /\ gone.cards \subseteq s.cards
      /\ TabsOf(gone) = {u \in TabsOf(s) : u.id # t}
  BY <1>1, RemoveViewFacts
<1>4. /\ HasGroup(gone, g)
      /\ \E next \in NormalizeActiveGroup(m) : StoreSettled(MapContent(w, next))
      /\ UNCHANGED <<activeId, linked, measured>>
  BY DEF JoinViewToGroup
<1> HIDE DEF gone, tab
<1>5. g \in gone.cards /\ tab.id \notin TabNames(gone)
  BY <1>2, <1>3, <1>4, PlaneFacts DEF TabNames
<1>6. /\ Plane(with) /\ with.id = gone.id /\ with.cards = gone.cards /\ with.rail = gone.rail
      /\ TabsOf(with) = TabsOf(gone) \cup {tab}
  BY <1>2, <1>3, <1>5, WithTabFacts
<1> HIDE DEF with
<1>7. /\ Plane(m) /\ m.id = with.id /\ m.cards = with.cards /\ m.rail = with.rail
      /\ TabsOf(m) = TabsOf(with)
  BY <1>5, <1>6, RefocusFacts
<1> HIDE DEF m
<1>8. TabsOf(s) \subseteq TabsOf(m) /\ TabNames(m) \subseteq TabNames(s)
<2>1. \A u \in TabsOf(s) : u.id = t => u = tab
  BY <1>1, <1>2, OneOfAName
<2>2. TabsOf(m) = TabsOf(s)
  BY <1>2, <1>3, <1>6, <1>7, <2>1
<2>3. QED
  BY <2>2 DEF TabNames
<1>9. PICK r \in NormalizeActiveGroup(m) : StoreSettled(MapContent(w, r))
  BY <1>4
<1>10. m.id = s.id /\ RailKept(s, m) /\ m.cards \subseteq s.cards \cup FreshPane
  BY <1>3, <1>6, <1>7 DEF RailKept
<1>11. SpaceDraft(s, r) /\ TabsOf(r) = TabsOf(m)
  BY <1>1, <1>7, <1>8, <1>10, NormalizedDraft
<1>12. QED
  BY <1>4, <1>8, <1>9, <1>11, DraftStored

(* A pane of its own for the tab; a tab alone in its pane takes it along. *)
LEMMA SplitViewToGroupStep ==
    ASSUME IInv, NEW w \in Range(workspaces), NEW s \in SpacesOf(w), NEW t \in TabNames(s),
           NEW g, SplitViewToGroup(w, s, t, g)
    PROVE  GoodStep
<1> DEFINE src == FindGroupOfView(s, t)
           tab == CHOOSE u \in TabsOf(s) : u.id = t
           left == RemoveView(s, t)
           split(fresh) == SplitAtGroup(left, MakeGroup(fresh, <<tab>>))
<1>1. Whole(s) /\ Plane(s)
  BY SoundFacts DEF IInv, Window
<1>2. src \in s.panes /\ src.id \in s.cards
  BY <1>1, FindGroupOfViewFacts, PlaneFacts
<1>3. tab \in TabsOf(s) /\ tab.id = t /\ tab \in Tab
  BY <1>1, PlaneFacts DEF TabNames
<1>4. /\ Plane(left) /\ left.id = s.id /\ RailKept(s, left) /\ left.cards \subseteq s.cards
      /\ TabsOf(left) = {u \in TabsOf(s) : u.id # t}
  BY <1>1, RemoveViewFacts
<1>5. /\ \/ \E next \in NormalizeActiveGroup([s EXCEPT !.activePaneId = src.id]) :
              StoreSettled(MapContent(w, next))
         \/ \E fresh \in FreshPane :
              \E next \in NormalizeActiveGroup([split(fresh) EXCEPT !.activePaneId = fresh]) :
                 StoreSettled(MapContent(w, next))
      /\ UNCHANGED <<activeId, linked, measured>>
  BY DEF SplitViewToGroup
<1> HIDE DEF src, tab, left
<1>6. ASSUME NEW r \in NormalizeActiveGroup([s EXCEPT !.activePaneId = src.id]),
             StoreSettled(MapContent(w, r))
      PROVE  GoodStep
  BY <1>1, <1>2, <1>5, <1>6, MovedBeside, DraftStored
<1>7. ASSUME NEW fresh \in FreshPane,
             NEW r \in NormalizeActiveGroup([split(fresh) EXCEPT !.activePaneId = fresh]),
             StoreSettled(MapContent(w, r))
      PROVE  GoodStep
<2> DEFINE pane == MakeGroup(fresh, <<tab>>)
           m == [split(fresh) EXCEPT !.activePaneId = fresh]
<2>1. /\ <<tab>> \in Seq(Tab) /\ Distinct(<<tab>>) /\ Range(<<tab>>) = {tab}
      /\ Names(<<tab>>) = {t}
  BY <1>3, OneElement
<2>2. fresh \in PaneIds /\ fresh \notin left.cards
  BY <1>4, FreshFacts DEF IInv, FreshPane
<2>3. pane \in Pane /\ GoodPane(pane) /\ pane.id = fresh /\ pane.tabs = <<tab>>
  BY <2>1, <2>2, MakeGroupFacts
<2>4. t \notin TabNames(left)
  BY <1>4 DEF TabNames
<2> DEFINE x == SplitAtGroup(left, pane)
<2>5. x = split(fresh)
  OBVIOUS
<2> HIDE DEF pane, split
<2>6. /\ Plane(x) /\ x.id = left.id /\ x.cards = left.cards \cup {fresh} /\ x.rail = left.rail
      /\ TabsOf(x) = TabsOf(left) \cup {tab}
  BY <1>4, <2>1, <2>2, <2>3, <2>4, SplitAtGroupFacts
<2> HIDE DEF x
<2>7. /\ Plane(m) /\ m.id = x.id /\ m.cards = x.cards /\ m.rail = x.rail
      /\ TabsOf(m) = TabsOf(x)
  BY <2>5, <2>6, RefocusFacts
<2>8. r \in NormalizeActiveGroup(m)
  BY <1>7
<2> HIDE DEF m
<2>9. TabsOf(s) \subseteq TabsOf(m) /\ TabNames(m) \subseteq TabNames(s)
<3>1. \A u \in TabsOf(s) : u.id = t => u = tab
  BY <1>1, <1>3, OneOfAName
<3>2. TabsOf(m) = TabsOf(s)
  BY <1>3, <1>4, <2>6, <2>7, <3>1
<3>3. QED
  BY <3>2 DEF TabNames
<2>10. m.id = s.id /\ RailKept(s, m) /\ m.cards \subseteq s.cards \cup FreshPane
  BY <1>4, <2>6, <2>7 DEF RailKept
<2>11. SpaceDraft(s, r) /\ TabsOf(r) = TabsOf(m)
  BY <1>1, <2>7, <2>8, <2>9, <2>10, NormalizedDraft
<2>12. QED
  BY <1>5, <1>7, <2>9, <2>11, DraftStored
<1>8. QED
  BY <1>5, <1>6, <1>7

------------------------------------------------------------------------------
(* The operations of the panes. *)
LEMMA SetActiveGroupStep ==
    ASSUME IInv, NEW w \in Range(workspaces), NEW s \in SpacesOf(w), NEW g \in s.cards,
           SetActiveGroup(w, s, g)
    PROVE  GoodStep
<1> DEFINE r == [s EXCEPT !.activePaneId = g]
<1>1. Whole(s) /\ Plane(s)
  BY SoundFacts DEF IInv, Window
<1>2. /\ Plane(r) /\ r.id = s.id /\ r.cards = s.cards /\ r.rail = s.rail
      /\ r.activePaneId = g /\ r.maximizedTabId = s.maximizedTabId /\ TabsOf(r) = TabsOf(s)
  BY <1>1, RefocusFacts
<1>3. /\ StoreSettled([MapContent(w, r) EXCEPT !.activeSpaceId = s.id])
      /\ UNCHANGED <<activeId, linked, measured>>
  BY DEF SetActiveGroup
<1> HIDE DEF r
<1>4. TabNames(r) = TabNames(s)
  BY <1>2 DEF TabNames
<1>5. SpaceDraft(s, r)
  BY <1>1, <1>2, <1>4, GrownDraft DEF RailKept, Whole
<1>6. QED
  BY <1>2, <1>3, <1>5, Unmoved, DraftTurned

(* A pane closed with its tabs. *)
LEMMA CloseGroupStep ==
    ASSUME IInv, NEW w \in Range(workspaces), NEW s \in SpacesOf(w), NEW g \in s.cards,
           CloseGroup(w, s, g)
    PROVE  GoodStep
<1> DEFINE m == RemoveGroup(s, g)
<1>1. Whole(s) /\ Plane(s)
  BY SoundFacts DEF IInv, Window
<1>2. /\ Plane(m) /\ m.id = s.id /\ RailKept(s, m) /\ m.activePaneId = s.activePaneId
      /\ m.panes \subseteq s.panes /\ m.cards \subseteq s.cards /\ TabsOf(m) \subseteq TabsOf(s)
      /\ s.cards # {g} => m.panes = {p \in s.panes : p.id # g}
  BY <1>1, RemoveGroupFacts
<1>3. PICK r \in NormalizeActiveGroup(m) : StoreSettled(MapContent(w, r))
  BY DEF CloseGroup
<1> HIDE DEF m
<1>4. SpaceFocusKept(s, m)
<2>1. \A p, q \in s.panes : p.id = q.id => p = q
  BY <1>1 DEF Plane
<2>2. QED
  BY <1>2, <2>1 DEF SpaceFocusKept
<1>5. TabNames(m) \subseteq TabNames(s)
  BY <1>2 DEF TabNames
<1>6. SpaceDraft(s, r) /\ TabsOf(r) = TabsOf(m)
  BY <1>1, <1>2, <1>4, <1>5, NormalizedDraft
<1>7. PICK p \in AllGroups(s) : p.id = g
  BY <1>1, PlaneFacts DEF Plane
<1>8. TabsOf(s) \ TabsOf(m) = Range(p.tabs)
<2>1. s.cards # {g} /\ p \in s.panes
<3>1. AllGroups(s) = s.panes /\ Cardinality(s.cards) = Cardinality(s.panes)
  BY <1>1, PlaneFacts, CardsCount
<3>2. Cardinality(s.cards) > 1
  BY <3>1 DEF CloseGroup
<3>3. Cardinality({g}) = 1
  BY FS_Singleton
<3>4. QED
  BY <1>7, <3>1, <3>2, <3>3
<2>2. m.panes = {q \in s.panes : q # p}
  BY <1>1, <1>2, <1>7, <2>1 DEF Plane
<2>3. ASSUME NEW q \in s.panes, q # p, NEW x \in Range(q.tabs)
      PROVE  x \notin Range(p.tabs)
<3>1. Names(q.tabs) \cap Names(p.tabs) = {}
  BY <1>1, <2>1, <2>3 DEF Plane
<3>2. QED
  BY <2>3, <3>1 DEF Names
<2>4. \A x : x \in TabsOf(s) <=> \E q \in s.panes : x \in Range(q.tabs)
  BY DEF TabsOf
<2>5. \A x : x \in TabsOf(m) <=> \E q \in m.panes : x \in Range(q.tabs)
  BY DEF TabsOf
<2>6. QED
  BY <2>1, <2>2, <2>3, <2>4, <2>5
<1>9. ClosedAway({<<w.id, s.id, x>> : x \in TabsOf(s) \ TabsOf(r)})
  BY <1>6, <1>7, <1>8 DEF ClosedAway
<1>10. QED
  BY <1>3, <1>6, <1>9, DraftStored DEF CloseGroup

(* A pane moved beside another. *)
LEMMA MoveGroupBesideStep ==
    ASSUME IInv, NEW w \in Range(workspaces), NEW s \in SpacesOf(w), NEW g \in s.cards,
           NEW target, MoveGroupBeside(w, s, g, target)
    PROVE  GoodStep
<1>1. Whole(s)
  BY SoundFacts DEF IInv, Window
<1>2. PICK r \in NormalizeActiveGroup([s EXCEPT !.activePaneId = g]) :
         StoreSettled(MapContent(w, r))
  BY DEF MoveGroupBeside
<1>3. SpaceDraft(s, r) /\ TabsOf(r) = TabsOf(s)
  BY <1>1, MovedBeside
<1>4. QED
  BY <1>2, <1>3, DraftStored DEF MoveGroupBeside

(* A fresh pane, with a fresh tab or none. *)
LEMMA SplitWithNewViewStep ==
    ASSUME IInv, NEW w \in Range(workspaces), NEW s \in SpacesOf(w), NEW tabs \in NewTabs,
           SplitWithNewView(w, s, tabs)
    PROVE  GoodStep
<1>1. Whole(s) /\ Plane(s)
  BY SoundFacts DEF IInv, Window
<1>2. PICK fresh \in FreshPane :
        \E next \in NormalizeActiveGroup([SplitAtGroup(s, MakeGroup(fresh, tabs))
                                            EXCEPT !.activePaneId = fresh]) :
           StoreSettled(MapContent(w, next))
  BY DEF SplitWithNewView
<1> DEFINE pane == MakeGroup(fresh, tabs)
           x == SplitAtGroup(s, pane)
           m == [x EXCEPT !.activePaneId = fresh]
<1>3. PICK r \in NormalizeActiveGroup(m) : StoreSettled(MapContent(w, r))
  BY <1>2
<1>4. tabs \in Seq(Tab) /\ Distinct(tabs) /\ Names(tabs) \subseteq FreshTab
  BY NewTabsFacts
<1>5. /\ fresh \in PaneIds /\ fresh \notin s.cards
      /\ FreshTab \cap TabNames(s) = {}
  BY FreshFacts DEF IInv, FreshPane
<1>6. pane \in Pane /\ GoodPane(pane) /\ pane.id = fresh /\ pane.tabs = tabs
  BY <1>4, <1>5, MakeGroupFacts
<1> HIDE DEF pane
<1>7. Names(pane.tabs) \cap TabNames(s) = {}
  BY <1>4, <1>5, <1>6
<1>8. /\ Plane(x) /\ x.id = s.id /\ x.cards = s.cards \cup {fresh} /\ x.rail = s.rail
      /\ TabsOf(x) = TabsOf(s) \cup Range(tabs)
  BY <1>1, <1>5, <1>6, <1>7, SplitAtGroupFacts
<1> HIDE DEF x
<1>9. /\ Plane(m) /\ m.id = x.id /\ m.cards = x.cards /\ m.rail = x.rail
      /\ TabsOf(m) = TabsOf(x)
  BY <1>8, RefocusFacts
<1> HIDE DEF m
<1>10. TabsOf(s) \subseteq TabsOf(m) /\ TabNames(m) \subseteq TabNames(s) \cup FreshTab
<2>1. TabsOf(s) \subseteq TabsOf(m)
  BY <1>8, <1>9
<2>2. \A u \in TabsOf(m) : u.id \in TabNames(s) \cup Names(tabs)
  BY <1>8, <1>9 DEF TabNames, Names
<2>3. QED
  BY <1>4, <2>1, <2>2 DEF TabNames
<1>11. SpaceDraft(s, r) /\ TabsOf(r) = TabsOf(m)
  BY <1>1, <1>8, <1>9, <1>10, NormalizedDraft DEF RailKept
<1>12. QED
  BY <1>3, <1>10, <1>11, DraftStored DEF SplitWithNewView

(* A merge: every tab of a pane stands in the other, and the pane is gone. *)
LEMMA JoinGroupToGroupStep ==
    ASSUME IInv, NEW w \in Range(workspaces), NEW s \in SpacesOf(w),
           NEW source \in s.cards, NEW target \in s.cards,
           JoinGroupToGroup(w, s, source, target)
    PROVE  GoodStep
<1> DEFINE from == FindGroup(s, source)
           to == FindGroup(s, target)
           less == RemoveGroup(s, source)
           tabs == to.tabs \o from.tabs
           joined == MapGroup(less, target, tabs, from.activeTabId)
           m == [joined EXCEPT !.activePaneId = target]
<1>1. Whole(s) /\ Plane(s) /\ source # target
  BY SoundFacts DEF IInv, Window, JoinGroupToGroup
<1>2. from \in s.panes /\ from.id = source /\ to \in s.panes /\ to.id = target /\ from # to
  BY <1>1, FindGroupFacts
<1>3. PICK r \in NormalizeActiveGroup(m) : StoreSettled(MapContent(w, r))
  BY DEF JoinGroupToGroup
<1>4. s.cards # {source}
  BY <1>1
<1>5. /\ Plane(less) /\ less.id = s.id /\ RailKept(s, less)
      /\ less.cards = s.cards \ {source} /\ less.panes = {p \in s.panes : p.id # source}
  BY <1>1, <1>4, RemoveGroupFacts
<1> HIDE DEF from, to, less
<1>6. /\ to.tabs \in Seq(Tab) /\ Distinct(to.tabs) /\ from.tabs \in Seq(Tab) /\ Distinct(from.tabs)
      /\ from.activeTabId \in Names(from.tabs) \cup {None}
      /\ Names(to.tabs) \cap Names(from.tabs) = {}
<2>1. to \in Pane /\ from \in Pane
  BY <1>1, <1>2, PlaneFacts
<2>2. QED
  BY <1>1, <1>2, <2>1 DEF Plane, GoodPane, Pane
<1>7. /\ tabs \in Seq(Tab) /\ Distinct(tabs) /\ Range(tabs) = Range(to.tabs) \cup Range(from.tabs)
      /\ Names(tabs) = Names(to.tabs) \cup Names(from.tabs)
  BY <1>6, ConcatNames
<1> HIDE DEF tabs
<1>8. \A q \in less.panes : q.id # target => Names(tabs) \cap Names(q.tabs) = {}
<2> SUFFICES ASSUME NEW q \in less.panes, q.id # target
             PROVE  Names(tabs) \cap Names(q.tabs) = {}
  OBVIOUS
<2>1. q \in s.panes /\ q # from /\ q # to
  BY <1>2, <1>5
<2>2. Names(to.tabs) \cap Names(q.tabs) = {} /\ Names(from.tabs) \cap Names(q.tabs) = {}
  BY <1>1, <1>2, <2>1 DEF Plane
<2>3. QED
  BY <1>7, <2>2
<1>9. target \in less.cards /\ from.activeTabId \in Names(tabs) \cup {None}
  BY <1>1, <1>5, <1>6, <1>7
<1>10. /\ Plane(joined) /\ joined.id = less.id /\ joined.cards = less.cards
       /\ joined.rail = less.rail
       /\ TabsOf(joined) = Range(tabs) \cup
                           UNION {Range(q.tabs) : q \in {p \in less.panes : p.id # target}}
  BY <1>5, <1>7, <1>8, <1>9, MapGroupFacts
<1> HIDE DEF joined
<1>11. /\ Plane(m) /\ m.id = joined.id /\ m.cards = joined.cards /\ m.rail = joined.rail
       /\ TabsOf(m) = TabsOf(joined)
  BY <1>9, <1>10, RefocusFacts
<1> HIDE DEF m
<1>12. TabsOf(m) = TabsOf(s)
<2>1. ASSUME NEW u \in TabsOf(s)
      PROVE  u \in TabsOf(m)
<3>1. PICK p \in s.panes : u \in Range(p.tabs)
  BY DEF TabsOf
<3>2. p = from \/ p = to \/ (p \in less.panes /\ p.id # target)
  BY <1>1, <1>2, <1>5, <3>1 DEF Plane
<3>3. QED
  BY <1>7, <1>10, <1>11, <3>1, <3>2
<2>2. ASSUME NEW u \in TabsOf(m)
      PROVE  u \in TabsOf(s)
  BY <1>2, <1>5, <1>7, <1>10, <1>11 DEF TabsOf
<2>3. QED
  BY <2>1, <2>2
<1>13. TabNames(m) = TabNames(s)
  BY <1>12 DEF TabNames
<1>14. m.id = s.id /\ RailKept(s, m) /\ m.cards \subseteq s.cards \cup FreshPane
  BY <1>5, <1>10, <1>11 DEF RailKept
<1>15. SpaceDraft(s, r) /\ TabsOf(r) = TabsOf(m)
  BY <1>1, <1>11, <1>12, <1>13, <1>14, NormalizedDraft
<1>16. QED
  BY <1>3, <1>12, <1>15, DraftStored DEF JoinGroupToGroup

------------------------------------------------------------------------------
(* The operations of the spaces. *)
LEMMA RestoreViewStep ==
    ASSUME IInv, NEW w \in Range(workspaces), RestoreView(w)
    PROVE  GoodStep
<1> DEFINE s == ActiveSpace(w)
           r == [s EXCEPT !.maximizedTabId = None]
<1>1. s \in SpacesOf(w) /\ Whole(s) /\ s \in Space
  BY SoundFacts DEF IInv, Window
<1>2. MapWorkspace(MapContent(w, r)) /\ UNCHANGED <<activeId, linked, measured>>
  BY DEF RestoreView
<1> HIDE DEF s
<1>3. /\ r \in Space /\ r.id = s.id /\ r.panes = s.panes /\ r.cards = s.cards /\ r.rail = s.rail
      /\ r.activePaneId = s.activePaneId /\ r.maximizedTabId = None
  BY <1>1 DEF Space
<1> HIDE DEF r
<1>4. Plane(r) /\ TabsOf(r) = TabsOf(s) /\ TabNames(r) = TabNames(s)
  BY <1>1, <1>3, SamePlane DEF Whole, TabNames
<1>5. SpaceDraft(s, r)
  BY <1>1, <1>3, <1>4, GrownDraft DEF RailKept, Whole
<1>6. QED
  BY <1>1, <1>2, <1>4, <1>5, DraftStored

(* The rail dragged to a line of its own. *)
LEMMA MoveRailStep ==
    ASSUME IInv, NEW w \in Range(workspaces), MoveRail(w)
    PROVE  GoodStep
<1> DEFINE s == ActiveSpace(w)
           r == [s EXCEPT !.rail = Elsewhere]
           v == MapContent(w, r)
           u == [v EXCEPT !.railPlacement = "pin"]
<1>1. s \in SpacesOf(w) /\ Whole(s) /\ s \in Space
  BY SoundFacts DEF IInv, Window
<1>2. MapWorkspace(u) /\ UNCHANGED <<activeId, linked, measured>>
  BY DEF MoveRail
<1> HIDE DEF s
<1>3. /\ r \in Space /\ r.id = s.id /\ r.panes = s.panes /\ r.cards = s.cards
      /\ r.rail = Elsewhere
      /\ r.activePaneId = s.activePaneId /\ r.maximizedTabId = s.maximizedTabId
  BY <1>1 DEF Space
<1> HIDE DEF r
<1>4. Plane(r) /\ TabsOf(r) = TabsOf(s) /\ TabNames(r) = TabNames(s)
  BY <1>1, <1>3, SamePlane DEF Whole, TabNames
<1>5. SpaceDraft(s, r)
  BY <1>1, <1>3, <1>4, GrownDraft DEF RailKept, Whole
<1>6. /\ Heir(w, v) /\ RailsKept(w, v) /\ TabsIn(w) \subseteq TabsIn(v)
      /\ Standing(v) = Standing(w)
<2>1. Standing(v) = Standing(w)
  BY <1>1, <1>3, <1>4, StandingDrafted DEF IInv, Window
<2>2. QED
  BY <1>1, <1>4, <1>5, <2>1, DraftSpace DEF IInv
<1> HIDE DEF v
<1>7. v \in Workspace /\ v.activeSpaceId \in SpaceNames(v)
  BY <1>6 DEF Heir, Sound
<1>8. /\ u \in Workspace /\ u.id = v.id /\ u.spaces = v.spaces
      /\ u.activeSpaceId = v.activeSpaceId
  BY <1>7 DEF Workspace
<1> HIDE DEF u
<1>9. Heir(w, u) /\ RailsKept(w, u) /\ TabsIn(w) \subseteq TabsIn(u) /\ Takes(w, u)
  BY <1>6, <1>7, <1>8, SameSpaces DEF Takes
<1>10. PinKept(w, u)
  BY <1>9 DEF RailsKept, RailKept, PinKept
<1>11. QED
  BY <1>2, <1>9, <1>10, Unmoved, StoredAsIs

(* The workspace turned to another of its spaces. *)
LEMMA SetActiveContentStep ==
    ASSUME IInv, NEW w \in Range(workspaces), NEW s \in SpacesOf(w), SetActiveContent(w, s)
    PROVE  GoodStep
<1> DEFINE v == [w EXCEPT !.activeSpaceId = s.id]
<1>1. Heir(w, w) /\ RailsKept(w, w) /\ s.id \in SpaceNames(w)
  BY OwnHeir DEF IInv, Window, SpaceNames
<1>2. Heir(w, v) /\ RailsKept(w, v) /\ TabsIn(w) \subseteq TabsIn(v) /\ Takes(w, v)
  BY <1>1, Turned DEF Takes
<1>3. StoreSettled(v) /\ UNCHANGED <<activeId, linked, measured>>
  BY DEF SetActiveContent
<1> HIDE DEF v
<1>4. QED
  BY <1>2, <1>3, Unmoved, Stored

(* A space added at the end: nothing in it is anywhere else. *)
LEMMA AddContentStep ==
    ASSUME IInv, NEW w \in Range(workspaces), NEW tabs \in NewTabs, AddContent(w, tabs)
    PROVE  GoodStep
<1>1. PICK i \in FreshSpace, g \in FreshPane :
        StoreSettled([w EXCEPT !.spaces = Append(w.spaces, MakeContent(i, g, tabs)),
                               !.activeSpaceId = i])
  BY DEF AddContent
<1> DEFINE s == MakeContent(i, g, tabs)
           all == Append(w.spaces, s)
           v == [w EXCEPT !.spaces = all, !.activeSpaceId = i]
<1>2. Sound(w) /\ w \in Workspace /\ w.spaces \in Seq(Space)
  BY SoundFacts DEF IInv, Window
<1>3. tabs \in Seq(Tab) /\ Distinct(tabs) /\ Names(tabs) \subseteq FreshTab
  BY NewTabsFacts
<1>4. Whole(s) /\ s.id = i /\ s.cards = {g} /\ TabsOf(s) = Range(tabs)
  BY <1>3, MakeContentFacts DEF FreshSpace, FreshPane
<1>5. StoreSettled(v)
  BY <1>1
<1> HIDE DEF s
<1>6. s \in Space /\ i \notin Names(w.spaces) /\ SpaceNames(w) = Names(w.spaces)
  BY <1>4, FreshFacts DEF Whole, Plane, IInv, SpaceNames, Names, SpacesOf
<1>7. /\ all \in Seq(Space) /\ Distinct(all)
      /\ Range(all) = Range(w.spaces) \cup {s} /\ Names(all) = Names(w.spaces) \cup {i}
  BY <1>2, <1>4, <1>6, AppendNames DEF Sound
<1> HIDE DEF all
<1>8. /\ v \in Workspace /\ v.id = w.id /\ v.spaces = all /\ v.activeSpaceId = i
  BY <1>2, <1>7 DEF Workspace, FreshSpace
<1> HIDE DEF v
<1>9. SpacesOf(v) = SpacesOf(w) \cup {s} /\ SpaceNames(v) = SpaceNames(w) \cup {i}
  BY <1>4, <1>7, <1>8 DEF SpacesOf, SpaceNames
<1>10. TabNames(s) = Names(tabs)
  BY <1>4 DEF TabNames, Names
<1>11. Apart(SpacesOf(v))
<2>1. \A x \in SpacesOf(w) : /\ x.id # s.id /\ s.cards \cap x.cards = {}
                             /\ TabNames(s) \cap TabNames(x) = {}
  BY <1>3, <1>4, <1>10, FreshFacts DEF IInv, SpaceNames
<2>2. QED
  BY <1>2, <1>9, <2>1 DEF Sound, Apart
<1>12. Sound(v)
  BY <1>2, <1>4, <1>7, <1>8, <1>9, <1>11 DEF Sound
<1>13. PaneNames(v) \subseteq PaneNames(w) \cup FreshPane
  BY <1>4, <1>9 DEF PaneNames
<1>14. TabNamesOf(v) \subseteq TabNamesOf(w) \cup FreshTab
  BY <1>3, <1>9, <1>10 DEF TabNamesOf
<1>15. TabsIn(w) \subseteq TabsIn(v)
  BY <1>9 DEF TabsIn
<1>16. Heir(w, v)
  BY <1>8, <1>9, <1>12, <1>13, <1>14, <1>15 DEF Heir
<1>17. RailsKept(w, v)
<2>1. ASSUME NEW x \in SpacesOf(w), NEW y \in SpacesOf(v), x.id = y.id
      PROVE  x = y
<3>1. y # s
  BY <1>4, <1>6, <2>1 DEF SpaceNames
<3>2. QED
  BY <1>2, <1>9, <2>1, <3>1, SoundFacts
<2>2. QED
  BY <2>1 DEF RailsKept, RailKept
<1>18. UNCHANGED <<activeId, linked, measured>>
  BY DEF AddContent
<1>19. Takes(w, v)
  BY <1>8, <1>9 DEF Takes, Standing
<1>20. QED
  BY <1>5, <1>15, <1>16, <1>17, <1>18, <1>19, Unmoved, Stored

(* A space closed: the others keep their focus, and the workspace its space
   unless it was that one.                                            *)
LEMMA CloseContentStep ==
    ASSUME IInv, NEW w \in Range(workspaces), NEW i \in DOMAIN w.spaces, CloseContent(w, i)
    PROVE  GoodStep
<1> DEFINE rest == RemoveAt(w.spaces, i)
           active == IF w.activeSpaceId # w.spaces[i].id THEN w.activeSpaceId
                     ELSE rest[IF i <= Len(rest) THEN i ELSE i - 1].id
           v == [w EXCEPT !.spaces = rest, !.activeSpaceId = active]
<1>1. Sound(w) /\ w \in Workspace /\ w.spaces \in Seq(Space) /\ Distinct(w.spaces)
  BY SoundFacts DEF IInv, Window, Sound
<1>2. Len(w.spaces) > 1 /\ StoreSettled(v) /\ UNCHANGED <<activeId, linked, measured>>
  BY DEF CloseContent
<1>3. rest \in Seq(Space) /\ Len(rest) = Len(w.spaces) - 1
  BY <1>1, RemoveAtFacts
<1>4. /\ Distinct(rest) /\ Range(rest) = {s \in Range(w.spaces) : s.id # w.spaces[i].id}
      /\ Names(rest) = Names(w.spaces) \ {w.spaces[i].id}
  BY <1>1, RemoveAtNames
<1> HIDE DEF rest
<1>5. /\ w.activeSpaceId # w.spaces[i].id => active = w.activeSpaceId
      /\ active \in Names(rest)
<2>1. CASE w.activeSpaceId # w.spaces[i].id
  BY <1>1, <1>4, <2>1 DEF Sound, SpaceNames, Names, SpacesOf
<2>2. CASE w.activeSpaceId = w.spaces[i].id
<3>1. DOMAIN w.spaces = 1 .. Len(w.spaces) /\ Len(w.spaces) \in Nat
      /\ DOMAIN rest = 1 .. Len(rest)
  BY <1>1, <1>3, LenProperties
<3>2. (IF i <= Len(rest) THEN i ELSE i - 1) \in DOMAIN rest
  BY <1>2, <1>3, <3>1
<3>3. QED
  BY <2>2, <3>2 DEF Names, Range
<2>3. QED
  BY <2>1, <2>2
<1> HIDE DEF active
<1>6. active \in SpaceIds
<2>1. \A s \in Range(rest) : s \in Space
  BY <1>3, ElementOfSeq, LenProperties DEF Range
<2>2. QED
  BY <1>5, <2>1 DEF Names, Space
<1>7. v \in Workspace /\ v.id = w.id /\ v.spaces = rest /\ v.activeSpaceId = active
  BY <1>1, <1>3, <1>6 DEF Workspace
<1> HIDE DEF v
<1>8. /\ SpacesOf(v) \subseteq SpacesOf(w) /\ SpaceNames(v) = Names(rest)
      /\ \A s \in SpacesOf(v) : s.id # w.spaces[i].id
  BY <1>4, <1>7 DEF SpacesOf, SpaceNames, Names
<1>9. Sound(v)
<2>1. Apart(SpacesOf(v))
  BY <1>1, <1>8 DEF Sound, Apart
<2>2. QED
  BY <1>1, <1>4, <1>5, <1>7, <1>8, <2>1 DEF Sound
<1>10. FocusKept(w, v) /\ RailsKept(w, v)
<2>1. \A s \in SpacesOf(w), r \in SpacesOf(v) : s.id = r.id => s = r
  BY <1>1, <1>8, SoundFacts
<2>2. FocusKept(w, w) /\ w.spaces[i].id \notin SpaceNames(v)
  BY <1>1, <1>4, <1>8, SameWorkspace
<2>3. w.activeSpaceId \in SpaceNames(v) => v.activeSpaceId = w.activeSpaceId
  BY <1>5, <1>7, <2>2
<2>4. QED
  BY <1>8, <2>1, <2>2, <2>3 DEF FocusKept, RailsKept, RailKept
<1>11. /\ SpaceNames(v) \subseteq SpaceNames(w) /\ PaneNames(v) \subseteq PaneNames(w)
       /\ TabNamesOf(v) \subseteq TabNamesOf(w)
  BY <1>8 DEF SpaceNames, PaneNames, TabNamesOf
<1>12. Heir(w, v)
  BY <1>7, <1>9, <1>10, <1>11 DEF Heir
<1>13. Takes(w, v)
<2> DEFINE gone == {<<w.id, w.spaces[i].id, t>> : t \in TabsOf(w.spaces[i])}
<2>1. w.spaces[i] \in SpacesOf(w) /\ \A s \in SpacesOf(w) : s.id = w.spaces[i].id => s = w.spaces[i]
  BY <1>1, SoundFacts DEF SpacesOf, Range
<2>2. SpacesOf(v) = SpacesOf(w) \ {w.spaces[i]}
  BY <1>4, <1>7, <2>1 DEF SpacesOf
<2>3. Standing(w) \ Standing(v) = gone
<3>1. \A z : z \in Standing(w) <=>
             \E s \in SpacesOf(w) : \E t \in TabsOf(s) : z = <<w.id, s.id, t>>
  BY DEF Standing
<3>2. \A z : z \in Standing(v) <=> \E s \in SpacesOf(w) \ {w.spaces[i]} :
                                     \E t \in TabsOf(s) : z = <<w.id, s.id, t>>
  BY <1>7, <2>2 DEF Standing
<3>3. \A z : z \in Standing(w) \ Standing(v) <=> z \in gone
  BY <2>1, <3>1, <3>2
<3>4. QED
  BY <3>3
<2> HIDE DEF gone
<2>4. QED
  BY <2>3 DEF Takes, ClosedAway, gone
<1>14. QED
  BY <1>2, <1>10, <1>12, <1>13, Unmoved, Stored

------------------------------------------------------------------------------
(* The operations of the workspaces and of the host. *)
LEMMA SwitchedRail ==
    ASSUME NEW w, Sound(w), NEW v,
           \/ v = [w EXCEPT !.railOpen = ~w.railOpen]
           \/ \E mode \in {"flow", "pin"} : v = [w EXCEPT !.railPlacement = mode]
           \/ v = w
    PROVE  /\ Heir(w, v) /\ RailsKept(w, v) /\ TabsIn(w) \subseteq TabsIn(v)
           /\ Takes(w, v)
<1>1. w \in Workspace /\ Heir(w, w) /\ RailsKept(w, w) /\ w.activeSpaceId \in SpaceNames(w)
  BY OwnHeir DEF Sound
<1>2. /\ v \in Workspace /\ v.id = w.id /\ v.spaces = w.spaces
      /\ v.activeSpaceId = w.activeSpaceId
  BY <1>1 DEF Workspace
<1>3. QED
  BY <1>1, <1>2, SameSpaces DEF Takes

(* The rail's region opened or closed. *)
LEMMA ToggleRegionStep ==
    ASSUME IInv, NEW w \in Range(workspaces), ToggleRegion(w)
    PROVE  GoodStep
<1> DEFINE v == [w EXCEPT !.railOpen = ~w.railOpen]
<1>1. StoreSettled(v) /\ UNCHANGED <<activeId, linked, measured>>
  BY DEF ToggleRegion
<1>2. Heir(w, v) /\ RailsKept(w, v) /\ TabsIn(w) \subseteq TabsIn(v) /\ Takes(w, v)
  BY SwitchedRail DEF IInv, Window
<1> HIDE DEF v
<1>3. QED
  BY <1>1, <1>2, Unmoved, Stored

(* The rail let flow, or pinned. *)
LEMMA SetLeftRailPlacementStep ==
    ASSUME IInv, NEW w \in Range(workspaces), NEW mode \in {"flow", "pin"},
           SetLeftRailPlacement(w, mode)
    PROVE  GoodStep
<1> DEFINE v == [w EXCEPT !.railPlacement = mode]
<1>1. StoreSettled(v) /\ UNCHANGED <<activeId, linked, measured>>
  BY DEF SetLeftRailPlacement
<1>2. Heir(w, v) /\ RailsKept(w, v) /\ TabsIn(w) \subseteq TabsIn(v) /\ Takes(w, v)
  BY SwitchedRail DEF IInv, Window
<1> HIDE DEF v
<1>3. QED
  BY <1>1, <1>2, Unmoved, Stored

(* The host's effect settles the rail of the workspace on screen. *)
LEMMA RailEffectStep ==
    ASSUME IInv, RailEffect
    PROVE  GoodStep
<1> DEFINE w == OnScreen
<1>1. w \in Range(workspaces)
<2>1. \E x \in Range(workspaces) : x.id = activeId
  BY DEF IInv, RailEffect, OpenNames
<2>2. QED
  BY <2>1 DEF OnScreen
<1>2. StoreSettled(w) /\ UNCHANGED <<activeId, linked, measured>>
  BY DEF RailEffect
<1> HIDE DEF w
<1>3. Heir(w, w) /\ RailsKept(w, w) /\ Takes(w, w)
  BY <1>1, OwnHeir DEF IInv, Window, Takes
<1>4. QED
  BY <1>1, <1>2, <1>3, Unmoved, Stored

(* Whatever leaves the workspaces as they are. *)
LEMMA WorkspacesKept ==
    ASSUME IInv, UNCHANGED workspaces, activeId' = activeId \/ activeId' \in OpenNames,
           linked' \subseteq Views, measured' \in BOOLEAN
    PROVE  GoodStep
<1>1. Window'
<2>1. \A x : Sound(x)' <=> Sound(x)
  BY DEF Sound, Workspace, SpacesOf, Distinct, Whole, Plane, Apart, SpaceNames
<2>2. QED
  BY <2>1 DEF IInv, Window
<1>2. OpenNames' = OpenNames /\ OpenNames \subseteq WorkspaceIds
<2>1. \A x \in Range(workspaces) : x.id \in WorkspaceIds
  BY SoundFacts DEF IInv, Window, Workspace
<2>2. QED
  BY <2>1 DEF OpenNames
<1>3. IInv'
  BY <1>1, <1>2 DEF IInv
<1>4. PinStep
<2>1. \A x, y \in Range(workspaces) : x.id = y.id => x = y
  BY DEF IInv, Window, Separate
<2>2. \A x \in Range(workspaces) : PinKept(x, x)
  BY SameWorkspace DEF IInv, Window
<2>3. QED
  BY <2>1, <2>2 DEF PinStep, PinKept
<1>5. ~Closing
  BY AllTabsFacts, AllTabsFacts2 DEF Closing
<1>6. TabsGo
  BY AllStandingFacts DEF TabsGo, Gone, AllStanding
<1>7. QED
  BY <1>3, <1>4, <1>5, <1>6 DEF GoodStep

(* A workspace of its own names is sound, and apart from every other. *)
LEMMA MadeWorkspace ==
    ASSUME IInv, NEW i \in FreshWorkspace, NEW k \in FreshSpace, NEW g \in FreshPane,
           NEW root \in Roots, NEW tabs \in NewTabs,
           NEW w, w = MakeWorkspace(i, root, MakeContent(k, g, tabs))
    PROVE  /\ Sound(w) /\ w.id = i
           /\ \A x \in Range(workspaces) :
                /\ w.id # x.id /\ SpaceNames(w) \cap SpaceNames(x) = {}
                /\ PaneNames(w) \cap PaneNames(x) = {} /\ TabNamesOf(w) \cap TabNamesOf(x) = {}
<1> DEFINE s == MakeContent(k, g, tabs)
<1>1. tabs \in Seq(Tab) /\ Distinct(tabs) /\ Names(tabs) \subseteq FreshTab
  BY NewTabsFacts
<1>2. Whole(s) /\ s.id = k /\ s.cards = {g} /\ TabsOf(s) = Range(tabs)
  BY <1>1, MakeContentFacts DEF FreshSpace, FreshPane
<1>3. w = [id |-> i, root |-> root, railOpen |-> TRUE, railPlacement |-> "flow",
           spaces |-> <<s>>, activeSpaceId |-> s.id]
  BY DEF MakeWorkspace
<1> HIDE DEF s
<1>4. s \in Space
  BY <1>2 DEF Whole, Plane
<1>5. <<s>> \in Seq(Space) /\ Distinct(<<s>>) /\ Range(<<s>>) = {s}
  BY <1>4, OneElement
<1>6. w \in Workspace /\ w.id = i /\ w.spaces = <<s>> /\ w.activeSpaceId = k
  BY <1>2, <1>3, <1>5 DEF Workspace, FreshWorkspace, FreshSpace
<1>7. SpacesOf(w) = {s}
  BY <1>5, <1>6 DEF SpacesOf
<1>8. TabNames(s) = Names(tabs)
  BY <1>2 DEF TabNames, Names
<1>9. SpaceNames(w) = {k} /\ PaneNames(w) = {g} /\ TabNamesOf(w) \subseteq FreshTab
  BY <1>1, <1>2, <1>7, <1>8 DEF SpaceNames, PaneNames, TabNamesOf
<1>10. Sound(w)
  BY <1>2, <1>5, <1>6, <1>7, <1>9 DEF Sound, Apart
<1>11. ASSUME NEW x \in Range(workspaces)
       PROVE  /\ w.id # x.id /\ SpaceNames(w) \cap SpaceNames(x) = {}
              /\ PaneNames(w) \cap PaneNames(x) = {} /\ TabNamesOf(w) \cap TabNamesOf(x) = {}
<2>1. /\ FreshSpace \cap SpaceNames(x) = {} /\ FreshPane \cap PaneNames(x) = {}
      /\ FreshTab \cap TabNamesOf(x) = {}
  BY FreshFacts DEF IInv
<2>2. QED
  BY <1>6, <1>9, <2>1 DEF FreshWorkspace
<1>12. QED
  BY <1>6, <1>10, <1>11

(* A workspace added at the end, and on screen. *)
LEMMA WorkspaceAdded ==
    ASSUME IInv, NEW i \in FreshWorkspace, NEW k \in FreshSpace, NEW g \in FreshPane,
           NEW root \in Roots, NEW tabs \in NewTabs,
           workspaces' = Append(workspaces, MakeWorkspace(i, root, MakeContent(k, g, tabs))),
           activeId' = i, UNCHANGED <<linked, measured>>
    PROVE  GoodStep
<1> DEFINE w == MakeWorkspace(i, root, MakeContent(k, g, tabs))
<1>1. /\ Sound(w) /\ w.id = i
      /\ \A x \in Range(workspaces) :
           /\ w.id # x.id /\ SpaceNames(w) \cap SpaceNames(x) = {}
           /\ PaneNames(w) \cap PaneNames(x) = {} /\ TabNamesOf(w) \cap TabNamesOf(x) = {}
  BY MadeWorkspace
<1>2. workspaces' = Append(workspaces, w)
  OBVIOUS
<1> HIDE DEF w
<1>3. w \in Workspace /\ workspaces \in Seq(Workspace) /\ Distinct(workspaces)
  BY <1>1 DEF Sound, IInv, Window
<1>4. w.id \notin Names(workspaces)
  BY <1>1 DEF Names
<1>5. /\ workspaces' \in Seq(Workspace) /\ Distinct(workspaces')
      /\ Range(workspaces') = Range(workspaces) \cup {w}
  BY ONLY <1>2, <1>3, <1>4, AppendNames
<1>6. \A x \in Range(workspaces) : Sound(x)
  BY DEF IInv, Window
<1>7. Separate(Range(workspaces'))
<2>1. Separate(Range(workspaces))
  BY DEF IInv, Window
<2>2. QED
  BY <1>1, <1>5, <2>1 DEF Separate
<1>8. Window'
<2>1. \A x : Sound(x)' <=> Sound(x)
  BY DEF Sound, Workspace, SpacesOf, Distinct, Whole, Plane, Apart, SpaceNames
<2>2. QED
  BY <1>1, <1>5, <1>6, <1>7, <2>1 DEF Window, Distinct
<1>9. activeId' \in OpenNames' /\ activeId' \in WorkspaceIds
  BY <1>1, <1>5 DEF OpenNames, FreshWorkspace
<1>10. IInv'
  BY <1>8, <1>9 DEF IInv
<1>11. \A x \in Range(workspaces), y \in Range(workspaces') : x.id = y.id => x = y
  BY <1>1, <1>5 DEF IInv, Window, Separate
<1>12. PinStep
<2>1. \A x \in Range(workspaces) : PinKept(x, x)
  BY <1>6, SameWorkspace
<2>2. QED
  BY <1>11, <2>1 DEF PinStep, PinKept
<1>13. ~Closing
<2>1. AllTabs \subseteq AllTabs'
  BY <1>5, AllTabsFacts, AllTabsFacts2
<2>2. QED
  BY <2>1 DEF Closing
<1>14. TabsGo
  BY <1>5, AllStandingFacts DEF TabsGo, Gone, AllStanding
<1>15. QED
  BY <1>10, <1>12, <1>13, <1>14 DEF GoodStep

(* The first workspace, by itself. *)
LEMMA BootstrapStep ==
    ASSUME IInv, NEW root \in Roots, BootstrapFirstWorkspace(root)
    PROVE  GoodStep
<1>1. PICK i \in FreshWorkspace, k \in FreshSpace, g \in FreshPane :
         /\ workspaces' = <<MakeWorkspace(i, root, MakeContent(k, g, <<>>))>>
         /\ activeId' = i
  BY DEF BootstrapFirstWorkspace
<1>2. workspaces = <<>> /\ UNCHANGED <<linked, measured>> /\ <<>> \in NewTabs
  BY DEF BootstrapFirstWorkspace, NewTabs
<1>3. workspaces' = Append(workspaces, MakeWorkspace(i, root, MakeContent(k, g, <<>>)))
  BY <1>1, <1>2
<1>4. QED
  BY <1>1, <1>2, <1>3, WorkspaceAdded

(* A workspace added, or the one at that root turned to. *)
LEMMA AddWorkspaceStep ==
    ASSUME IInv, NEW root \in Roots, NEW tabs \in NewTabs, AddWorkspace(root, tabs)
    PROVE  GoodStep
<1>1. UNCHANGED <<linked, measured>>
  BY DEF AddWorkspace
<1>2. CASE \E dup \in {w \in Range(workspaces) : w.root = root} :
              activeId' = dup.id /\ UNCHANGED workspaces
<2>1. activeId' \in OpenNames
  BY <1>2 DEF OpenNames
<2>2. QED
  BY <1>1, <1>2, <2>1, WorkspacesKept DEF IInv
<1>3. CASE \E i \in FreshWorkspace, k \in FreshSpace, g \in FreshPane :
              /\ workspaces' = Append(workspaces, MakeWorkspace(i, root, MakeContent(k, g, tabs)))
              /\ activeId' = i
  BY <1>1, <1>3, WorkspaceAdded
<1>4. QED
  BY <1>2, <1>3 DEF AddWorkspace

(* A workspace closed: the others keep what they had, and the window its
   workspace unless it was that one.                                       *)
LEMMA CloseTabStep ==
    ASSUME IInv, NEW i \in DOMAIN workspaces, CloseTab(i)
    PROVE  GoodStep
<1> DEFINE rest == RemoveAt(workspaces, i)
<1>1. workspaces \in Seq(Workspace) /\ Distinct(workspaces)
  BY DEF IInv, Window
<1>2. /\ Len(workspaces) > 1 /\ workspaces' = rest /\ UNCHANGED <<linked, measured>>
      /\ activeId' = IF activeId # workspaces[i].id THEN activeId
                     ELSE rest[IF i <= Len(rest) THEN i ELSE i - 1].id
  BY DEF CloseTab
<1>3. rest \in Seq(Workspace) /\ Len(rest) = Len(workspaces) - 1
  BY <1>1, RemoveAtFacts
<1>4. /\ Distinct(rest)
      /\ Range(rest) = {w \in Range(workspaces) : w.id # workspaces[i].id}
      /\ Names(rest) = Names(workspaces) \ {workspaces[i].id}
  BY <1>1, RemoveAtNames
<1> HIDE DEF rest
<1>5. workspaces # <<>> /\ activeId \in Names(workspaces)
  BY DEF IInv, OpenNames, Names
<1>6. /\ activeId # workspaces[i].id => activeId' = activeId
      /\ activeId' \in Names(rest)
<2>1. CASE activeId # workspaces[i].id
  BY <1>2, <1>4, <1>5, <2>1
<2>2. CASE activeId = workspaces[i].id
<3>1. DOMAIN workspaces = 1 .. Len(workspaces) /\ Len(workspaces) \in Nat
      /\ DOMAIN rest = 1 .. Len(rest)
  BY <1>1, <1>3, LenProperties
<3>2. (IF i <= Len(rest) THEN i ELSE i - 1) \in DOMAIN rest
  BY <1>2, <1>3, <3>1
<3>3. QED
  BY <1>2, <2>2, <3>2 DEF Names, Range
<2>3. QED
  BY <2>1, <2>2
<1>7. Range(workspaces') \subseteq Range(workspaces) /\ \A w \in Range(workspaces) : Sound(w)
  BY <1>2, <1>4 DEF IInv, Window
<1>8. Window'
<2>1. \A x : Sound(x)' <=> Sound(x)
  BY DEF Sound, Workspace, SpacesOf, Distinct, Whole, Plane, Apart, SpaceNames
<2>2. Separate(Range(workspaces'))
  BY <1>7 DEF IInv, Window, Separate
<2>3. QED
  BY <1>2, <1>3, <1>4, <1>7, <2>1, <2>2 DEF Window, Distinct
<1>9. activeId' \in OpenNames' /\ activeId' \in WorkspaceIds
<2>1. activeId' \in OpenNames'
  BY <1>2, <1>6 DEF OpenNames, Names
<2>2. \A w \in Range(workspaces') : w.id \in WorkspaceIds
  BY <1>7, SoundFacts DEF Workspace
<2>3. QED
  BY <2>1, <2>2 DEF OpenNames
<1>10. IInv'
  BY <1>2, <1>8, <1>9 DEF IInv
<1>11. \A x \in Range(workspaces), y \in Range(workspaces') : x.id = y.id => x = y
  BY <1>7 DEF IInv, Window, Separate
<1>12. \A w \in Range(workspaces) : FocusKept(w, w) /\ PinKept(w, w)
  BY <1>7, SameWorkspace
<1>13. PinStep
  BY <1>11, <1>12 DEF PinStep, PinKept
<1>14. KeepsFocus
<2>1. activeId \in {w.id : w \in Range(workspaces')} => activeId' = activeId
  BY <1>2, <1>4, <1>6 DEF Names
<2>2. QED
  BY <1>11, <1>12, <2>1 DEF KeepsFocus, FocusKept, SpaceFocusKept, SpaceNames, Names
<1>15. TabsGo
<2> DEFINE w == workspaces[i]
<2>1. w \in Range(workspaces) /\ \A x \in Range(workspaces) : x.id = w.id => x = w
  BY DEF Range, IInv, Window, Separate
<2>2. \A z : z \in AllStanding <=> \E x \in Range(workspaces) : z \in Standing(x)
  BY DEF AllStanding
<2>3. \A z : z \in AllStanding' <=> \E x \in Range(workspaces) \ {w} : z \in Standing(x)
  BY <1>2, <1>4, <2>1, AllStandingFacts
<2>4. \A x : \A z \in Standing(x) : z[1] = x.id
  BY DEF Standing
<2> HIDE DEF w
<2>5. \A z : z \in Gone <=> z \in Standing(w)
  BY <2>1, <2>2, <2>3, <2>4 DEF Gone
<2>6. Gone = Standing(w)
  BY <2>5
<2>7. QED
  BY <2>6 DEF TabsGo, ClosedAway, w
<1>16. QED
  BY <1>10, <1>13, <1>14, <1>15 DEF GoodStep

(* The window started again from its snapshot. *)
LEMMA RestoreWorkspacesStep ==
    ASSUME IInv, RestoreWorkspaces
    PROVE  GoodStep
<1>1. UNCHANGED <<workspaces, linked>> /\ measured' = FALSE /\ workspaces # <<>>
  BY DEF RestoreWorkspaces
<1>2. activeId' = activeId
  BY <1>1 DEF RestoreWorkspaces, IInv, OpenNames
<1>3. QED
  BY <1>1, <1>2, WorkspacesKept DEF IInv

(* Another workspace on screen. *)
LEMMA SetActiveStep ==
    ASSUME IInv, NEW w \in Range(workspaces), SetActive(w)
    PROVE  GoodStep
<1>1. activeId' \in OpenNames /\ UNCHANGED <<workspaces, linked, measured>>
  BY DEF SetActive, OpenNames
<1>2. QED
  BY <1>1, WorkspacesKept DEF IInv

(* The plane measured, a section set linked, and a step that changes nothing. *)
LEMMA HostVariables ==
    ASSUME IInv, MeasurePlane \/ (\E v \in Views : LinkSections(v)) \/ UNCHANGED vars
    PROVE  GoodStep
<1>1. UNCHANGED <<workspaces, activeId>> /\ linked' \subseteq Views /\ measured' \in BOOLEAN
  BY DEF IInv, MeasurePlane, LinkSections, vars
<1>2. QED
  BY <1>1, WorkspacesKept

------------------------------------------------------------------------------
(* The specification. *)
LEMMA InitInv == Init => IInv
<1> SUFFICES ASSUME Init PROVE IInv
  OBVIOUS
<1>1. workspaces = <<>> /\ Range(workspaces) = {} /\ workspaces \in Seq(Workspace)
      /\ Distinct(workspaces)
  BY EmptySeq DEF Init, Range, Distinct
<1>2. Window
  BY <1>1 DEF Window, Separate
<1>3. QED
  BY <1>1, <1>2 DEF Init, IInv

(* The tabs, the panes and the groups an operation is given are those of the
   plane.                                                                  *)
LEMMA Given ==
    ASSUME IInv, NEW w \in Range(workspaces), NEW s \in SpacesOf(w)
    PROVE  /\ {p.id : p \in AllGroups(s)} = s.cards
           /\ {u.id : u \in AllViews(s)} = TabNames(s)
<1>1. Plane(s)
  BY SoundFacts DEF IInv, Window
<1>2. QED
  BY <1>1, PlaneFacts DEF Plane, TabNames

(* Every step, by the parts of the next-state relation. *)
LEMMA WorkspaceSteps == IInv /\ WorkspaceStep => GoodStep
<1> SUFFICES ASSUME IInv, WorkspaceStep PROVE GoodStep
  OBVIOUS
<1>1. CASE \E root \in Roots : BootstrapFirstWorkspace(root)
  BY <1>1, BootstrapStep
<1>2. CASE RestoreWorkspaces
  BY <1>2, RestoreWorkspacesStep
<1>3. CASE \E root \in Roots, tabs \in NewTabs : AddWorkspace(root, tabs)
  BY <1>3, AddWorkspaceStep
<1>4. CASE \E i \in DOMAIN workspaces : CloseTab(i)
  BY <1>4, CloseTabStep
<1>5. CASE \E w \in Range(workspaces) :
              \/ SetActive(w)
              \/ ToggleRegion(w)
              \/ \E mode \in {"flow", "pin"} : SetLeftRailPlacement(w, mode)
  BY <1>5, SetActiveStep, ToggleRegionStep, SetLeftRailPlacementStep
<1>6. QED
  BY <1>1, <1>2, <1>3, <1>4, <1>5 DEF WorkspaceStep

LEMMA SpaceSteps == IInv /\ SpaceStep => GoodStep
<1> SUFFICES ASSUME IInv, NEW w \in Range(workspaces),
                    \/ \E tabs \in NewTabs : AddContent(w, tabs)
                    \/ \E i \in DOMAIN w.spaces : CloseContent(w, i)
                    \/ \E s \in SpacesOf(w) : SetActiveContent(w, s)
                    \/ RestoreView(w)
                    \/ MoveRail(w)
                    \/ \E v \in Views : OpenPluginView(w, v)
             PROVE  GoodStep
  BY DEF SpaceStep
<1>1. CASE \E tabs \in NewTabs : AddContent(w, tabs)
  BY <1>1, AddContentStep
<1>2. CASE \E i \in DOMAIN w.spaces : CloseContent(w, i)
  BY <1>2, CloseContentStep
<1>3. CASE \E s \in SpacesOf(w) : SetActiveContent(w, s)
  BY <1>3, SetActiveContentStep
<1>4. CASE RestoreView(w) \/ MoveRail(w)
  BY <1>4, RestoreViewStep, MoveRailStep
<1>5. CASE \E v \in Views : OpenPluginView(w, v)
  BY <1>5, OpenPluginViewStep
<1>6. QED
  BY <1>1, <1>2, <1>3, <1>4, <1>5

LEMMA TabSteps == IInv /\ TabStep => GoodStep
<1> SUFFICES ASSUME IInv, NEW w \in Range(workspaces), NEW s \in SpacesOf(w),
                    \/ \E g \in s.cards, tabs \in NewTabs \ {<<>>} :
                         AddViewToGroup(w, s, g, Head(tabs))
                    \/ \E t \in TabNames(s) :
                         \/ CloseView(w, s, t)
                         \/ SetActiveView(w, s, t)
                         \/ MaximizeView(w, s, t)
                         \/ \E g \in s.cards :
                              JoinViewToGroup(w, s, t, g) \/ SplitViewToGroup(w, s, t, g)
             PROVE  GoodStep
  BY Given DEF TabStep
<1>1. CASE \E g \in s.cards, tabs \in NewTabs \ {<<>>} : AddViewToGroup(w, s, g, Head(tabs))
  BY <1>1, NewTabsFacts, AddViewToGroupStep
<1>2. CASE \E t \in TabNames(s) : CloseView(w, s, t)
  BY <1>2, CloseViewStep
<1>3. CASE \E t \in TabNames(s) : SetActiveView(w, s, t) \/ MaximizeView(w, s, t)
  BY <1>3, SetActiveViewStep, MaximizeViewStep
<1>4. CASE \E t \in TabNames(s), g \in s.cards :
              JoinViewToGroup(w, s, t, g) \/ SplitViewToGroup(w, s, t, g)
  BY <1>4, JoinViewToGroupStep, SplitViewToGroupStep
<1>5. QED
  BY <1>1, <1>2, <1>3, <1>4

LEMMA PaneSteps == IInv /\ PaneStep => GoodStep
<1> SUFFICES ASSUME IInv, NEW w \in Range(workspaces), NEW s \in SpacesOf(w),
                    \/ \E tabs \in NewTabs : SplitWithNewView(w, s, tabs)
                    \/ \E g \in s.cards :
                         \/ SetActiveGroup(w, s, g)
                         \/ CloseGroup(w, s, g)
                         \/ \E target \in s.cards :
                              JoinGroupToGroup(w, s, g, target) \/ MoveGroupBeside(w, s, g, target)
             PROVE  GoodStep
  BY Given DEF PaneStep
<1>1. CASE \E tabs \in NewTabs : SplitWithNewView(w, s, tabs)
  BY <1>1, SplitWithNewViewStep
<1>2. CASE \E g \in s.cards : SetActiveGroup(w, s, g) \/ CloseGroup(w, s, g)
  BY <1>2, SetActiveGroupStep, CloseGroupStep
<1>3. CASE \E g \in s.cards, target \in s.cards :
              JoinGroupToGroup(w, s, g, target) \/ MoveGroupBeside(w, s, g, target)
  BY <1>3, JoinGroupToGroupStep, MoveGroupBesideStep
<1>4. QED
  BY <1>1, <1>2, <1>3

LEMMA EveryStep == IInv /\ [Next]_vars => GoodStep
<1>1. IInv /\ HostStep => GoodStep
  BY RailEffectStep, HostVariables DEF HostStep
<1>2. IInv /\ UNCHANGED vars => GoodStep
  BY HostVariables
<1>3. QED
  BY <1>1, <1>2, WorkspaceSteps, SpaceSteps, TabSteps, PaneSteps DEF Next

(* The invariant holds in every state. *)
LEMMA Invariance == Spec => []IInv
<1>1. IInv /\ [Next]_vars => IInv'
  BY EveryStep DEF GoodStep
<1>2. QED
  BY InitInv, <1>1, PTL DEF Spec

(* Every workspace, space, pane and tab is a record of its kind. *)
THEOREM TypeCorrect == Spec => []TypeOK
<1>1. IInv => TypeOK
<2> SUFFICES ASSUME IInv PROVE TypeOK
  OBVIOUS
<2>1. ASSUME NEW w \in Range(workspaces)
      PROVE  /\ w.id \in WorkspaceIds /\ w.root \in Roots /\ w.railOpen \in BOOLEAN
             /\ w.railPlacement \in {"flow", "pin"}
  BY DEF IInv, Window, Sound, Workspace
<2>2. ASSUME NEW w \in Range(workspaces), NEW s \in SpacesOf(w)
      PROVE  /\ s.id \in SpaceIds /\ s.cards \subseteq PaneIds
             /\ s.rail \in PaneIds \cup {None, Elsewhere}
             /\ s.maximizedTabId \in TabIds \cup {None}
             /\ \A p \in s.panes :
                  /\ p.id \in PaneIds /\ p.activeTabId \in TabIds \cup {None}
                  /\ \A t \in Range(p.tabs) : t \in Tab
<3>1. Plane(s) /\ s \in Space
  BY SoundFacts DEF IInv, Window
<3>2. ASSUME NEW p \in s.panes
      PROVE  p \in Pane /\ \A t \in Range(p.tabs) : t \in Tab
<4>1. p \in Pane
  BY <3>1, PlaneFacts
<4>2. QED
  BY <4>1, ElementOfSeq, LenProperties DEF Pane, Range
<3>3. QED
  BY <3>1, <3>2 DEF Space, Pane
<2>3. QED
  BY <2>1, <2>2 DEF TypeOK, IInv
<1>2. QED
  BY Invariance, <1>1, PTL

(* The plane and the array hold the same panes, each once, and at least one. *)
THEOREM PlanesAgree == Spec => []PlaneHoldsPanes
<1>1. IInv => PlaneHoldsPanes
<2> SUFFICES ASSUME IInv, NEW w \in Range(workspaces), NEW s \in SpacesOf(w)
             PROVE  /\ s.cards = {p.id : p \in s.panes}
                    /\ Cardinality(s.cards) = Cardinality(s.panes)
                    /\ s.panes # {}
  BY DEF PlaneHoldsPanes, AllSpaces
<2>1. Plane(s)
  BY SoundFacts DEF IInv, Window
<2>2. QED
  BY <2>1, CardsCount DEF Plane
<1>2. QED
  BY Invariance, <1>1, PTL

(* Whatever was moved, merged, split or closed, each level of the focus names
   an element it holds.                                                    *)
THEOREM FocusHolds == Spec => []FocusChain
<1>1. IInv => FocusChain
<2> SUFFICES ASSUME IInv PROVE FocusChain
  OBVIOUS
<2>1. workspaces # <<>> => activeId \in {w.id : w \in Range(workspaces)}
  BY DEF IInv, OpenNames
<2>2. ASSUME NEW w \in Range(workspaces)
      PROVE  w.activeSpaceId \in {s.id : s \in SpacesOf(w)}
  BY DEF IInv, Window, Sound, SpaceNames
<2>3. ASSUME NEW w \in Range(workspaces), NEW s \in SpacesOf(w)
      PROVE  /\ HasGroup(s, s.activePaneId)
             /\ s.maximizedTabId \in {t.id : t \in TabsOf(s)} \cup {None}
             /\ \A p \in s.panes : p.activeTabId \in {t.id : t \in Range(p.tabs)} \cup {None}
<3>1. Whole(s) /\ Plane(s)
  BY SoundFacts DEF IInv, Window
<3>2. QED
  BY <3>1, PlaneFacts DEF Whole, Plane, GoodPane, TabNames, Names
<2>4. QED
  BY <2>1, <2>2, <2>3 DEF FocusChain
<1>2. QED
  BY Invariance, <1>1, PTL

(* A tab is at one place in one pane, a pane in one space, a space in one
   workspace.                                                              *)
THEOREM OneHomeEach == Spec => []OneHome
<1>1. IInv => OneHome
<2> SUFFICES ASSUME IInv PROVE OneHome
  OBVIOUS
<2> DEFINE Place(w, s, p, i) == <<w.id, s.id, p.id, i, p.tabs[i].id>>
<2>1. \A w, v \in Range(workspaces) : \A s \in SpacesOf(w), r \in SpacesOf(v) :
        s.id = r.id \/ s.cards \cap r.cards # {} \/ TabNames(s) \cap TabNames(r) # {}
          => w = v /\ s = r
<3> SUFFICES ASSUME NEW w \in Range(workspaces), NEW v \in Range(workspaces),
                    NEW s \in SpacesOf(w), NEW r \in SpacesOf(v),
                    s.id = r.id \/ s.cards \cap r.cards # {} \/ TabNames(s) \cap TabNames(r) # {}
             PROVE  w = v /\ s = r
  OBVIOUS
<3>1. w = v
<4>1. s.id \in SpaceNames(w) /\ r.id \in SpaceNames(v)
      /\ s.cards \subseteq PaneNames(w) /\ r.cards \subseteq PaneNames(v)
      /\ TabNames(s) \subseteq TabNamesOf(w) /\ TabNames(r) \subseteq TabNamesOf(v)
  BY DEF SpaceNames, PaneNames, TabNamesOf
<4>2. \/ SpaceNames(w) \cap SpaceNames(v) # {} \/ PaneNames(w) \cap PaneNames(v) # {}
      \/ TabNamesOf(w) \cap TabNamesOf(v) # {}
  BY <4>1
<4>3. QED
  BY <4>2 DEF IInv, Window, Separate
<3>2. s = r
  BY <3>1 DEF IInv, Window, Sound, Apart
<3>3. QED
  BY <3>1, <3>2
<2>2. \A w \in Range(workspaces) : \A s \in SpacesOf(w) : Plane(s)
  BY SoundFacts DEF IInv, Window
<2>3. \A a \in Cards : \E w \in Range(workspaces) : \E s \in SpacesOf(w) : \E p \in s.panes :
        a = <<w.id, s.id, p.id>>
  BY DEF Cards
<2>4. ASSUME NEW a \in Cards, NEW b \in Cards
      PROVE  (a[3] = b[3] => a = b) /\ (a[2] = b[2] => a[1] = b[1])
<3>1. PICK w \in Range(workspaces) : \E s \in SpacesOf(w) : \E p \in s.panes :
        a = <<w.id, s.id, p.id>>
  BY <2>3
<3>2. PICK s \in SpacesOf(w) : \E p \in s.panes : a = <<w.id, s.id, p.id>>
  BY <3>1
<3>3. PICK p \in s.panes : a = <<w.id, s.id, p.id>>
  BY <3>2
<3>4. PICK v \in Range(workspaces) : \E r \in SpacesOf(v) : \E q \in r.panes :
        b = <<v.id, r.id, q.id>>
  BY <2>3
<3>5. PICK r \in SpacesOf(v) : \E q \in r.panes : b = <<v.id, r.id, q.id>>
  BY <3>4
<3>6. PICK q \in r.panes : b = <<v.id, r.id, q.id>>
  BY <3>5
<3>7. p.id \in s.cards /\ q.id \in r.cards
  BY <2>2, PlaneFacts
<3>8. p.id = q.id \/ s.id = r.id => w = v /\ s = r
  BY <2>1, <3>7
<3>9. QED
  BY <3>3, <3>6, <3>8
<2>5. \A a \in Places : \E w \in Range(workspaces) : \E s \in SpacesOf(w) : \E p \in s.panes :
        \E i \in DOMAIN p.tabs : a = Place(w, s, p, i)
  BY DEF Places
<2>6. ASSUME NEW a \in Places, NEW b \in Places, a[5] = b[5]
      PROVE  a = b
<3>1. PICK w \in Range(workspaces) : \E s \in SpacesOf(w) : \E p \in s.panes :
        \E i \in DOMAIN p.tabs : a = Place(w, s, p, i)
  BY <2>5
<3>2. PICK s \in SpacesOf(w) : \E p \in s.panes : \E i \in DOMAIN p.tabs : a = Place(w, s, p, i)
  BY <3>1
<3>3. PICK p \in s.panes : \E i \in DOMAIN p.tabs : a = Place(w, s, p, i)
  BY <3>2
<3>4. PICK i \in DOMAIN p.tabs : a = Place(w, s, p, i)
  BY <3>3
<3>5. PICK v \in Range(workspaces) : \E r \in SpacesOf(v) : \E q \in r.panes :
        \E j \in DOMAIN q.tabs : b = Place(v, r, q, j)
  BY <2>5
<3>6. PICK r \in SpacesOf(v) : \E q \in r.panes : \E j \in DOMAIN q.tabs : b = Place(v, r, q, j)
  BY <3>5
<3>7. PICK q \in r.panes : \E j \in DOMAIN q.tabs : b = Place(v, r, q, j)
  BY <3>6
<3>8. PICK j \in DOMAIN q.tabs : b = Place(v, r, q, j)
  BY <3>7
<3>9. p.tabs[i].id = q.tabs[j].id
  BY <2>6, <3>4, <3>8
<3>10. p.tabs[i].id \in Names(p.tabs) /\ q.tabs[j].id \in Names(q.tabs)
  BY DEF Names, Range
<3>11. Plane(s) /\ Plane(r)
  BY <2>2
<3>12. p.tabs[i].id \in TabNames(s) /\ q.tabs[j].id \in TabNames(r)
  BY <3>10, <3>11, PlaneFacts
<3>13. w = v /\ s = r
  BY <2>1, <3>9, <3>12
<3>14. p = q
  BY <3>9, <3>10, <3>11, <3>13 DEF Plane
<3>15. i = j
  BY <3>9, <3>11, <3>14 DEF Plane, GoodPane, Distinct
<3>16. QED
  BY <3>4, <3>8, <3>13, <3>14, <3>15
<2>7. QED
  BY <2>4, <2>6 DEF OneHome
<1>2. QED
  BY Invariance, <1>1, PTL

(* A step that only takes tabs away leaves the focus where it was, wherever
   that stays.                                                             *)
THEOREM ClosingIsQuiet == Spec => ClosingKeepsFocus
<1>1. IInv /\ [Next]_vars => [Closing => KeepsFocus]_vars
  BY EveryStep DEF GoodStep
<1>2. QED
  BY Invariance, <1>1, PTL DEF Spec, ClosingKeepsFocus

(* What is dragged, merged or split off is never lost: a tab leaves its space
   only when it, its pane, its space or its workspace is closed, and nothing
   goes with it that was not closed.                                       *)
THEOREM NoTabIsLost == Spec => TabsGoByClosing
<1>1. IInv /\ [Next]_vars => [Gone # {} => ClosedAway(Gone)]_vars
  BY EveryStep DEF GoodStep, TabsGo
<1>2. QED
  BY Invariance, <1>1, PTL DEF Spec, TabsGoByClosing

(* A pinned rail keeps its line through every step that leaves it pinned. *)
THEOREM PinnedStays == Spec => PinnedRailStays
<1>1. IInv /\ [Next]_vars => [PinStep]_vars
  BY EveryStep DEF GoodStep
<1>2. [][PinStep]_vars => PinnedRailStays
  BY PTL DEF PinStep, PinnedRailStays
<1>3. QED
  BY Invariance, <1>1, <1>2, PTL DEF Spec
=============================================================================
