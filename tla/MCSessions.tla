----------------------------- MODULE MCSessions -----------------------------
(* Instances of Sessions for TLC. *)
EXTENDS Sessions, TLC

CONSTANTS w1, w2, s1, s2, g1, g2, g3, t1, t2, t3

\* Identities are interchangeable.
Identities == Permutations(WorkspaceIds) \cup Permutations(SpaceIds)
                \cup Permutations(PaneIds) \cup Permutations(TabIds)

\* Bounds: the rail stands while one workspace is open (a workspace's rail is
\* settled from that workspace alone) and beside at most two panes; three panes
\* hold two tabs, and three tabs stand in two panes.
RailAtRest == /\ linked = {} /\ ~measured
              /\ \A w \in Range(workspaces) : w.railOpen /\ w.railPlacement = "flow"
OneRail == \/ RailAtRest
           \/ Len(workspaces) <= 1 /\ Cardinality(AllPanes) <= 2 /\ Cardinality(AllTabs) <= 2
Few == Cardinality(AllPanes) + Cardinality(AllTabs) <= 5
=============================================================================
