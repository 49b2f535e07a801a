------------------------------ MODULE SingleOpen ------------------------------
(***************************************************************************)
(* What the application promises of a workspace root (P6): it is open in   *)
(* at most one window.  A window opens roots no other window has open, and *)
(* lets go of roots; no step hands a root from one window to another.      *)
(***************************************************************************)
CONSTANTS
    Windows,    \* what can hold a root
    Roots,      \* the roots of the workspaces
    Nowhere     \* no window

VARIABLE where      \* the window a root is open in, or Nowhere

Init == where = [r \in Roots |-> Nowhere]

Open(w, R) ==
    /\ \A r \in R : where[r] = Nowhere
    /\ where' = [r \in Roots |-> IF r \in R THEN w ELSE where[r]]

Leave(R) ==
    /\ \A r \in R : where[r] # Nowhere
    /\ where' = [r \in Roots |-> IF r \in R THEN Nowhere ELSE where[r]]

Next ==
    /\ where' # where
    /\ \/ \E w \in Windows, R \in SUBSET Roots : Open(w, R)
       \/ \E R \in SUBSET Roots : Leave(R)

Spec == Init /\ [][Next]_where
==============================================================================
