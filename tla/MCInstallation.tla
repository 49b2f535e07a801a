---------------------------- MODULE MCInstallation ----------------------------
(***************************************************************************)
(* Installation for TLC: two releases of a plugin and one of a sidecar.    *)
(***************************************************************************)
EXTENDS Installation, TLC

CONSTANTS view, pty, view1, view2, pty1

Releases == {view1, view2, pty1}
Owner == (view1 :> view) @@ (view2 :> view) @@ (pty1 :> pty)

TxnSymmetry == Permutations(Txns)
TxnCallerSymmetry == Permutations(Txns) \cup Permutations(Callers)
=============================================================================
