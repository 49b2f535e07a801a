---------------------------- MODULE MCSidecarHost ----------------------------
(***************************************************************************)
(* SidecarHost for TLC: which declarations are made, and the generations   *)
(* and callers that are interchangeable.                                   *)
(***************************************************************************)
EXTENDS SidecarHost, TLC

CONSTANTS noKeys, k1, k2, r1, r2

Decl(k, r) == [keys |-> k, runtime |-> r]

OneDecl == {Decl(k1, r1)}
\* A keyless caller and one that declares a secret.
KeyedDecls == {Decl(noKeys, r1), Decl(k1, r1)}
\* A keyless caller and two that declare different secrets.
RivalDecls == {Decl(noKeys, r1), Decl(k1, r1), Decl(k2, r1)}
\* Two versions of the program, and a second set of secrets.
AllDecls == {Decl(noKeys, r1), Decl(k1, r1), Decl(k2, r1), Decl(k1, r2)}

UnitSymmetry == Permutations(Units)
UnitCallerSymmetry == Permutations(Units) \cup Permutations(Callers)
=============================================================================
