------------------------------ MODULE PluginGraph ------------------------------
(***************************************************************************)
(* The orders computed from the plugins' dependencies                      *)
(* (src/frontend/src/plugins/dependencyGraph.ts).                          *)
(*                                                                         *)
(* installed is the sequence of the installed plugins, in the order of the *)
(* store; needs gives the plugins each one declares as its dependencies,   *)
(* installed or not.  A loop of the code is a recursive function of its    *)
(* rounds.                                                                 *)
(***************************************************************************)
EXTENDS Naturals, Sequences, SequencesExt, FiniteSets

(* The members of a set that a sequence lists, in their order. *)
Among(S, seq) ==
    LET kept[n \in Nat] ==
          IF n = 0 THEN <<>>
          ELSE IF seq[n] \in S THEN Append(kept[n - 1], seq[n]) ELSE kept[n - 1]
    IN  kept[Len(seq)]

DirectDependents(id, needs, installed) ==
    Among({p \in Range(installed) : p # id /\ id \in needs[p]}, installed)

(* The dependents of p that were not met yet, after those that were. *)
Meet(seen, p, needs, installed) ==
    seen \o Among(Range(installed) \ Range(seen), DirectDependents(p, needs, installed))

(* Breadth first from id: what has been met once the n first of it were asked for their
   dependents.  One frontier after the other is taken from its front. *)
Met(id, needs, installed) ==
    LET met[n \in Nat] ==
          IF n = 0 THEN <<id>>
          ELSE LET seen == met[n - 1]
               IN  IF n > Len(seen) THEN seen ELSE Meet(seen, seen[n], needs, installed)
    IN  met

(* As many rounds as there are plugins to meet empty the last frontier. *)
TransitiveDependents(id, needs, installed) ==
    Reverse(Tail(Met(id, needs, installed)[Len(installed) + 1]))

CascadeRemovalSet(id, needs, installed) ==
    Append(TransitiveDependents(id, needs, installed), id)

(* A visit to each of deps in turn, out being what it finds done. *)
VisitEach(visit, deps, out) ==
    LET done[i \in Nat] ==
          IF i = 0 THEN out
          ELSE IF i > Len(deps) THEN done[i - 1] ELSE visit[deps[i]][done[i - 1]]
    IN  done[Len(deps)]

(* Depth first along the dependencies, n plugins deep: each is put after its own, a cycle once. *)
Visit(needs, installed) ==
    LET visit[n \in Nat] ==
          [onStack \in SUBSET Range(installed) |-> [cur \in Range(installed) |->
            [out \in Seq(Range(installed)) |->
               IF n = 0 \/ cur \in Range(out) \cup onStack THEN out
               ELSE Append(VisitEach(visit[n - 1][onStack \cup {cur}], Among(needs[cur], installed), out),
                           cur)]]]
    IN  visit

(* A plugin is on the stack once: no visit is deeper than the installed ones are many. *)
ActivationChain(id, needs, installed) ==
    IF id \in Range(installed) THEN Visit(needs, installed)[Len(installed)][{}][id][<<>>] ELSE <<>>

(* Mutant: a dependency that is no target is waited for as well. *)
LevelOfAll(waiting, needs, installed) ==
    {p \in waiting \cap Range(installed) : needs[p] \subseteq Range(installed) \ waiting}

(* Those that wait for none of the waiting. *)
Level(waiting, needs, installed) ==
    {p \in waiting \cap Range(installed) : needs[p] \cap waiting = {}}

(* The targets not yet in one of the first n levels. *)
Waiting(ids, needs, installed) ==
    LET waiting[n \in Nat] ==
          IF n = 0 THEN ids
          ELSE waiting[n - 1] \ Level(waiting[n - 1], needs, installed)
    IN  waiting

(* The targets in levels: each after the dependencies that are targets too; what blocks itself
   in a cycle is the last level. *)
ActivationLevels(ids, needs, installed) ==
    LET waiting == Waiting(ids, needs, installed)
        next(n) == Level(waiting[n], needs, installed)
        rounds  == CHOOSE n \in 0..Len(installed) : next(n) = {} /\ \A m \in 0..(n - 1) : next(m) # {}
        rest    == waiting[rounds] \cap Range(installed)
    IN  [n \in 1..rounds |-> next(n - 1)] \o (IF rest = {} THEN <<>> ELSE <<rest>>)

------------------------------------------------------------------------------
(***************************************************************************)
(* What the orders are for, stated of any graph without cycles: "returns   *)
(* id and all of its transitive dependencies with the dependencies first"; *)
(* "the order between levels guarantees dependencies first"; "removing in  *)
(* this order always removes the dependents first".                        *)
(***************************************************************************)
Closed(S, needs, installed) == \A p \in S : needs[p] \cap Range(installed) \subseteq S

(* What is reached from a set of installed plugins along their dependencies. *)
Reach(S, needs, installed) ==
    {q \in Range(installed) :
        \A T \in SUBSET Range(installed) : S \subseteq T /\ Closed(T, needs, installed) => q \in T}

Dependents(id, needs, installed) ==
    {p \in Range(installed) \ {id} : id \in Reach({p}, needs, installed)}

DependenciesFirst(order, needs) ==
    \A i, j \in DOMAIN order : order[i] \in needs[order[j]] => i < j

Acyclic(needs, installed) ==
    \A p \in Range(installed) :
       p \notin Reach(needs[p] \cap Range(installed), needs, installed)

ChainPrepares(id, needs, installed) ==
    LET chain == ActivationChain(id, needs, installed)
    IN  /\ IsInjective(chain) /\ Range(chain) = Reach({id}, needs, installed)
        /\ Acyclic(needs, installed) => DependenciesFirst(chain, needs)

CascadeTakesAll(id, needs, installed) ==
    LET order == CascadeRemovalSet(id, needs, installed)
    IN  IsInjective(order) /\ Range(order) = Dependents(id, needs, installed) \cup {id}

LevelsPrepare(ids, needs, installed) ==
    LET levels == ActivationLevels(ids, needs, installed)
    IN  /\ UNION Range(levels) = ids \cap Range(installed)
        /\ \A i, j \in DOMAIN levels : i # j => levels[i] \cap levels[j] = {}
        /\ Acyclic(needs, installed) /\ ids \subseteq Range(installed) =>
             \A i, j \in DOMAIN levels : \A p \in levels[i], q \in levels[j] :
                p \in needs[q] => i < j

OrdersServe(needs, installed) ==
    /\ \A id \in Range(installed) :
          ChainPrepares(id, needs, installed) /\ CascadeTakesAll(id, needs, installed)
    /\ \A ids \in SUBSET DOMAIN needs : LevelsPrepare(ids, needs, installed)
==============================================================================
