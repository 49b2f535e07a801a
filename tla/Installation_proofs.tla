------------------------- MODULE Installation_proofs -------------------------
(***************************************************************************)
(* Proofs about Installation, for any transactions, components and bounds. *)
(* For any callers: type correctness, and that until the first crash every *)
(* unpublished directory stands in a journal, or was left by a refused     *)
(* undo, and no request leaves its transaction on disk. For requests that  *)
(* come one at a time, over any crashes and refusals: a failure changes    *)
(* nothing and nothing stays half installed but what a second refusal kept *)
(* an undo from moving back; what is selected stays, and a recovery serves.*)
(***************************************************************************)
EXTENDS Installation, TLAPS

\* The environment that Initialize publishes is one.
LEMMA EmptyEnvType == EmptyEnv \in Environments
  BY DEF EmptyEnv, Environments, Selections

\* What an environment gives: a revision, a release or none per component.
LEMMA EnvironmentParts ==
    ASSUME NEW e \in Environments
    PROVE  /\ e.revision \in Nat
           /\ \A i \in Ids : e.sel[i] \in Artifacts \cup {NoArtifact}
           /\ SelectedIn(e) \subseteq Artifacts
  BY DEF Environments, Selections, SelectedIn

\* A journal is a journal, says what it was given and is not the absence of one.
LEMMA JournalType ==
    ASSUME NEW g \in Nat, NEW S \in SUBSET Artifacts
    PROVE  /\ [generation |-> g, moves |-> S] \in Journals
           /\ [generation |-> g, moves |-> S].moves = S
           /\ [generation |-> g, moves |-> S] # NoJournal
  BY NothingAssumption DEF Journals

\* What a commit plans and a removal writes is an environment.
LEMMA PlannedType ==
    ASSUME TypeOK, NEW p \in Callers
    PROVE  Planned(p) \in Environments
<1>1. read[p] \in Environments /\ want[p] \subseteq Artifacts
  BY DEF TypeOK
<1>2. read[p].revision + 1 \in Nat
  BY <1>1, EnvironmentParts
<1>3. ASSUME NEW i \in Ids
      PROVE  (IF \E a \in want[p] : IdOf[a] = i THEN CHOOSE a \in want[p] : IdOf[a] = i
              ELSE read[p].sel[i]) \in Artifacts \cup {NoArtifact}
  BY <1>1, EnvironmentParts
<1>4. QED
  BY <1>2, <1>3 DEF Planned, Environments, Selections

\* So is what a removal leaves.
LEMMA WithoutType ==
    ASSUME TypeOK, NEW i \in Ids
    PROVE  Without(i) \in Environments
<1>1. env \in Environments
  BY DEF TypeOK
<1>2. env.revision + 1 \in Nat /\ [env.sel EXCEPT ![i] = NoArtifact] \in Selections
  BY <1>1 DEF Environments, Selections
<1>3. QED
  BY <1>2 DEF Without, Environments

\* No step leaves the types.
LEMMA TypeStep ==
    TypeOK /\ [Next]_vars => TypeOK'
<1> SUFFICES ASSUME TypeOK, [Next]_vars
             PROVE  TypeOK'
  OBVIOUS
<1> USE InstallationAssumption
      DEF TypeOK, home, transactions, locals, limits
<1>1. ASSUME NEW p \in Callers, NEW t \in Txns, NEW components \in SUBSET Artifacts,
   BeginInstall(p, t, components)
      PROVE  TypeOK'
  BY <1>1, EmptyEnvType, EnvironmentParts DEF BeginInstall, Begins, Goes
<1>2. ASSUME NEW p \in Callers, NEW t \in Txns, NEW components \in SUBSET Artifacts,
   InstalledAlready(p, t, components)
      PROVE  TypeOK'
  BY <1>2 DEF InstalledAlready
<1>3. ASSUME NEW p \in Callers, NEW a \in Artifacts, Stage(p, a)
      PROVE  TypeOK'
  BY <1>3 DEF Stage
<1>4. ASSUME NEW p \in Callers, StageFails(p)
      PROVE  TypeOK'
  BY <1>4 DEF StageFails, Goes
<1>5. ASSUME NEW p \in Callers, CommitReads(p)
      PROVE  TypeOK'
  BY <1>5 DEF CommitReads, Goes
<1>6. ASSUME NEW p \in Callers, CommitPlans(p)
      PROVE  TypeOK'
  BY <1>6, PlannedType DEF CommitPlans, Goes, Fresh
<1>7. ASSUME NEW p \in Callers, CommitRefused(p)
      PROVE  TypeOK'
  BY <1>7 DEF CommitRefused, Goes
<1>8. ASSUME NEW p \in Callers, CommitJournals(p)
      PROVE  TypeOK'
  BY <1>8, JournalType, EnvironmentParts DEF CommitJournals, Goes, Journalled
<1>9. ASSUME NEW p \in Callers, NEW a \in Artifacts, CommitMoves(p, a)
      PROVE  TypeOK'
  BY <1>9 DEF CommitMoves
<1>10. ASSUME NEW p \in Callers, CommitBlocked(p)
      PROVE  TypeOK'
  BY <1>10 DEF CommitBlocked, Goes
<1>11. ASSUME NEW p \in Callers, CommitPublishes(p)
      PROVE  TypeOK'
  BY <1>11, EnvironmentParts DEF CommitPublishes, Goes, Publishes
<1>12. ASSUME NEW p \in Callers, CommitFails(p)
      PROVE  TypeOK'
  BY <1>12 DEF CommitFails, Goes, Fault
<1>13. ASSUME NEW p \in Callers, NEW a \in Artifacts, UndoMove(p, a)
      PROVE  TypeOK'
  BY <1>13 DEF UndoMove, MovesToUndo
<1>14. ASSUME NEW p \in Callers, NEW a \in Artifacts, UndoRefused(p, a)
      PROVE  TypeOK'
  BY <1>14 DEF UndoRefused, MovesToUndo
<1>15. ASSUME NEW p \in Callers, UndoEnds(p)
      PROVE  TypeOK'
  BY <1>15 DEF UndoEnds, Goes, MovesToUndo
<1>16. ASSUME NEW p \in Callers, CommitEnds(p)
      PROVE  TypeOK'
  BY <1>16 DEF CommitEnds, Goes, Ends, CloseTxn, CloseInMemory, Fault
<1>17. ASSUME NEW p \in Callers, Returns(p)
      PROVE  TypeOK'
  BY <1>17 DEF Returns, Goes
<1>18. ASSUME NEW p \in Callers, Rollback(p)
      PROVE  TypeOK'
  BY <1>18 DEF Rollback, Goes, Ends, CloseTxn, CloseInMemory, Fault
<1>19. ASSUME NEW p \in Callers, NEW a \in Artifacts, BeginRemove(p, a)
      PROVE  TypeOK'
  BY <1>19, EmptyEnvType, EnvironmentParts DEF BeginRemove, Begins, Goes
<1>20. ASSUME NEW p \in Callers, NEW a \in Artifacts, RemoveReads(p, a)
      PROVE  TypeOK'
  BY <1>20, WithoutType, EnvironmentParts DEF RemoveReads, Goes
<1>21. ASSUME NEW p \in Callers, NEW a \in Artifacts, RemoveRefused(p, a)
      PROVE  TypeOK'
  BY <1>21 DEF RemoveRefused, Goes
<1>22. ASSUME NEW p \in Callers, RemoveHides(p)
      PROVE  TypeOK'
  BY <1>22 DEF RemoveHides, Goes
<1>23. ASSUME NEW p \in Callers, RemoveClears(p)
      PROVE  TypeOK'
  BY <1>23 DEF RemoveClears, Goes
<1>24. ASSUME NEW p \in Callers, RemoveWrites(p)
      PROVE  TypeOK'
  BY <1>24 DEF RemoveWrites, Goes
<1>25. ASSUME NEW p \in Callers, RemovePublishes(p)
      PROVE  TypeOK'
  BY <1>25, EnvironmentParts DEF RemovePublishes, Goes, Publishes
<1>26. ASSUME NEW p \in Callers, RemoveConflicts(p)
      PROVE  TypeOK'
  BY <1>26 DEF RemoveConflicts, Goes
<1>27. ASSUME NEW p \in Callers, RemoveFails(p)
      PROVE  TypeOK'
  BY <1>27 DEF RemoveFails, Goes, Fault
<1>28. ASSUME NEW p \in Callers, RemoveRestores(p)
      PROVE  TypeOK'
  BY <1>28 DEF RemoveRestores, Goes
<1>29. ASSUME NEW p \in Callers, RestoreRefused(p)
      PROVE  TypeOK'
  BY <1>29 DEF RestoreRefused, Goes, Fault
<1>30. ASSUME NEW p \in Callers, RemoveErases(p)
      PROVE  TypeOK'
  BY <1>30 DEF RemoveErases, Goes, Fault
<1>31. ASSUME Crash
      PROVE  TypeOK'
  BY <1>31, EmptyEnvType DEF Crash, Idle
<1>32. ASSUME NEW t \in Txns, NEW a \in Artifacts, RecoverUndoes(t, a)
      PROVE  TypeOK'
  BY <1>32 DEF RecoverUndoes, Recovering
<1>33. ASSUME NEW t \in Txns, RecoverRefuses(t)
      PROVE  TypeOK'
  BY <1>33 DEF RecoverRefuses, Recovering
<1>34. ASSUME NEW t \in Txns, RecoverForgets(t)
      PROVE  TypeOK'
  BY <1>34 DEF RecoverForgets, Recovering, CloseTxn
<1>35. ASSUME Serves
      PROVE  TypeOK'
  BY <1>35 DEF Serves
<1>36. CASE UNCHANGED vars
  BY <1>36 DEF vars, locals
<1>37. QED
  BY <1>1, <1>2, <1>3, <1>4, <1>5, <1>6, <1>7, <1>8, <1>9, <1>10, <1>11, <1>12, <1>13,
     <1>14, <1>15, <1>16, <1>17, <1>18, <1>19, <1>20, <1>21, <1>22, <1>23, <1>24,
     <1>25, <1>26, <1>27, <1>28, <1>29, <1>30, <1>31, <1>32, <1>33, <1>34, <1>35, <1>36
     DEF Next, InstallStep, RemoveStep, RecoverStep

\* Inside an install a caller has a transaction of its own.
Owning == {"stage", "plan", "journal", "move", "undo", "failed", "clean"}

Owns ==
    /\ \A p \in Callers : pc[p] \in Owning => tx[p] \in used
    /\ \A p, q \in Callers :
           pc[p] \in Owning /\ pc[q] \in Owning /\ tx[p] = tx[q] => p = q

\* A request runs only while the application is up, and it is down only after
\* a crash.
Running ==
    /\ boot # "up" => \A p \in Callers : pc[p] = "idle"
    /\ crashes = 0 => boot = "up"

\* One release of a component at a time.
OfOneKind(S) == \A a, b \in S : IdOf[a] = IdOf[b] => a = b

\* What is known of a request from where it stands.
CarriesOf(p) ==
    /\ pc[p] \in {"stage", "plan", "journal", "move"} => OfOneKind(want[p])
    /\ pc[p] \in {"stage", "plan", "journal", "failed", "remove", "clear", "hide"} =>
           moved[p] = {}
    /\ pc[p] \in {"journal", "move"} => moves[p] \subseteq SelectedIn(plan[p])
    /\ pc[p] = "move" =>
           /\ journal[tx[p]] # NoJournal
           /\ journal[tx[p]].moves = moves[p]
           /\ moved[p] \subseteq moves[p]
    /\ pc[p] = "undo" /\ moved[p] # {} =>
           /\ journal[tx[p]] # NoJournal
           /\ moved[p] \subseteq journal[tx[p]].moves
    /\ pc[p] \in {"clear", "hide"} => want[p] \subseteq everSelected
    /\ pc[p] \in {"write", "swap", "restore", "erase"} => moved[p] \subseteq everSelected

Carries == \A p \in Callers : CarriesOf(p)

Remembered == SelectedIn(env) \subseteq everSelected

\* An unpublished directory is one that a commit still under way has moved, or that
\* an undo could not move back.
MovedBy(a) == \E p \in Callers : pc[p] \in {"move", "undo"} /\ a \in moved[p]
Accounted == crashes = 0 => \A a \in dirs : a \in everSelected \cup stranded \/ MovedBy(a)

\* What is on disk of a transaction has an owner.
OwnedBy(t) == \E p \in Callers : pc[p] \in Owning /\ tx[p] = t
Kept ==
    crashes = 0 /\ (faults = 0 \/ ~Sticky) =>
        \A t \in Txns : journal[t] # NoJournal \/ staged[t] # {} => OwnedBy(t)

IInv == TypeOK /\ Owns /\ Running /\ Carries /\ Remembered /\ Accounted /\ Kept

\* The invariant holds before the first request.
LEMMA InitInv == Init => IInv
<1> SUFFICES ASSUME Init PROVE IInv
  OBVIOUS
<1> USE InstallationAssumption DEF Init
<1>1. TypeOK
  BY EmptyEnvType DEF TypeOK
<1>2. Owns /\ Running /\ Carries
  BY DEF Owns, Owning, Running, Carries, CarriesOf
<1>3. Remembered
  BY DEF Remembered, EmptyEnv, SelectedIn
<1>4. Accounted /\ Kept
  BY DEF Accounted, Kept
<1>5. QED
  BY <1>1, <1>2, <1>3, <1>4 DEF IInv

\* A transaction id is handed out once, so no step makes two requests share one.
LEMMA OwnsStep ==
    TypeOK /\ Owns /\ [Next]_vars => Owns'
<1> SUFFICES ASSUME TypeOK, Owns, [Next]_vars
             PROVE  Owns'
  OBVIOUS
<1> USE InstallationAssumption
      DEF TypeOK, Owns, Owning, home, transactions, locals, limits
<1>1. ASSUME NEW p \in Callers, NEW t \in Txns, NEW components \in SUBSET Artifacts,
   BeginInstall(p, t, components)
      PROVE  Owns'
  BY <1>1 DEF BeginInstall, Begins, Goes
<1>2. ASSUME NEW p \in Callers, NEW t \in Txns, NEW components \in SUBSET Artifacts,
   InstalledAlready(p, t, components)
      PROVE  Owns'
  BY <1>2 DEF InstalledAlready
<1>3. ASSUME NEW p \in Callers, NEW a \in Artifacts, Stage(p, a)
      PROVE  Owns'
  BY <1>3 DEF Stage
<1>4. ASSUME NEW p \in Callers, StageFails(p)
      PROVE  Owns'
  BY <1>4 DEF StageFails, Goes
<1>5. ASSUME NEW p \in Callers, CommitReads(p)
      PROVE  Owns'
  BY <1>5 DEF CommitReads, Goes
<1>6. ASSUME NEW p \in Callers, CommitPlans(p)
      PROVE  Owns'
  BY <1>6 DEF CommitPlans, Goes
<1>7. ASSUME NEW p \in Callers, CommitRefused(p)
      PROVE  Owns'
  BY <1>7 DEF CommitRefused, Goes
<1>8. ASSUME NEW p \in Callers, CommitJournals(p)
      PROVE  Owns'
  BY <1>8 DEF CommitJournals, Goes, Journalled
<1>9. ASSUME NEW p \in Callers, NEW a \in Artifacts, CommitMoves(p, a)
      PROVE  Owns'
  BY <1>9 DEF CommitMoves
<1>10. ASSUME NEW p \in Callers, CommitBlocked(p)
      PROVE  Owns'
  BY <1>10 DEF CommitBlocked, Goes
<1>11. ASSUME NEW p \in Callers, CommitPublishes(p)
      PROVE  Owns'
  BY <1>11 DEF CommitPublishes, Goes, Publishes
<1>12. ASSUME NEW p \in Callers, CommitFails(p)
      PROVE  Owns'
  BY <1>12 DEF CommitFails, Goes, Fault
<1>13. ASSUME NEW p \in Callers, NEW a \in Artifacts, UndoMove(p, a)
      PROVE  Owns'
  BY <1>13 DEF UndoMove, MovesToUndo
<1>14. ASSUME NEW p \in Callers, NEW a \in Artifacts, UndoRefused(p, a)
      PROVE  Owns'
  BY <1>14 DEF UndoRefused, MovesToUndo
<1>15. ASSUME NEW p \in Callers, UndoEnds(p)
      PROVE  Owns'
  BY <1>15 DEF UndoEnds, Goes, MovesToUndo
<1>16. ASSUME NEW p \in Callers, CommitEnds(p)
      PROVE  Owns'
  BY <1>16 DEF CommitEnds, Goes, Ends, CloseTxn, CloseInMemory, Fault
<1>17. ASSUME NEW p \in Callers, Returns(p)
      PROVE  Owns'
  BY <1>17 DEF Returns, Goes
<1>18. ASSUME NEW p \in Callers, Rollback(p)
      PROVE  Owns'
  BY <1>18 DEF Rollback, Goes, Ends, CloseTxn, CloseInMemory, Fault
<1>19. ASSUME NEW p \in Callers, NEW a \in Artifacts, BeginRemove(p, a)
      PROVE  Owns'
  BY <1>19 DEF BeginRemove, Begins, Goes
<1>20. ASSUME NEW p \in Callers, NEW a \in Artifacts, RemoveReads(p, a)
      PROVE  Owns'
  BY <1>20 DEF RemoveReads, Goes
<1>21. ASSUME NEW p \in Callers, NEW a \in Artifacts, RemoveRefused(p, a)
      PROVE  Owns'
  BY <1>21 DEF RemoveRefused, Goes
<1>22. ASSUME NEW p \in Callers, RemoveHides(p)
      PROVE  Owns'
  BY <1>22 DEF RemoveHides, Goes
<1>23. ASSUME NEW p \in Callers, RemoveClears(p)
      PROVE  Owns'
  BY <1>23 DEF RemoveClears, Goes
<1>24. ASSUME NEW p \in Callers, RemoveWrites(p)
      PROVE  Owns'
  BY <1>24 DEF RemoveWrites, Goes
<1>25. ASSUME NEW p \in Callers, RemovePublishes(p)
      PROVE  Owns'
  BY <1>25 DEF RemovePublishes, Goes, Publishes
<1>26. ASSUME NEW p \in Callers, RemoveConflicts(p)
      PROVE  Owns'
  BY <1>26 DEF RemoveConflicts, Goes
<1>27. ASSUME NEW p \in Callers, RemoveFails(p)
      PROVE  Owns'
  BY <1>27 DEF RemoveFails, Goes, Fault
<1>28. ASSUME NEW p \in Callers, RemoveRestores(p)
      PROVE  Owns'
  BY <1>28 DEF RemoveRestores, Goes
<1>29. ASSUME NEW p \in Callers, RestoreRefused(p)
      PROVE  Owns'
  BY <1>29 DEF RestoreRefused, Goes, Fault
<1>30. ASSUME NEW p \in Callers, RemoveErases(p)
      PROVE  Owns'
  BY <1>30 DEF RemoveErases, Goes, Fault
<1>31. ASSUME Crash
      PROVE  Owns'
  BY <1>31 DEF Crash, Idle
<1>32. ASSUME NEW t \in Txns, NEW a \in Artifacts, RecoverUndoes(t, a)
      PROVE  Owns'
  BY <1>32 DEF RecoverUndoes, Recovering
<1>33. ASSUME NEW t \in Txns, RecoverRefuses(t)
      PROVE  Owns'
  BY <1>33 DEF RecoverRefuses, Recovering
<1>34. ASSUME NEW t \in Txns, RecoverForgets(t)
      PROVE  Owns'
  BY <1>34 DEF RecoverForgets, Recovering, CloseTxn
<1>35. ASSUME Serves
      PROVE  Owns'
  BY <1>35 DEF Serves
<1>36. CASE UNCHANGED vars
  BY <1>36 DEF vars, locals
<1>37. QED
  BY <1>1, <1>2, <1>3, <1>4, <1>5, <1>6, <1>7, <1>8, <1>9, <1>10, <1>11, <1>12, <1>13,
     <1>14, <1>15, <1>16, <1>17, <1>18, <1>19, <1>20, <1>21, <1>22, <1>23, <1>24,
     <1>25, <1>26, <1>27, <1>28, <1>29, <1>30, <1>31, <1>32, <1>33, <1>34, <1>35, <1>36
     DEF Next, InstallStep, RemoveStep, RecoverStep

\* A crash ends every request and only a recovery serves again.
LEMMA RunningStep ==
    TypeOK /\ Running /\ [Next]_vars => Running'
<1> SUFFICES ASSUME TypeOK, Running, [Next]_vars
             PROVE  Running'
  OBVIOUS
<1> USE InstallationAssumption
      DEF TypeOK, Running, home, transactions, locals, limits
<1>1. ASSUME NEW p \in Callers, NEW t \in Txns, NEW components \in SUBSET Artifacts,
   BeginInstall(p, t, components)
      PROVE  Running'
  BY <1>1 DEF BeginInstall, Begins, Goes
<1>2. ASSUME NEW p \in Callers, NEW t \in Txns, NEW components \in SUBSET Artifacts,
   InstalledAlready(p, t, components)
      PROVE  Running'
  BY <1>2 DEF InstalledAlready
<1>3. ASSUME NEW p \in Callers, NEW a \in Artifacts, Stage(p, a)
      PROVE  Running'
  BY <1>3 DEF Stage
<1>4. ASSUME NEW p \in Callers, StageFails(p)
      PROVE  Running'
  BY <1>4 DEF StageFails, Goes
<1>5. ASSUME NEW p \in Callers, CommitReads(p)
      PROVE  Running'
  BY <1>5 DEF CommitReads, Goes
<1>6. ASSUME NEW p \in Callers, CommitPlans(p)
      PROVE  Running'
  BY <1>6 DEF CommitPlans, Goes
<1>7. ASSUME NEW p \in Callers, CommitRefused(p)
      PROVE  Running'
  BY <1>7 DEF CommitRefused, Goes
<1>8. ASSUME NEW p \in Callers, CommitJournals(p)
      PROVE  Running'
  BY <1>8 DEF CommitJournals, Goes, Journalled
<1>9. ASSUME NEW p \in Callers, NEW a \in Artifacts, CommitMoves(p, a)
      PROVE  Running'
  BY <1>9 DEF CommitMoves
<1>10. ASSUME NEW p \in Callers, CommitBlocked(p)
      PROVE  Running'
  BY <1>10 DEF CommitBlocked, Goes
<1>11. ASSUME NEW p \in Callers, CommitPublishes(p)
      PROVE  Running'
  BY <1>11 DEF CommitPublishes, Goes, Publishes
<1>12. ASSUME NEW p \in Callers, CommitFails(p)
      PROVE  Running'
  BY <1>12 DEF CommitFails, Goes, Fault
<1>13. ASSUME NEW p \in Callers, NEW a \in Artifacts, UndoMove(p, a)
      PROVE  Running'
  BY <1>13 DEF UndoMove, MovesToUndo
<1>14. ASSUME NEW p \in Callers, NEW a \in Artifacts, UndoRefused(p, a)
      PROVE  Running'
  BY <1>14 DEF UndoRefused, MovesToUndo
<1>15. ASSUME NEW p \in Callers, UndoEnds(p)
      PROVE  Running'
  BY <1>15 DEF UndoEnds, Goes, MovesToUndo
<1>16. ASSUME NEW p \in Callers, CommitEnds(p)
      PROVE  Running'
  BY <1>16 DEF CommitEnds, Goes, Ends, CloseTxn, CloseInMemory, Fault
<1>17. ASSUME NEW p \in Callers, Returns(p)
      PROVE  Running'
  BY <1>17 DEF Returns, Goes
<1>18. ASSUME NEW p \in Callers, Rollback(p)
      PROVE  Running'
  BY <1>18 DEF Rollback, Goes, Ends, CloseTxn, CloseInMemory, Fault
<1>19. ASSUME NEW p \in Callers, NEW a \in Artifacts, BeginRemove(p, a)
      PROVE  Running'
  BY <1>19 DEF BeginRemove, Begins, Goes
<1>20. ASSUME NEW p \in Callers, NEW a \in Artifacts, RemoveReads(p, a)
      PROVE  Running'
  BY <1>20 DEF RemoveReads, Goes
<1>21. ASSUME NEW p \in Callers, NEW a \in Artifacts, RemoveRefused(p, a)
      PROVE  Running'
  BY <1>21 DEF RemoveRefused, Goes
<1>22. ASSUME NEW p \in Callers, RemoveHides(p)
      PROVE  Running'
  BY <1>22 DEF RemoveHides, Goes
<1>23. ASSUME NEW p \in Callers, RemoveClears(p)
      PROVE  Running'
  BY <1>23 DEF RemoveClears, Goes
<1>24. ASSUME NEW p \in Callers, RemoveWrites(p)
      PROVE  Running'
  BY <1>24 DEF RemoveWrites, Goes
<1>25. ASSUME NEW p \in Callers, RemovePublishes(p)
      PROVE  Running'
  BY <1>25 DEF RemovePublishes, Goes, Publishes
<1>26. ASSUME NEW p \in Callers, RemoveConflicts(p)
      PROVE  Running'
  BY <1>26 DEF RemoveConflicts, Goes
<1>27. ASSUME NEW p \in Callers, RemoveFails(p)
      PROVE  Running'
  BY <1>27 DEF RemoveFails, Goes, Fault
<1>28. ASSUME NEW p \in Callers, RemoveRestores(p)
      PROVE  Running'
  BY <1>28 DEF RemoveRestores, Goes
<1>29. ASSUME NEW p \in Callers, RestoreRefused(p)
      PROVE  Running'
  BY <1>29 DEF RestoreRefused, Goes, Fault
<1>30. ASSUME NEW p \in Callers, RemoveErases(p)
      PROVE  Running'
  BY <1>30 DEF RemoveErases, Goes, Fault
<1>31. ASSUME Crash
      PROVE  Running'
  BY <1>31 DEF Crash, Idle
<1>32. ASSUME NEW t \in Txns, NEW a \in Artifacts, RecoverUndoes(t, a)
      PROVE  Running'
  BY <1>32 DEF RecoverUndoes, Recovering
<1>33. ASSUME NEW t \in Txns, RecoverRefuses(t)
      PROVE  Running'
  BY <1>33 DEF RecoverRefuses, Recovering
<1>34. ASSUME NEW t \in Txns, RecoverForgets(t)
      PROVE  Running'
  BY <1>34 DEF RecoverForgets, Recovering, CloseTxn
<1>35. ASSUME Serves
      PROVE  Running'
  BY <1>35 DEF Serves
<1>36. CASE UNCHANGED vars
  BY <1>36 DEF vars, locals
<1>37. QED
  BY <1>1, <1>2, <1>3, <1>4, <1>5, <1>6, <1>7, <1>8, <1>9, <1>10, <1>11, <1>12, <1>13,
     <1>14, <1>15, <1>16, <1>17, <1>18, <1>19, <1>20, <1>21, <1>22, <1>23, <1>24,
     <1>25, <1>26, <1>27, <1>28, <1>29, <1>30, <1>31, <1>32, <1>33, <1>34, <1>35, <1>36
     DEF Next, InstallStep, RemoveStep, RecoverStep

\* What is published is remembered as selected.
LEMMA RememberedStep ==
    TypeOK /\ Remembered /\ [Next]_vars => Remembered'
<1> SUFFICES ASSUME TypeOK, Remembered, [Next]_vars
             PROVE  Remembered'
  OBVIOUS
<1> USE InstallationAssumption
      DEF Remembered, Publishes, home, transactions, locals, limits
<1>1. ASSUME NEW p \in Callers, NEW t \in Txns, NEW components \in SUBSET Artifacts,
   BeginInstall(p, t, components)
      PROVE  Remembered'
  BY <1>1 DEF BeginInstall, Begins, Goes
<1>2. ASSUME NEW p \in Callers, NEW t \in Txns, NEW components \in SUBSET Artifacts,
   InstalledAlready(p, t, components)
      PROVE  Remembered'
  BY <1>2 DEF InstalledAlready
<1>3. ASSUME NEW p \in Callers, NEW a \in Artifacts, Stage(p, a)
      PROVE  Remembered'
  BY <1>3 DEF Stage
<1>4. ASSUME NEW p \in Callers, StageFails(p)
      PROVE  Remembered'
  BY <1>4 DEF StageFails, Goes
<1>5. ASSUME NEW p \in Callers, CommitReads(p)
      PROVE  Remembered'
  BY <1>5 DEF CommitReads, Goes
<1>6. ASSUME NEW p \in Callers, CommitPlans(p)
      PROVE  Remembered'
  BY <1>6 DEF CommitPlans, Goes
<1>7. ASSUME NEW p \in Callers, CommitRefused(p)
      PROVE  Remembered'
  BY <1>7 DEF CommitRefused, Goes
<1>8. ASSUME NEW p \in Callers, CommitJournals(p)
      PROVE  Remembered'
  BY <1>8 DEF CommitJournals, Goes, Journalled
<1>9. ASSUME NEW p \in Callers, NEW a \in Artifacts, CommitMoves(p, a)
      PROVE  Remembered'
  BY <1>9 DEF CommitMoves
<1>10. ASSUME NEW p \in Callers, CommitBlocked(p)
      PROVE  Remembered'
  BY <1>10 DEF CommitBlocked, Goes
<1>11. ASSUME NEW p \in Callers, CommitPublishes(p)
      PROVE  Remembered'
  BY <1>11 DEF CommitPublishes, Goes, Publishes
<1>12. ASSUME NEW p \in Callers, CommitFails(p)
      PROVE  Remembered'
  BY <1>12 DEF CommitFails, Goes, Fault
<1>13. ASSUME NEW p \in Callers, NEW a \in Artifacts, UndoMove(p, a)
      PROVE  Remembered'
  BY <1>13 DEF UndoMove, MovesToUndo
<1>14. ASSUME NEW p \in Callers, NEW a \in Artifacts, UndoRefused(p, a)
      PROVE  Remembered'
  BY <1>14 DEF UndoRefused, MovesToUndo
<1>15. ASSUME NEW p \in Callers, UndoEnds(p)
      PROVE  Remembered'
  BY <1>15 DEF UndoEnds, Goes, MovesToUndo
<1>16. ASSUME NEW p \in Callers, CommitEnds(p)
      PROVE  Remembered'
  BY <1>16 DEF CommitEnds, Goes, Ends, CloseTxn, CloseInMemory, Fault
<1>17. ASSUME NEW p \in Callers, Returns(p)
      PROVE  Remembered'
  BY <1>17 DEF Returns, Goes
<1>18. ASSUME NEW p \in Callers, Rollback(p)
      PROVE  Remembered'
  BY <1>18 DEF Rollback, Goes, Ends, CloseTxn, CloseInMemory, Fault
<1>19. ASSUME NEW p \in Callers, NEW a \in Artifacts, BeginRemove(p, a)
      PROVE  Remembered'
  BY <1>19 DEF BeginRemove, Begins, Goes
<1>20. ASSUME NEW p \in Callers, NEW a \in Artifacts, RemoveReads(p, a)
      PROVE  Remembered'
  BY <1>20 DEF RemoveReads, Goes
<1>21. ASSUME NEW p \in Callers, NEW a \in Artifacts, RemoveRefused(p, a)
      PROVE  Remembered'
  BY <1>21 DEF RemoveRefused, Goes
<1>22. ASSUME NEW p \in Callers, RemoveHides(p)
      PROVE  Remembered'
  BY <1>22 DEF RemoveHides, Goes
<1>23. ASSUME NEW p \in Callers, RemoveClears(p)
      PROVE  Remembered'
  BY <1>23 DEF RemoveClears, Goes
<1>24. ASSUME NEW p \in Callers, RemoveWrites(p)
      PROVE  Remembered'
  BY <1>24 DEF RemoveWrites, Goes
<1>25. ASSUME NEW p \in Callers, RemovePublishes(p)
      PROVE  Remembered'
  BY <1>25 DEF RemovePublishes, Goes, Publishes
<1>26. ASSUME NEW p \in Callers, RemoveConflicts(p)
      PROVE  Remembered'
  BY <1>26 DEF RemoveConflicts, Goes
<1>27. ASSUME NEW p \in Callers, RemoveFails(p)
      PROVE  Remembered'
  BY <1>27 DEF RemoveFails, Goes, Fault
<1>28. ASSUME NEW p \in Callers, RemoveRestores(p)
      PROVE  Remembered'
  BY <1>28 DEF RemoveRestores, Goes
<1>29. ASSUME NEW p \in Callers, RestoreRefused(p)
      PROVE  Remembered'
  BY <1>29 DEF RestoreRefused, Goes, Fault
<1>30. ASSUME NEW p \in Callers, RemoveErases(p)
      PROVE  Remembered'
  BY <1>30 DEF RemoveErases, Goes, Fault
<1>31. ASSUME Crash
      PROVE  Remembered'
  BY <1>31 DEF Crash, Idle
<1>32. ASSUME NEW t \in Txns, NEW a \in Artifacts, RecoverUndoes(t, a)
      PROVE  Remembered'
  BY <1>32 DEF RecoverUndoes, Recovering
<1>33. ASSUME NEW t \in Txns, RecoverRefuses(t)
      PROVE  Remembered'
  BY <1>33 DEF RecoverRefuses, Recovering
<1>34. ASSUME NEW t \in Txns, RecoverForgets(t)
      PROVE  Remembered'
  BY <1>34 DEF RecoverForgets, Recovering, CloseTxn
<1>35. ASSUME Serves
      PROVE  Remembered'
  BY <1>35 DEF Serves
<1>36. CASE UNCHANGED vars
  BY <1>36 DEF vars, locals
<1>37. QED
  BY <1>1, <1>2, <1>3, <1>4, <1>5, <1>6, <1>7, <1>8, <1>9, <1>10, <1>11, <1>12, <1>13,
     <1>14, <1>15, <1>16, <1>17, <1>18, <1>19, <1>20, <1>21, <1>22, <1>23, <1>24,
     <1>25, <1>26, <1>27, <1>28, <1>29, <1>30, <1>31, <1>32, <1>33, <1>34, <1>35, <1>36
     DEF Next, InstallStep, RemoveStep, RecoverStep

\* A request carries what it learnt from one step to the next, and no other request
\* touches its transaction.
LEMMA CarriesStep ==
    TypeOK /\ Owns /\ Running /\ Carries /\ Remembered /\ [Next]_vars => Carries'
<1> SUFFICES ASSUME TypeOK, Owns, Running, Carries, Remembered, [Next]_vars, NEW q \in
   Callers
             PROVE  CarriesOf(q)'
  BY DEF Carries
<1> USE InstallationAssumption
      DEF TypeOK, CarriesOf, Owning, home, transactions, locals, limits
<1>0. CarriesOf(q)
  BY DEF Carries
<1>1. ASSUME NEW p \in Callers, NEW t \in Txns, NEW components \in SUBSET Artifacts,
   BeginInstall(p, t, components)
      PROVE  CarriesOf(q)'
  BY <1>0, <1>1 DEF BeginInstall, Begins, Goes, OfOneKind
<1>2. ASSUME NEW p \in Callers, NEW t \in Txns, NEW components \in SUBSET Artifacts,
   InstalledAlready(p, t, components)
      PROVE  CarriesOf(q)'
  BY <1>0, <1>2 DEF InstalledAlready
<1>3. ASSUME NEW p \in Callers, NEW a \in Artifacts, Stage(p, a)
      PROVE  CarriesOf(q)'
  BY <1>0, <1>3 DEF Stage
<1>4. ASSUME NEW p \in Callers, StageFails(p)
      PROVE  CarriesOf(q)'
  BY <1>0, <1>4 DEF StageFails, Goes
<1>5. ASSUME NEW p \in Callers, CommitReads(p)
      PROVE  CarriesOf(q)'
  BY <1>0, <1>5 DEF CommitReads, Goes
<1>6. ASSUME NEW p \in Callers, CommitPlans(p)
      PROVE  CarriesOf(q)'
  <2>1. CASE q # p
    BY <1>0, <1>6, <2>1 DEF CommitPlans, Goes
  <2>2. ASSUME q = p
        PROVE  Fresh(p) \subseteq SelectedIn(Planned(p))
    <3> SUFFICES ASSUME NEW a \in Fresh(p)
                 PROVE  a \in SelectedIn(Planned(p))
      OBVIOUS
    <3>1. a \in want[p] /\ a \in Artifacts /\ IdOf[a] \in Ids
      BY DEF Fresh
    <3>2. OfOneKind(want[p])
      BY <1>0, <2>2, <1>6 DEF CommitPlans
    <3>3. (CHOOSE b \in want[p] : IdOf[b] = IdOf[a]) = a
      BY <3>1, <3>2 DEF OfOneKind
    <3>4. Planned(p).sel[IdOf[a]] = a
      BY <3>1, <3>3 DEF Planned
    <3>5. QED
      BY <3>1, <3>4 DEF SelectedIn
  <2>3. CASE q = p
    <3>1. plan'[p] = Planned(p) /\ moves'[p] = Fresh(p) \ dirs /\ pc'[p] = "journal"
      BY <1>6 DEF CommitPlans, Goes
    <3>2. moved'[p] = {} /\ want' = want
      BY <1>0, <1>6, <2>3 DEF CommitPlans
    <3>3. OfOneKind(want[p])
      BY <1>0, <1>6, <2>3 DEF CommitPlans
    <3>4. moves'[p] \subseteq SelectedIn(plan'[p])
      BY <3>1, <2>2, <2>3
    <3>5. QED
      BY <2>3, <3>1, <3>2, <3>3, <3>4
  <2>4. QED
    BY <2>1, <2>3
<1>7. ASSUME NEW p \in Callers, CommitRefused(p)
      PROVE  CarriesOf(q)'
  BY <1>0, <1>7 DEF CommitRefused, Goes
<1>8. ASSUME NEW p \in Callers, CommitJournals(p)
      PROVE  CarriesOf(q)'
  <2>1. plan[p].revision \in Nat /\ moves[p] \subseteq Artifacts
    BY EnvironmentParts
  <2>2. journal'[tx[p]].moves = moves[p] /\ journal'[tx[p]] # NoJournal
    BY <1>8, <2>1, JournalType DEF CommitJournals, Journalled, Owns
  <2>3. CASE q = p
    BY <1>0, <1>8, <2>2, <2>3 DEF CommitJournals, Goes
  <2>4. CASE q # p
    BY <1>0, <1>8, <2>4 DEF CommitJournals, Goes, Owns
  <2>5. QED
    BY <2>3, <2>4
<1>9. ASSUME NEW p \in Callers, NEW a \in Artifacts, CommitMoves(p, a)
      PROVE  CarriesOf(q)'
  BY <1>0, <1>9 DEF CommitMoves
<1>10. ASSUME NEW p \in Callers, CommitBlocked(p)
      PROVE  CarriesOf(q)'
  BY <1>0, <1>10 DEF CommitBlocked, Goes
<1>11. ASSUME NEW p \in Callers, CommitPublishes(p)
      PROVE  CarriesOf(q)'
  BY <1>0, <1>11 DEF CommitPublishes, Goes, Publishes
<1>12. ASSUME NEW p \in Callers, CommitFails(p)
      PROVE  CarriesOf(q)'
  BY <1>0, <1>12 DEF CommitFails, Goes, Fault
<1>13. ASSUME NEW p \in Callers, NEW a \in Artifacts, UndoMove(p, a)
      PROVE  CarriesOf(q)'
  BY <1>0, <1>13 DEF UndoMove, MovesToUndo
<1>14. ASSUME NEW p \in Callers, NEW a \in Artifacts, UndoRefused(p, a)
      PROVE  CarriesOf(q)'
  BY <1>0, <1>14 DEF UndoRefused, MovesToUndo
<1>15. ASSUME NEW p \in Callers, UndoEnds(p)
      PROVE  CarriesOf(q)'
  BY <1>0, <1>15 DEF UndoEnds, Goes, MovesToUndo
<1>16. ASSUME NEW p \in Callers, CommitEnds(p)
      PROVE  CarriesOf(q)'
  BY <1>0, <1>16 DEF CommitEnds, Goes, Ends, CloseTxn, CloseInMemory, Fault, Owns
<1>17. ASSUME NEW p \in Callers, Returns(p)
      PROVE  CarriesOf(q)'
  BY <1>0, <1>17 DEF Returns, Goes
<1>18. ASSUME NEW p \in Callers, Rollback(p)
      PROVE  CarriesOf(q)'
  BY <1>0, <1>18 DEF Rollback, Goes, Ends, CloseTxn, CloseInMemory, Fault, Owns
<1>19. ASSUME NEW p \in Callers, NEW a \in Artifacts, BeginRemove(p, a)
      PROVE  CarriesOf(q)'
  BY <1>0, <1>19 DEF BeginRemove, Begins, Goes
<1>20. ASSUME NEW p \in Callers, NEW a \in Artifacts, RemoveReads(p, a)
      PROVE  CarriesOf(q)'
  BY <1>0, <1>20 DEF RemoveReads, Goes, Remembered, SelectedIn
<1>21. ASSUME NEW p \in Callers, NEW a \in Artifacts, RemoveRefused(p, a)
      PROVE  CarriesOf(q)'
  BY <1>0, <1>21 DEF RemoveRefused, Goes
<1>22. ASSUME NEW p \in Callers, RemoveHides(p)
      PROVE  CarriesOf(q)'
  BY <1>0, <1>22 DEF RemoveHides, Goes
<1>23. ASSUME NEW p \in Callers, RemoveClears(p)
      PROVE  CarriesOf(q)'
  BY <1>0, <1>23 DEF RemoveClears, Goes
<1>24. ASSUME NEW p \in Callers, RemoveWrites(p)
      PROVE  CarriesOf(q)'
  BY <1>0, <1>24 DEF RemoveWrites, Goes
<1>25. ASSUME NEW p \in Callers, RemovePublishes(p)
      PROVE  CarriesOf(q)'
  BY <1>0, <1>25 DEF RemovePublishes, Goes, Publishes
<1>26. ASSUME NEW p \in Callers, RemoveConflicts(p)
      PROVE  CarriesOf(q)'
  BY <1>0, <1>26 DEF RemoveConflicts, Goes
<1>27. ASSUME NEW p \in Callers, RemoveFails(p)
      PROVE  CarriesOf(q)'
  BY <1>0, <1>27 DEF RemoveFails, Goes, Fault
<1>28. ASSUME NEW p \in Callers, RemoveRestores(p)
      PROVE  CarriesOf(q)'
  BY <1>0, <1>28 DEF RemoveRestores, Goes
<1>29. ASSUME NEW p \in Callers, RestoreRefused(p)
      PROVE  CarriesOf(q)'
  BY <1>0, <1>29 DEF RestoreRefused, Goes, Fault
<1>30. ASSUME NEW p \in Callers, RemoveErases(p)
      PROVE  CarriesOf(q)'
  BY <1>0, <1>30 DEF RemoveErases, Goes, Fault
<1>31. ASSUME Crash
      PROVE  CarriesOf(q)'
  BY <1>0, <1>31 DEF Crash, Idle
<1>32. ASSUME NEW t \in Txns, NEW a \in Artifacts, RecoverUndoes(t, a)
      PROVE  CarriesOf(q)'
  BY <1>0, <1>32 DEF RecoverUndoes, Recovering
<1>33. ASSUME NEW t \in Txns, RecoverRefuses(t)
      PROVE  CarriesOf(q)'
  BY <1>0, <1>33 DEF RecoverRefuses, Recovering
<1>34. ASSUME NEW t \in Txns, RecoverForgets(t)
      PROVE  CarriesOf(q)'
  BY <1>0, <1>34 DEF RecoverForgets, Recovering, CloseTxn, Running
<1>35. ASSUME Serves
      PROVE  CarriesOf(q)'
  BY <1>0, <1>35 DEF Serves
<1>36. CASE UNCHANGED vars
  BY <1>0, <1>36 DEF vars, locals
<1>37. QED
  BY <1>1, <1>2, <1>3, <1>4, <1>5, <1>6, <1>7, <1>8, <1>9, <1>10, <1>11, <1>12, <1>13,
     <1>14, <1>15, <1>16, <1>17, <1>18, <1>19, <1>20, <1>21, <1>22, <1>23, <1>24,
     <1>25, <1>26, <1>27, <1>28, <1>29, <1>30, <1>31, <1>32, <1>33, <1>34, <1>35, <1>36
     DEF Next, InstallStep, RemoveStep, RecoverStep

\* Only a commit puts an unpublished directory in place, and only its undo or its
\* publication ends the account of it.
LEMMA AccountedStep ==
    TypeOK /\ Carries /\ Accounted /\ [Next]_vars => Accounted'
<1> SUFFICES ASSUME TypeOK, Carries, Accounted, [Next]_vars, crashes' = 0, NEW b \in dirs'
             PROVE  b \in (everSelected \cup stranded)' \/ MovedBy(b)'
  BY DEF Accounted
<1> USE InstallationAssumption
      DEF TypeOK, home, transactions, locals, limits
<1>1. ASSUME NEW p \in Callers, NEW t \in Txns, NEW components \in SUBSET Artifacts,
   BeginInstall(p, t, components)
      PROVE  b \in (everSelected \cup stranded)' \/ MovedBy(b)'
  BY <1>1 DEF Accounted, MovedBy, BeginInstall, Begins, Goes
<1>2. ASSUME NEW p \in Callers, NEW t \in Txns, NEW components \in SUBSET Artifacts,
   InstalledAlready(p, t, components)
      PROVE  b \in (everSelected \cup stranded)' \/ MovedBy(b)'
  BY <1>2 DEF Accounted, MovedBy, InstalledAlready
<1>3. ASSUME NEW p \in Callers, NEW a \in Artifacts, Stage(p, a)
      PROVE  b \in (everSelected \cup stranded)' \/ MovedBy(b)'
  BY <1>3 DEF Accounted, MovedBy, Stage
<1>4. ASSUME NEW p \in Callers, StageFails(p)
      PROVE  b \in (everSelected \cup stranded)' \/ MovedBy(b)'
  BY <1>4 DEF Accounted, MovedBy, StageFails, Goes
<1>5. ASSUME NEW p \in Callers, CommitReads(p)
      PROVE  b \in (everSelected \cup stranded)' \/ MovedBy(b)'
  BY <1>5 DEF Accounted, MovedBy, CommitReads, Goes
<1>6. ASSUME NEW p \in Callers, CommitPlans(p)
      PROVE  b \in (everSelected \cup stranded)' \/ MovedBy(b)'
  BY <1>6 DEF Accounted, MovedBy, CommitPlans, Goes
<1>7. ASSUME NEW p \in Callers, CommitRefused(p)
      PROVE  b \in (everSelected \cup stranded)' \/ MovedBy(b)'
  BY <1>7 DEF Accounted, MovedBy, CommitRefused, Goes
<1>8. ASSUME NEW p \in Callers, CommitJournals(p)
      PROVE  b \in (everSelected \cup stranded)' \/ MovedBy(b)'
  BY <1>8 DEF Accounted, MovedBy, CommitJournals, Goes, Journalled
<1>9. ASSUME NEW p \in Callers, NEW a \in Artifacts, CommitMoves(p, a)
      PROVE  b \in (everSelected \cup stranded)' \/ MovedBy(b)'
  BY <1>9 DEF Accounted, MovedBy, CommitMoves
<1>10. ASSUME NEW p \in Callers, CommitBlocked(p)
      PROVE  b \in (everSelected \cup stranded)' \/ MovedBy(b)'
  BY <1>10 DEF Accounted, MovedBy, CommitBlocked, Goes
<1>11. ASSUME NEW p \in Callers, CommitPublishes(p)
      PROVE  b \in (everSelected \cup stranded)' \/ MovedBy(b)'
  BY <1>11 DEF Accounted, MovedBy, CommitPublishes, Goes, Publishes, Carries, CarriesOf
<1>12. ASSUME NEW p \in Callers, CommitFails(p)
      PROVE  b \in (everSelected \cup stranded)' \/ MovedBy(b)'
  BY <1>12 DEF Accounted, MovedBy, CommitFails, Goes, Fault
<1>13. ASSUME NEW p \in Callers, NEW a \in Artifacts, UndoMove(p, a)
      PROVE  b \in (everSelected \cup stranded)' \/ MovedBy(b)'
  BY <1>13 DEF Accounted, MovedBy, UndoMove, MovesToUndo
<1>14. ASSUME NEW p \in Callers, NEW a \in Artifacts, UndoRefused(p, a)
      PROVE  b \in (everSelected \cup stranded)' \/ MovedBy(b)'
  BY <1>14 DEF Accounted, MovedBy, UndoRefused, MovesToUndo
<1>15. ASSUME NEW p \in Callers, UndoEnds(p)
      PROVE  b \in (everSelected \cup stranded)' \/ MovedBy(b)'
  BY <1>15 DEF Accounted, MovedBy, UndoEnds, Goes, MovesToUndo
<1>16. ASSUME NEW p \in Callers, CommitEnds(p)
      PROVE  b \in (everSelected \cup stranded)' \/ MovedBy(b)'
  BY <1>16 DEF Accounted, MovedBy, CommitEnds, Goes, Ends, CloseTxn, CloseInMemory, Fault
<1>17. ASSUME NEW p \in Callers, Returns(p)
      PROVE  b \in (everSelected \cup stranded)' \/ MovedBy(b)'
  BY <1>17 DEF Accounted, MovedBy, Returns, Goes
<1>18. ASSUME NEW p \in Callers, Rollback(p)
      PROVE  b \in (everSelected \cup stranded)' \/ MovedBy(b)'
  BY <1>18 DEF Accounted, MovedBy, Rollback, Goes, Ends, CloseTxn, CloseInMemory, Fault
<1>19. ASSUME NEW p \in Callers, NEW a \in Artifacts, BeginRemove(p, a)
      PROVE  b \in (everSelected \cup stranded)' \/ MovedBy(b)'
  BY <1>19 DEF Accounted, MovedBy, BeginRemove, Begins, Goes
<1>20. ASSUME NEW p \in Callers, NEW a \in Artifacts, RemoveReads(p, a)
      PROVE  b \in (everSelected \cup stranded)' \/ MovedBy(b)'
  BY <1>20 DEF Accounted, MovedBy, RemoveReads, Goes
<1>21. ASSUME NEW p \in Callers, NEW a \in Artifacts, RemoveRefused(p, a)
      PROVE  b \in (everSelected \cup stranded)' \/ MovedBy(b)'
  BY <1>21 DEF Accounted, MovedBy, RemoveRefused, Goes
<1>22. ASSUME NEW p \in Callers, RemoveHides(p)
      PROVE  b \in (everSelected \cup stranded)' \/ MovedBy(b)'
  BY <1>22 DEF Accounted, MovedBy, RemoveHides, Goes
<1>23. ASSUME NEW p \in Callers, RemoveClears(p)
      PROVE  b \in (everSelected \cup stranded)' \/ MovedBy(b)'
  BY <1>23 DEF Accounted, MovedBy, RemoveClears, Goes
<1>24. ASSUME NEW p \in Callers, RemoveWrites(p)
      PROVE  b \in (everSelected \cup stranded)' \/ MovedBy(b)'
  BY <1>24 DEF Accounted, MovedBy, RemoveWrites, Goes
<1>25. ASSUME NEW p \in Callers, RemovePublishes(p)
      PROVE  b \in (everSelected \cup stranded)' \/ MovedBy(b)'
  BY <1>25 DEF Accounted, MovedBy, RemovePublishes, Goes, Publishes
<1>26. ASSUME NEW p \in Callers, RemoveConflicts(p)
      PROVE  b \in (everSelected \cup stranded)' \/ MovedBy(b)'
  BY <1>26 DEF Accounted, MovedBy, RemoveConflicts, Goes
<1>27. ASSUME NEW p \in Callers, RemoveFails(p)
      PROVE  b \in (everSelected \cup stranded)' \/ MovedBy(b)'
  BY <1>27 DEF Accounted, MovedBy, RemoveFails, Goes, Fault
<1>28. ASSUME NEW p \in Callers, RemoveRestores(p)
      PROVE  b \in (everSelected \cup stranded)' \/ MovedBy(b)'
  BY <1>28 DEF Accounted, MovedBy, RemoveRestores, Goes, Carries, CarriesOf
<1>29. ASSUME NEW p \in Callers, RestoreRefused(p)
      PROVE  b \in (everSelected \cup stranded)' \/ MovedBy(b)'
  BY <1>29 DEF Accounted, MovedBy, RestoreRefused, Goes, Carries, CarriesOf, Fault
<1>30. ASSUME NEW p \in Callers, RemoveErases(p)
      PROVE  b \in (everSelected \cup stranded)' \/ MovedBy(b)'
  BY <1>30 DEF Accounted, MovedBy, RemoveErases, Goes, Fault
<1>31. ASSUME Crash
      PROVE  b \in (everSelected \cup stranded)' \/ MovedBy(b)'
  BY <1>31 DEF Accounted, MovedBy, Crash, Idle
<1>32. ASSUME NEW t \in Txns, NEW a \in Artifacts, RecoverUndoes(t, a)
      PROVE  b \in (everSelected \cup stranded)' \/ MovedBy(b)'
  BY <1>32 DEF Accounted, MovedBy, RecoverUndoes, Recovering
<1>33. ASSUME NEW t \in Txns, RecoverRefuses(t)
      PROVE  b \in (everSelected \cup stranded)' \/ MovedBy(b)'
  BY <1>33 DEF Accounted, MovedBy, RecoverRefuses, Recovering
<1>34. ASSUME NEW t \in Txns, RecoverForgets(t)
      PROVE  b \in (everSelected \cup stranded)' \/ MovedBy(b)'
  BY <1>34 DEF Accounted, MovedBy, RecoverForgets, Recovering, CloseTxn
<1>35. ASSUME Serves
      PROVE  b \in (everSelected \cup stranded)' \/ MovedBy(b)'
  BY <1>35 DEF Accounted, MovedBy, Serves
<1>36. CASE UNCHANGED vars
  BY <1>36 DEF Accounted, MovedBy, vars, locals
<1>37. QED
  BY <1>1, <1>2, <1>3, <1>4, <1>5, <1>6, <1>7, <1>8, <1>9, <1>10, <1>11, <1>12, <1>13,
     <1>14, <1>15, <1>16, <1>17, <1>18, <1>19, <1>20, <1>21, <1>22, <1>23, <1>24,
     <1>25, <1>26, <1>27, <1>28, <1>29, <1>30, <1>31, <1>32, <1>33, <1>34, <1>35, <1>36
     DEF Next, InstallStep, RemoveStep, RecoverStep

\* A request that ends closes its transaction, unless the disk refuses.
LEMMA KeptStep ==
    TypeOK /\ Owns /\ Running /\ Kept /\ [Next]_vars => Kept'
<1> SUFFICES ASSUME TypeOK, Owns, Running, Kept, [Next]_vars
             PROVE  Kept'
  OBVIOUS
<1> USE InstallationAssumption
      DEF TypeOK, Owning, OwnedBy, home, transactions, locals, limits
<1>1. ASSUME NEW p \in Callers, NEW t \in Txns, NEW components \in SUBSET Artifacts,
   BeginInstall(p, t, components)
      PROVE  Kept'
  BY <1>1 DEF Kept, BeginInstall, Begins, Goes
<1>2. ASSUME NEW p \in Callers, NEW t \in Txns, NEW components \in SUBSET Artifacts,
   InstalledAlready(p, t, components)
      PROVE  Kept'
  BY <1>2 DEF Kept, InstalledAlready
<1>3. ASSUME NEW p \in Callers, NEW a \in Artifacts, Stage(p, a)
      PROVE  Kept'
  BY <1>3 DEF Kept, Stage
<1>4. ASSUME NEW p \in Callers, StageFails(p)
      PROVE  Kept'
  BY <1>4 DEF Kept, StageFails, Goes
<1>5. ASSUME NEW p \in Callers, CommitReads(p)
      PROVE  Kept'
  BY <1>5 DEF Kept, CommitReads, Goes
<1>6. ASSUME NEW p \in Callers, CommitPlans(p)
      PROVE  Kept'
  BY <1>6 DEF Kept, CommitPlans, Goes
<1>7. ASSUME NEW p \in Callers, CommitRefused(p)
      PROVE  Kept'
  BY <1>7 DEF Kept, CommitRefused, Goes
<1>8. ASSUME NEW p \in Callers, CommitJournals(p)
      PROVE  Kept'
  BY <1>8 DEF Kept, CommitJournals, Goes, Journalled
<1>9. ASSUME NEW p \in Callers, NEW a \in Artifacts, CommitMoves(p, a)
      PROVE  Kept'
  BY <1>9 DEF Kept, CommitMoves
<1>10. ASSUME NEW p \in Callers, CommitBlocked(p)
      PROVE  Kept'
  BY <1>10 DEF Kept, CommitBlocked, Goes
<1>11. ASSUME NEW p \in Callers, CommitPublishes(p)
      PROVE  Kept'
  BY <1>11 DEF Kept, CommitPublishes, Goes, Publishes
<1>12. ASSUME NEW p \in Callers, CommitFails(p)
      PROVE  Kept'
  BY <1>12 DEF Kept, CommitFails, Goes, Fault
<1>13. ASSUME NEW p \in Callers, NEW a \in Artifacts, UndoMove(p, a)
      PROVE  Kept'
  BY <1>13 DEF Kept, UndoMove, MovesToUndo
<1>14. ASSUME NEW p \in Callers, NEW a \in Artifacts, UndoRefused(p, a)
      PROVE  Kept'
  BY <1>14 DEF Kept, UndoRefused, MovesToUndo
<1>15. ASSUME NEW p \in Callers, UndoEnds(p)
      PROVE  Kept'
  BY <1>15 DEF Kept, UndoEnds, Goes, MovesToUndo
<1>16. ASSUME NEW p \in Callers, CommitEnds(p)
      PROVE  Kept'
  BY <1>16 DEF Kept, CommitEnds, Goes, Ends, CloseTxn, CloseInMemory, Fault
<1>17. ASSUME NEW p \in Callers, Returns(p)
      PROVE  Kept'
  BY <1>17 DEF Kept, Returns, Goes
<1>18. ASSUME NEW p \in Callers, Rollback(p)
      PROVE  Kept'
  BY <1>18 DEF Kept, Rollback, Goes, Ends, CloseTxn, CloseInMemory, Fault
<1>19. ASSUME NEW p \in Callers, NEW a \in Artifacts, BeginRemove(p, a)
      PROVE  Kept'
  BY <1>19 DEF Kept, BeginRemove, Begins, Goes
<1>20. ASSUME NEW p \in Callers, NEW a \in Artifacts, RemoveReads(p, a)
      PROVE  Kept'
  BY <1>20 DEF Kept, RemoveReads, Goes
<1>21. ASSUME NEW p \in Callers, NEW a \in Artifacts, RemoveRefused(p, a)
      PROVE  Kept'
  BY <1>21 DEF Kept, RemoveRefused, Goes
<1>22. ASSUME NEW p \in Callers, RemoveHides(p)
      PROVE  Kept'
  BY <1>22 DEF Kept, RemoveHides, Goes
<1>23. ASSUME NEW p \in Callers, RemoveClears(p)
      PROVE  Kept'
  BY <1>23 DEF Kept, RemoveClears, Goes
<1>24. ASSUME NEW p \in Callers, RemoveWrites(p)
      PROVE  Kept'
  BY <1>24 DEF Kept, RemoveWrites, Goes
<1>25. ASSUME NEW p \in Callers, RemovePublishes(p)
      PROVE  Kept'
  BY <1>25 DEF Kept, RemovePublishes, Goes, Publishes
<1>26. ASSUME NEW p \in Callers, RemoveConflicts(p)
      PROVE  Kept'
  BY <1>26 DEF Kept, RemoveConflicts, Goes
<1>27. ASSUME NEW p \in Callers, RemoveFails(p)
      PROVE  Kept'
  BY <1>27 DEF Kept, RemoveFails, Goes, Fault
<1>28. ASSUME NEW p \in Callers, RemoveRestores(p)
      PROVE  Kept'
  BY <1>28 DEF Kept, RemoveRestores, Goes
<1>29. ASSUME NEW p \in Callers, RestoreRefused(p)
      PROVE  Kept'
  BY <1>29 DEF Kept, RestoreRefused, Goes, Fault
<1>30. ASSUME NEW p \in Callers, RemoveErases(p)
      PROVE  Kept'
  BY <1>30 DEF Kept, RemoveErases, Goes, Fault
<1>31. ASSUME Crash
      PROVE  Kept'
  BY <1>31 DEF Kept, Crash, Idle
<1>32. ASSUME NEW t \in Txns, NEW a \in Artifacts, RecoverUndoes(t, a)
      PROVE  Kept'
  BY <1>32 DEF Kept, RecoverUndoes, Recovering
<1>33. ASSUME NEW t \in Txns, RecoverRefuses(t)
      PROVE  Kept'
  BY <1>33 DEF Kept, RecoverRefuses, Recovering
<1>34. ASSUME NEW t \in Txns, RecoverForgets(t)
      PROVE  Kept'
  BY <1>34 DEF Kept, RecoverForgets, Recovering, CloseTxn
<1>35. ASSUME Serves
      PROVE  Kept'
  BY <1>35 DEF Kept, Serves
<1>36. CASE UNCHANGED vars
  BY <1>36 DEF Kept, vars, locals
<1>37. QED
  BY <1>1, <1>2, <1>3, <1>4, <1>5, <1>6, <1>7, <1>8, <1>9, <1>10, <1>11, <1>12, <1>13,
     <1>14, <1>15, <1>16, <1>17, <1>18, <1>19, <1>20, <1>21, <1>22, <1>23, <1>24,
     <1>25, <1>26, <1>27, <1>28, <1>29, <1>30, <1>31, <1>32, <1>33, <1>34, <1>35, <1>36
     DEF Next, InstallStep, RemoveStep, RecoverStep

\* Every step of a request, the crash and the recovery keeps the invariant.
LEMMA InvStep == IInv /\ [Next]_vars => IInv'
<1> SUFFICES ASSUME IInv, [Next]_vars
             PROVE  IInv'
  OBVIOUS
<1> USE DEF IInv
<1>1. TypeOK'
  BY TypeStep
<1>2. Owns'
  BY OwnsStep
<1>3. Running'
  BY RunningStep
<1>4. Carries'
  BY CarriesStep
<1>5. Remembered'
  BY RememberedStep
<1>6. Accounted'
  BY AccountedStep
<1>7. Kept'
  BY KeptStep
<1>8. QED
  BY <1>1, <1>2, <1>3, <1>4, <1>5, <1>6, <1>7

\* In every state: types, a transaction per request, what each request knows, the
\* account of unpublished directories and the owner of every transaction on disk.
THEOREM Invariance == Spec => []IInv
  BY InitInv, InvStep, PTL DEF Spec

\* The environment, the directories, the journals and every request's variables
\* stay of their types, whatever crashes and whatever the disk refuses.
THEOREM TypeCorrect == Spec => []TypeOK
<1>1. IInv => TypeOK
  BY DEF IInv
<1>2. QED
  BY Invariance, <1>1, PTL

\* A directory reaches its place only once a journal names it, and leaves the
\* journals only once it was published or is back, or when the disk refused to move
\* it back and nobody looked (191): the first crash finds nothing else that it could
\* not take back (environment_commit.go:180-205).
THEOREM UnpublishedIsJournalled == Spec => []MovesJournalled
<1>1. ASSUME IInv
      PROVE  MovesJournalled
  <2> SUFFICES ASSUME crashes = 0, NEW a \in dirs, a \notin everSelected,
                      a \notin stranded
               PROVE  \E t \in Txns : journal[t] # NoJournal /\ a \in journal[t].moves
    BY DEF MovesJournalled
  <2>1. PICK p \in Callers : pc[p] \in {"move", "undo"} /\ a \in moved[p]
    BY <1>1 DEF IInv, Accounted, MovedBy
  <2>2. journal[tx[p]] # NoJournal /\ a \in journal[tx[p]].moves
    BY <1>1, <2>1 DEF IInv, Carries, CarriesOf
  <2>3. tx[p] \in Txns
    BY <1>1, <2>1 DEF IInv, TypeOK, Owns, Owning
  <2>4. QED
    BY <2>2, <2>3
<1>2. QED
  BY Invariance, <1>1, PTL

\* Until a crash, or a transaction directory the disk keeps, no request leaves a
\* journal or a staged copy behind: what is left of a transaction belongs to a
\* request still under way (environment_commit.go:210-213, transaction.go:293-302).
THEOREM TransactionsAreEnded == Spec => []TransactionsEnd
<1>1. IInv => TransactionsEnd
  BY DEF IInv, Kept, OwnedBy, Owning, TransactionsEnd
<1>2. QED
  BY Invariance, <1>1, PTL
-----------------------------------------------------------------------------
\* One request at a time, over any number of crashes and faults.

OneByOne == \A p, q \in Callers : p = q

\* A component's record names a release of that component.
Owned(e) == \A i \in Ids : e.sel[i] # NoArtifact => IdOf[e.sel[i]] = i

\* What a request has read and planned is still what the environment says.
CurrentOf(p) ==
    /\ pc[p] \in {"stage", "plan", "journal", "move", "undo", "failed"} =>
           expected[p] = env.revision
    /\ pc[p] = "plan" => read[p] = env
    /\ pc[p] \in {"journal", "move", "clear", "hide", "write", "swap"} =>
           plan[p].revision = env.revision + 1 /\ Owned(plan[p])
    /\ pc[p] = "swap" => next = plan[p]

Current == Owned(env) /\ \A p \in Callers : CurrentOf(p)

\* Of the directories a commit means to move, none is selected and those in place
\* are the ones it has moved; the journal is for the next revision.
ApartOf(p) ==
    /\ pc[p] \in {"stage", "plan"} => moves[p] = {}
    /\ pc[p] \in {"journal", "move", "undo"} =>
           /\ moves[p] \cap SelectedIn(env) = {}
           /\ moved[p] \subseteq moves[p]
    /\ pc[p] \in {"journal", "move"} => moves[p] \cap dirs \subseteq moved[p]
    /\ pc[p] = "undo" => moves[p] \cap dirs \subseteq moved[p] \cup stranded
    /\ pc[p] = "failed" => moves[p] \cap dirs \subseteq stranded
    /\ pc[p] = "move" \/ (pc[p] = "undo" /\ moved[p] # {}) =>
           journal[tx[p]].generation = env.revision + 1

Apart == \A p \in Callers : ApartOf(p)

\* A journal is for the next revision at most, and while it is, nothing it moves
\* is selected.
PlacedAt(t) ==
    journal[t] # NoJournal =>
        /\ journal[t].generation <= env.revision + 1
        /\ Uncommitted(journal[t]) => journal[t].moves \cap SelectedIn(env) = {}

Placed == \A t \in Txns : PlacedAt(t)

\* The account of unpublished directories, over crashes: a commit under way has
\* moved them or, while the application is down, the recovery takes them back.
Redeemable(a) ==
    \E t \in Txns : journal[t] # NoJournal /\ Uncommitted(journal[t]) /\ a \in journal[t].moves

RecoverableOf(a) ==
    a \in dirs \ (everSelected \cup stranded) =>
        /\ boot = "up" => MovedBy(a)
        /\ boot = "down" => Redeemable(a)

Recoverable == \A a \in Artifacts : RecoverableOf(a)

\* A refusal begins every undo, and a second one strands what it should move.
Costly ==
    /\ \A p \in Callers : pc[p] = "undo" => faults > 0
    /\ stranded # {} => faults > 1

Alone == Current /\ Apart /\ Placed /\ Recoverable /\ Costly

\* What a commit plans is of the revision after the one it read, and keeps every
\* record with its component.
LEMMA PlannedOwned ==
    ASSUME TypeOK, NEW p \in Callers, Owned(read[p])
    PROVE  Planned(p).revision = read[p].revision + 1 /\ Owned(Planned(p))
<1> SUFFICES ASSUME NEW i \in Ids, Planned(p).sel[i] # NoArtifact
             PROVE  IdOf[Planned(p).sel[i]] = i
  BY DEF Planned, Owned
<1>1. CASE \E a \in want[p] : IdOf[a] = i
  BY <1>1 DEF Planned
<1>2. CASE ~ \E a \in want[p] : IdOf[a] = i
  BY <1>2 DEF Planned, Owned
<1>3. QED
  BY <1>1, <1>2

\* So does what a removal leaves.
LEMMA WithoutOwned ==
    ASSUME TypeOK, NEW i \in Ids, Owned(env)
    PROVE  Without(i).revision = env.revision + 1 /\ Owned(Without(i))
  BY DEF Without, Owned, TypeOK, Environments, Selections

\* Nothing that a commit has to put in place is selected in what it read.
LEMMA FreshUnselected ==
    ASSUME NEW p \in Callers, Owned(read[p])
    PROVE  Fresh(p) \cap SelectedIn(read[p]) = {}
  BY DEF Fresh, SelectedIn, Owned

\* Before the first request.
LEMMA InitAlone == Init => Alone
<1> SUFFICES ASSUME Init PROVE Alone
  OBVIOUS
<1> USE InstallationAssumption DEF Init
<1>1. Current
  BY DEF Current, CurrentOf, Owned, EmptyEnv
<1>2. Apart /\ Placed /\ Recoverable /\ Costly
  BY DEF Apart, ApartOf, Placed, PlacedAt, Recoverable, RecoverableOf, Costly
<1>3. QED
  BY <1>1, <1>2 DEF Alone

\* Nobody else publishes while a request holds what it read.
LEMMA CurrentStep ==
    OneByOne /\ TypeOK /\ Current /\ [Next]_vars => Current'
<1> SUFFICES ASSUME OneByOne, TypeOK, Current, [Next]_vars
             PROVE  Current'
  OBVIOUS
<1> USE InstallationAssumption DEF OneByOne, TypeOK, home, transactions, locals, limits
<1>1. ASSUME NEW p \in Callers, NEW t \in Txns, NEW components \in SUBSET Artifacts,
   BeginInstall(p, t, components)
      PROVE  Current'
  BY <1>1 DEF Current, CurrentOf, BeginInstall, Begins, Goes
<1>2. ASSUME NEW p \in Callers, NEW t \in Txns, NEW components \in SUBSET Artifacts,
   InstalledAlready(p, t, components)
      PROVE  Current'
  BY <1>2 DEF Current, CurrentOf, InstalledAlready
<1>3. ASSUME NEW p \in Callers, NEW a \in Artifacts, Stage(p, a)
      PROVE  Current'
  BY <1>3 DEF Current, CurrentOf, Stage
<1>4. ASSUME NEW p \in Callers, StageFails(p)
      PROVE  Current'
  BY <1>4 DEF Current, CurrentOf, StageFails, Goes
<1>5. ASSUME NEW p \in Callers, CommitReads(p)
      PROVE  Current'
  BY <1>5 DEF Current, CurrentOf, CommitReads, Goes
<1>6. ASSUME NEW p \in Callers, CommitPlans(p)
      PROVE  Current'
  BY <1>6, PlannedOwned, EnvironmentParts DEF Current, CurrentOf, CommitPlans, Goes, MayCommit
<1>7. ASSUME NEW p \in Callers, CommitRefused(p)
      PROVE  Current'
  BY <1>7 DEF Current, CurrentOf, CommitRefused, Goes
<1>8. ASSUME NEW p \in Callers, CommitJournals(p)
      PROVE  Current'
  BY <1>8 DEF Current, CurrentOf, CommitJournals, Goes, Journalled
<1>9. ASSUME NEW p \in Callers, NEW a \in Artifacts, CommitMoves(p, a)
      PROVE  Current'
  BY <1>9 DEF Current, CurrentOf, CommitMoves
<1>10. ASSUME NEW p \in Callers, CommitBlocked(p)
      PROVE  Current'
  BY <1>10 DEF Current, CurrentOf, CommitBlocked, Goes
<1>11. ASSUME NEW p \in Callers, CommitPublishes(p)
      PROVE  Current'
  BY <1>11 DEF Current, CurrentOf, CommitPublishes, Goes, Publishes
<1>12. ASSUME NEW p \in Callers, CommitFails(p)
      PROVE  Current'
  BY <1>12 DEF Current, CurrentOf, CommitFails, Goes, Fault
<1>13. ASSUME NEW p \in Callers, NEW a \in Artifacts, UndoMove(p, a)
      PROVE  Current'
  BY <1>13 DEF Current, CurrentOf, UndoMove, MovesToUndo
<1>14. ASSUME NEW p \in Callers, NEW a \in Artifacts, UndoRefused(p, a)
      PROVE  Current'
  BY <1>14 DEF Current, CurrentOf, UndoRefused, MovesToUndo
<1>15. ASSUME NEW p \in Callers, UndoEnds(p)
      PROVE  Current'
  BY <1>15 DEF Current, CurrentOf, UndoEnds, Goes, MovesToUndo
<1>16. ASSUME NEW p \in Callers, CommitEnds(p)
      PROVE  Current'
  BY <1>16 DEF Current, CurrentOf, CommitEnds, Goes, Ends, CloseTxn, CloseInMemory, Fault
<1>17. ASSUME NEW p \in Callers, Returns(p)
      PROVE  Current'
  BY <1>17 DEF Current, CurrentOf, Returns, Goes
<1>18. ASSUME NEW p \in Callers, Rollback(p)
      PROVE  Current'
  BY <1>18 DEF Current, CurrentOf, Rollback, Goes, Ends, CloseTxn, CloseInMemory, Fault
<1>19. ASSUME NEW p \in Callers, NEW a \in Artifacts, BeginRemove(p, a)
      PROVE  Current'
  BY <1>19 DEF Current, CurrentOf, BeginRemove, Begins, Goes
<1>20. ASSUME NEW p \in Callers, NEW a \in Artifacts, RemoveReads(p, a)
      PROVE  Current'
  BY <1>20, WithoutOwned, EnvironmentParts DEF Current, CurrentOf, RemoveReads, Goes
<1>21. ASSUME NEW p \in Callers, NEW a \in Artifacts, RemoveRefused(p, a)
      PROVE  Current'
  BY <1>21 DEF Current, CurrentOf, RemoveRefused, Goes
<1>22. ASSUME NEW p \in Callers, RemoveHides(p)
      PROVE  Current'
  BY <1>22 DEF Current, CurrentOf, RemoveHides, Goes
<1>23. ASSUME NEW p \in Callers, RemoveClears(p)
      PROVE  Current'
  BY <1>23 DEF Current, CurrentOf, RemoveClears, Goes
<1>24. ASSUME NEW p \in Callers, RemoveWrites(p)
      PROVE  Current'
  BY <1>24 DEF Current, CurrentOf, RemoveWrites, Goes
<1>25. ASSUME NEW p \in Callers, RemovePublishes(p)
      PROVE  Current'
  BY <1>25 DEF Current, CurrentOf, RemovePublishes, Goes, Publishes
<1>26. ASSUME NEW p \in Callers, RemoveConflicts(p)
      PROVE  Current'
  BY <1>26 DEF Current, CurrentOf, RemoveConflicts, Goes
<1>27. ASSUME NEW p \in Callers, RemoveFails(p)
      PROVE  Current'
  BY <1>27 DEF Current, CurrentOf, RemoveFails, Goes, Fault
<1>28. ASSUME NEW p \in Callers, RemoveRestores(p)
      PROVE  Current'
  BY <1>28 DEF Current, CurrentOf, RemoveRestores, Goes
<1>29. ASSUME NEW p \in Callers, RestoreRefused(p)
      PROVE  Current'
  BY <1>29 DEF Current, CurrentOf, RestoreRefused, Goes, Fault
<1>30. ASSUME NEW p \in Callers, RemoveErases(p)
      PROVE  Current'
  BY <1>30 DEF Current, CurrentOf, RemoveErases, Goes, Fault
<1>31. ASSUME Crash
      PROVE  Current'
  BY <1>31 DEF Current, CurrentOf, Crash, Idle
<1>32. ASSUME NEW t \in Txns, NEW a \in Artifacts, RecoverUndoes(t, a)
      PROVE  Current'
  BY <1>32 DEF Current, CurrentOf, RecoverUndoes, Recovering
<1>33. ASSUME NEW t \in Txns, RecoverRefuses(t)
      PROVE  Current'
  BY <1>33 DEF Current, CurrentOf, RecoverRefuses, Recovering
<1>34. ASSUME NEW t \in Txns, RecoverForgets(t)
      PROVE  Current'
  BY <1>34 DEF Current, CurrentOf, RecoverForgets, Recovering, CloseTxn
<1>35. ASSUME Serves
      PROVE  Current'
  BY <1>35 DEF Current, CurrentOf, Serves
<1>36. CASE UNCHANGED vars
  BY <1>36 DEF Current, CurrentOf, vars, locals
<1>37. QED
  BY <1>1, <1>2, <1>3, <1>4, <1>5, <1>6, <1>7, <1>8, <1>9, <1>10, <1>11, <1>12, <1>13,
     <1>14, <1>15, <1>16, <1>17, <1>18, <1>19, <1>20, <1>21, <1>22, <1>23, <1>24,
     <1>25, <1>26, <1>27, <1>28, <1>29, <1>30, <1>31, <1>32, <1>33, <1>34, <1>35, <1>36
     DEF Next, InstallStep, RemoveStep, RecoverStep

\* Only the commit itself moves what it planned.
LEMMA ApartStep ==
    OneByOne /\ TypeOK /\ Owns /\ Running /\ Carries /\ Current /\ Apart /\ [Next]_vars => Apart'
<1> SUFFICES ASSUME OneByOne, TypeOK, Owns, Running, Carries, Current, Apart, [Next]_vars
             PROVE  Apart'
  OBVIOUS
<1> USE InstallationAssumption DEF OneByOne, TypeOK, home, transactions, locals, limits
<1>1. ASSUME NEW p \in Callers, NEW t \in Txns, NEW components \in SUBSET Artifacts,
   BeginInstall(p, t, components)
      PROVE  Apart'
  BY <1>1 DEF Apart, ApartOf, BeginInstall, Begins, Goes
<1>2. ASSUME NEW p \in Callers, NEW t \in Txns, NEW components \in SUBSET Artifacts,
   InstalledAlready(p, t, components)
      PROVE  Apart'
  BY <1>2 DEF Apart, ApartOf, InstalledAlready
<1>3. ASSUME NEW p \in Callers, NEW a \in Artifacts, Stage(p, a)
      PROVE  Apart'
  BY <1>3 DEF Apart, ApartOf, Stage
<1>4. ASSUME NEW p \in Callers, StageFails(p)
      PROVE  Apart'
  BY <1>4 DEF Apart, ApartOf, StageFails, Goes
<1>5. ASSUME NEW p \in Callers, CommitReads(p)
      PROVE  Apart'
  BY <1>5 DEF Apart, ApartOf, CommitReads, Goes
<1>6. ASSUME NEW p \in Callers, CommitPlans(p)
      PROVE  Apart'
  BY <1>6, FreshUnselected DEF Apart, ApartOf, CommitPlans, Goes, Current, CurrentOf, Carries,
     CarriesOf
<1>7. ASSUME NEW p \in Callers, CommitRefused(p)
      PROVE  Apart'
  BY <1>7 DEF Apart, ApartOf, CommitRefused, Goes
<1>8. ASSUME NEW p \in Callers, CommitJournals(p)
      PROVE  Apart'
  <2>1. /\ plan[p].revision \in Nat /\ plan[p].revision = env.revision + 1
        /\ moves[p] \in SUBSET Artifacts
    BY <1>8, EnvironmentParts DEF CommitJournals, Current, CurrentOf
  <2>2. journal'[tx[p]].generation = env.revision + 1
    BY <1>8, <2>1 DEF CommitJournals, Journalled, Owns, Owning
  <2>3. moved[p] = {} /\ moves[p] \cap dirs = {} /\ moves[p] \cap SelectedIn(env) = {}
    BY <1>8 DEF CommitJournals, Apart, ApartOf, Carries, CarriesOf
  <2>4. SelectedIn(env)' = SelectedIn(env)
    BY <1>8 DEF CommitJournals, SelectedIn
  <2>5. QED
    BY <1>8, <2>2, <2>3, <2>4 DEF Apart, ApartOf, CommitJournals, Goes
<1>9. ASSUME NEW p \in Callers, NEW a \in Artifacts, CommitMoves(p, a)
      PROVE  Apart'
  BY <1>9 DEF Apart, ApartOf, CommitMoves
<1>10. ASSUME NEW p \in Callers, CommitBlocked(p)
      PROVE  Apart'
  BY <1>10 DEF Apart, ApartOf, CommitBlocked, Goes
<1>11. ASSUME NEW p \in Callers, CommitPublishes(p)
      PROVE  Apart'
  BY <1>11 DEF Apart, ApartOf, CommitPublishes, Goes, Publishes
<1>12. ASSUME NEW p \in Callers, CommitFails(p)
      PROVE  Apart'
  BY <1>12 DEF Apart, ApartOf, CommitFails, Goes, Fault, Carries, CarriesOf
<1>13. ASSUME NEW p \in Callers, NEW a \in Artifacts, UndoMove(p, a)
      PROVE  Apart'
  BY <1>13 DEF Apart, ApartOf, UndoMove, MovesToUndo
<1>14. ASSUME NEW p \in Callers, NEW a \in Artifacts, UndoRefused(p, a)
      PROVE  Apart'
  BY <1>14 DEF Apart, ApartOf, UndoRefused, MovesToUndo
<1>15. ASSUME NEW p \in Callers, UndoEnds(p)
      PROVE  Apart'
  BY <1>15 DEF Apart, ApartOf, UndoEnds, Goes, MovesToUndo
<1>16. ASSUME NEW p \in Callers, CommitEnds(p)
      PROVE  Apart'
  BY <1>16 DEF Apart, ApartOf, CommitEnds, Goes, Ends, CloseTxn, CloseInMemory, Fault
<1>17. ASSUME NEW p \in Callers, Returns(p)
      PROVE  Apart'
  BY <1>17 DEF Apart, ApartOf, Returns, Goes
<1>18. ASSUME NEW p \in Callers, Rollback(p)
      PROVE  Apart'
  BY <1>18 DEF Apart, ApartOf, Rollback, Goes, Ends, CloseTxn, CloseInMemory, Fault
<1>19. ASSUME NEW p \in Callers, NEW a \in Artifacts, BeginRemove(p, a)
      PROVE  Apart'
  BY <1>19 DEF Apart, ApartOf, BeginRemove, Begins, Goes
<1>20. ASSUME NEW p \in Callers, NEW a \in Artifacts, RemoveReads(p, a)
      PROVE  Apart'
  BY <1>20 DEF Apart, ApartOf, RemoveReads, Goes
<1>21. ASSUME NEW p \in Callers, NEW a \in Artifacts, RemoveRefused(p, a)
      PROVE  Apart'
  BY <1>21 DEF Apart, ApartOf, RemoveRefused, Goes
<1>22. ASSUME NEW p \in Callers, RemoveHides(p)
      PROVE  Apart'
  BY <1>22 DEF Apart, ApartOf, RemoveHides, Goes
<1>23. ASSUME NEW p \in Callers, RemoveClears(p)
      PROVE  Apart'
  BY <1>23 DEF Apart, ApartOf, RemoveClears, Goes
<1>24. ASSUME NEW p \in Callers, RemoveWrites(p)
      PROVE  Apart'
  BY <1>24 DEF Apart, ApartOf, RemoveWrites, Goes
<1>25. ASSUME NEW p \in Callers, RemovePublishes(p)
      PROVE  Apart'
  BY <1>25 DEF Apart, ApartOf, RemovePublishes, Goes, Publishes
<1>26. ASSUME NEW p \in Callers, RemoveConflicts(p)
      PROVE  Apart'
  BY <1>26 DEF Apart, ApartOf, RemoveConflicts, Goes
<1>27. ASSUME NEW p \in Callers, RemoveFails(p)
      PROVE  Apart'
  BY <1>27 DEF Apart, ApartOf, RemoveFails, Goes, Fault
<1>28. ASSUME NEW p \in Callers, RemoveRestores(p)
      PROVE  Apart'
  BY <1>28 DEF Apart, ApartOf, RemoveRestores, Goes
<1>29. ASSUME NEW p \in Callers, RestoreRefused(p)
      PROVE  Apart'
  BY <1>29 DEF Apart, ApartOf, RestoreRefused, Goes, Fault
<1>30. ASSUME NEW p \in Callers, RemoveErases(p)
      PROVE  Apart'
  BY <1>30 DEF Apart, ApartOf, RemoveErases, Goes, Fault
<1>31. ASSUME Crash
      PROVE  Apart'
  BY <1>31 DEF Apart, ApartOf, Crash, Idle
<1>32. ASSUME NEW t \in Txns, NEW a \in Artifacts, RecoverUndoes(t, a)
      PROVE  Apart'
  BY <1>32 DEF Apart, ApartOf, RecoverUndoes, Recovering
<1>33. ASSUME NEW t \in Txns, RecoverRefuses(t)
      PROVE  Apart'
  BY <1>33 DEF Apart, ApartOf, RecoverRefuses, Recovering
<1>34. ASSUME NEW t \in Txns, RecoverForgets(t)
      PROVE  Apart'
  BY <1>34 DEF Apart, ApartOf, RecoverForgets, Recovering, CloseTxn, Running
<1>35. ASSUME Serves
      PROVE  Apart'
  BY <1>35 DEF Apart, ApartOf, Serves
<1>36. CASE UNCHANGED vars
  BY <1>36 DEF Apart, ApartOf, vars, locals
<1>37. QED
  BY <1>1, <1>2, <1>3, <1>4, <1>5, <1>6, <1>7, <1>8, <1>9, <1>10, <1>11, <1>12, <1>13,
     <1>14, <1>15, <1>16, <1>17, <1>18, <1>19, <1>20, <1>21, <1>22, <1>23, <1>24,
     <1>25, <1>26, <1>27, <1>28, <1>29, <1>30, <1>31, <1>32, <1>33, <1>34, <1>35, <1>36
     DEF Next, InstallStep, RemoveStep, RecoverStep

\* A journal is written for the next revision, and a publication is the next one.
LEMMA PlacedStep ==
    OneByOne /\ TypeOK /\ Current /\ Apart /\ Placed /\ [Next]_vars => Placed'
<1> SUFFICES ASSUME OneByOne, TypeOK, Current, Apart, Placed, [Next]_vars
             PROVE  Placed'
  OBVIOUS
<1> USE InstallationAssumption DEF OneByOne, TypeOK, home, transactions, locals, limits
<1>1. ASSUME NEW p \in Callers, NEW t \in Txns, NEW components \in SUBSET Artifacts,
   BeginInstall(p, t, components)
      PROVE  Placed'
  BY <1>1 DEF Placed, PlacedAt, Uncommitted, BeginInstall, Begins, Goes
<1>2. ASSUME NEW p \in Callers, NEW t \in Txns, NEW components \in SUBSET Artifacts,
   InstalledAlready(p, t, components)
      PROVE  Placed'
  BY <1>2 DEF Placed, PlacedAt, Uncommitted, InstalledAlready
<1>3. ASSUME NEW p \in Callers, NEW a \in Artifacts, Stage(p, a)
      PROVE  Placed'
  BY <1>3 DEF Placed, PlacedAt, Uncommitted, Stage
<1>4. ASSUME NEW p \in Callers, StageFails(p)
      PROVE  Placed'
  BY <1>4 DEF Placed, PlacedAt, Uncommitted, StageFails, Goes
<1>5. ASSUME NEW p \in Callers, CommitReads(p)
      PROVE  Placed'
  BY <1>5 DEF Placed, PlacedAt, Uncommitted, CommitReads, Goes
<1>6. ASSUME NEW p \in Callers, CommitPlans(p)
      PROVE  Placed'
  BY <1>6 DEF Placed, PlacedAt, Uncommitted, CommitPlans, Goes
<1>7. ASSUME NEW p \in Callers, CommitRefused(p)
      PROVE  Placed'
  BY <1>7 DEF Placed, PlacedAt, Uncommitted, CommitRefused, Goes
<1>8. ASSUME NEW p \in Callers, CommitJournals(p)
      PROVE  Placed'
  BY <1>8, JournalType, EnvironmentParts DEF Placed, PlacedAt, Uncommitted, CommitJournals, Goes,
     Journalled, Current, CurrentOf, Apart, ApartOf
<1>9. ASSUME NEW p \in Callers, NEW a \in Artifacts, CommitMoves(p, a)
      PROVE  Placed'
  BY <1>9 DEF Placed, PlacedAt, Uncommitted, CommitMoves
<1>10. ASSUME NEW p \in Callers, CommitBlocked(p)
      PROVE  Placed'
  BY <1>10 DEF Placed, PlacedAt, Uncommitted, CommitBlocked, Goes
<1>11. ASSUME NEW p \in Callers, CommitPublishes(p)
      PROVE  Placed'
  <2>1. env'.revision = env.revision + 1 /\ env.revision \in Nat
    BY <1>11, EnvironmentParts DEF CommitPublishes, Publishes, Current, CurrentOf
  <2>2. ASSUME NEW t \in Txns, journal[t] # NoJournal
        PROVE  journal[t].generation \in Nat /\ journal[t].generation <= env.revision + 1
    BY <2>2 DEF Journals, Placed, PlacedAt
  <2>3. journal' = journal
    BY <1>11 DEF CommitPublishes
  <2>4. QED
    BY <2>1, <2>2, <2>3 DEF Placed, PlacedAt, Uncommitted
<1>12. ASSUME NEW p \in Callers, CommitFails(p)
      PROVE  Placed'
  BY <1>12 DEF Placed, PlacedAt, Uncommitted, CommitFails, Goes, Fault
<1>13. ASSUME NEW p \in Callers, NEW a \in Artifacts, UndoMove(p, a)
      PROVE  Placed'
  BY <1>13 DEF Placed, PlacedAt, Uncommitted, UndoMove, MovesToUndo
<1>14. ASSUME NEW p \in Callers, NEW a \in Artifacts, UndoRefused(p, a)
      PROVE  Placed'
  BY <1>14 DEF Placed, PlacedAt, Uncommitted, UndoRefused, MovesToUndo
<1>15. ASSUME NEW p \in Callers, UndoEnds(p)
      PROVE  Placed'
  BY <1>15 DEF Placed, PlacedAt, Uncommitted, UndoEnds, Goes, MovesToUndo
<1>16. ASSUME NEW p \in Callers, CommitEnds(p)
      PROVE  Placed'
  BY <1>16 DEF Placed, PlacedAt, Uncommitted, CommitEnds, Goes, Ends, CloseTxn, CloseInMemory,
     Fault
<1>17. ASSUME NEW p \in Callers, Returns(p)
      PROVE  Placed'
  BY <1>17 DEF Placed, PlacedAt, Uncommitted, Returns, Goes
<1>18. ASSUME NEW p \in Callers, Rollback(p)
      PROVE  Placed'
  BY <1>18 DEF Placed, PlacedAt, Uncommitted, Rollback, Goes, Ends, CloseTxn, CloseInMemory,
     Fault
<1>19. ASSUME NEW p \in Callers, NEW a \in Artifacts, BeginRemove(p, a)
      PROVE  Placed'
  BY <1>19 DEF Placed, PlacedAt, Uncommitted, BeginRemove, Begins, Goes
<1>20. ASSUME NEW p \in Callers, NEW a \in Artifacts, RemoveReads(p, a)
      PROVE  Placed'
  BY <1>20 DEF Placed, PlacedAt, Uncommitted, RemoveReads, Goes
<1>21. ASSUME NEW p \in Callers, NEW a \in Artifacts, RemoveRefused(p, a)
      PROVE  Placed'
  BY <1>21 DEF Placed, PlacedAt, Uncommitted, RemoveRefused, Goes
<1>22. ASSUME NEW p \in Callers, RemoveHides(p)
      PROVE  Placed'
  BY <1>22 DEF Placed, PlacedAt, Uncommitted, RemoveHides, Goes
<1>23. ASSUME NEW p \in Callers, RemoveClears(p)
      PROVE  Placed'
  BY <1>23 DEF Placed, PlacedAt, Uncommitted, RemoveClears, Goes
<1>24. ASSUME NEW p \in Callers, RemoveWrites(p)
      PROVE  Placed'
  BY <1>24 DEF Placed, PlacedAt, Uncommitted, RemoveWrites, Goes
<1>25. ASSUME NEW p \in Callers, RemovePublishes(p)
      PROVE  Placed'
  <2>1. env'.revision = env.revision + 1 /\ env.revision \in Nat
    BY <1>25, EnvironmentParts DEF RemovePublishes, Publishes, Current, CurrentOf
  <2>2. ASSUME NEW t \in Txns, journal[t] # NoJournal
        PROVE  journal[t].generation \in Nat /\ journal[t].generation <= env.revision + 1
    BY <2>2 DEF Journals, Placed, PlacedAt
  <2>3. journal' = journal
    BY <1>25 DEF RemovePublishes
  <2>4. QED
    BY <2>1, <2>2, <2>3 DEF Placed, PlacedAt, Uncommitted
<1>26. ASSUME NEW p \in Callers, RemoveConflicts(p)
      PROVE  Placed'
  BY <1>26 DEF Placed, PlacedAt, Uncommitted, RemoveConflicts, Goes
<1>27. ASSUME NEW p \in Callers, RemoveFails(p)
      PROVE  Placed'
  BY <1>27 DEF Placed, PlacedAt, Uncommitted, RemoveFails, Goes, Fault
<1>28. ASSUME NEW p \in Callers, RemoveRestores(p)
      PROVE  Placed'
  BY <1>28 DEF Placed, PlacedAt, Uncommitted, RemoveRestores, Goes
<1>29. ASSUME NEW p \in Callers, RestoreRefused(p)
      PROVE  Placed'
  BY <1>29 DEF Placed, PlacedAt, Uncommitted, RestoreRefused, Goes, Fault
<1>30. ASSUME NEW p \in Callers, RemoveErases(p)
      PROVE  Placed'
  BY <1>30 DEF Placed, PlacedAt, Uncommitted, RemoveErases, Goes, Fault
<1>31. ASSUME Crash
      PROVE  Placed'
  BY <1>31 DEF Placed, PlacedAt, Uncommitted, Crash, Idle
<1>32. ASSUME NEW t \in Txns, NEW a \in Artifacts, RecoverUndoes(t, a)
      PROVE  Placed'
  BY <1>32 DEF Placed, PlacedAt, Uncommitted, RecoverUndoes, Recovering
<1>33. ASSUME NEW t \in Txns, RecoverRefuses(t)
      PROVE  Placed'
  BY <1>33 DEF Placed, PlacedAt, Uncommitted, RecoverRefuses, Recovering
<1>34. ASSUME NEW t \in Txns, RecoverForgets(t)
      PROVE  Placed'
  BY <1>34 DEF Placed, PlacedAt, Uncommitted, RecoverForgets, Recovering, CloseTxn
<1>35. ASSUME Serves
      PROVE  Placed'
  BY <1>35 DEF Placed, PlacedAt, Uncommitted, Serves
<1>36. CASE UNCHANGED vars
  BY <1>36 DEF Placed, PlacedAt, Uncommitted, vars, locals
<1>37. QED
  BY <1>1, <1>2, <1>3, <1>4, <1>5, <1>6, <1>7, <1>8, <1>9, <1>10, <1>11, <1>12, <1>13,
     <1>14, <1>15, <1>16, <1>17, <1>18, <1>19, <1>20, <1>21, <1>22, <1>23, <1>24,
     <1>25, <1>26, <1>27, <1>28, <1>29, <1>30, <1>31, <1>32, <1>33, <1>34, <1>35, <1>36
     DEF Next, InstallStep, RemoveStep, RecoverStep

\* A crash leaves every unpublished directory to a journal of the next revision, and
\* a recovery forgets no such journal before it has taken the directories back.
LEMMA RecoverableStep ==
    OneByOne /\ TypeOK /\ Owns /\ Running /\ Carries /\ Apart /\ Recoverable /\ [Next]_vars
    => Recoverable'
<1> SUFFICES ASSUME OneByOne, TypeOK, Owns, Running, Carries, Apart, Recoverable, [Next]_vars,
                    NEW b \in Artifacts
             PROVE  RecoverableOf(b)'
  BY DEF Recoverable
<1> USE InstallationAssumption DEF TypeOK, home, transactions, locals, limits
<1>1. ASSUME NEW p \in Callers, NEW t \in Txns, NEW components \in SUBSET Artifacts,
   BeginInstall(p, t, components)
      PROVE  RecoverableOf(b)'
  BY <1>1 DEF Recoverable, RecoverableOf, MovedBy, Running, BeginInstall, Begins, Goes
<1>2. ASSUME NEW p \in Callers, NEW t \in Txns, NEW components \in SUBSET Artifacts,
   InstalledAlready(p, t, components)
      PROVE  RecoverableOf(b)'
  BY <1>2 DEF Recoverable, RecoverableOf, MovedBy, Running, InstalledAlready
<1>3. ASSUME NEW p \in Callers, NEW a \in Artifacts, Stage(p, a)
      PROVE  RecoverableOf(b)'
  BY <1>3 DEF Recoverable, RecoverableOf, MovedBy, Running, Stage
<1>4. ASSUME NEW p \in Callers, StageFails(p)
      PROVE  RecoverableOf(b)'
  BY <1>4 DEF Recoverable, RecoverableOf, MovedBy, Running, StageFails, Goes
<1>5. ASSUME NEW p \in Callers, CommitReads(p)
      PROVE  RecoverableOf(b)'
  BY <1>5 DEF Recoverable, RecoverableOf, MovedBy, Running, CommitReads, Goes
<1>6. ASSUME NEW p \in Callers, CommitPlans(p)
      PROVE  RecoverableOf(b)'
  BY <1>6 DEF Recoverable, RecoverableOf, MovedBy, Running, CommitPlans, Goes
<1>7. ASSUME NEW p \in Callers, CommitRefused(p)
      PROVE  RecoverableOf(b)'
  BY <1>7 DEF Recoverable, RecoverableOf, MovedBy, Running, CommitRefused, Goes
<1>8. ASSUME NEW p \in Callers, CommitJournals(p)
      PROVE  RecoverableOf(b)'
  BY <1>8 DEF Recoverable, RecoverableOf, MovedBy, Running, CommitJournals, Goes, Journalled
<1>9. ASSUME NEW p \in Callers, NEW a \in Artifacts, CommitMoves(p, a)
      PROVE  RecoverableOf(b)'
  BY <1>9 DEF Recoverable, RecoverableOf, MovedBy, Running, CommitMoves
<1>10. ASSUME NEW p \in Callers, CommitBlocked(p)
      PROVE  RecoverableOf(b)'
  BY <1>10 DEF Recoverable, RecoverableOf, MovedBy, Running, CommitBlocked, Goes
<1>11. ASSUME NEW p \in Callers, CommitPublishes(p)
      PROVE  RecoverableOf(b)'
  BY <1>11 DEF Recoverable, RecoverableOf, MovedBy, Running, CommitPublishes, Goes, Publishes,
     Carries, CarriesOf
<1>12. ASSUME NEW p \in Callers, CommitFails(p)
      PROVE  RecoverableOf(b)'
  BY <1>12 DEF Recoverable, RecoverableOf, MovedBy, Running, CommitFails, Goes, Fault
<1>13. ASSUME NEW p \in Callers, NEW a \in Artifacts, UndoMove(p, a)
      PROVE  RecoverableOf(b)'
  BY <1>13 DEF Recoverable, RecoverableOf, MovedBy, Running, UndoMove, MovesToUndo
<1>14. ASSUME NEW p \in Callers, NEW a \in Artifacts, UndoRefused(p, a)
      PROVE  RecoverableOf(b)'
  BY <1>14 DEF Recoverable, RecoverableOf, MovedBy, Running, UndoRefused, MovesToUndo
<1>15. ASSUME NEW p \in Callers, UndoEnds(p)
      PROVE  RecoverableOf(b)'
  BY <1>15 DEF Recoverable, RecoverableOf, MovedBy, Running, UndoEnds, Goes, MovesToUndo
<1>16. ASSUME NEW p \in Callers, CommitEnds(p)
      PROVE  RecoverableOf(b)'
  BY <1>16 DEF Recoverable, RecoverableOf, MovedBy, Running, CommitEnds, Goes, Ends, CloseTxn,
     CloseInMemory, Fault
<1>17. ASSUME NEW p \in Callers, Returns(p)
      PROVE  RecoverableOf(b)'
  BY <1>17 DEF Recoverable, RecoverableOf, MovedBy, Running, Returns, Goes
<1>18. ASSUME NEW p \in Callers, Rollback(p)
      PROVE  RecoverableOf(b)'
  BY <1>18 DEF Recoverable, RecoverableOf, MovedBy, Running, Rollback, Goes, Ends, CloseTxn,
     CloseInMemory, Fault
<1>19. ASSUME NEW p \in Callers, NEW a \in Artifacts, BeginRemove(p, a)
      PROVE  RecoverableOf(b)'
  BY <1>19 DEF Recoverable, RecoverableOf, MovedBy, Running, BeginRemove, Begins, Goes
<1>20. ASSUME NEW p \in Callers, NEW a \in Artifacts, RemoveReads(p, a)
      PROVE  RecoverableOf(b)'
  BY <1>20 DEF Recoverable, RecoverableOf, MovedBy, Running, RemoveReads, Goes
<1>21. ASSUME NEW p \in Callers, NEW a \in Artifacts, RemoveRefused(p, a)
      PROVE  RecoverableOf(b)'
  BY <1>21 DEF Recoverable, RecoverableOf, MovedBy, Running, RemoveRefused, Goes
<1>22. ASSUME NEW p \in Callers, RemoveHides(p)
      PROVE  RecoverableOf(b)'
  BY <1>22 DEF Recoverable, RecoverableOf, MovedBy, Running, RemoveHides, Goes
<1>23. ASSUME NEW p \in Callers, RemoveClears(p)
      PROVE  RecoverableOf(b)'
  BY <1>23 DEF Recoverable, RecoverableOf, MovedBy, Running, RemoveClears, Goes
<1>24. ASSUME NEW p \in Callers, RemoveWrites(p)
      PROVE  RecoverableOf(b)'
  BY <1>24 DEF Recoverable, RecoverableOf, MovedBy, Running, RemoveWrites, Goes
<1>25. ASSUME NEW p \in Callers, RemovePublishes(p)
      PROVE  RecoverableOf(b)'
  BY <1>25 DEF Recoverable, RecoverableOf, MovedBy, Running, RemovePublishes, Goes, Publishes
<1>26. ASSUME NEW p \in Callers, RemoveConflicts(p)
      PROVE  RecoverableOf(b)'
  BY <1>26 DEF Recoverable, RecoverableOf, MovedBy, Running, RemoveConflicts, Goes
<1>27. ASSUME NEW p \in Callers, RemoveFails(p)
      PROVE  RecoverableOf(b)'
  BY <1>27 DEF Recoverable, RecoverableOf, MovedBy, Running, RemoveFails, Goes, Fault
<1>28. ASSUME NEW p \in Callers, RemoveRestores(p)
      PROVE  RecoverableOf(b)'
  BY <1>28 DEF Recoverable, RecoverableOf, MovedBy, Running, RemoveRestores, Goes, Carries,
     CarriesOf
<1>29. ASSUME NEW p \in Callers, RestoreRefused(p)
      PROVE  RecoverableOf(b)'
  BY <1>29 DEF Recoverable, RecoverableOf, MovedBy, Running, RestoreRefused, Goes, Carries,
     CarriesOf, Fault
<1>30. ASSUME NEW p \in Callers, RemoveErases(p)
      PROVE  RecoverableOf(b)'
  BY <1>30 DEF Recoverable, RecoverableOf, MovedBy, Running, RemoveErases, Goes, Fault
<1>31. ASSUME Crash
      PROVE  RecoverableOf(b)'
  <2> SUFFICES ASSUME b \in dirs, b \notin everSelected, b \notin stranded
               PROVE  Redeemable(b)'
    BY <1>31 DEF RecoverableOf, Crash
  <2>1. boot = "up"
    BY <1>31 DEF Crash
  <2>2. RecoverableOf(b)
    BY DEF Recoverable
  <2>3. PICK p \in Callers : pc[p] \in {"move", "undo"} /\ b \in moved[p]
    BY <2>1, <2>2 DEF RecoverableOf, MovedBy
  <2>4. /\ tx[p] \in Txns
        /\ journal[tx[p]] # NoJournal /\ b \in journal[tx[p]].moves
        /\ journal[tx[p]].generation = env.revision + 1
    BY <2>3 DEF Owns, Owning, Carries, CarriesOf, Apart, ApartOf
  <2>5. env.revision \in Nat
    BY EnvironmentParts
  <2>6. QED
    BY <1>31, <2>4, <2>5 DEF Redeemable, Uncommitted, Crash
<1>32. ASSUME NEW t \in Txns, NEW a \in Artifacts, RecoverUndoes(t, a)
      PROVE  RecoverableOf(b)'
  BY <1>32 DEF Recoverable, RecoverableOf, MovedBy, Running, RecoverUndoes, Recovering,
     Redeemable, Uncommitted
<1>33. ASSUME NEW t \in Txns, RecoverRefuses(t)
      PROVE  RecoverableOf(b)'
  BY <1>33 DEF Recoverable, RecoverableOf, MovedBy, Running, RecoverRefuses, Recovering,
     Redeemable, Uncommitted
<1>34. ASSUME NEW t \in Txns, RecoverForgets(t)
      PROVE  RecoverableOf(b)'
  BY <1>34 DEF Recoverable, RecoverableOf, MovedBy, Running, RecoverForgets, Recovering,
     CloseTxn, Redeemable, Uncommitted, Undone
<1>35. ASSUME Serves
      PROVE  RecoverableOf(b)'
  BY <1>35 DEF Recoverable, RecoverableOf, MovedBy, Running, Serves, Redeemable, Uncommitted
<1>36. CASE UNCHANGED vars
  BY <1>36 DEF Recoverable, RecoverableOf, MovedBy, Running, vars, locals, Redeemable,
     Uncommitted
<1>37. QED
  BY <1>1, <1>2, <1>3, <1>4, <1>5, <1>6, <1>7, <1>8, <1>9, <1>10, <1>11, <1>12, <1>13,
     <1>14, <1>15, <1>16, <1>17, <1>18, <1>19, <1>20, <1>21, <1>22, <1>23, <1>24,
     <1>25, <1>26, <1>27, <1>28, <1>29, <1>30, <1>31, <1>32, <1>33, <1>34, <1>35, <1>36
     DEF Next, InstallStep, RemoveStep, RecoverStep

\* Every undo is begun by a refusal: with one request, nothing blocks a commit.
LEMMA CostlyStep ==
    TypeOK /\ Apart /\ Costly /\ [Next]_vars => Costly'
<1> SUFFICES ASSUME TypeOK, Apart, Costly, [Next]_vars
             PROVE  Costly'
  OBVIOUS
<1> USE InstallationAssumption DEF TypeOK, home, transactions, locals, limits
<1>1. ASSUME NEW p \in Callers, NEW t \in Txns, NEW components \in SUBSET Artifacts,
   BeginInstall(p, t, components)
      PROVE  Costly'
  BY <1>1 DEF Costly, BeginInstall, Begins, Goes
<1>2. ASSUME NEW p \in Callers, NEW t \in Txns, NEW components \in SUBSET Artifacts,
   InstalledAlready(p, t, components)
      PROVE  Costly'
  BY <1>2 DEF Costly, InstalledAlready
<1>3. ASSUME NEW p \in Callers, NEW a \in Artifacts, Stage(p, a)
      PROVE  Costly'
  BY <1>3 DEF Costly, Stage
<1>4. ASSUME NEW p \in Callers, StageFails(p)
      PROVE  Costly'
  BY <1>4 DEF Costly, StageFails, Goes
<1>5. ASSUME NEW p \in Callers, CommitReads(p)
      PROVE  Costly'
  BY <1>5 DEF Costly, CommitReads, Goes
<1>6. ASSUME NEW p \in Callers, CommitPlans(p)
      PROVE  Costly'
  BY <1>6 DEF Costly, CommitPlans, Goes
<1>7. ASSUME NEW p \in Callers, CommitRefused(p)
      PROVE  Costly'
  BY <1>7 DEF Costly, CommitRefused, Goes
<1>8. ASSUME NEW p \in Callers, CommitJournals(p)
      PROVE  Costly'
  BY <1>8 DEF Costly, CommitJournals, Goes, Journalled
<1>9. ASSUME NEW p \in Callers, NEW a \in Artifacts, CommitMoves(p, a)
      PROVE  Costly'
  BY <1>9 DEF Costly, CommitMoves
<1>10. ASSUME NEW p \in Callers, CommitBlocked(p)
      PROVE  Costly'
  BY <1>10 DEF Costly, CommitBlocked, Goes, Apart, ApartOf
<1>11. ASSUME NEW p \in Callers, CommitPublishes(p)
      PROVE  Costly'
  BY <1>11 DEF Costly, CommitPublishes, Goes, Publishes
<1>12. ASSUME NEW p \in Callers, CommitFails(p)
      PROVE  Costly'
  BY <1>12 DEF Costly, CommitFails, Goes, Fault
<1>13. ASSUME NEW p \in Callers, NEW a \in Artifacts, UndoMove(p, a)
      PROVE  Costly'
  BY <1>13 DEF Costly, UndoMove, MovesToUndo
<1>14. ASSUME NEW p \in Callers, NEW a \in Artifacts, UndoRefused(p, a)
      PROVE  Costly'
  BY <1>14 DEF Costly, UndoRefused, MovesToUndo
<1>15. ASSUME NEW p \in Callers, UndoEnds(p)
      PROVE  Costly'
  BY <1>15 DEF Costly, UndoEnds, Goes, MovesToUndo
<1>16. ASSUME NEW p \in Callers, CommitEnds(p)
      PROVE  Costly'
  BY <1>16 DEF Costly, CommitEnds, Goes, Ends, CloseTxn, CloseInMemory, Fault
<1>17. ASSUME NEW p \in Callers, Returns(p)
      PROVE  Costly'
  BY <1>17 DEF Costly, Returns, Goes
<1>18. ASSUME NEW p \in Callers, Rollback(p)
      PROVE  Costly'
  BY <1>18 DEF Costly, Rollback, Goes, Ends, CloseTxn, CloseInMemory, Fault
<1>19. ASSUME NEW p \in Callers, NEW a \in Artifacts, BeginRemove(p, a)
      PROVE  Costly'
  BY <1>19 DEF Costly, BeginRemove, Begins, Goes
<1>20. ASSUME NEW p \in Callers, NEW a \in Artifacts, RemoveReads(p, a)
      PROVE  Costly'
  BY <1>20 DEF Costly, RemoveReads, Goes
<1>21. ASSUME NEW p \in Callers, NEW a \in Artifacts, RemoveRefused(p, a)
      PROVE  Costly'
  BY <1>21 DEF Costly, RemoveRefused, Goes
<1>22. ASSUME NEW p \in Callers, RemoveHides(p)
      PROVE  Costly'
  BY <1>22 DEF Costly, RemoveHides, Goes
<1>23. ASSUME NEW p \in Callers, RemoveClears(p)
      PROVE  Costly'
  BY <1>23 DEF Costly, RemoveClears, Goes
<1>24. ASSUME NEW p \in Callers, RemoveWrites(p)
      PROVE  Costly'
  BY <1>24 DEF Costly, RemoveWrites, Goes
<1>25. ASSUME NEW p \in Callers, RemovePublishes(p)
      PROVE  Costly'
  BY <1>25 DEF Costly, RemovePublishes, Goes, Publishes
<1>26. ASSUME NEW p \in Callers, RemoveConflicts(p)
      PROVE  Costly'
  BY <1>26 DEF Costly, RemoveConflicts, Goes
<1>27. ASSUME NEW p \in Callers, RemoveFails(p)
      PROVE  Costly'
  BY <1>27 DEF Costly, RemoveFails, Goes, Fault
<1>28. ASSUME NEW p \in Callers, RemoveRestores(p)
      PROVE  Costly'
  BY <1>28 DEF Costly, RemoveRestores, Goes
<1>29. ASSUME NEW p \in Callers, RestoreRefused(p)
      PROVE  Costly'
  BY <1>29 DEF Costly, RestoreRefused, Goes, Fault
<1>30. ASSUME NEW p \in Callers, RemoveErases(p)
      PROVE  Costly'
  BY <1>30 DEF Costly, RemoveErases, Goes, Fault
<1>31. ASSUME Crash
      PROVE  Costly'
  BY <1>31 DEF Costly, Crash, Idle
<1>32. ASSUME NEW t \in Txns, NEW a \in Artifacts, RecoverUndoes(t, a)
      PROVE  Costly'
  BY <1>32 DEF Costly, RecoverUndoes, Recovering
<1>33. ASSUME NEW t \in Txns, RecoverRefuses(t)
      PROVE  Costly'
  BY <1>33 DEF Costly, RecoverRefuses, Recovering
<1>34. ASSUME NEW t \in Txns, RecoverForgets(t)
      PROVE  Costly'
  BY <1>34 DEF Costly, RecoverForgets, Recovering, CloseTxn
<1>35. ASSUME Serves
      PROVE  Costly'
  BY <1>35 DEF Costly, Serves
<1>36. CASE UNCHANGED vars
  BY <1>36 DEF Costly, vars, locals
<1>37. QED
  BY <1>1, <1>2, <1>3, <1>4, <1>5, <1>6, <1>7, <1>8, <1>9, <1>10, <1>11, <1>12, <1>13,
     <1>14, <1>15, <1>16, <1>17, <1>18, <1>19, <1>20, <1>21, <1>22, <1>23, <1>24,
     <1>25, <1>26, <1>27, <1>28, <1>29, <1>30, <1>31, <1>32, <1>33, <1>34, <1>35, <1>36
     DEF Next, InstallStep, RemoveStep, RecoverStep

\* Every step keeps it.
LEMMA AloneStep == OneByOne /\ IInv /\ Alone /\ [Next]_vars => Alone'
<1> SUFFICES ASSUME OneByOne, IInv, Alone, [Next]_vars
             PROVE  Alone'
  OBVIOUS
<1> USE DEF IInv, Alone
<1>1. Current'
  BY CurrentStep
<1>2. Apart'
  BY ApartStep
<1>3. Placed'
  BY PlacedStep
<1>4. Recoverable'
  BY RecoverableStep
<1>5. Costly'
  BY CostlyStep
<1>6. QED
  BY <1>1, <1>2, <1>3, <1>4, <1>5

\* In every state, when requests come one at a time.
THEOREM AloneInvariance ==
    ASSUME OneByOne
    PROVE  Spec => [](IInv /\ Alone)
<1>1. Init => IInv /\ Alone
  BY InitInv, InitAlone
<1>2. IInv /\ Alone /\ [Next]_vars => (IInv /\ Alone)'
  BY InvStep, AloneStep
<1>3. QED
  BY <1>1, <1>2, PTL DEF Spec

\* A commit that failed leaves the environment at the revision the request began
\* with, and nothing of what it would have moved in place, however far it came,
\* unless the disk refused both a step of the commit and the way back of that
\* directory (environment_commit.go:180-205).
THEOREM FailuresChangeNothing ==
    ASSUME OneByOne
    PROVE  Spec => []FailureChangesNothing
<1>1. Alone => FailureChangesNothing
  BY DEF Alone, Current, CurrentOf, Apart, ApartOf, Costly, FailureChangesNothing
<1>2. QED
  BY AloneInvariance, <1>1, PTL

\* Between requests no directory is one that was never published, whatever died
\* or was refused in between, but those an undo was refused and no recovery found a
\* journal for: the rest of what a commit had moved, its undo or the recovery took
\* back (environment_commit.go:180-205, transaction_recovery.go:63-86).
THEOREM NothingIsHalfInstalled ==
    ASSUME OneByOne
    PROVE  Spec => []NothingHalfInstalled
<1>1. IInv /\ Alone => NothingHalfInstalled
  <2> SUFFICES ASSUME TypeOK, Recoverable, boot = "up", \A p \in Callers : pc[p] = "idle",
                      NEW a \in dirs
               PROVE  a \in everSelected \cup stranded
    BY DEF IInv, Alone, NothingHalfInstalled
  <2>1. ~MovedBy(a)
    BY DEF MovedBy
  <2>2. RecoverableOf(a)
    BY DEF Recoverable, TypeOK
  <2>3. QED
    BY <2>1, <2>2 DEF RecoverableOf
<1>2. QED
  BY AloneInvariance, <1>1, PTL

\* A directory that the environment selects and goes on selecting stays, or is set
\* aside by a removal.
SelectedKept ==
    \A i \in Ids : LET a == env.sel[i]
                   IN a \in dirs /\ env'.sel[i] = a => a \in dirs' \cup removing'

\* Only an undo, a removal and a recovery take directories away: the first and the
\* last those of a journal, of which none is selected.
LEMMA SelectedKeptStep ==
    OneByOne /\ TypeOK /\ Current /\ Apart /\ Placed /\ [Next]_vars => SelectedKept
<1> SUFFICES ASSUME OneByOne, TypeOK, Current, Apart, Placed, [Next]_vars, NEW i \in Ids,
                    env.sel[i] \in dirs, env'.sel[i] = env.sel[i]
             PROVE  env.sel[i] \in dirs' \cup removing'
  BY DEF SelectedKept
<1> USE InstallationAssumption DEF TypeOK, home, transactions, locals, limits
<1>1. ASSUME NEW p \in Callers, NEW t \in Txns, NEW components \in SUBSET Artifacts,
   BeginInstall(p, t, components)
      PROVE  env.sel[i] \in dirs' \cup removing'
  BY <1>1 DEF BeginInstall, Begins, Goes
<1>2. ASSUME NEW p \in Callers, NEW t \in Txns, NEW components \in SUBSET Artifacts,
   InstalledAlready(p, t, components)
      PROVE  env.sel[i] \in dirs' \cup removing'
  BY <1>2 DEF InstalledAlready
<1>3. ASSUME NEW p \in Callers, NEW a \in Artifacts, Stage(p, a)
      PROVE  env.sel[i] \in dirs' \cup removing'
  BY <1>3 DEF Stage
<1>4. ASSUME NEW p \in Callers, StageFails(p)
      PROVE  env.sel[i] \in dirs' \cup removing'
  BY <1>4 DEF StageFails, Goes
<1>5. ASSUME NEW p \in Callers, CommitReads(p)
      PROVE  env.sel[i] \in dirs' \cup removing'
  BY <1>5 DEF CommitReads, Goes
<1>6. ASSUME NEW p \in Callers, CommitPlans(p)
      PROVE  env.sel[i] \in dirs' \cup removing'
  BY <1>6 DEF CommitPlans, Goes
<1>7. ASSUME NEW p \in Callers, CommitRefused(p)
      PROVE  env.sel[i] \in dirs' \cup removing'
  BY <1>7 DEF CommitRefused, Goes
<1>8. ASSUME NEW p \in Callers, CommitJournals(p)
      PROVE  env.sel[i] \in dirs' \cup removing'
  BY <1>8 DEF CommitJournals, Goes, Journalled
<1>9. ASSUME NEW p \in Callers, NEW a \in Artifacts, CommitMoves(p, a)
      PROVE  env.sel[i] \in dirs' \cup removing'
  BY <1>9 DEF CommitMoves
<1>10. ASSUME NEW p \in Callers, CommitBlocked(p)
      PROVE  env.sel[i] \in dirs' \cup removing'
  BY <1>10 DEF CommitBlocked, Goes
<1>11. ASSUME NEW p \in Callers, CommitPublishes(p)
      PROVE  env.sel[i] \in dirs' \cup removing'
  BY <1>11 DEF CommitPublishes, Goes, Publishes
<1>12. ASSUME NEW p \in Callers, CommitFails(p)
      PROVE  env.sel[i] \in dirs' \cup removing'
  BY <1>12 DEF CommitFails, Goes, Fault
<1>13. ASSUME NEW p \in Callers, NEW a \in Artifacts, UndoMove(p, a)
      PROVE  env.sel[i] \in dirs' \cup removing'
  BY <1>13 DEF UndoMove, MovesToUndo, Apart, ApartOf, SelectedIn
<1>14. ASSUME NEW p \in Callers, NEW a \in Artifacts, UndoRefused(p, a)
      PROVE  env.sel[i] \in dirs' \cup removing'
  BY <1>14 DEF UndoRefused, MovesToUndo, Apart, ApartOf, SelectedIn
<1>15. ASSUME NEW p \in Callers, UndoEnds(p)
      PROVE  env.sel[i] \in dirs' \cup removing'
  BY <1>15 DEF UndoEnds, Goes, MovesToUndo
<1>16. ASSUME NEW p \in Callers, CommitEnds(p)
      PROVE  env.sel[i] \in dirs' \cup removing'
  BY <1>16 DEF CommitEnds, Goes, Ends, CloseTxn, CloseInMemory, Fault
<1>17. ASSUME NEW p \in Callers, Returns(p)
      PROVE  env.sel[i] \in dirs' \cup removing'
  BY <1>17 DEF Returns, Goes
<1>18. ASSUME NEW p \in Callers, Rollback(p)
      PROVE  env.sel[i] \in dirs' \cup removing'
  BY <1>18 DEF Rollback, Goes, Ends, CloseTxn, CloseInMemory, Fault
<1>19. ASSUME NEW p \in Callers, NEW a \in Artifacts, BeginRemove(p, a)
      PROVE  env.sel[i] \in dirs' \cup removing'
  BY <1>19 DEF BeginRemove, Begins, Goes
<1>20. ASSUME NEW p \in Callers, NEW a \in Artifacts, RemoveReads(p, a)
      PROVE  env.sel[i] \in dirs' \cup removing'
  BY <1>20 DEF RemoveReads, Goes
<1>21. ASSUME NEW p \in Callers, NEW a \in Artifacts, RemoveRefused(p, a)
      PROVE  env.sel[i] \in dirs' \cup removing'
  BY <1>21 DEF RemoveRefused, Goes
<1>22. ASSUME NEW p \in Callers, RemoveHides(p)
      PROVE  env.sel[i] \in dirs' \cup removing'
  BY <1>22 DEF RemoveHides, Goes
<1>23. ASSUME NEW p \in Callers, RemoveClears(p)
      PROVE  env.sel[i] \in dirs' \cup removing'
  BY <1>23 DEF RemoveClears, Goes
<1>24. ASSUME NEW p \in Callers, RemoveWrites(p)
      PROVE  env.sel[i] \in dirs' \cup removing'
  BY <1>24 DEF RemoveWrites, Goes
<1>25. ASSUME NEW p \in Callers, RemovePublishes(p)
      PROVE  env.sel[i] \in dirs' \cup removing'
  BY <1>25 DEF RemovePublishes, Goes, Publishes
<1>26. ASSUME NEW p \in Callers, RemoveConflicts(p)
      PROVE  env.sel[i] \in dirs' \cup removing'
  BY <1>26 DEF RemoveConflicts, Goes
<1>27. ASSUME NEW p \in Callers, RemoveFails(p)
      PROVE  env.sel[i] \in dirs' \cup removing'
  BY <1>27 DEF RemoveFails, Goes, Fault
<1>28. ASSUME NEW p \in Callers, RemoveRestores(p)
      PROVE  env.sel[i] \in dirs' \cup removing'
  BY <1>28 DEF RemoveRestores, Goes
<1>29. ASSUME NEW p \in Callers, RestoreRefused(p)
      PROVE  env.sel[i] \in dirs' \cup removing'
  BY <1>29 DEF RestoreRefused, Goes, Fault
<1>30. ASSUME NEW p \in Callers, RemoveErases(p)
      PROVE  env.sel[i] \in dirs' \cup removing'
  BY <1>30 DEF RemoveErases, Goes, Fault
<1>31. ASSUME Crash
      PROVE  env.sel[i] \in dirs' \cup removing'
  BY <1>31 DEF Crash, Idle
<1>32. ASSUME NEW t \in Txns, NEW a \in Artifacts, RecoverUndoes(t, a)
      PROVE  env.sel[i] \in dirs' \cup removing'
  BY <1>32 DEF RecoverUndoes, Recovering, Placed, PlacedAt, SelectedIn
<1>33. ASSUME NEW t \in Txns, RecoverRefuses(t)
      PROVE  env.sel[i] \in dirs' \cup removing'
  BY <1>33 DEF RecoverRefuses, Recovering
<1>34. ASSUME NEW t \in Txns, RecoverForgets(t)
      PROVE  env.sel[i] \in dirs' \cup removing'
  BY <1>34 DEF RecoverForgets, Recovering, CloseTxn
<1>35. ASSUME Serves
      PROVE  env.sel[i] \in dirs' \cup removing'
  BY <1>35 DEF Serves
<1>36. CASE UNCHANGED vars
  BY <1>36 DEF vars, locals
<1>37. QED
  BY <1>1, <1>2, <1>3, <1>4, <1>5, <1>6, <1>7, <1>8, <1>9, <1>10, <1>11, <1>12, <1>13,
     <1>14, <1>15, <1>16, <1>17, <1>18, <1>19, <1>20, <1>21, <1>22, <1>23, <1>24,
     <1>25, <1>26, <1>27, <1>28, <1>29, <1>30, <1>31, <1>32, <1>33, <1>34, <1>35, <1>36
     DEF Next, InstallStep, RemoveStep, RecoverStep

\* Nothing but a removal takes away a directory the environment selects: neither an
\* undone commit nor a recovery (environment_commit.go:189-194,
\* transaction_recovery.go:63-77).
THEOREM WhatIsSelectedStays ==
    ASSUME OneByOne
    PROVE  Spec => SelectedStays
<1>1. IInv /\ Alone /\ [Next]_vars => SelectedKept
  BY SelectedKeptStep DEF IInv, Alone
<1>2. QED
  BY AloneInvariance, <1>1, PTL DEF Spec, SelectedStays, SelectedKept

\* The journals that a request leaves to the next start: each belongs to the
\* request under way, is of the present revision or the next, and while it is of
\* the next, each directory it names is in place or staged, never both.
JournalOf(p, t) ==
    /\ tx[p] = t
    /\ \/ pc[p] \in {"move", "undo", "failed"} /\ journal[t].generation = env.revision + 1
       \/ pc[p] = "clean" /\ journal[t].generation = env.revision

RecentOf(t) ==
    journal[t] # NoJournal =>
        /\ boot = "up" => \E p \in Callers : JournalOf(p, t)
        /\ journal[t].generation \in {env.revision, env.revision + 1}
        /\ Uncommitted(journal[t]) => journal[t].moves \cap dirs \cap staged[t] = {}

Recent == boot # "refused" /\ \A t \in Txns : RecentOf(t)

\* When the disk deletes what it is told to, a request that ends leaves no journal,
\* so that a recovery finds at most one, and can place it.
LEMMA RecentStep ==
    OneByOne /\ ~Sticky /\ TypeOK /\ Owns /\ Running /\ Carries /\ Current /\ Apart
    /\ Recent /\ [Next]_vars => Recent'
<1> SUFFICES ASSUME OneByOne, ~Sticky, TypeOK, Owns, Running, Carries, Current, Apart,
                    Recent, [Next]_vars
             PROVE  Recent'
  OBVIOUS
<1> USE InstallationAssumption DEF OneByOne, TypeOK, home, transactions, locals, limits
<1>1. ASSUME NEW p \in Callers, NEW t \in Txns, NEW components \in SUBSET Artifacts,
   BeginInstall(p, t, components)
      PROVE  Recent'
  BY <1>1 DEF Recent, RecentOf, JournalOf, Uncommitted, Running, BeginInstall, Begins, Goes
<1>2. ASSUME NEW p \in Callers, NEW t \in Txns, NEW components \in SUBSET Artifacts,
   InstalledAlready(p, t, components)
      PROVE  Recent'
  BY <1>2 DEF Recent, RecentOf, JournalOf, Uncommitted, Running, InstalledAlready
<1>3. ASSUME NEW p \in Callers, NEW a \in Artifacts, Stage(p, a)
      PROVE  Recent'
  BY <1>3 DEF Recent, RecentOf, JournalOf, Uncommitted, Running, Stage
<1>4. ASSUME NEW p \in Callers, StageFails(p)
      PROVE  Recent'
  BY <1>4 DEF Recent, RecentOf, JournalOf, Uncommitted, Running, StageFails, Goes
<1>5. ASSUME NEW p \in Callers, CommitReads(p)
      PROVE  Recent'
  BY <1>5 DEF Recent, RecentOf, JournalOf, Uncommitted, Running, CommitReads, Goes
<1>6. ASSUME NEW p \in Callers, CommitPlans(p)
      PROVE  Recent'
  BY <1>6 DEF Recent, RecentOf, JournalOf, Uncommitted, Running, CommitPlans, Goes
<1>7. ASSUME NEW p \in Callers, CommitRefused(p)
      PROVE  Recent'
  BY <1>7 DEF Recent, RecentOf, JournalOf, Uncommitted, Running, CommitRefused, Goes
<1>8. ASSUME NEW p \in Callers, CommitJournals(p)
      PROVE  Recent'
  BY <1>8, JournalType, EnvironmentParts DEF Recent, RecentOf, JournalOf, Uncommitted, Running,
     CommitJournals, Goes, Journalled, Current, CurrentOf, Apart, ApartOf, Carries, CarriesOf
<1>9. ASSUME NEW p \in Callers, NEW a \in Artifacts, CommitMoves(p, a)
      PROVE  Recent'
  BY <1>9 DEF Recent, RecentOf, JournalOf, Uncommitted, Running, CommitMoves
<1>10. ASSUME NEW p \in Callers, CommitBlocked(p)
      PROVE  Recent'
  BY <1>10 DEF Recent, RecentOf, JournalOf, Uncommitted, Running, CommitBlocked, Goes
<1>11. ASSUME NEW p \in Callers, CommitPublishes(p)
      PROVE  Recent'
  BY <1>11, EnvironmentParts DEF Recent, RecentOf, JournalOf, Uncommitted, Running,
     CommitPublishes, Goes, Publishes, Current, CurrentOf
<1>12. ASSUME NEW p \in Callers, CommitFails(p)
      PROVE  Recent'
  BY <1>12 DEF Recent, RecentOf, JournalOf, Uncommitted, Running, CommitFails, Goes, Fault
<1>13. ASSUME NEW p \in Callers, NEW a \in Artifacts, UndoMove(p, a)
      PROVE  Recent'
  BY <1>13 DEF Recent, RecentOf, JournalOf, Uncommitted, Running, UndoMove, MovesToUndo
<1>14. ASSUME NEW p \in Callers, NEW a \in Artifacts, UndoRefused(p, a)
      PROVE  Recent'
  BY <1>14 DEF Recent, RecentOf, JournalOf, Uncommitted, Running, UndoRefused, MovesToUndo
<1>15. ASSUME NEW p \in Callers, UndoEnds(p)
      PROVE  Recent'
  BY <1>15 DEF Recent, RecentOf, JournalOf, Uncommitted, Running, UndoEnds, Goes, MovesToUndo,
     Apart, ApartOf
<1>16. ASSUME NEW p \in Callers, CommitEnds(p)
      PROVE  Recent'
  BY <1>16 DEF Recent, RecentOf, JournalOf, Uncommitted, Running, CommitEnds, Goes, Ends,
     CloseTxn, CloseInMemory, Fault
<1>17. ASSUME NEW p \in Callers, Returns(p)
      PROVE  Recent'
  BY <1>17 DEF Recent, RecentOf, JournalOf, Uncommitted, Running, Returns, Goes
<1>18. ASSUME NEW p \in Callers, Rollback(p)
      PROVE  Recent'
  BY <1>18 DEF Recent, RecentOf, JournalOf, Uncommitted, Running, Rollback, Goes, Ends, CloseTxn,
     CloseInMemory, Fault
<1>19. ASSUME NEW p \in Callers, NEW a \in Artifacts, BeginRemove(p, a)
      PROVE  Recent'
  BY <1>19 DEF Recent, RecentOf, JournalOf, Uncommitted, Running, BeginRemove, Begins, Goes
<1>20. ASSUME NEW p \in Callers, NEW a \in Artifacts, RemoveReads(p, a)
      PROVE  Recent'
  BY <1>20 DEF Recent, RecentOf, JournalOf, Uncommitted, Running, RemoveReads, Goes
<1>21. ASSUME NEW p \in Callers, NEW a \in Artifacts, RemoveRefused(p, a)
      PROVE  Recent'
  BY <1>21 DEF Recent, RecentOf, JournalOf, Uncommitted, Running, RemoveRefused, Goes
<1>22. ASSUME NEW p \in Callers, RemoveHides(p)
      PROVE  Recent'
  BY <1>22 DEF Recent, RecentOf, JournalOf, Uncommitted, Running, RemoveHides, Goes
<1>23. ASSUME NEW p \in Callers, RemoveClears(p)
      PROVE  Recent'
  BY <1>23 DEF Recent, RecentOf, JournalOf, Uncommitted, Running, RemoveClears, Goes
<1>24. ASSUME NEW p \in Callers, RemoveWrites(p)
      PROVE  Recent'
  BY <1>24 DEF Recent, RecentOf, JournalOf, Uncommitted, Running, RemoveWrites, Goes
<1>25. ASSUME NEW p \in Callers, RemovePublishes(p)
      PROVE  Recent'
  BY <1>25, EnvironmentParts DEF Recent, RecentOf, JournalOf, Uncommitted, Running,
     RemovePublishes, Goes, Publishes, Current, CurrentOf
<1>26. ASSUME NEW p \in Callers, RemoveConflicts(p)
      PROVE  Recent'
  BY <1>26 DEF Recent, RecentOf, JournalOf, Uncommitted, Running, RemoveConflicts, Goes
<1>27. ASSUME NEW p \in Callers, RemoveFails(p)
      PROVE  Recent'
  BY <1>27 DEF Recent, RecentOf, JournalOf, Uncommitted, Running, RemoveFails, Goes, Fault
<1>28. ASSUME NEW p \in Callers, RemoveRestores(p)
      PROVE  Recent'
  BY <1>28 DEF Recent, RecentOf, JournalOf, Uncommitted, Running, RemoveRestores, Goes
<1>29. ASSUME NEW p \in Callers, RestoreRefused(p)
      PROVE  Recent'
  BY <1>29 DEF Recent, RecentOf, JournalOf, Uncommitted, Running, RestoreRefused, Goes, Fault
<1>30. ASSUME NEW p \in Callers, RemoveErases(p)
      PROVE  Recent'
  BY <1>30 DEF Recent, RecentOf, JournalOf, Uncommitted, Running, RemoveErases, Goes, Fault
<1>31. ASSUME Crash
      PROVE  Recent'
  BY <1>31 DEF Recent, RecentOf, JournalOf, Uncommitted, Running, Crash, Idle
<1>32. ASSUME NEW t \in Txns, NEW a \in Artifacts, RecoverUndoes(t, a)
      PROVE  Recent'
  BY <1>32 DEF Recent, RecentOf, JournalOf, Uncommitted, Running, RecoverUndoes, Recovering
<1>33. ASSUME NEW t \in Txns, RecoverRefuses(t)
      PROVE  Recent'
  BY <1>33, EnvironmentParts DEF Recent, RecentOf, JournalOf, Uncommitted, Running,
     RecoverRefuses, Recovering
<1>34. ASSUME NEW t \in Txns, RecoverForgets(t)
      PROVE  Recent'
  BY <1>34 DEF Recent, RecentOf, JournalOf, Uncommitted, Running, RecoverForgets, Recovering,
     CloseTxn
<1>35. ASSUME Serves
      PROVE  Recent'
  BY <1>35 DEF Recent, RecentOf, JournalOf, Uncommitted, Running, Serves
<1>36. CASE UNCHANGED vars
  BY <1>36 DEF Recent, RecentOf, JournalOf, Uncommitted, Running, vars, locals
<1>37. QED
  BY <1>1, <1>2, <1>3, <1>4, <1>5, <1>6, <1>7, <1>8, <1>9, <1>10, <1>11, <1>12, <1>13,
     <1>14, <1>15, <1>16, <1>17, <1>18, <1>19, <1>20, <1>21, <1>22, <1>23, <1>24,
     <1>25, <1>26, <1>27, <1>28, <1>29, <1>30, <1>31, <1>32, <1>33, <1>34, <1>35, <1>36
     DEF Next, InstallStep, RemoveStep, RecoverStep

\* A journal left behind never keeps the application from starting, when requests
\* come one at a time and the disk deletes what it is told to
\* (install.go:71-73, transaction_recovery.go:63-86).
THEOREM RecoveryAlwaysServes ==
    ASSUME OneByOne, ~Sticky
    PROVE  Spec => []RecoveryServes
<1>1. Init => Recent
  BY DEF Init, Recent, RecentOf
<1>2. IInv /\ Alone /\ Recent /\ [Next]_vars => Recent'
  BY RecentStep DEF IInv, Alone
<1>3. Recent => RecoveryServes
  BY DEF Recent, RecoveryServes
<1>4. QED
  BY AloneInvariance, <1>1, <1>2, <1>3, PTL DEF Spec
=============================================================================
