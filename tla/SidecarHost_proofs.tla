------------------------- MODULE SidecarHost_proofs -------------------------
(***************************************************************************)
(* Proofs about SidecarHost, for any units, callers, declarations and      *)
(* number of crashes unless a theorem names what it assumes:               *)
(*                                                                         *)
(*   - any callers, whatever the units, the disk and the host do: types,   *)
(*     one attempt at a time, a stop forgets only what has ended;          *)
(*   - any callers of a host that is not restarted: one settled unit       *)
(*     answers, and if none goes deaf and lives on, no unit is lost;       *)
(*   - one caller, whatever the units, the disk and the host do: a start   *)
(*     answers with what was declared;                                     *)
(*   - one caller of units that end by a signal and a disk that writes,    *)
(*     over any number of crashes: what is held is on disk, and the next   *)
(*     run finds what the last one left.                                   *)
(*                                                                         *)
(* With a second caller the third and the fourth fail (README,             *)
(* Disagreements): the code answers with a hold it did not look at, and    *)
(* a watcher or a dropped unit's start removes another generation's record. *)
(***************************************************************************)
EXTENDS SidecarHost, TLAPS

-----------------------------------------------------------------------------
\* Any callers.

\* Where a caller holds a unit, and where it holds none.
Holding == {"probe", "drop", "dropped", "unrecord", "end", "ending", "awaitGone",
            "dial", "greet", "ungreeted", "await", "awaitExit", "remember", "hold"}
Free == {"idle", "enter", "pend", "joined", "adopt", "spawn", "finish", "stop",
         "retake", "recorded"}
\* Where only a start gets, and only a stop or a shutdown.
StartOnly == {"enter", "probe", "drop", "dropped", "unrecord", "pend", "joined",
              "awaitGone", "spawn", "await", "awaitExit", "remember", "hold", "finish"}
StopOnly == {"stop", "retake", "stopped", "recorded"}

\* A caller's place says whether it holds a unit and what it was called for.
Places ==
    \A p \in Callers :
        /\ pc[p] \in Holding => mine[p] # NoHold
        /\ pc[p] \in Free => mine[p] = NoHold
        /\ pc[p] \in StartOnly => call[p] = "start"
        /\ pc[p] \in StopOnly => call[p] # "start"

\* A process nobody started is known to nobody.
Started ==
    /\ \A u \in Units :
        proc[u] = "unborn" => watch[u] = "none" /\ ~said[u] /\ ~signalled[u]
    /\ record # NoUnit => proc[record] # "unborn"
    /\ open # NoHold => proc[open.unit] # "unborn"
    /\ \A p \in Callers : /\ mine[p] # NoHold => proc[mine[p].unit] # "unborn"
                          /\ answer[p] \in Units => proc[answer[p]] # "unborn"

\* A watcher that let go saw the exit, and so did a stop that goes on to forget.
Ended ==
    /\ \A u \in Units : watch[u] \in {"unheld", "gone"} => proc[u] = "dead"
    /\ StopEndsFirst

HostInv == TypeOK /\ Places /\ Started /\ Ended

\* The pending map names the one caller that searches or spawns.
Attempting(p) ==
    \/ pc[p] \in {"awaitGone", "spawn", "await", "awaitExit", "remember", "hold",
                  "finish"}
    \/ pc[p] \in {"adopt", "dial", "greet", "ungreeted"} /\ call[p] = "start"

OneAttempt == \A p \in Callers : Attempting(p) <=> attempt = p

\* Every operation keeps the variables' types; that a caller holds a unit where it
\* answers with one is Places.
LEMMA TypeStep ==
    ASSUME HostInv, [Next]_vars
    PROVE  TypeOK'
<1>1. ASSUME NEW p \in Callers,
            Retake(p)
     PROVE  TypeOK'
  <2>1. CASE open = NoHold
    BY <1>1, <2>1 DEF HostInv, TypeOK, Answers, Retake, Returns, GoesWith, Goes,
      Stopped, processes, locals
  <2>2. CASE open # NoHold
    BY <1>1, <2>2 DEF HostInv, TypeOK, Retake, GoesWith, Goes, processes, locals
  <2>3. QED
    BY <2>1, <2>2
<1>2. ASSUME NEW p \in Callers, NEW what \in Calls, NEW d \in Decls,
            Begin(p, what, d)
     PROVE  TypeOK'
  BY <1>2, SidecarAssumption
  DEF HostInv, TypeOK, Places, Holding, Holds, NoHold, Answers, Begin, processes
<1>3. ASSUME Crash
     PROVE  TypeOK'
  BY <1>3, SidecarAssumption
  DEF HostInv, TypeOK, Places, Holding, Holds, NoHold, Answers, Crash, processes
<1>4. ASSUME NEW u \in Units,
            Announces(u)
     PROVE  TypeOK'
  BY <1>4
  DEF HostInv, TypeOK, Places, Holding, Holds, NoHold, Answers, Announces, locals
<1>5. ASSUME NEW u \in Units,
            Mutes(u)
     PROVE  TypeOK'
  BY <1>5
  DEF HostInv, TypeOK, Places, Holding, Holds, NoHold, Answers, Mutes, locals
<1>6. ASSUME NEW u \in Units,
            Deafens(u)
     PROVE  TypeOK'
  BY <1>6
  DEF HostInv, TypeOK, Places, Holding, Holds, NoHold, Answers, Deafens, locals
<1>7. ASSUME NEW u \in Units,
            Dies(u)
     PROVE  TypeOK'
  BY <1>7
  DEF HostInv, TypeOK, Places, Holding, Holds, NoHold, Answers, Dies, locals
<1>8. ASSUME NEW u \in Units,
            WatcherUnholds(u)
     PROVE  TypeOK'
  BY <1>8
  DEF HostInv, TypeOK, Places, Holding, Holds, NoHold, Answers, WatcherUnholds,
      OpenWithout, processes, locals
<1>9. ASSUME NEW u \in Units,
            WatcherForgets(u)
     PROVE  TypeOK'
  BY <1>9
  DEF HostInv, TypeOK, Places, Holding, Holds, NoHold, Answers, WatcherForgets,
      processes, locals
<1>10. ASSUME NEW p \in Callers,
            OpenStands(p)
     PROVE  TypeOK'
  BY <1>10
  DEF HostInv, TypeOK, Places, Holding, Holds, NoHold, Answers, OpenStands, Returns,
      processes, locals, GoesWith, Goes
<1>11. ASSUME NEW p \in Callers,
            OpenConflicts(p)
     PROVE  TypeOK'
  BY <1>11
  DEF HostInv, TypeOK, Places, Holding, Holds, NoHold, Answers, OpenConflicts, Returns,
      processes, locals, GoesWith, Goes
<1>12. ASSUME NEW p \in Callers,
            OpenYields(p)
     PROVE  TypeOK'
  BY <1>12
  DEF HostInv, TypeOK, Places, Holding, Holds, NoHold, Answers, OpenYields, GoesWith,
      processes, locals, Goes
<1>13. ASSUME NEW p \in Callers,
            Unrecord(p)
     PROVE  TypeOK'
  BY <1>13
  DEF HostInv, TypeOK, Places, Holding, Holds, NoHold, Answers, Unrecord, Goes,
      processes, locals
<1>14. ASSUME NEW p \in Callers,
            OpenMatches(p)
     PROVE  TypeOK'
  BY <1>14
  DEF HostInv, TypeOK, Places, Holding, Holds, NoHold, Answers, OpenMatches, GoesWith,
      processes, locals, Goes
<1>15. ASSUME NEW p \in Callers,
            ProbeAnswers(p)
     PROVE  TypeOK'
  BY <1>15
  DEF HostInv, TypeOK, Places, Holding, Holds, NoHold, Answers, ProbeAnswers, Returns,
      processes, locals, GoesWith, Goes
<1>16. ASSUME NEW p \in Callers,
            ProbeFails(p)
     PROVE  TypeOK'
  BY <1>16
  DEF HostInv, TypeOK, Places, Holding, Holds, NoHold, Answers, ProbeFails, Goes,
      processes, locals
<1>17. ASSUME NEW p \in Callers,
            Drop(p)
     PROVE  TypeOK'
  BY <1>17
  DEF HostInv, TypeOK, Places, Holding, Holds, NoHold, Answers, Drop, Goes,
      OpenWithout, processes, locals
<1>18. ASSUME NEW p \in Callers,
            DropForgets(p)
     PROVE  TypeOK'
  BY <1>18
  DEF HostInv, TypeOK, Places, Holding, Holds, NoHold, Answers, DropForgets, GoesWith,
      processes, locals, Goes
<1>19. ASSUME NEW p \in Callers,
            BecomesAttempt(p)
     PROVE  TypeOK'
  BY <1>19
  DEF HostInv, TypeOK, Places, Holding, Holds, NoHold, Answers, BecomesAttempt, Goes,
      processes, locals
<1>20. ASSUME NEW p \in Callers,
            JoinsAttempt(p)
     PROVE  TypeOK'
  BY <1>20
  DEF HostInv, TypeOK, Places, Holding, Holds, NoHold, Answers, JoinsAttempt, Goes,
      processes, locals
<1>21. ASSUME NEW p \in Callers,
            PendingConflicts(p)
     PROVE  TypeOK'
  BY <1>21
  DEF HostInv, TypeOK, Places, Holding, Holds, NoHold, Answers, PendingConflicts,
      Returns, processes, locals, GoesWith, Goes
<1>22. ASSUME NEW p \in Callers,
            FinishStart(p)
     PROVE  TypeOK'
  BY <1>22
  DEF HostInv, TypeOK, Places, Holding, Holds, NoHold, Answers, FinishStart, processes,
      locals
<1>23. ASSUME NEW p \in Callers,
            SpawnFails(p)
     PROVE  TypeOK'
  BY <1>23
  DEF HostInv, TypeOK, Places, Holding, Holds, NoHold, Answers, SpawnFails, Resolves,
      processes, locals, GoesWith, Goes
<1>24. ASSUME NEW p \in Callers,
            AwaitAnnounced(p)
     PROVE  TypeOK'
  BY <1>24
  DEF HostInv, TypeOK, Places, Holding, Holds, NoHold, Answers, AwaitAnnounced, Goes,
      processes, locals
<1>25. ASSUME NEW p \in Callers,
            AwaitSilent(p)
     PROVE  TypeOK'
  BY <1>25
  DEF HostInv, TypeOK, Places, Holding, Holds, NoHold, Answers, AwaitSilent, Resolves,
      EndSilent, locals, GoesWith, Kill, Goes
<1>26. ASSUME NEW p \in Callers,
            AwaitEOF(p)
     PROVE  TypeOK'
  BY <1>26
  DEF HostInv, TypeOK, Places, Holding, Holds, NoHold, Answers, AwaitEOF, Goes,
      processes, locals
<1>27. ASSUME NEW p \in Callers,
            AwaitExit(p)
     PROVE  TypeOK'
  BY <1>27
  DEF HostInv, TypeOK, Places, Holding, Holds, NoHold, Answers, AwaitExit, Resolves,
      processes, locals, GoesWith, Goes
<1>28. ASSUME NEW p \in Callers,
            TakesHold(p)
     PROVE  TypeOK'
  BY <1>28
  DEF HostInv, TypeOK, Places, Holding, Holds, NoHold, Answers, TakesHold, Resolves,
      processes, locals, GoesWith, Goes
<1>29. ASSUME NEW p \in Callers,
            LosesRace(p)
     PROVE  TypeOK'
  BY <1>29
  DEF HostInv, TypeOK, Places, Holding, Holds, NoHold, Answers, LosesRace, Resolves,
      EndLoser, locals, GoesWith, Kill, Goes
<1>30. ASSUME NEW p \in Callers,
            AdoptNoRecord(p)
     PROVE  TypeOK'
  BY <1>30
  DEF HostInv, TypeOK, Places, Holding, Holds, NoHold, Answers, AdoptNoRecord,
      AdoptMisses, processes, locals, GoesWith, Goes
<1>31. ASSUME NEW p \in Callers,
            AdoptConflicts(p)
     PROVE  TypeOK'
  BY <1>31
  DEF HostInv, TypeOK, Places, Holding, Holds, NoHold, Answers, AdoptConflicts,
      Resolves, processes, locals, GoesWith, Goes
<1>32. ASSUME NEW p \in Callers,
            AdoptSupersedes(p)
     PROVE  TypeOK'
  BY <1>32
  DEF HostInv, TypeOK, Places, Holding, Holds, NoHold, Answers, AdoptSupersedes,
      GoesWith, Terminate, locals, Goes
<1>33. ASSUME NEW p \in Callers,
            AwaitGone(p)
     PROVE  TypeOK'
  BY <1>33
  DEF HostInv, TypeOK, Places, Holding, Holds, NoHold, Answers, AwaitGone, GoesWith,
      processes, locals, Goes
<1>34. ASSUME NEW p \in Callers,
            AdoptReads(p)
     PROVE  TypeOK'
  BY <1>34
  DEF HostInv, TypeOK, Places, Holding, Holds, NoHold, Answers, AdoptReads, GoesWith,
      RecordRead, processes, locals, Goes
<1>35. ASSUME NEW p \in Callers,
            DialFails(p)
     PROVE  TypeOK'
  BY <1>35
  DEF HostInv, TypeOK, Places, Holding, Holds, NoHold, Answers, DialFails, AdoptMisses,
      processes, locals, GoesWith, Goes
<1>36. ASSUME NEW p \in Callers,
            DialFindsOpen(p)
     PROVE  TypeOK'
  BY <1>36, SMTT(30)
  DEF HostInv, TypeOK, Places, Holding, Holds, NoHold, Answers, DialFindsOpen,
      AdoptFinds, processes, locals, GoesWith, Resolves, Goes
<1>37. ASSUME NEW p \in Callers,
            DialHolds(p)
     PROVE  TypeOK'
  BY <1>37
  DEF HostInv, TypeOK, Places, Holding, Holds, NoHold, Answers, DialHolds, Goes,
      processes, locals
<1>38. ASSUME NEW p \in Callers,
            GreetAnswers(p)
     PROVE  TypeOK'
  BY <1>38, SMTT(30)
  DEF HostInv, TypeOK, Places, Holding, Holds, NoHold, Answers, GreetAnswers,
      AdoptFinds, processes, locals, GoesWith, Resolves, Goes
<1>39. ASSUME NEW p \in Callers,
            GreetFails(p)
     PROVE  TypeOK'
  BY <1>39
  DEF HostInv, TypeOK, Places, Holding, Holds, NoHold, Answers, GreetFails, Goes,
      OpenWithout, processes, locals
<1>40. ASSUME NEW p \in Callers,
            Ungreeted(p)
     PROVE  TypeOK'
  BY <1>40
  DEF HostInv, TypeOK, Places, Holding, Holds, NoHold, Answers, Ungreeted, AdoptMisses,
      processes, locals, GoesWith, Goes
<1>41. ASSUME NEW p \in Callers,
            StopTakes(p)
     PROVE  TypeOK'
  BY <1>41
  DEF HostInv, TypeOK, Places, Holding, Holds, NoHold, Answers, StopTakes, GoesWith,
      processes, locals, Goes
<1>42. ASSUME NEW p \in Callers,
            StopFindsNothing(p)
     PROVE  TypeOK'
  BY <1>42
  DEF HostInv, TypeOK, Places, Holding, Holds, NoHold, Answers, StopFindsNothing, Goes,
      processes, locals
<1>43. ASSUME NEW p \in Callers,
            EndSignals(p)
     PROVE  TypeOK'
  BY <1>43
  DEF HostInv, TypeOK, Places, Holding, Holds, NoHold, Answers, EndSignals, Goes, Kill,
      Terminate, locals
<1>44. ASSUME NEW p \in Callers,
            EndObserved(p)
     PROVE  TypeOK'
  BY <1>44, SMTT(30)
  DEF HostInv, TypeOK, Places, Holding, Holds, NoHold, Answers, EndObserved, GoesWith,
      processes, locals, Goes
<1>45. ASSUME NEW p \in Callers,
            EndTimesOut(p)
     PROVE  TypeOK'
  BY <1>45
  DEF HostInv, TypeOK, Places, Holding, Holds, NoHold, Answers, EndTimesOut, GoesWith,
      Returns, processes, locals, Goes
<1>46. ASSUME NEW p \in Callers,
            StopForgets(p)
     PROVE  TypeOK'
  BY <1>46
  DEF HostInv, TypeOK, Places, Holding, Holds, NoHold, Answers, StopForgets, GoesWith,
      Returns, Stopped, processes, locals, Goes
<1>47. ASSUME NEW p \in Callers,
            ShutdownReads(p)
     PROVE  TypeOK'
  BY <1>47
  DEF HostInv, TypeOK, Places, Holding, Holds, NoHold, Answers, ShutdownReads, Goes,
      processes
<1>48. ASSUME NEW p \in Callers,
            ShutdownDone(p)
     PROVE  TypeOK'
  BY <1>48
  DEF HostInv, TypeOK, Places, Holding, Holds, NoHold, Answers, ShutdownDone, Returns,
      processes, locals, GoesWith, Goes
<1>49. ASSUME NEW p \in Callers, NEW u \in Units,
            Spawn(p, u)
     PROVE  TypeOK'
  BY <1>49
  DEF HostInv, TypeOK, Places, Holding, Holds, NoHold, Answers, Spawn, GoesWith,
      locals, Goes
<1>50. ASSUME NEW p \in Callers, NEW written \in BOOLEAN,
            Remember(p, written)
     PROVE  TypeOK'
  BY <1>50
  DEF HostInv, TypeOK, Places, Holding, Holds, NoHold, Answers, Remember, Goes,
      processes, locals
<1>51. CASE UNCHANGED vars
  BY <1>51 DEF HostInv, TypeOK, Places, Holding, Holds, NoHold, Answers, vars, processes,
      locals
<1>52. QED
  BY <1>1, <1>2, <1>3, <1>4, <1>5, <1>6, <1>7, <1>8, <1>9, <1>10, <1>11, <1>12,
     <1>13, <1>14, <1>15, <1>16, <1>17, <1>18, <1>19, <1>20, <1>21, <1>22, <1>23,
     <1>24, <1>25, <1>26, <1>27, <1>28, <1>29, <1>30, <1>31, <1>32, <1>33, <1>34,
     <1>35, <1>36, <1>37, <1>38, <1>39, <1>40, <1>41, <1>42, <1>43, <1>44, <1>45,
     <1>46, <1>47, <1>48, <1>49, <1>50, <1>51
  DEF Next, UnitStep, WatcherStep, CallerStep, StartStep, AdoptStep, StopStep

\* Holds are taken and handed on with the step that needs them.
LEMMA PlacesStep ==
    ASSUME HostInv, [Next]_vars
    PROVE  Places'
<1>1. ASSUME NEW p \in Callers, NEW u \in Units,
            Spawn(p, u)
     PROVE  Places'
  BY <1>1, SidecarAssumption
  DEF HostInv, TypeOK, Places, Holding, Free, StartOnly, StopOnly, NoHold, Spawn,
      GoesWith, locals, Goes
<1>2. ASSUME NEW p \in Callers,
            AdoptSupersedes(p)
     PROVE  Places'
  BY <1>2, SidecarAssumption
  DEF HostInv, TypeOK, Places, Holding, Free, StartOnly, StopOnly, NoHold,
      AdoptSupersedes, GoesWith, Terminate, locals, Goes
<1>3. ASSUME NEW p \in Callers,
            AdoptReads(p)
     PROVE  Places'
  BY <1>3, SidecarAssumption
  DEF HostInv, TypeOK, Places, Holding, Free, StartOnly, StopOnly, NoHold, AdoptReads,
      GoesWith, RecordRead, processes, locals, Goes
<1>4. ASSUME NEW u \in Units,
            \/ Announces(u) \/ Mutes(u) \/ Deafens(u) \/ Dies(u)
     PROVE  Places'
  BY <1>4
  DEF HostInv, TypeOK, Places, Holding, Free, StartOnly, StopOnly, Announces, locals,
      Mutes, Deafens, Dies
<1>5. ASSUME NEW u \in Units,
            \/ WatcherUnholds(u) \/ WatcherForgets(u)
     PROVE  Places'
  BY <1>5
  DEF HostInv, TypeOK, Places, Holding, Free, StartOnly, StopOnly, WatcherUnholds,
      OpenWithout, processes, locals, WatcherForgets
<1>6. ASSUME NEW p \in Callers,
            \/ OpenStands(p) \/ OpenConflicts(p) \/ OpenYields(p) \/ Unrecord(p)
     PROVE  Places'
  BY <1>6
  DEF HostInv, TypeOK, Places, Holding, Free, StartOnly, StopOnly, OpenStands, Returns,
      processes, locals, GoesWith, Goes, OpenConflicts, OpenYields, Unrecord
<1>7. ASSUME NEW p \in Callers,
            \/ OpenMatches(p) \/ ProbeAnswers(p) \/ ProbeFails(p) \/ Drop(p)
     PROVE  Places'
  BY <1>7
  DEF HostInv, TypeOK, Places, Holding, Free, StartOnly, StopOnly, OpenMatches,
      GoesWith, processes, locals, Goes, ProbeAnswers, Returns, ProbeFails, Drop,
      OpenWithout
<1>8. ASSUME NEW p \in Callers,
            \/ DropForgets(p) \/ BecomesAttempt(p) \/ JoinsAttempt(p)
            \/ PendingConflicts(p)
     PROVE  Places'
  BY <1>8
  DEF HostInv, TypeOK, Places, Holding, Free, StartOnly, StopOnly, DropForgets,
      GoesWith, processes, locals, Goes, BecomesAttempt, ReachesPending,
      JoinsAttempt, PendingConflicts, Returns
<1>9. ASSUME NEW p \in Callers,
            \/ FinishStart(p) \/ SpawnFails(p) \/ AwaitAnnounced(p)
            \/ AwaitSilent(p)
     PROVE  Places'
  BY <1>9
  DEF HostInv, TypeOK, Places, Holding, Free, StartOnly, StopOnly, FinishStart, Shares,
      Released, processes, locals, SpawnFails, Resolves, GoesWith, Goes,
      AwaitAnnounced, AwaitSilent, EndSilent, Kill
<1>10. ASSUME NEW p \in Callers,
            \/ AwaitEOF(p) \/ AwaitExit(p) \/ TakesHold(p) \/ LosesRace(p)
     PROVE  Places'
  BY <1>10
  DEF HostInv, TypeOK, Places, Holding, Free, StartOnly, StopOnly, AwaitEOF, Goes,
      processes, locals, AwaitExit, Resolves, GoesWith, TakesHold, LosesRace,
      EndLoser, Kill
<1>11. ASSUME NEW p \in Callers,
            \/ AdoptNoRecord(p) \/ AdoptConflicts(p) \/ AwaitGone(p)
            \/ DialFails(p)
     PROVE  Places'
  BY <1>11
  DEF HostInv, TypeOK, Places, Holding, Free, StartOnly, StopOnly, AdoptNoRecord,
      AdoptMisses, processes, locals, GoesWith, Goes, AdoptConflicts, Resolves,
      AwaitGone, DialFails
<1>12. ASSUME NEW p \in Callers,
            \/ DialFindsOpen(p) \/ DialHolds(p) \/ GreetAnswers(p)
            \/ GreetFails(p)
     PROVE  Places'
  BY <1>12
  DEF HostInv, TypeOK, Places, Holding, Free, StartOnly, StopOnly, DialFindsOpen,
      AdoptFinds, processes, locals, GoesWith, Resolves, Goes, DialHolds,
      GreetAnswers, GreetFails, OpenWithout
<1>13. ASSUME NEW p \in Callers,
            \/ Ungreeted(p) \/ StopTakes(p) \/ StopFindsNothing(p) \/ Retake(p)
     PROVE  Places'
  BY <1>13
  DEF HostInv, TypeOK, Places, Holding, Free, StartOnly, StopOnly, Ungreeted,
      AdoptMisses, processes, locals, GoesWith, Goes, StopTakes, StopFindsNothing,
      Retake, Returns, Stopped
<1>14. ASSUME NEW p \in Callers,
            \/ EndSignals(p) \/ EndObserved(p) \/ EndTimesOut(p) \/ StopForgets(p)
     PROVE  Places'
  BY <1>14
  DEF HostInv, TypeOK, Places, Holding, Free, StartOnly, StopOnly, EndSignals, Goes,
      Kill, Terminate, locals, EndObserved, GoesWith, processes, EndTimesOut,
      Returns, StopForgets, Stopped
<1>15. ASSUME NEW p \in Callers,
            \/ ShutdownReads(p) \/ ShutdownDone(p)
     PROVE  Places'
  BY <1>15
  DEF HostInv, TypeOK, Places, Holding, Free, StartOnly, StopOnly, ShutdownReads, Goes,
      processes, ShutdownDone, Returns, locals, GoesWith
<1>16. ASSUME NEW p \in Callers, NEW written \in BOOLEAN,
            Remember(p, written)
     PROVE  Places'
  BY <1>16
  DEF HostInv, TypeOK, Places, Holding, Free, StartOnly, StopOnly, Remember, Goes,
      processes, locals
<1>17. ASSUME NEW p \in Callers, NEW what \in Calls, NEW d \in Decls,
            Begin(p, what, d)
     PROVE  Places'
  BY <1>17
  DEF HostInv, TypeOK, Places, Holding, Free, StartOnly, StopOnly, Begin, processes
<1>18. ASSUME Crash
     PROVE  Places'
  BY <1>18
  DEF HostInv, TypeOK, Places, Holding, Free, StartOnly, StopOnly, Crash, processes
<1>19. CASE UNCHANGED vars
  BY <1>19 DEF HostInv, TypeOK, Places, Holding, Free, StartOnly, StopOnly, vars, processes,
      locals
<1>20. QED
  BY <1>1, <1>2, <1>3, <1>4, <1>5, <1>6, <1>7, <1>8, <1>9, <1>10, <1>11, <1>12,
     <1>13, <1>14, <1>15, <1>16, <1>17, <1>18, <1>19
  DEF Next, UnitStep, WatcherStep, CallerStep, StartStep, AdoptStep, StopStep

\* Only a spawn makes a unit known, and it starts it.
LEMMA StartedStep ==
    ASSUME HostInv, [Next]_vars
    PROVE  Started'
<1>1. ASSUME NEW p \in Callers,
            OpenConflicts(p)
     PROVE  Started'
  BY <1>1, SidecarAssumption, ZenonT(40)
  DEF HostInv, TypeOK, Places, Started, Holding, Free, Holds, NoHold, OpenConflicts,
      Returns, processes, locals, GoesWith, Goes
<1>2. ASSUME NEW p \in Callers,
            PendingConflicts(p)
     PROVE  Started'
  BY <1>2, SidecarAssumption
  DEF HostInv, TypeOK, Places, Started, Holding, Free, Holds, NoHold, PendingConflicts,
      Returns, ReachesPending, processes, locals, GoesWith, Goes
<1>3. ASSUME NEW p \in Callers,
            SpawnFails(p)
     PROVE  Started'
  BY <1>3, SidecarAssumption
  DEF HostInv, TypeOK, Places, Started, Holding, Free, Holds, NoHold, SpawnFails,
      Resolves, processes, locals, GoesWith, Goes
<1>4. ASSUME NEW p \in Callers,
            AwaitExit(p)
     PROVE  Started'
  BY <1>4, SidecarAssumption
  DEF HostInv, TypeOK, Places, Started, Holding, Free, Holds, NoHold, AwaitExit,
      Resolves, processes, locals, GoesWith, Goes
<1>5. ASSUME NEW p \in Callers,
            AdoptConflicts(p)
     PROVE  Started'
  BY <1>5, SidecarAssumption
  DEF HostInv, TypeOK, Places, Started, Holding, Free, Holds, NoHold, AdoptConflicts,
      Resolves, processes, locals, GoesWith, Goes
<1>6. ASSUME NEW p \in Callers,
            ShutdownDone(p)
     PROVE  Started'
  BY <1>6, SidecarAssumption
  DEF HostInv, TypeOK, Places, Started, Holding, Free, Holds, NoHold, ShutdownDone,
      Returns, processes, locals, GoesWith, Alive, Goes
<1>7. ASSUME NEW p \in Callers, NEW what \in Calls, NEW d \in Decls,
            Begin(p, what, d)
     PROVE  Started'
  BY <1>7, SidecarAssumption
  DEF HostInv, TypeOK, Places, Started, Holding, Free, Holds, NoHold, Begin, processes
<1>8. ASSUME Crash
     PROVE  Started'
  BY <1>8, SidecarAssumption
  DEF HostInv, TypeOK, Places, Started, Holding, Free, Holds, NoHold, Crash, processes
<1>9. ASSUME NEW p \in Callers,
            Retake(p)
     PROVE  Started'
  <2>1. CASE open = NoHold
    BY <1>9, <2>1, SidecarAssumption DEF HostInv, TypeOK, Started, Holds, Retake, GoesWith, Returns, Stopped, processes,
      locals, Goes
  <2>2. CASE open # NoHold
    BY <1>9, <2>2, SidecarAssumption DEF HostInv, TypeOK, Started, Holds, Retake, GoesWith, Returns, Stopped, processes,
      locals, Goes
  <2>3. QED
    BY <2>1, <2>2
<1>10. ASSUME NEW p \in Callers,
            EndTimesOut(p)
     PROVE  Started'
  <2>1. CASE call[p] = "shutdown"
    BY <1>10, <2>1, SidecarAssumption DEF HostInv, TypeOK, Started, Holds, EndTimesOut, GoesWith, Returns, processes,
      locals, Goes
  <2>2. CASE call[p] # "shutdown"
    BY <1>10, <2>2, SidecarAssumption DEF HostInv, TypeOK, Started, Holds, EndTimesOut, GoesWith, Returns, processes,
      locals, Goes
  <2>3. QED
    BY <2>1, <2>2
<1>11. ASSUME NEW p \in Callers,
            StopForgets(p)
     PROVE  Started'
  <2>1. CASE call[p] = "shutdown"
    BY <1>11, <2>1, SidecarAssumption DEF HostInv, TypeOK, Started, Holds, StopForgets, GoesWith, Returns, Stopped,
      processes, locals, Goes
  <2>2. CASE call[p] # "shutdown"
    BY <1>11, <2>2, SidecarAssumption DEF HostInv, TypeOK, Started, Holds, StopForgets, GoesWith, Returns, Stopped,
      processes, locals, Goes
  <2>3. QED
    BY <2>1, <2>2
<1>12. ASSUME NEW p \in Callers,
            AwaitSilent(p)
     PROVE  Started'
  <2>1. \A u \in Units : proc'[u] = "unborn" =>
                           proc[u] = "unborn" /\ signalled'[u] = signalled[u]
    BY <1>12 DEF HostInv, TypeOK, AwaitSilent, EndSilent, Kill
  <2>2. \A u \in Units : proc[u] # "unborn" => proc'[u] # "unborn"
    BY <1>12 DEF HostInv, TypeOK, AwaitSilent, EndSilent, Kill
  <2>3. \A q \in Callers : /\ mine'[q] \in {mine[q], NoHold}
                            /\ answer'[q] \in {answer[q], "failed"}
    BY <1>12 DEF HostInv, TypeOK, AwaitSilent, Resolves, GoesWith, Goes
  <2>4. watch' = watch /\ said' = said /\ record' = record /\ open' = open
    BY <1>12 DEF AwaitSilent, EndSilent, Kill
  <2>5. QED
    BY <2>1, <2>2, <2>3, <2>4, SidecarAssumption
    DEF HostInv, TypeOK, Started, Holds
<1>13. ASSUME NEW p \in Callers,
            DialFindsOpen(p)
     PROVE  Started'
  <2>1. CASE call[p] = "start"
    BY <1>13, <2>1 DEF HostInv, TypeOK, Started, Holds, NoHold, DialFindsOpen,
      AdoptFinds, Resolves, GoesWith, Goes, processes, locals
  <2>2. CASE call[p] # "start"
    BY <1>13, <2>2 DEF HostInv, TypeOK, Started, Holds, NoHold, DialFindsOpen,
      AdoptFinds, GoesWith, Goes, processes, locals
  <2>3. QED
    BY <2>1, <2>2
<1>14. ASSUME NEW u \in Units,
            Announces(u)
     PROVE  Started'
  BY <1>14
  DEF HostInv, TypeOK, Places, Started, Holding, Free, Holds, NoHold, Announces,
      locals
<1>15. ASSUME NEW u \in Units,
            Mutes(u)
     PROVE  Started'
  BY <1>15
  DEF HostInv, TypeOK, Places, Started, Holding, Free, Holds, NoHold, Mutes, locals
<1>16. ASSUME NEW u \in Units,
            Deafens(u)
     PROVE  Started'
  BY <1>16
  DEF HostInv, TypeOK, Places, Started, Holding, Free, Holds, NoHold, Deafens, locals
<1>17. ASSUME NEW u \in Units,
            Dies(u)
     PROVE  Started'
  BY <1>17
  DEF HostInv, TypeOK, Places, Started, Holding, Free, Holds, NoHold, Dies, Alive,
      locals
<1>18. ASSUME NEW u \in Units,
            WatcherUnholds(u)
     PROVE  Started'
  BY <1>18
  DEF HostInv, TypeOK, Places, Started, Holding, Free, Holds, NoHold, WatcherUnholds,
      OpenWithout, processes, locals
<1>19. ASSUME NEW u \in Units,
            WatcherForgets(u)
     PROVE  Started'
  BY <1>19
  DEF HostInv, TypeOK, Places, Started, Holding, Free, Holds, NoHold, WatcherForgets,
      processes, locals
<1>20. ASSUME NEW p \in Callers,
            OpenStands(p)
     PROVE  Started'
  BY <1>20, ZenonT(40)
  DEF HostInv, TypeOK, Places, Started, Holding, Free, Holds, NoHold, OpenStands,
      Returns, processes, locals, GoesWith, Goes
<1>21. ASSUME NEW p \in Callers,
            OpenYields(p)
     PROVE  Started'
  BY <1>21, ZenonT(40)
  DEF HostInv, TypeOK, Places, Started, Holding, Free, Holds, NoHold, OpenYields,
      GoesWith, processes, locals, Goes
<1>22. ASSUME NEW p \in Callers,
            Unrecord(p)
     PROVE  Started'
  BY <1>22
  DEF HostInv, TypeOK, Places, Started, Holding, Free, Holds, NoHold, Unrecord, Goes,
      processes, locals
<1>23. ASSUME NEW p \in Callers,
            OpenMatches(p)
     PROVE  Started'
  BY <1>23
  DEF HostInv, TypeOK, Places, Started, Holding, Free, Holds, NoHold, OpenMatches,
      GoesWith, processes, locals, Goes
<1>24. ASSUME NEW p \in Callers,
            ProbeAnswers(p)
     PROVE  Started'
  BY <1>24
  DEF HostInv, TypeOK, Places, Started, Holding, Free, Holds, NoHold, ProbeAnswers,
      Returns, Listens, processes, locals, GoesWith, Goes
<1>25. ASSUME NEW p \in Callers,
            ProbeFails(p)
     PROVE  Started'
  BY <1>25
  DEF HostInv, TypeOK, Places, Started, Holding, Free, Holds, NoHold, ProbeFails, Goes,
      Listens, processes, locals
<1>26. ASSUME NEW p \in Callers,
            Drop(p)
     PROVE  Started'
  BY <1>26
  DEF HostInv, TypeOK, Places, Started, Holding, Free, Holds, NoHold, Drop, Goes,
      OpenWithout, processes, locals
<1>27. ASSUME NEW p \in Callers,
            DropForgets(p)
     PROVE  Started'
  BY <1>27
  DEF HostInv, TypeOK, Places, Started, Holding, Free, Holds, NoHold, DropForgets,
      GoesWith, processes, locals, Goes
<1>28. ASSUME NEW p \in Callers,
            BecomesAttempt(p)
     PROVE  Started'
  BY <1>28
  DEF HostInv, TypeOK, Places, Started, Holding, Free, Holds, NoHold, BecomesAttempt,
      Goes, ReachesPending, processes, locals
<1>29. ASSUME NEW p \in Callers,
            JoinsAttempt(p)
     PROVE  Started'
  BY <1>29
  DEF HostInv, TypeOK, Places, Started, Holding, Free, Holds, NoHold, JoinsAttempt,
      Goes, ReachesPending, processes, locals
<1>30. ASSUME NEW p \in Callers,
            FinishStart(p)
     PROVE  Started'
  BY <1>30
  DEF HostInv, TypeOK, Places, Started, Holding, Free, Holds, NoHold, FinishStart,
      Shares, Released, processes, locals
<1>31. ASSUME NEW p \in Callers,
            AwaitAnnounced(p)
     PROVE  Started'
  BY <1>31
  DEF HostInv, TypeOK, Places, Started, Holding, Free, Holds, NoHold, AwaitAnnounced,
      Goes, processes, locals
<1>32. ASSUME NEW p \in Callers,
            AwaitEOF(p)
     PROVE  Started'
  BY <1>32
  DEF HostInv, TypeOK, Places, Started, Holding, Free, Holds, NoHold, AwaitEOF, Goes,
      processes, locals
<1>33. ASSUME NEW p \in Callers,
            TakesHold(p)
     PROVE  Started'
  BY <1>33
  DEF HostInv, TypeOK, Places, Started, Holding, Free, Holds, NoHold, TakesHold,
      Resolves, processes, locals, GoesWith, Goes
<1>34. ASSUME NEW p \in Callers,
            LosesRace(p)
     PROVE  Started'
  BY <1>34, ZenonT(40)
  DEF HostInv, TypeOK, Places, Started, Holding, Free, Holds, NoHold, LosesRace,
      Resolves, EndLoser, locals, GoesWith, Kill, Goes
<1>35. ASSUME NEW p \in Callers,
            AdoptNoRecord(p)
     PROVE  Started'
  BY <1>35
  DEF HostInv, TypeOK, Places, Started, Holding, Free, Holds, NoHold, AdoptNoRecord,
      AdoptMisses, processes, locals, GoesWith, Goes
<1>36. ASSUME NEW p \in Callers,
            AdoptSupersedes(p)
     PROVE  Started'
  BY <1>36
  DEF HostInv, TypeOK, Places, Started, Holding, Free, Holds, NoHold, AdoptSupersedes,
      GoesWith, Terminate, locals, Goes
<1>37. ASSUME NEW p \in Callers,
            AwaitGone(p)
     PROVE  Started'
  BY <1>37
  DEF HostInv, TypeOK, Places, Started, Holding, Free, Holds, NoHold, AwaitGone,
      GoesWith, Listens, processes, locals, Goes
<1>38. ASSUME NEW p \in Callers,
            AdoptReads(p)
     PROVE  Started'
  BY <1>38
  DEF HostInv, TypeOK, Places, Started, Holding, Free, Holds, NoHold, AdoptReads,
      GoesWith, RecordRead, processes, locals, Goes
<1>39. ASSUME NEW p \in Callers,
            DialFails(p)
     PROVE  Started'
  BY <1>39
  DEF HostInv, TypeOK, Places, Started, Holding, Free, Holds, NoHold, DialFails,
      AdoptMisses, Listens, processes, locals, GoesWith, Goes
<1>40. ASSUME NEW p \in Callers,
            DialHolds(p)
     PROVE  Started'
  BY <1>40
  DEF HostInv, TypeOK, Places, Started, Holding, Free, Holds, NoHold, DialHolds, Goes,
      Listens, processes, locals
<1>41. ASSUME NEW p \in Callers,
            GreetAnswers(p)
     PROVE  Started'
  BY <1>41, ZenonT(40)
  DEF HostInv, TypeOK, Places, Started, Holding, Free, Holds, NoHold, GreetAnswers,
      AdoptFinds, Listens, processes, locals, GoesWith, Resolves, Goes
<1>42. ASSUME NEW p \in Callers,
            GreetFails(p)
     PROVE  Started'
  BY <1>42
  DEF HostInv, TypeOK, Places, Started, Holding, Free, Holds, NoHold, GreetFails, Goes,
      OpenWithout, Listens, processes, locals
<1>43. ASSUME NEW p \in Callers,
            Ungreeted(p)
     PROVE  Started'
  BY <1>43
  DEF HostInv, TypeOK, Places, Started, Holding, Free, Holds, NoHold, Ungreeted,
      AdoptMisses, processes, locals, GoesWith, Goes
<1>44. ASSUME NEW p \in Callers,
            StopTakes(p)
     PROVE  Started'
  BY <1>44
  DEF HostInv, TypeOK, Places, Started, Holding, Free, Holds, NoHold, StopTakes,
      GoesWith, processes, locals, Goes
<1>45. ASSUME NEW p \in Callers,
            StopFindsNothing(p)
     PROVE  Started'
  BY <1>45
  DEF HostInv, TypeOK, Places, Started, Holding, Free, Holds, NoHold, StopFindsNothing,
      Goes, processes, locals
<1>46. ASSUME NEW p \in Callers,
            EndSignals(p)
     PROVE  Started'
  BY <1>46
  DEF HostInv, TypeOK, Places, Started, Holding, Free, Holds, NoHold, EndSignals, Goes,
      Kill, Terminate, locals
<1>47. ASSUME NEW p \in Callers,
            EndObserved(p)
     PROVE  Started'
  BY <1>47, ZenonT(40)
  DEF HostInv, TypeOK, Places, Started, Holding, Free, Holds, NoHold, EndObserved,
      GoesWith, processes, locals, Goes
<1>48. ASSUME NEW p \in Callers,
            ShutdownReads(p)
     PROVE  Started'
  BY <1>48
  DEF HostInv, TypeOK, Places, Started, Holding, Free, Holds, NoHold, ShutdownReads,
      Goes, processes, Alive
<1>49. ASSUME NEW p \in Callers, NEW u \in Units,
            Spawn(p, u)
     PROVE  Started'
  BY <1>49, ZenonT(40)
  DEF HostInv, TypeOK, Places, Started, Holding, Free, Holds, NoHold, Spawn, GoesWith,
      locals, Goes
<1>50. ASSUME NEW p \in Callers, NEW written \in BOOLEAN,
            Remember(p, written)
     PROVE  Started'
  BY <1>50
  DEF HostInv, TypeOK, Places, Started, Holding, Free, Holds, NoHold, Remember, Goes,
      processes, locals
<1>51. CASE UNCHANGED vars
  BY <1>51 DEF HostInv, TypeOK, Places, Started, Holding, Free, Holds, NoHold, vars, processes,
      locals
<1>52. QED
  BY <1>1, <1>2, <1>3, <1>4, <1>5, <1>6, <1>7, <1>8, <1>9, <1>10, <1>11, <1>12,
     <1>13, <1>14, <1>15, <1>16, <1>17, <1>18, <1>19, <1>20, <1>21, <1>22, <1>23,
     <1>24, <1>25, <1>26, <1>27, <1>28, <1>29, <1>30, <1>31, <1>32, <1>33, <1>34,
     <1>35, <1>36, <1>37, <1>38, <1>39, <1>40, <1>41, <1>42, <1>43, <1>44, <1>45,
     <1>46, <1>47, <1>48, <1>49, <1>50, <1>51
  DEF Next, UnitStep, WatcherStep, CallerStep, StartStep, AdoptStep, StopStep

\* A process that ended stays so; a stop passes its end only once it is seen.
LEMMA EndedStep ==
    ASSUME HostInv, [Next]_vars
    PROVE  Ended'
<1>1. ASSUME NEW p \in Callers,
            DialFindsOpen(p)
     PROVE  Ended'
  <2>1. CASE call[p] = "start"
    BY <1>1, <2>1 DEF HostInv, TypeOK, Places, Ended, StopEndsFirst, Holding, Free, DialFindsOpen,
      AdoptFinds, processes, locals, GoesWith, Resolves, Goes
  <2>2. CASE call[p] # "start"
    BY <1>1, <2>2 DEF HostInv, TypeOK, Places, Ended, StopEndsFirst, Holding, Free, DialFindsOpen,
      AdoptFinds, processes, locals, GoesWith, Resolves, Goes
  <2>3. QED
    BY <2>1, <2>2
<1>2. ASSUME NEW p \in Callers,
            GreetAnswers(p)
     PROVE  Ended'
  <2>1. CASE call[p] = "start"
    BY <1>2, <2>1 DEF HostInv, TypeOK, Places, Ended, StopEndsFirst, Holding, Free, GreetAnswers,
      AdoptFinds, processes, locals, GoesWith, Resolves, Goes
  <2>2. CASE call[p] # "start"
    BY <1>2, <2>2 DEF HostInv, TypeOK, Places, Ended, StopEndsFirst, Holding, Free, GreetAnswers,
      AdoptFinds, processes, locals, GoesWith, Resolves, Goes
  <2>3. QED
    BY <2>1, <2>2
<1>3. ASSUME NEW p \in Callers,
            Retake(p)
     PROVE  Ended'
  <2>1. CASE open = NoHold
    BY <1>3, <2>1 DEF HostInv, TypeOK, Places, Ended, StopEndsFirst, Holding, Free, Retake, GoesWith,
      Returns, Stopped, processes, locals, Goes
  <2>2. CASE open # NoHold
    BY <1>3, <2>2 DEF HostInv, TypeOK, Places, Ended, StopEndsFirst, Holding, Free, Retake, GoesWith,
      Returns, Stopped, processes, locals, Goes
  <2>3. QED
    BY <2>1, <2>2
<1>4. ASSUME NEW p \in Callers,
            EndObserved(p)
     PROVE  Ended'
  <2>1. CASE call[p] = "start"
    BY <1>4, <2>1 DEF HostInv, TypeOK, Places, Ended, StopEndsFirst, Holding, Free, EndObserved,
      GoesWith, processes, locals, Goes, HasEnded, Holds
  <2>2. CASE call[p] # "start"
    BY <1>4, <2>2 DEF HostInv, TypeOK, Places, Ended, StopEndsFirst, Holding, Free, EndObserved,
      GoesWith, processes, locals, Goes, HasEnded, Holds
  <2>3. QED
    BY <2>1, <2>2
<1>5. ASSUME NEW p \in Callers,
            EndTimesOut(p)
     PROVE  Ended'
  <2>1. CASE call[p] = "shutdown"
    BY <1>5, <2>1 DEF HostInv, TypeOK, Places, Ended, StopEndsFirst, Holding, Free, EndTimesOut,
      GoesWith, Returns, processes, locals, Goes
  <2>2. CASE call[p] # "shutdown"
    BY <1>5, <2>2 DEF HostInv, TypeOK, Places, Ended, StopEndsFirst, Holding, Free, EndTimesOut,
      GoesWith, Returns, processes, locals, Goes
  <2>3. QED
    BY <2>1, <2>2
<1>6. ASSUME NEW p \in Callers,
            StopForgets(p)
     PROVE  Ended'
  <2>1. CASE call[p] = "shutdown"
    BY <1>6, <2>1 DEF HostInv, TypeOK, Places, Ended, StopEndsFirst, Holding, Free, StopForgets,
      GoesWith, Returns, Stopped, processes, locals, Goes
  <2>2. CASE call[p] # "shutdown"
    BY <1>6, <2>2 DEF HostInv, TypeOK, Places, Ended, StopEndsFirst, Holding, Free, StopForgets,
      GoesWith, Returns, Stopped, processes, locals, Goes
  <2>3. QED
    BY <2>1, <2>2
<1>7. ASSUME NEW u \in Units,
            Announces(u)
     PROVE  Ended'
  BY <1>7
  DEF HostInv, TypeOK, Places, Started, Ended, StopEndsFirst, Holding, Free, Holds,
      NoHold, Announces, locals
<1>8. ASSUME NEW u \in Units,
            Mutes(u)
     PROVE  Ended'
  BY <1>8
  DEF HostInv, TypeOK, Places, Started, Ended, StopEndsFirst, Holding, Free, Holds,
      NoHold, Mutes, locals
<1>9. ASSUME NEW u \in Units,
            Deafens(u)
     PROVE  Ended'
  BY <1>9
  DEF HostInv, TypeOK, Places, Started, Ended, StopEndsFirst, Holding, Free, Holds,
      NoHold, Deafens, locals
<1>10. ASSUME NEW u \in Units,
            Dies(u)
     PROVE  Ended'
  BY <1>10
  DEF HostInv, TypeOK, Places, Started, Ended, StopEndsFirst, Holding, Free, Holds,
      NoHold, Dies, Alive, locals
<1>11. ASSUME NEW u \in Units,
            WatcherUnholds(u)
     PROVE  Ended'
  BY <1>11
  DEF HostInv, TypeOK, Places, Started, Ended, StopEndsFirst, Holding, Free, Holds,
      NoHold, WatcherUnholds, OpenWithout, processes, locals
<1>12. ASSUME NEW u \in Units,
            WatcherForgets(u)
     PROVE  Ended'
  BY <1>12
  DEF HostInv, TypeOK, Places, Started, Ended, StopEndsFirst, Holding, Free, Holds,
      NoHold, WatcherForgets, processes, locals
<1>13. ASSUME NEW p \in Callers,
            OpenStands(p)
     PROVE  Ended'
  BY <1>13, ZenonT(40)
  DEF HostInv, TypeOK, Places, Started, Ended, StopEndsFirst, Holding, Free, Holds,
      NoHold, OpenStands, Returns, processes, locals, GoesWith, Goes
<1>14. ASSUME NEW p \in Callers,
            OpenConflicts(p)
     PROVE  Ended'
  BY <1>14, ZenonT(40)
  DEF HostInv, TypeOK, Places, Started, Ended, StopEndsFirst, Holding, Free, Holds,
      NoHold, OpenConflicts, Returns, processes, locals, GoesWith, Goes
<1>15. ASSUME NEW p \in Callers,
            OpenYields(p)
     PROVE  Ended'
  BY <1>15, ZenonT(40)
  DEF HostInv, TypeOK, Places, Started, Ended, StopEndsFirst, Holding, Free, Holds,
      NoHold, OpenYields, GoesWith, processes, locals, Goes
<1>16. ASSUME NEW p \in Callers,
            Unrecord(p)
     PROVE  Ended'
  BY <1>16
  DEF HostInv, TypeOK, Places, Started, Ended, StopEndsFirst, Holding, Free, Holds,
      NoHold, Unrecord, Goes, processes, locals
<1>17. ASSUME NEW p \in Callers,
            OpenMatches(p)
     PROVE  Ended'
  BY <1>17, ZenonT(40)
  DEF HostInv, TypeOK, Places, Started, Ended, StopEndsFirst, Holding, Free, Holds,
      NoHold, OpenMatches, GoesWith, processes, locals, Goes
<1>18. ASSUME NEW p \in Callers,
            ProbeAnswers(p)
     PROVE  Ended'
  BY <1>18
  DEF HostInv, TypeOK, Places, Started, Ended, StopEndsFirst, Holding, Free, Holds,
      NoHold, ProbeAnswers, Returns, Listens, processes, locals, GoesWith, Goes
<1>19. ASSUME NEW p \in Callers,
            ProbeFails(p)
     PROVE  Ended'
  BY <1>19
  DEF HostInv, TypeOK, Places, Started, Ended, StopEndsFirst, Holding, Free, Holds,
      NoHold, ProbeFails, Goes, Listens, processes, locals
<1>20. ASSUME NEW p \in Callers,
            Drop(p)
     PROVE  Ended'
  BY <1>20
  DEF HostInv, TypeOK, Places, Started, Ended, StopEndsFirst, Holding, Free, Holds,
      NoHold, Drop, Goes, OpenWithout, processes, locals
<1>21. ASSUME NEW p \in Callers,
            DropForgets(p)
     PROVE  Ended'
  BY <1>21
  DEF HostInv, TypeOK, Places, Started, Ended, StopEndsFirst, Holding, Free, Holds,
      NoHold, DropForgets, GoesWith, processes, locals, Goes
<1>22. ASSUME NEW p \in Callers,
            BecomesAttempt(p)
     PROVE  Ended'
  BY <1>22
  DEF HostInv, TypeOK, Places, Started, Ended, StopEndsFirst, Holding, Free, Holds,
      NoHold, BecomesAttempt, Goes, ReachesPending, processes, locals
<1>23. ASSUME NEW p \in Callers,
            JoinsAttempt(p)
     PROVE  Ended'
  BY <1>23
  DEF HostInv, TypeOK, Places, Started, Ended, StopEndsFirst, Holding, Free, Holds,
      NoHold, JoinsAttempt, Goes, ReachesPending, processes, locals
<1>24. ASSUME NEW p \in Callers,
            PendingConflicts(p)
     PROVE  Ended'
  BY <1>24
  DEF HostInv, TypeOK, Places, Started, Ended, StopEndsFirst, Holding, Free, Holds,
      NoHold, PendingConflicts, Returns, ReachesPending, processes, locals, GoesWith,
      Goes
<1>25. ASSUME NEW p \in Callers,
            FinishStart(p)
     PROVE  Ended'
  BY <1>25
  DEF HostInv, TypeOK, Places, Started, Ended, StopEndsFirst, Holding, Free, Holds,
      NoHold, FinishStart, Shares, Released, processes, locals
<1>26. ASSUME NEW p \in Callers,
            SpawnFails(p)
     PROVE  Ended'
  BY <1>26
  DEF HostInv, TypeOK, Places, Started, Ended, StopEndsFirst, Holding, Free, Holds,
      NoHold, SpawnFails, Resolves, processes, locals, GoesWith, Goes
<1>27. ASSUME NEW p \in Callers,
            AwaitAnnounced(p)
     PROVE  Ended'
  BY <1>27
  DEF HostInv, TypeOK, Places, Started, Ended, StopEndsFirst, Holding, Free, Holds,
      NoHold, AwaitAnnounced, Goes, processes, locals
<1>28. ASSUME NEW p \in Callers,
            AwaitSilent(p)
     PROVE  Ended'
  BY <1>28, ZenonT(40)
  DEF HostInv, TypeOK, Places, Started, Ended, StopEndsFirst, Holding, Free, Holds,
      NoHold, AwaitSilent, Resolves, EndSilent, locals, GoesWith, Kill, Goes
<1>29. ASSUME NEW p \in Callers,
            AwaitEOF(p)
     PROVE  Ended'
  BY <1>29
  DEF HostInv, TypeOK, Places, Started, Ended, StopEndsFirst, Holding, Free, Holds,
      NoHold, AwaitEOF, Goes, processes, locals
<1>30. ASSUME NEW p \in Callers,
            AwaitExit(p)
     PROVE  Ended'
  BY <1>30
  DEF HostInv, TypeOK, Places, Started, Ended, StopEndsFirst, Holding, Free, Holds,
      NoHold, AwaitExit, Resolves, processes, locals, GoesWith, Goes
<1>31. ASSUME NEW p \in Callers,
            TakesHold(p)
     PROVE  Ended'
  BY <1>31
  DEF HostInv, TypeOK, Places, Started, Ended, StopEndsFirst, Holding, Free, Holds,
      NoHold, TakesHold, Resolves, processes, locals, GoesWith, Goes
<1>32. ASSUME NEW p \in Callers,
            LosesRace(p)
     PROVE  Ended'
  BY <1>32, ZenonT(40)
  DEF HostInv, TypeOK, Places, Started, Ended, StopEndsFirst, Holding, Free, Holds,
      NoHold, LosesRace, Resolves, EndLoser, locals, GoesWith, Kill, Goes
<1>33. ASSUME NEW p \in Callers,
            AdoptNoRecord(p)
     PROVE  Ended'
  BY <1>33
  DEF HostInv, TypeOK, Places, Started, Ended, StopEndsFirst, Holding, Free, Holds,
      NoHold, AdoptNoRecord, AdoptMisses, processes, locals, GoesWith, Goes
<1>34. ASSUME NEW p \in Callers,
            AdoptConflicts(p)
     PROVE  Ended'
  BY <1>34
  DEF HostInv, TypeOK, Places, Started, Ended, StopEndsFirst, Holding, Free, Holds,
      NoHold, AdoptConflicts, Resolves, processes, locals, GoesWith, Goes
<1>35. ASSUME NEW p \in Callers,
            AdoptSupersedes(p)
     PROVE  Ended'
  BY <1>35
  DEF HostInv, TypeOK, Places, Started, Ended, StopEndsFirst, Holding, Free, Holds,
      NoHold, AdoptSupersedes, GoesWith, Terminate, locals, Goes
<1>36. ASSUME NEW p \in Callers,
            AwaitGone(p)
     PROVE  Ended'
  BY <1>36
  DEF HostInv, TypeOK, Places, Started, Ended, StopEndsFirst, Holding, Free, Holds,
      NoHold, AwaitGone, GoesWith, Listens, processes, locals, Goes
<1>37. ASSUME NEW p \in Callers,
            AdoptReads(p)
     PROVE  Ended'
  BY <1>37
  DEF HostInv, TypeOK, Places, Started, Ended, StopEndsFirst, Holding, Free, Holds,
      NoHold, AdoptReads, GoesWith, RecordRead, processes, locals, Goes
<1>38. ASSUME NEW p \in Callers,
            DialFails(p)
     PROVE  Ended'
  BY <1>38
  DEF HostInv, TypeOK, Places, Started, Ended, StopEndsFirst, Holding, Free, Holds,
      NoHold, DialFails, AdoptMisses, Listens, processes, locals, GoesWith, Goes
<1>39. ASSUME NEW p \in Callers,
            DialHolds(p)
     PROVE  Ended'
  BY <1>39
  DEF HostInv, TypeOK, Places, Started, Ended, StopEndsFirst, Holding, Free, Holds,
      NoHold, DialHolds, Goes, Listens, processes, locals
<1>40. ASSUME NEW p \in Callers,
            GreetFails(p)
     PROVE  Ended'
  BY <1>40
  DEF HostInv, TypeOK, Places, Started, Ended, StopEndsFirst, Holding, Free, Holds,
      NoHold, GreetFails, Goes, OpenWithout, Listens, processes, locals
<1>41. ASSUME NEW p \in Callers,
            Ungreeted(p)
     PROVE  Ended'
  BY <1>41
  DEF HostInv, TypeOK, Places, Started, Ended, StopEndsFirst, Holding, Free, Holds,
      NoHold, Ungreeted, AdoptMisses, processes, locals, GoesWith, Goes
<1>42. ASSUME NEW p \in Callers,
            StopTakes(p)
     PROVE  Ended'
  BY <1>42
  DEF HostInv, TypeOK, Places, Started, Ended, StopEndsFirst, Holding, Free, Holds,
      NoHold, StopTakes, GoesWith, processes, locals, Goes
<1>43. ASSUME NEW p \in Callers,
            StopFindsNothing(p)
     PROVE  Ended'
  BY <1>43
  DEF HostInv, TypeOK, Places, Started, Ended, StopEndsFirst, Holding, Free, Holds,
      NoHold, StopFindsNothing, Goes, processes, locals
<1>44. ASSUME NEW p \in Callers,
            EndSignals(p)
     PROVE  Ended'
  BY <1>44
  DEF HostInv, TypeOK, Places, Started, Ended, StopEndsFirst, Holding, Free, Holds,
      NoHold, EndSignals, Goes, Kill, Terminate, locals
<1>45. ASSUME NEW p \in Callers,
            ShutdownReads(p)
     PROVE  Ended'
  BY <1>45
  DEF HostInv, TypeOK, Places, Started, Ended, StopEndsFirst, Holding, Free, Holds,
      NoHold, ShutdownReads, Goes, processes, Alive
<1>46. ASSUME NEW p \in Callers,
            ShutdownDone(p)
     PROVE  Ended'
  BY <1>46
  DEF HostInv, TypeOK, Places, Started, Ended, StopEndsFirst, Holding, Free, Holds,
      NoHold, ShutdownDone, Returns, processes, locals, GoesWith, Alive, Goes
<1>47. ASSUME NEW p \in Callers, NEW u \in Units,
            Spawn(p, u)
     PROVE  Ended'
  BY <1>47, ZenonT(40)
  DEF HostInv, TypeOK, Places, Started, Ended, StopEndsFirst, Holding, Free, Holds,
      NoHold, Spawn, GoesWith, locals, Goes
<1>48. ASSUME NEW p \in Callers, NEW written \in BOOLEAN,
            Remember(p, written)
     PROVE  Ended'
  BY <1>48
  DEF HostInv, TypeOK, Places, Started, Ended, StopEndsFirst, Holding, Free, Holds,
      NoHold, Remember, Goes, processes, locals
<1>49. ASSUME NEW p \in Callers, NEW what \in Calls, NEW d \in Decls,
            Begin(p, what, d)
     PROVE  Ended'
  BY <1>49
  DEF HostInv, TypeOK, Places, Started, Ended, StopEndsFirst, Holding, Free, Holds,
      NoHold, Begin, processes
<1>50. ASSUME Crash
     PROVE  Ended'
  BY <1>50
  DEF HostInv, TypeOK, Places, Started, Ended, StopEndsFirst, Holding, Free, Holds,
      NoHold, Crash, processes
<1>51. CASE UNCHANGED vars
  BY <1>51 DEF HostInv, TypeOK, Places, Started, Ended, StopEndsFirst, Holding, Free, Holds,
      NoHold, vars, processes, locals
<1>52. QED
  BY <1>1, <1>2, <1>3, <1>4, <1>5, <1>6, <1>7, <1>8, <1>9, <1>10, <1>11, <1>12,
     <1>13, <1>14, <1>15, <1>16, <1>17, <1>18, <1>19, <1>20, <1>21, <1>22, <1>23,
     <1>24, <1>25, <1>26, <1>27, <1>28, <1>29, <1>30, <1>31, <1>32, <1>33, <1>34,
     <1>35, <1>36, <1>37, <1>38, <1>39, <1>40, <1>41, <1>42, <1>43, <1>44, <1>45,
     <1>46, <1>47, <1>48, <1>49, <1>50, <1>51
  DEF Next, UnitStep, WatcherStep, CallerStep, StartStep, AdoptStep, StopStep

\* A caller becomes the attempt only when there is none, and the attempt is closed
\* only by the caller that is it.
LEMMA AttemptStep ==
    ASSUME HostInv, OneAttempt, [Next]_vars
    PROVE  OneAttempt'
<1>1. ASSUME NEW p \in Callers,
            BecomesAttempt(p)
     PROVE  OneAttempt'
  <2>1. call[p] = "start" /\ attempt = NoCaller /\ attempt' = p /\ pc' = [pc EXCEPT ![p] = "adopt"] /\ call' = call
    BY <1>1 DEF HostInv, Places, StartOnly, BecomesAttempt, ReachesPending, NonePending, Goes, locals
  <2>2. \A q \in Callers : ~Attempting(q)
    BY <2>1, SidecarAssumption DEF OneAttempt
  <2>3. QED
    BY <2>1, <2>2 DEF HostInv, TypeOK, OneAttempt, Attempting
<1>2. ASSUME NEW p \in Callers,
            FinishStart(p)
     PROVE  OneAttempt'
  <2>1. attempt = p
    BY <1>2 DEF OneAttempt, Attempting, FinishStart
  <2>2. \A q \in Callers \ {p} : ~Attempting(q)
    BY <2>1 DEF OneAttempt
  <2>3. \A q \in Callers : pc'[q] # pc[q] => pc'[q] \in {"idle", "enter"}
    BY <1>2 DEF FinishStart
  <2>4. pc'[p] = "idle" /\ attempt' = NoCaller /\ call' = call
    BY <1>2 DEF FinishStart, locals
  <2>5. \A q \in Callers : ~Attempting(q)'
    BY <2>2, <2>3, <2>4 DEF Attempting
  <2>6. QED
    BY <2>4, <2>5, SidecarAssumption DEF OneAttempt
<1>3. ASSUME Crash
     PROVE  OneAttempt'
  BY <1>3, SidecarAssumption
  DEF HostInv, TypeOK, Places, StartOnly, StopOnly, OneAttempt, Attempting, Crash,
      processes
<1>4. ASSUME NEW u \in Units,
            \/ Announces(u) \/ Mutes(u) \/ Deafens(u) \/ Dies(u)
     PROVE  OneAttempt'
  BY <1>4
  DEF HostInv, TypeOK, Places, StartOnly, StopOnly, OneAttempt, Attempting, Announces,
      locals, Mutes, Deafens, Dies
<1>5. ASSUME NEW u \in Units,
            \/ WatcherUnholds(u) \/ WatcherForgets(u)
     PROVE  OneAttempt'
  BY <1>5
  DEF HostInv, TypeOK, Places, StartOnly, StopOnly, OneAttempt, Attempting,
      WatcherUnholds, OpenWithout, processes, locals, WatcherForgets
<1>6. ASSUME NEW p \in Callers,
            \/ OpenStands(p) \/ OpenConflicts(p) \/ OpenYields(p) \/ Unrecord(p)
     PROVE  OneAttempt'
  BY <1>6
  DEF HostInv, TypeOK, Places, StartOnly, StopOnly, OneAttempt, Attempting, OpenStands,
      Returns, processes, locals, GoesWith, Goes, OpenConflicts, OpenYields,
      Unrecord
<1>7. ASSUME NEW p \in Callers,
            \/ OpenMatches(p) \/ ProbeAnswers(p) \/ ProbeFails(p) \/ Drop(p)
     PROVE  OneAttempt'
  BY <1>7
  DEF HostInv, TypeOK, Places, StartOnly, StopOnly, OneAttempt, Attempting,
      OpenMatches, GoesWith, processes, locals, Goes, ProbeAnswers, Returns,
      ProbeFails, Drop, OpenWithout
<1>8. ASSUME NEW p \in Callers,
            \/ DropForgets(p) \/ JoinsAttempt(p) \/ PendingConflicts(p)
            \/ SpawnFails(p)
     PROVE  OneAttempt'
  BY <1>8
  DEF HostInv, TypeOK, Places, StartOnly, StopOnly, OneAttempt, Attempting,
      DropForgets, GoesWith, processes, locals, Goes, JoinsAttempt, ReachesPending,
      PendingConflicts, Returns, SpawnFails, Resolves
<1>9. ASSUME NEW p \in Callers,
            \/ AwaitAnnounced(p) \/ AwaitSilent(p) \/ AwaitEOF(p) \/ AwaitExit(p)
     PROVE  OneAttempt'
  BY <1>9
  DEF HostInv, TypeOK, Places, StartOnly, StopOnly, OneAttempt, Attempting,
      AwaitAnnounced, Goes, processes, locals, AwaitSilent, Resolves, EndSilent,
      GoesWith, Kill, AwaitEOF, AwaitExit
<1>10. ASSUME NEW p \in Callers,
            \/ TakesHold(p) \/ LosesRace(p) \/ AdoptNoRecord(p)
            \/ AdoptConflicts(p)
     PROVE  OneAttempt'
  BY <1>10
  DEF HostInv, TypeOK, Places, StartOnly, StopOnly, OneAttempt, Attempting, TakesHold,
      Resolves, processes, locals, GoesWith, Goes, LosesRace, EndLoser, Kill,
      AdoptNoRecord, AdoptMisses, AdoptConflicts
<1>11. ASSUME NEW p \in Callers,
            \/ AdoptSupersedes(p) \/ AwaitGone(p) \/ AdoptReads(p) \/ DialFails(p)
     PROVE  OneAttempt'
  BY <1>11
  DEF HostInv, TypeOK, Places, StartOnly, StopOnly, OneAttempt, Attempting,
      AdoptSupersedes, GoesWith, Terminate, locals, Goes, AwaitGone, processes,
      AdoptReads, RecordRead, DialFails, AdoptMisses
<1>12. ASSUME NEW p \in Callers,
            \/ DialFindsOpen(p) \/ DialHolds(p) \/ GreetAnswers(p)
            \/ GreetFails(p)
     PROVE  OneAttempt'
  BY <1>12
  DEF HostInv, TypeOK, Places, StartOnly, StopOnly, OneAttempt, Attempting,
      DialFindsOpen, AdoptFinds, processes, locals, GoesWith, Resolves, Goes,
      DialHolds, GreetAnswers, GreetFails, OpenWithout
<1>13. ASSUME NEW p \in Callers,
            \/ Ungreeted(p) \/ StopTakes(p) \/ StopFindsNothing(p) \/ Retake(p)
     PROVE  OneAttempt'
  BY <1>13
  DEF HostInv, TypeOK, Places, StartOnly, StopOnly, OneAttempt, Attempting, Ungreeted,
      AdoptMisses, processes, locals, GoesWith, Goes, StopTakes, StopFindsNothing,
      Retake, Returns, Stopped
<1>14. ASSUME NEW p \in Callers,
            \/ EndSignals(p) \/ EndObserved(p) \/ EndTimesOut(p) \/ StopForgets(p)
     PROVE  OneAttempt'
  BY <1>14
  DEF HostInv, TypeOK, Places, StartOnly, StopOnly, OneAttempt, Attempting, EndSignals,
      Goes, Kill, Terminate, locals, EndObserved, GoesWith, processes, EndTimesOut,
      Returns, StopForgets, Stopped
<1>15. ASSUME NEW p \in Callers,
            \/ ShutdownReads(p) \/ ShutdownDone(p)
     PROVE  OneAttempt'
  BY <1>15
  DEF HostInv, TypeOK, Places, StartOnly, StopOnly, OneAttempt, Attempting,
      ShutdownReads, Goes, processes, ShutdownDone, Returns, locals, GoesWith
<1>16. ASSUME NEW p \in Callers, NEW u \in Units,
            Spawn(p, u)
     PROVE  OneAttempt'
  BY <1>16
  DEF HostInv, TypeOK, Places, StartOnly, StopOnly, OneAttempt, Attempting, Spawn,
      GoesWith, locals, Goes
<1>17. ASSUME NEW p \in Callers, NEW written \in BOOLEAN,
            Remember(p, written)
     PROVE  OneAttempt'
  BY <1>17
  DEF HostInv, TypeOK, Places, StartOnly, StopOnly, OneAttempt, Attempting, Remember,
      Goes, processes, locals
<1>18. ASSUME NEW p \in Callers, NEW what \in Calls, NEW d \in Decls,
            Begin(p, what, d)
     PROVE  OneAttempt'
  BY <1>18
  DEF HostInv, TypeOK, Places, StartOnly, StopOnly, OneAttempt, Attempting, Begin,
      processes
<1>19. CASE UNCHANGED vars
  BY <1>19 DEF HostInv, TypeOK, Places, StartOnly, StopOnly, OneAttempt, Attempting, vars,
      processes, locals
<1>20. QED
  BY <1>1, <1>2, <1>3, <1>4, <1>5, <1>6, <1>7, <1>8, <1>9, <1>10, <1>11, <1>12,
     <1>13, <1>14, <1>15, <1>16, <1>17, <1>18, <1>19
  DEF Next, UnitStep, WatcherStep, CallerStep, StartStep, AdoptStep, StopStep

\* Nothing has been started at first.
LEMMA InitHost ==
    ASSUME Init
    PROVE  HostInv /\ OneAttempt
<1>0. AnyDecl \in Decls
  BY SidecarAssumption DEF AnyDecl
<1>1. HostInv
  BY <1>0, SidecarAssumption
  DEF Init, HostInv, TypeOK, Places, Started, Ended, StopEndsFirst, Holding, Free,
      StartOnly, StopOnly, Holds, NoHold, Answers
<1>2. OneAttempt
  BY SidecarAssumption DEF Init, OneAttempt, Attempting
<1>3. QED
  BY <1>1, <1>2

\* Every step keeps the invariant that needs no assumption.
LEMMA HostStep ==
    ASSUME HostInv, [Next]_vars
    PROVE  HostInv'
BY TypeStep, PlacesStep, StartedStep, EndedStep DEF HostInv

\* The variables of the host, its units, its callers and the disk stay well typed,
\* whatever crashes, dies, lingers or is refused.
THEOREM TypeCorrect == Spec => []TypeOK
<1>1. Init => HostInv
  BY InitHost
<1>2. HostInv /\ [Next]_vars => HostInv'
  BY HostStep
<1>3. HostInv => TypeOK
  BY DEF HostInv
<1>4. QED
  BY <1>1, <1>2, <1>3, PTL DEF Spec

\* A stop, or a shutdown's, removes the record only after the process it held has
\* ended (sidecar.go:742-749), for any callers and however units and host fail.
THEOREM StopForgetsTheEnded == Spec => []StopEndsFirst
<1>1. Init => HostInv
  BY InitHost
<1>2. HostInv /\ [Next]_vars => HostInv'
  BY HostStep
<1>3. HostInv => StopEndsFirst
  BY DEF HostInv, Ended
<1>4. QED
  BY <1>1, <1>2, <1>3, PTL DEF Spec

\* One caller at a time searches for a unit or spawns one (sidecar.go:450-489): the
\* pending map names it from the moment it passes the table until it closes.
THEOREM OneAttemptAtATime == Spec => []OneAttempt
<1>1. Init => HostInv /\ OneAttempt
  BY InitHost
<1>2. HostInv /\ OneAttempt /\ [Next]_vars => (HostInv /\ OneAttempt)'
  BY HostStep, AttemptStep
<1>3. QED
  BY <1>1, <1>2, PTL DEF Spec

-----------------------------------------------------------------------------
\* Any callers of a host that is not restarted.
Unbroken == MaxCrashes = 0

\* What announced itself serves, went deaf or is dead; what is held announced itself;
\* what a caller gave up for silent is.
Spoken ==
    /\ \A u \in Units : /\ proc[u] = "deaf" => Lingering
                        /\ proc[u] = "serving" => said[u]
                        /\ said[u] => proc[u] \in {"serving", "deaf", "dead"}
    /\ open # NoHold => said[open.unit]
    /\ \A p \in Callers :
        /\ pc[p] \in {"probe", "remember", "hold", "greet"} => said[mine[p].unit]
        /\ pc[p] = "drop" => proc[mine[p].unit] \in {"deaf", "dead"}
        /\ pc[p] = "awaitExit" => proc[mine[p].unit] \in {"mute", "dead"}

\* A start that waits for the unit it spawned, or a caller that took one to end it.
Keeps(p, u) ==
    /\ mine[p].unit = u
    /\ pc[p] \in {"await", "awaitExit", "remember", "hold", "unrecord", "end"}

\* A process that answers, or may come to, and was not told to end.
Loose(u) == proc[u] \in {"launched", "mute", "serving"} /\ ~signalled[u]

Found ==
    \A u \in Units : Loose(u) => open.unit = u \/ \E p \in Callers : Keeps(p, u)

TogetherInv == HostInv /\ Spoken /\ Found

\* A unit is recorded, held or adopted only after it announced itself or answered,
\* and one that announced itself and does not answer went deaf or is dead.
LEMMA SpokenStep ==
    ASSUME HostInv, Spoken, [Next]_vars
    PROVE  Spoken'
<1>1. ASSUME NEW p \in Callers,
            DialHolds(p)
     PROVE  Spoken'
  BY <1>1
  DEF HostInv, TypeOK, Places, Started, Spoken, Holding, Free, Holds, Listens,
      DialHolds, Goes, processes, locals
<1>2. ASSUME NEW u \in Units,
            \/ Announces(u) \/ Mutes(u) \/ Deafens(u) \/ Dies(u)
     PROVE  Spoken'
  BY <1>2
  DEF HostInv, TypeOK, Places, Started, Spoken, Holding, Free, Holds, Announces,
      locals, Mutes, Deafens, Dies, Alive
<1>3. ASSUME NEW u \in Units,
            \/ WatcherUnholds(u) \/ WatcherForgets(u)
     PROVE  Spoken'
  BY <1>3
  DEF HostInv, TypeOK, Places, Started, Spoken, Holding, Free, Holds, WatcherUnholds,
      OpenWithout, processes, locals, WatcherForgets
<1>4. ASSUME NEW p \in Callers,
            \/ OpenStands(p) \/ OpenConflicts(p) \/ OpenYields(p) \/ Unrecord(p)
     PROVE  Spoken'
  BY <1>4
  DEF HostInv, TypeOK, Places, Started, Spoken, Holding, Free, Holds, OpenStands,
      Returns, processes, locals, GoesWith, Goes, OpenConflicts, OpenYields,
      Unrecord
<1>5. ASSUME NEW p \in Callers,
            \/ OpenMatches(p) \/ ProbeAnswers(p) \/ ProbeFails(p) \/ Drop(p)
     PROVE  Spoken'
  BY <1>5
  DEF HostInv, TypeOK, Places, Started, Spoken, Holding, Free, Holds, OpenMatches,
      GoesWith, processes, locals, Goes, ProbeAnswers, Returns, Listens, ProbeFails,
      Drop, OpenWithout
<1>6. ASSUME NEW p \in Callers,
            \/ DropForgets(p) \/ BecomesAttempt(p) \/ JoinsAttempt(p)
            \/ PendingConflicts(p)
     PROVE  Spoken'
  BY <1>6
  DEF HostInv, TypeOK, Places, Started, Spoken, Holding, Free, Holds, DropForgets,
      GoesWith, processes, locals, Goes, BecomesAttempt, ReachesPending,
      JoinsAttempt, PendingConflicts, Returns
<1>7. ASSUME NEW p \in Callers,
            \/ FinishStart(p) \/ SpawnFails(p) \/ AwaitAnnounced(p)
            \/ AwaitSilent(p)
     PROVE  Spoken'
  BY <1>7, SMTT(30)
  DEF HostInv, TypeOK, Places, Started, Spoken, Holding, Free, Holds, FinishStart,
      Shares, Released, processes, locals, SpawnFails, Resolves, GoesWith, Goes,
      AwaitAnnounced, AwaitSilent, EndSilent, Kill
<1>8. ASSUME NEW p \in Callers,
            \/ AwaitEOF(p) \/ AwaitExit(p) \/ TakesHold(p) \/ LosesRace(p)
     PROVE  Spoken'
  BY <1>8
  DEF HostInv, TypeOK, Places, Started, Spoken, Holding, Free, Holds, AwaitEOF, Goes,
      processes, locals, AwaitExit, Resolves, GoesWith, TakesHold, LosesRace,
      EndLoser, Kill
<1>9. ASSUME NEW p \in Callers,
            \/ AdoptNoRecord(p) \/ AdoptConflicts(p) \/ AdoptSupersedes(p)
            \/ AwaitGone(p)
     PROVE  Spoken'
  BY <1>9
  DEF HostInv, TypeOK, Places, Started, Spoken, Holding, Free, Holds, AdoptNoRecord,
      AdoptMisses, processes, locals, GoesWith, Goes, AdoptConflicts, Resolves,
      AdoptSupersedes, Terminate, AwaitGone, Listens
<1>10. ASSUME NEW p \in Callers,
            \/ AdoptReads(p) \/ DialFails(p) \/ DialFindsOpen(p)
            \/ GreetAnswers(p)
     PROVE  Spoken'
  BY <1>10, SMTT(30)
  DEF HostInv, TypeOK, Places, Started, Spoken, Holding, Free, Holds, AdoptReads,
      GoesWith, RecordRead, processes, locals, Goes, DialFails, AdoptMisses, Listens,
      DialFindsOpen, AdoptFinds, Resolves, GreetAnswers
<1>11. ASSUME NEW p \in Callers,
            \/ GreetFails(p) \/ Ungreeted(p) \/ StopTakes(p)
            \/ StopFindsNothing(p)
     PROVE  Spoken'
  BY <1>11
  DEF HostInv, TypeOK, Places, Started, Spoken, Holding, Free, Holds, GreetFails, Goes,
      OpenWithout, Listens, processes, locals, Ungreeted, AdoptMisses, GoesWith,
      StopTakes, StopFindsNothing
<1>12. ASSUME NEW p \in Callers,
            \/ Retake(p) \/ EndSignals(p) \/ EndObserved(p) \/ EndTimesOut(p)
     PROVE  Spoken'
  BY <1>12
  DEF HostInv, TypeOK, Places, Started, Spoken, Holding, Free, Holds, Retake, GoesWith,
      Returns, Stopped, processes, locals, Goes, EndSignals, Kill, Terminate,
      EndObserved, EndTimesOut
<1>13. ASSUME NEW p \in Callers,
            \/ StopForgets(p) \/ ShutdownReads(p) \/ ShutdownDone(p)
     PROVE  Spoken'
  BY <1>13
  DEF HostInv, TypeOK, Places, Started, Spoken, Holding, Free, Holds, StopForgets,
      GoesWith, Returns, Stopped, processes, locals, Goes, ShutdownReads, Alive,
      ShutdownDone
<1>14. ASSUME NEW p \in Callers, NEW u \in Units,
            Spawn(p, u)
     PROVE  Spoken'
  BY <1>14
  DEF HostInv, TypeOK, Places, Started, Spoken, Holding, Free, Holds, Spawn, GoesWith,
      locals, Goes
<1>15. ASSUME NEW p \in Callers, NEW written \in BOOLEAN,
            Remember(p, written)
     PROVE  Spoken'
  BY <1>15
  DEF HostInv, TypeOK, Places, Started, Spoken, Holding, Free, Holds, Remember, Goes,
      processes, locals
<1>16. ASSUME NEW p \in Callers, NEW what \in Calls, NEW d \in Decls,
            Begin(p, what, d)
     PROVE  Spoken'
  BY <1>16
  DEF HostInv, TypeOK, Places, Started, Spoken, Holding, Free, Holds, Begin, processes
<1>17. ASSUME Crash
     PROVE  Spoken'
  BY <1>17
  DEF HostInv, TypeOK, Places, Started, Spoken, Holding, Free, Holds, Crash, processes
<1>18. CASE UNCHANGED vars
  BY <1>18 DEF HostInv, TypeOK, Places, Started, Spoken, Holding, Free, Holds, vars, processes,
      locals
<1>19. QED
  BY <1>1, <1>2, <1>3, <1>4, <1>5, <1>6, <1>7, <1>8, <1>9, <1>10, <1>11, <1>12,
     <1>13, <1>14, <1>15, <1>16, <1>17, <1>18
  DEF Next, UnitStep, WatcherStep, CallerStep, StartStep, AdoptStep, StopStep

\* Where a hold leaves the table, a caller has it to end it or it never answers again; a
\* start keeps what it spawned until the table has it or it is killed.
LEMMA FoundStep ==
    ASSUME Unbroken, HostInv, Spoken, Found, [Next]_vars
    PROVE  Found'
<1> SUFFICES ASSUME NEW v \in Units, Loose(v)'
             PROVE  (open.unit = v \/ \E q \in Callers : Keeps(q, v))'
  BY DEF Found
<1> USE DEF Unbroken
<1> DEFINE Remains == /\ Loose(v)
                      /\ (open.unit = v) => (open.unit = v)'
                      /\ \A q \in Callers : Keeps(q, v) => Keeps(q, v)'
<1>0. Remains => (open.unit = v \/ \E q \in Callers : Keeps(q, v))'
  BY DEF Found
<1>1. ASSUME NEW p \in Callers,
            GreetFails(p)
     PROVE  Remains
  BY <1>1
  DEF HostInv, TypeOK, Places, Holding, Free, Spoken, Loose, Keeps, Listens,
      GreetFails, Goes, OpenWithout, processes, locals
<1>2. ASSUME NEW p \in Callers,
            DialHolds(p)
     PROVE  Remains
  BY <1>2, SidecarAssumption
  DEF HostInv, TypeOK, Places, Holding, Free, Spoken, Loose, Keeps, NoHold, DialHolds,
      Goes, processes, locals
<1>3. ASSUME NEW p \in Callers,
            OpenYields(p)
     PROVE  (open.unit = v \/ \E q \in Callers : Keeps(q, v))'
  <2>1. Loose(v) /\ (open.unit = v => Keeps(p, v)')
    BY <1>3 DEF HostInv, TypeOK, OpenYields, GoesWith, Goes, Loose, Keeps,
      processes
  <2>2. \A q \in Callers : Keeps(q, v) => Keeps(q, v)'
    BY <1>3 DEF HostInv, TypeOK, OpenYields, GoesWith, Goes, Keeps
  <2>3. QED
    BY <2>1, <2>2 DEF Found
<1>4. ASSUME NEW p \in Callers,
            StopTakes(p)
     PROVE  (open.unit = v \/ \E q \in Callers : Keeps(q, v))'
  <2>1. Loose(v) /\ (open.unit = v => Keeps(p, v)')
    BY <1>4 DEF HostInv, TypeOK, StopTakes, GoesWith, Goes, Loose, Keeps,
      processes
  <2>2. \A q \in Callers : Keeps(q, v) => Keeps(q, v)'
    BY <1>4 DEF HostInv, TypeOK, StopTakes, GoesWith, Goes, Keeps
  <2>3. QED
    BY <2>1, <2>2 DEF Found
<1>5. ASSUME NEW p \in Callers,
            Retake(p)
     PROVE  (open.unit = v \/ \E q \in Callers : Keeps(q, v))'
  <2>1. Loose(v)
    BY <1>5 DEF Retake, Loose, processes
  <2>2. open.unit = v => Keeps(p, v)'
    BY <1>5, SidecarAssumption DEF HostInv, TypeOK, NoHold, Retake, GoesWith, Goes, Keeps
  <2>3. \A q \in Callers : Keeps(q, v) => Keeps(q, v)'
    BY <1>5 DEF HostInv, TypeOK, Retake, Returns, GoesWith, Goes, Keeps
  <2>4. QED
    BY <2>1, <2>2, <2>3 DEF Found
<1>6. ASSUME NEW p \in Callers, NEW u \in Units,
            Spawn(p, u)
     PROVE  (open.unit = v \/ \E q \in Callers : Keeps(q, v))'
  <2>1. CASE u = v
    BY <1>6, <2>1 DEF HostInv, TypeOK, Spawn, GoesWith, Goes, Keeps
  <2>2. CASE u # v
    <3>1. Loose(v) /\ open' = open
      BY <1>6, <2>2 DEF HostInv, TypeOK, Spawn, Loose
    <3>2. \A q \in Callers : Keeps(q, v) => Keeps(q, v)'
      BY <1>6 DEF HostInv, TypeOK, Spawn, GoesWith, Goes, Keeps
    <3>3. QED
      BY <3>1, <3>2 DEF Found
  <2>3. QED
    BY <2>1, <2>2
<1>7. ASSUME NEW p \in Callers,
            TakesHold(p)
     PROVE  (open.unit = v \/ \E q \in Callers : Keeps(q, v))'
  <2>1. Loose(v) /\ open.unit # v
    BY <1>7, SidecarAssumption DEF TakesHold, NoHold, Loose, processes
  <2>2. \A q \in Callers : Keeps(q, v) => Keeps(q, v)' \/ (open.unit = v)'
    BY <1>7 DEF HostInv, TypeOK, TakesHold, Resolves, GoesWith, Goes, Keeps
  <2>3. QED
    BY <2>1, <2>2 DEF Found
<1>8. ASSUME NEW u \in Units,
            \/ Announces(u) \/ Mutes(u) \/ Deafens(u) \/ Dies(u)
     PROVE  Remains
  BY <1>8
  DEF HostInv, TypeOK, Places, Holding, Free, Spoken, Loose, Keeps, Announces, locals,
      Mutes, Deafens, Dies
<1>9. ASSUME NEW u \in Units,
            \/ WatcherUnholds(u) \/ WatcherForgets(u)
     PROVE  Remains
  BY <1>9
  DEF HostInv, TypeOK, Places, Holding, Free, Spoken, Loose, Keeps, WatcherUnholds,
      OpenWithout, processes, locals, WatcherForgets
<1>10. ASSUME NEW p \in Callers,
            \/ OpenStands(p) \/ OpenConflicts(p) \/ Unrecord(p) \/ OpenMatches(p)
     PROVE  Remains
  BY <1>10
  DEF HostInv, TypeOK, Places, Holding, Free, Spoken, Loose, Keeps, OpenStands,
      Returns, processes, locals, GoesWith, Goes, OpenConflicts, Unrecord,
      OpenMatches
<1>11. ASSUME NEW p \in Callers,
            \/ ProbeAnswers(p) \/ ProbeFails(p) \/ Drop(p) \/ DropForgets(p)
     PROVE  Remains
  BY <1>11
  DEF HostInv, TypeOK, Places, Holding, Free, Spoken, Loose, Keeps, ProbeAnswers,
      Returns, processes, locals, GoesWith, Goes, ProbeFails, Drop, OpenWithout,
      DropForgets
<1>12. ASSUME NEW p \in Callers,
            \/ BecomesAttempt(p) \/ JoinsAttempt(p) \/ PendingConflicts(p)
            \/ FinishStart(p)
     PROVE  Remains
  BY <1>12
  DEF HostInv, TypeOK, Places, Holding, Free, Spoken, Loose, Keeps, BecomesAttempt,
      Goes, ReachesPending, processes, locals, JoinsAttempt, PendingConflicts,
      Returns, GoesWith, FinishStart, Shares, Released
<1>13. ASSUME NEW p \in Callers,
            \/ SpawnFails(p) \/ AwaitAnnounced(p) \/ AwaitSilent(p) \/ AwaitEOF(p)
     PROVE  Remains
  BY <1>13
  DEF HostInv, TypeOK, Places, Holding, Free, Spoken, Loose, Keeps, SpawnFails,
      Resolves, processes, locals, GoesWith, Goes, AwaitAnnounced, AwaitSilent,
      EndSilent, Kill, AwaitEOF
<1>14. ASSUME NEW p \in Callers,
            \/ AwaitExit(p) \/ LosesRace(p) \/ AdoptNoRecord(p)
            \/ AdoptConflicts(p)
     PROVE  Remains
  BY <1>14
  DEF HostInv, TypeOK, Places, Holding, Free, Spoken, Loose, Keeps, AwaitExit,
      Resolves, processes, locals, GoesWith, Goes, LosesRace, EndLoser, Kill,
      AdoptNoRecord, AdoptMisses, AdoptConflicts
<1>15. ASSUME NEW p \in Callers,
            \/ AdoptSupersedes(p) \/ AwaitGone(p) \/ AdoptReads(p) \/ DialFails(p)
     PROVE  Remains
  BY <1>15
  DEF HostInv, TypeOK, Places, Holding, Free, Spoken, Loose, Keeps, AdoptSupersedes,
      GoesWith, Terminate, locals, Goes, AwaitGone, processes, AdoptReads,
      RecordRead, DialFails, AdoptMisses
<1>16. ASSUME NEW p \in Callers,
            \/ DialFindsOpen(p) \/ GreetAnswers(p) \/ Ungreeted(p)
            \/ StopFindsNothing(p)
     PROVE  Remains
  BY <1>16
  DEF HostInv, TypeOK, Places, Holding, Free, Spoken, Loose, Keeps, DialFindsOpen,
      AdoptFinds, processes, locals, GoesWith, Resolves, Goes, GreetAnswers,
      Ungreeted, AdoptMisses, StopFindsNothing
<1>17. ASSUME NEW p \in Callers,
            \/ EndSignals(p) \/ EndObserved(p) \/ EndTimesOut(p) \/ StopForgets(p)
     PROVE  Remains
  BY <1>17
  DEF HostInv, TypeOK, Places, Holding, Free, Spoken, Loose, Keeps, EndSignals, Goes,
      Kill, Terminate, locals, EndObserved, GoesWith, processes, EndTimesOut,
      Returns, StopForgets, Stopped
<1>18. ASSUME NEW p \in Callers,
            \/ ShutdownReads(p) \/ ShutdownDone(p)
     PROVE  Remains
  BY <1>18
  DEF HostInv, TypeOK, Places, Holding, Free, Spoken, Loose, Keeps, ShutdownReads,
      Goes, processes, ShutdownDone, Returns, locals, GoesWith
<1>19. ASSUME NEW p \in Callers, NEW written \in BOOLEAN,
            Remember(p, written)
     PROVE  Remains
  BY <1>19
  DEF HostInv, TypeOK, Places, Holding, Free, Spoken, Loose, Keeps, Remember, Goes,
      processes, locals
<1>20. ASSUME NEW p \in Callers, NEW what \in Calls, NEW d \in Decls,
            Begin(p, what, d)
     PROVE  Remains
  BY <1>20
  DEF HostInv, TypeOK, Places, Holding, Free, Spoken, Loose, Keeps, Begin, processes
<1>21. ASSUME Crash
     PROVE  Remains
  BY <1>21
  DEF HostInv, TypeOK, Places, Holding, Free, Spoken, Loose, Keeps, Crash, processes
<1>22. ASSUME UNCHANGED vars
     PROVE  Remains
  BY <1>22 DEF Loose, Keeps, vars, processes, locals
<1>23. QED
  BY <1>1, <1>2, <1>3, <1>4, <1>5, <1>6, <1>7, <1>8, <1>9, <1>10, <1>11, <1>12,
     <1>13, <1>14, <1>15, <1>16, <1>17, <1>18, <1>19, <1>20, <1>21, <1>22, <1>0
  DEF Next, UnitStep, WatcherStep, CallerStep, StartStep, AdoptStep, StopStep

\* No process runs at first.
LEMMA InitTogether ==
    ASSUME Init
    PROVE  TogetherInv
<1>1. HostInv
  BY InitHost
<1>2. Spoken /\ Found
  BY DEF Init, Spoken, Found, Loose
<1>3. QED
  BY <1>1, <1>2 DEF TogetherInv

\* Starts and stops that interleave keep what is not lost within reach.
LEMMA TogetherStep ==
    ASSUME Unbroken, TogetherInv, [Next]_vars
    PROVE  TogetherInv'
BY HostStep, SpokenStep, FoundStep DEF TogetherInv

\* Somebody can find every process that was not told to end, while starts and stops
\* of any number of callers run against each other and against mute, mortal and
\* stubborn units and a disk that refuses records. A unit that goes deaf and lives on
\* is dropped, and then nobody has it.
THEOREM NobodyIsLost == ASSUME Unbroken, ~Lingering PROVE Spec => []NoneLost
<1>1. Init => TogetherInv
  BY InitTogether
<1>2. TogetherInv /\ [Next]_vars => TogetherInv'
  BY TogetherStep
<1>3. TogetherInv => NoneLost
  BY DEF TogetherInv, HostInv, TypeOK, Spoken, Found, Loose, Alive, Keeps, NoneLost
<1>4. QED
  BY <1>1, <1>2, <1>3, PTL DEF Spec

\* Two starts that went past the table end with one unit (sidecar.go:587-592): what
\* answers, is not on its way out and is settled is the unit in the table.
THEOREM OneUnitAnswers == ASSUME Unbroken PROVE Spec => []OneUnit
<1>1. Init => TogetherInv
  BY InitTogether
<1>2. TogetherInv /\ [Next]_vars => TogetherInv'
  BY TogetherStep
<1>3. TogetherInv => OneUnit
  <2> SUFFICES ASSUME TogetherInv, NEW u \in Units, Listens(u), ~Condemned(u), ~Unsettled(u)
               PROVE  open.unit = u
    BY DEF OneUnit
  <2>1. Loose(u)
    BY DEF Loose, Listens, Condemned
  <2>2. \A p \in Callers : ~Keeps(p, u)
    BY DEF Keeps, Condemned, Unsettled
  <2>3. QED
    BY <2>1, <2>2 DEF TogetherInv, Found
<1>4. QED
  BY <1>1, <1>2, <1>3, PTL DEF Spec

-----------------------------------------------------------------------------
\* One caller, whatever crashes, dies, lingers or is refused.

\* Callers of one name that never overlap.
OneCaller == \A p, q \in Callers : p = q

\* The table is empty but for what the caller found there.
Alone ==
    \A p \in Callers :
        /\ pc[p] \notin {"idle", "enter", "probe", "drop", "greet", "finish",
                         "stop", "retake"} => open = NoHold
        /\ pc[p] \in {"probe", "drop", "greet"} => open \in {mine[p], NoHold}

\* A declaration with secrets is answered by a unit that runs for it.
Fits(d, u) == d.keys # NoKeys => d = runs[u]

\* A unit is compared with the declaration before a caller goes on with it.
Fitting ==
    \A p \in Callers :
        /\ answer[p] \in Units => Fits(ask[p], answer[p])
        /\ pc[p] \in {"probe", "await", "awaitExit", "remember", "hold"} =>
               ask[p] = runs[mine[p].unit]
        /\ pc[p] \in {"dial", "greet"} /\ call[p] = "start" =>
               Fits(ask[p], mine[p].unit)

AloneInv == HostInv /\ OneAttempt /\ Alone /\ Fitting

\* One caller's own steps are the only ones that fill the table.
LEMMA AloneStep ==
    ASSUME OneCaller, HostInv, OneAttempt, Alone, [Next]_vars
    PROVE  Alone'
<1>1. ASSUME NEW u \in Units,
            \/ Announces(u) \/ Mutes(u) \/ Deafens(u) \/ Dies(u)
     PROVE  Alone'
  BY <1>1
  DEF HostInv, TypeOK, Places, Free, OneCaller, OneAttempt, Attempting, Alone,
      Announces, locals, Mutes, Deafens, Dies
<1>2. ASSUME NEW u \in Units,
            \/ WatcherUnholds(u) \/ WatcherForgets(u)
     PROVE  Alone'
  BY <1>2
  DEF HostInv, TypeOK, Places, Free, OneCaller, OneAttempt, Attempting, Alone,
      WatcherUnholds, OpenWithout, processes, locals, WatcherForgets
<1>3. ASSUME NEW p \in Callers,
            \/ OpenStands(p) \/ OpenConflicts(p) \/ OpenYields(p) \/ Unrecord(p)
     PROVE  Alone'
  BY <1>3
  DEF HostInv, TypeOK, Places, Free, OneCaller, OneAttempt, Attempting, Alone,
      OpenStands, Returns, processes, locals, GoesWith, Goes, OpenConflicts,
      OpenYields, Unrecord
<1>4. ASSUME NEW p \in Callers,
            \/ OpenMatches(p) \/ ProbeAnswers(p) \/ ProbeFails(p) \/ Drop(p)
     PROVE  Alone'
  BY <1>4
  DEF HostInv, TypeOK, Places, Free, OneCaller, OneAttempt, Attempting, Alone,
      OpenMatches, GoesWith, processes, locals, Goes, ProbeAnswers, Returns,
      ProbeFails, Drop, OpenWithout
<1>5. ASSUME NEW p \in Callers,
            \/ DropForgets(p) \/ BecomesAttempt(p) \/ JoinsAttempt(p)
            \/ PendingConflicts(p)
     PROVE  Alone'
  BY <1>5
  DEF HostInv, TypeOK, Places, Free, OneCaller, OneAttempt, Attempting, Alone,
      DropForgets, GoesWith, processes, locals, Goes, BecomesAttempt, ReachesPending,
      JoinsAttempt, PendingConflicts, Returns
<1>6. ASSUME NEW p \in Callers,
            \/ FinishStart(p) \/ SpawnFails(p) \/ AwaitAnnounced(p)
            \/ AwaitSilent(p)
     PROVE  Alone'
  BY <1>6
  DEF HostInv, TypeOK, Places, Free, OneCaller, OneAttempt, Attempting, Alone,
      FinishStart, Shares, Released, processes, locals, SpawnFails, Resolves,
      GoesWith, Goes, AwaitAnnounced, AwaitSilent, EndSilent, Kill
<1>7. ASSUME NEW p \in Callers,
            \/ AwaitEOF(p) \/ AwaitExit(p) \/ TakesHold(p) \/ LosesRace(p)
     PROVE  Alone'
  BY <1>7
  DEF HostInv, TypeOK, Places, Free, OneCaller, OneAttempt, Attempting, Alone,
      AwaitEOF, Goes, processes, locals, AwaitExit, Resolves, GoesWith, TakesHold,
      LosesRace, EndLoser, Kill
<1>8. ASSUME NEW p \in Callers,
            \/ AdoptNoRecord(p) \/ AdoptConflicts(p) \/ AdoptSupersedes(p)
            \/ AwaitGone(p)
     PROVE  Alone'
  BY <1>8
  DEF HostInv, TypeOK, Places, Free, OneCaller, OneAttempt, Attempting, Alone,
      AdoptNoRecord, AdoptMisses, processes, locals, GoesWith, Goes, AdoptConflicts,
      Resolves, AdoptSupersedes, Terminate, AwaitGone
<1>9. ASSUME NEW p \in Callers,
            \/ AdoptReads(p) \/ DialFails(p) \/ DialFindsOpen(p) \/ DialHolds(p)
     PROVE  Alone'
  BY <1>9
  DEF HostInv, TypeOK, Places, Free, OneCaller, OneAttempt, Attempting, Alone,
      AdoptReads, GoesWith, RecordRead, processes, locals, Goes, DialFails,
      AdoptMisses, DialFindsOpen, AdoptFinds, Resolves, DialHolds
<1>10. ASSUME NEW p \in Callers,
            \/ GreetAnswers(p) \/ GreetFails(p) \/ Ungreeted(p) \/ StopTakes(p)
     PROVE  Alone'
  BY <1>10
  DEF HostInv, TypeOK, Places, Free, OneCaller, OneAttempt, Attempting, Alone,
      GreetAnswers, AdoptFinds, processes, locals, GoesWith, Resolves, Goes,
      GreetFails, OpenWithout, Ungreeted, AdoptMisses, StopTakes
<1>11. ASSUME NEW p \in Callers,
            \/ StopFindsNothing(p) \/ Retake(p) \/ EndSignals(p) \/ EndObserved(p)
     PROVE  Alone'
  BY <1>11
  DEF HostInv, TypeOK, Places, Free, OneCaller, OneAttempt, Attempting, Alone,
      StopFindsNothing, Goes, processes, locals, Retake, GoesWith, Returns, Stopped,
      EndSignals, Kill, Terminate, EndObserved
<1>12. ASSUME NEW p \in Callers,
            \/ EndTimesOut(p) \/ StopForgets(p) \/ ShutdownReads(p)
            \/ ShutdownDone(p)
     PROVE  Alone'
  BY <1>12
  DEF HostInv, TypeOK, Places, Free, OneCaller, OneAttempt, Attempting, Alone,
      EndTimesOut, GoesWith, Returns, processes, locals, Goes, StopForgets, Stopped,
      ShutdownReads, ShutdownDone
<1>13. ASSUME NEW p \in Callers, NEW u \in Units,
            Spawn(p, u)
     PROVE  Alone'
  BY <1>13
  DEF HostInv, TypeOK, Places, Free, OneCaller, OneAttempt, Attempting, Alone, Spawn,
      GoesWith, locals, Goes
<1>14. ASSUME NEW p \in Callers, NEW written \in BOOLEAN,
            Remember(p, written)
     PROVE  Alone'
  BY <1>14
  DEF HostInv, TypeOK, Places, Free, OneCaller, OneAttempt, Attempting, Alone,
      Remember, Goes, processes, locals
<1>15. ASSUME NEW p \in Callers, NEW what \in Calls, NEW d \in Decls,
            Begin(p, what, d)
     PROVE  Alone'
  BY <1>15
  DEF HostInv, TypeOK, Places, Free, OneCaller, OneAttempt, Attempting, Alone, Begin,
      processes
<1>16. ASSUME Crash
     PROVE  Alone'
  BY <1>16
  DEF HostInv, TypeOK, Places, Free, OneCaller, OneAttempt, Attempting, Alone, Crash,
      processes
<1>17. CASE UNCHANGED vars
  BY <1>17 DEF HostInv, TypeOK, Places, Free, OneCaller, OneAttempt, Attempting, Alone, vars,
      processes, locals
<1>18. QED
  BY <1>1, <1>2, <1>3, <1>4, <1>5, <1>6, <1>7, <1>8, <1>9, <1>10, <1>11, <1>12,
     <1>13, <1>14, <1>15, <1>16, <1>17
  DEF Next, UnitStep, WatcherStep, CallerStep, StartStep, AdoptStep, StopStep

\* What a start was declared for is compared where the unit is chosen, and the
\* declaration of a running unit never changes.
LEMMA FittingStep ==
    ASSUME OneCaller, HostInv, OneAttempt, Alone, Fitting, [Next]_vars
    PROVE  Fitting'
<1>1. ASSUME NEW p \in Callers,
            OpenConflicts(p)
     PROVE  Fitting'
  BY <1>1, SidecarAssumption
  DEF HostInv, TypeOK, Places, Started, Holding, Free, Holds, OneCaller, Alone,
      Fitting, Fits, OpenConflicts, Returns, Conflicts, processes, locals, GoesWith,
      Goes
<1>2. ASSUME NEW p \in Callers,
            SpawnFails(p)
     PROVE  Fitting'
  BY <1>2, SidecarAssumption
  DEF HostInv, TypeOK, Places, Started, Holding, Free, Holds, OneCaller, Alone,
      Fitting, Fits, SpawnFails, Resolves, processes, locals, GoesWith, Goes
<1>3. ASSUME NEW p \in Callers,
            AwaitSilent(p)
     PROVE  Fitting'
  BY <1>3, SidecarAssumption
  DEF HostInv, TypeOK, Places, Started, Holding, Free, Holds, OneCaller, Alone,
      Fitting, Fits, AwaitSilent, Resolves, EndSilent, locals, GoesWith, Kill, Goes
<1>4. ASSUME NEW p \in Callers,
            AwaitExit(p)
     PROVE  Fitting'
  BY <1>4, SidecarAssumption
  DEF HostInv, TypeOK, Places, Started, Holding, Free, Holds, OneCaller, Alone,
      Fitting, Fits, AwaitExit, Resolves, processes, locals, GoesWith, Goes
<1>5. ASSUME NEW p \in Callers,
            AdoptConflicts(p)
     PROVE  Fitting'
  BY <1>5, SidecarAssumption
  DEF HostInv, TypeOK, Places, Started, Holding, Free, Holds, OneCaller, Alone,
      Fitting, Fits, AdoptConflicts, Resolves, Conflicts, processes, locals,
      GoesWith, Goes
<1>6. ASSUME NEW p \in Callers,
            ShutdownDone(p)
     PROVE  Fitting'
  BY <1>6, SidecarAssumption
  DEF HostInv, TypeOK, Places, Started, Holding, Free, Holds, OneCaller, Alone,
      Fitting, Fits, ShutdownDone, Returns, processes, locals, GoesWith, Goes
<1>7. ASSUME NEW p \in Callers, NEW what \in Calls, NEW d \in Decls,
            Begin(p, what, d)
     PROVE  Fitting'
  BY <1>7, SidecarAssumption
  DEF HostInv, TypeOK, Places, Started, Holding, Free, Holds, OneCaller, Alone,
      Fitting, Fits, Begin, processes
<1>8. ASSUME Crash
     PROVE  Fitting'
  BY <1>8, SidecarAssumption
  DEF HostInv, TypeOK, Places, Started, Holding, Free, Holds, OneCaller, Alone,
      Fitting, Fits, Crash, processes
<1>9. ASSUME NEW p \in Callers,
            Retake(p)
     PROVE  Fitting'
  <2>1. CASE open = NoHold
    BY <1>9, <2>1, SidecarAssumption DEF HostInv, TypeOK, Places, Started, Fitting, Fits, Retake, GoesWith, Returns,
      Stopped, processes, locals, Goes
  <2>2. CASE open # NoHold
    BY <1>9, <2>2, SidecarAssumption DEF HostInv, TypeOK, Places, Started, Fitting, Fits, Retake, GoesWith, Returns,
      Stopped, processes, locals, Goes
  <2>3. QED
    BY <2>1, <2>2
<1>10. ASSUME NEW p \in Callers,
            EndTimesOut(p)
     PROVE  Fitting'
  <2>1. CASE call[p] = "shutdown"
    BY <1>10, <2>1, SidecarAssumption DEF HostInv, TypeOK, Places, Started, Fitting, Fits, EndTimesOut, GoesWith, Returns,
      processes, locals, Goes
  <2>2. CASE call[p] # "shutdown"
    BY <1>10, <2>2, SidecarAssumption DEF HostInv, TypeOK, Places, Started, Fitting, Fits, EndTimesOut, GoesWith, Returns,
      processes, locals, Goes
  <2>3. QED
    BY <2>1, <2>2
<1>11. ASSUME NEW p \in Callers,
            StopForgets(p)
     PROVE  Fitting'
  <2>1. CASE call[p] = "shutdown"
    BY <1>11, <2>1, SidecarAssumption DEF HostInv, TypeOK, Places, Started, Fitting, Fits, StopForgets, GoesWith, Returns,
      Stopped, processes, locals, Goes
  <2>2. CASE call[p] # "shutdown"
    BY <1>11, <2>2, SidecarAssumption DEF HostInv, TypeOK, Places, Started, Fitting, Fits, StopForgets, GoesWith, Returns,
      Stopped, processes, locals, Goes
  <2>3. QED
    BY <2>1, <2>2
<1>12. ASSUME NEW p \in Callers,
            AdoptReads(p)
     PROVE  Fitting'
  <2>1. call[p] = "start" => Fits(ask[p], record)
    BY <1>12, SidecarAssumption
    DEF HostInv, TypeOK, AdoptReads, Conflicts, Supersedes, TakesOver, Fits
  <2>2. QED
    BY <1>12, <2>1 DEF HostInv, TypeOK, Fitting, Fits, AdoptReads, GoesWith, Goes,
      processes, locals
<1>13. ASSUME NEW u \in Units,
            \/ Announces(u) \/ Mutes(u) \/ Deafens(u) \/ Dies(u)
     PROVE  Fitting'
  BY <1>13
  DEF HostInv, TypeOK, Places, Started, Holding, Free, Holds, OneCaller, Alone,
      Fitting, Fits, Announces, locals, Mutes, Deafens, Dies
<1>14. ASSUME NEW u \in Units,
            \/ WatcherUnholds(u) \/ WatcherForgets(u)
     PROVE  Fitting'
  BY <1>14
  DEF HostInv, TypeOK, Places, Started, Holding, Free, Holds, OneCaller, Alone,
      Fitting, Fits, WatcherUnholds, OpenWithout, processes, locals, WatcherForgets
<1>15. ASSUME NEW p \in Callers,
            \/ OpenStands(p) \/ OpenYields(p) \/ Unrecord(p) \/ OpenMatches(p)
     PROVE  Fitting'
  BY <1>15
  DEF HostInv, TypeOK, Places, Started, Holding, Free, Holds, OneCaller, Alone,
      Fitting, Fits, OpenStands, Returns, HasNoOpinion, processes, locals, GoesWith,
      Goes, OpenYields, TakesOver, Unrecord, OpenMatches
<1>16. ASSUME NEW p \in Callers,
            \/ ProbeAnswers(p) \/ ProbeFails(p) \/ Drop(p) \/ DropForgets(p)
     PROVE  Fitting'
  BY <1>16
  DEF HostInv, TypeOK, Places, Started, Holding, Free, Holds, OneCaller, Alone,
      Fitting, Fits, ProbeAnswers, Returns, processes, locals, GoesWith, Goes,
      ProbeFails, Drop, OpenWithout, DropForgets
<1>17. ASSUME NEW p \in Callers,
            \/ BecomesAttempt(p) \/ JoinsAttempt(p) \/ PendingConflicts(p)
            \/ FinishStart(p)
     PROVE  Fitting'
  BY <1>17
  DEF HostInv, TypeOK, Places, Started, Holding, Free, Holds, OneCaller, Alone,
      Fitting, Fits, BecomesAttempt, Goes, ReachesPending, processes, locals,
      JoinsAttempt, Conflicts, PendingConflicts, Returns, GoesWith, FinishStart,
      Shares, Released
<1>18. ASSUME NEW p \in Callers,
            \/ AwaitAnnounced(p) \/ AwaitEOF(p) \/ TakesHold(p) \/ LosesRace(p)
     PROVE  Fitting'
  BY <1>18
  DEF HostInv, TypeOK, Places, Started, Holding, Free, Holds, OneCaller, Alone,
      Fitting, Fits, AwaitAnnounced, Goes, processes, locals, AwaitEOF, TakesHold,
      Resolves, GoesWith, LosesRace, EndLoser, Kill
<1>19. ASSUME NEW p \in Callers,
            \/ AdoptNoRecord(p) \/ AdoptSupersedes(p) \/ AwaitGone(p)
            \/ DialFails(p)
     PROVE  Fitting'
  BY <1>19
  DEF HostInv, TypeOK, Places, Started, Holding, Free, Holds, OneCaller, Alone,
      Fitting, Fits, AdoptNoRecord, AdoptMisses, processes, locals, GoesWith, Goes,
      AdoptSupersedes, Terminate, Supersedes, Conflicts, TakesOver, AwaitGone,
      DialFails
<1>20. ASSUME NEW p \in Callers,
            \/ DialFindsOpen(p) \/ DialHolds(p) \/ GreetAnswers(p)
            \/ GreetFails(p)
     PROVE  Fitting'
  BY <1>20
  DEF HostInv, TypeOK, Places, Started, Holding, Free, Holds, OneCaller, Alone,
      Fitting, Fits, DialFindsOpen, AdoptFinds, processes, locals, GoesWith,
      Resolves, Goes, DialHolds, GreetAnswers, GreetFails, OpenWithout
<1>21. ASSUME NEW p \in Callers,
            \/ Ungreeted(p) \/ StopTakes(p) \/ StopFindsNothing(p)
            \/ EndSignals(p)
     PROVE  Fitting'
  BY <1>21
  DEF HostInv, TypeOK, Places, Started, Holding, Free, Holds, OneCaller, Alone,
      Fitting, Fits, Ungreeted, AdoptMisses, processes, locals, GoesWith, Goes,
      StopTakes, StopFindsNothing, EndSignals, Kill, Terminate
<1>22. ASSUME NEW p \in Callers,
            \/ EndObserved(p) \/ ShutdownReads(p)
     PROVE  Fitting'
  BY <1>22
  DEF HostInv, TypeOK, Places, Started, Holding, Free, Holds, OneCaller, Alone,
      Fitting, Fits, EndObserved, GoesWith, processes, locals, Goes, ShutdownReads
<1>23. ASSUME NEW p \in Callers, NEW u \in Units,
            Spawn(p, u)
     PROVE  Fitting'
  BY <1>23
  DEF HostInv, TypeOK, Places, Started, Holding, Free, Holds, OneCaller, Alone,
      Fitting, Fits, Spawn, GoesWith, locals, Goes
<1>24. ASSUME NEW p \in Callers, NEW written \in BOOLEAN,
            Remember(p, written)
     PROVE  Fitting'
  BY <1>24
  DEF HostInv, TypeOK, Places, Started, Holding, Free, Holds, OneCaller, Alone,
      Fitting, Fits, Remember, Goes, processes, locals
<1>25. CASE UNCHANGED vars
  BY <1>25 DEF HostInv, TypeOK, Places, Started, Holding, Free, Holds, OneCaller, Alone,
      Fitting, Fits, vars, processes, locals
<1>26. QED
  BY <1>1, <1>2, <1>3, <1>4, <1>5, <1>6, <1>7, <1>8, <1>9, <1>10, <1>11, <1>12,
     <1>13, <1>14, <1>15, <1>16, <1>17, <1>18, <1>19, <1>20, <1>21, <1>22, <1>23,
     <1>24, <1>25
  DEF Next, UnitStep, WatcherStep, CallerStep, StartStep, AdoptStep, StopStep

\* The table is empty at first.
LEMMA InitAlone ==
    ASSUME Init
    PROVE  AloneInv
<1>1. HostInv /\ OneAttempt
  BY InitHost
<1>2. Alone /\ Fitting
  BY SidecarAssumption DEF Init, Alone, Fitting
<1>3. QED
  BY <1>1, <1>2 DEF AloneInv

\* A start that succeeded handed out a unit that runs what was declared, whatever
\* crashed, died, lingered or was refused before, for callers that never overlap.
THEOREM AnswersFit == ASSUME OneCaller PROVE Spec => []AnswerFits
<1>1. Init => AloneInv
  BY InitAlone
<1>2. AloneInv /\ [Next]_vars => AloneInv'
  BY HostStep, AttemptStep, AloneStep, FittingStep DEF AloneInv
<1>3. AloneInv => AnswerFits
  BY DEF AloneInv, Fitting, Fits, AnswerFits
<1>4. QED
  BY <1>1, <1>2, <1>3, PTL DEF Spec

-----------------------------------------------------------------------------
\* One caller of units that end by a signal only, and then do, on a disk that writes.

Orderly == OneCaller /\ ~Mortal /\ ~Stubborn /\ ~DiskFails

\* What a watcher can come to see.
Told(u) == signalled[u] \/ proc[u] = "dead"
Child(u) == [unit |-> u, adopted |-> FALSE]
Spawning == {"await", "awaitExit", "remember", "hold"}

\* A watcher has an end to see only while the caller waits for that end.
Followed ==
    \A u \in Units :
        (watch[u] = "watching" /\ Told(u)) \/ watch[u] = "unheld" =>
            \E p \in Callers : pc[p] = "ending" /\ mine[p] = Child(u)

\* A watched unit the disk names is held.
Kept ==
    \A u \in Units : watch[u] = "watching" /\ record = u =>
        open = Child(u) \/ \E p \in Callers : mine[p] = Child(u)

\* What is adopted has no watcher.
Adopted ==
    /\ open.adopted => watch[open.unit] \notin {"watching", "unheld"}
    /\ \A p \in Callers :
        mine[p].adopted => watch[mine[p].unit] \notin {"watching", "unheld"}

\* A unit the caller spawned runs until the caller holds it.
Fresh ==
    \A p \in Callers : pc[p] \in Spawning =>
        /\ ~mine[p].adopted /\ ~Told(mine[p].unit)
        /\ watch[mine[p].unit] = "waiting"

Watched == Followed /\ Kept /\ Adopted /\ Fresh

\* The record names what is held, and where the caller has a unit to end or to hold
\* it names that one or nothing.
Recorded ==
    /\ open # NoHold => record = open.unit
    /\ \A p \in Callers :
        /\ pc[p] \in {"probe", "drop", "greet"} => open = mine[p]
        /\ pc[p] \in {"dropped", "unrecord", "dial", "ungreeted", "hold", "awaitGone"}
              => record = mine[p].unit
        /\ pc[p] = "end" => record = IF call[p] = "start" THEN NoUnit ELSE mine[p].unit
        /\ pc[p] \in {"ending", "stopped"} => record \in {mine[p].unit, NoUnit}
        /\ pc[p] \in {"spawn", "await", "awaitExit", "remember"} => record = NoUnit

RecordInv == HostInv /\ OneAttempt /\ Alone /\ Watched /\ Recorded

\* Signals and ends come from the one caller, which waits for each watcher it told.
LEMMA FollowedStep ==
    ASSUME Orderly, HostInv, OneAttempt, Alone, Watched, Recorded, [Next]_vars
    PROVE  Followed'
<1> DEFINE Sees(v) == (watch[v] = "watching" /\ Told(v)) \/ watch[v] = "unheld"
<1>1. ASSUME NEW p \in Callers,
            GreetAnswers(p)
     PROVE  Followed'
  <2>1. \A v \in Units : ~Sees(v)
    BY <1>1 DEF Orderly, OneCaller, Watched, Followed, GreetAnswers
  <2>2. UNCHANGED <<watch, signalled, proc>>
    BY <1>1 DEF GreetAnswers, processes
  <2>3. QED
    BY <2>1, <2>2 DEF Followed, Told
<1>2. ASSUME NEW p \in Callers,
            Retake(p)
     PROVE  Followed'
  <2>1. \A v \in Units : ~Sees(v)
    BY <1>2 DEF Orderly, OneCaller, Watched, Followed, Retake
  <2>2. UNCHANGED <<watch, signalled, proc>>
    BY <1>2 DEF Retake, processes
  <2>3. QED
    BY <2>1, <2>2 DEF Followed, Told
<1>3. ASSUME NEW p \in Callers,
            StopForgets(p)
     PROVE  Followed'
  <2>1. \A v \in Units : ~Sees(v)
    BY <1>3 DEF Orderly, OneCaller, Watched, Followed, StopForgets
  <2>2. UNCHANGED <<watch, signalled, proc>>
    BY <1>3 DEF StopForgets, processes
  <2>3. QED
    BY <2>1, <2>2 DEF Followed, Told
<1>4. ASSUME NEW u \in Units,
            Dies(u)
     PROVE  Followed'
  <2>1. \A v \in Units : Told(v)' => Told(v)
    BY <1>4 DEF Orderly, HostInv, TypeOK, Dies, Told
  <2>2. UNCHANGED <<watch, pc, mine>>
    BY <1>4 DEF Dies
  <2>3. QED
    BY <2>1, <2>2 DEF Watched, Followed, Child
<1>5. ASSUME NEW u \in Units,
            WatcherUnholds(u)
     PROVE  Followed'
  <2>1. PICK p \in Callers : pc[p] = "ending" /\ mine[p] = Child(u)
    BY <1>5 DEF Watched, Followed, Told, WatcherUnholds
  <2>2. \A v \in Units : Sees(v)' => v = u \/ Sees(v)
    BY <1>5 DEF HostInv, TypeOK, WatcherUnholds, Told, processes
  <2>3. UNCHANGED <<pc, mine>>
    BY <1>5 DEF WatcherUnholds
  <2>4. QED
    BY <2>1, <2>2, <2>3 DEF Watched, Followed, Child
<1>6. ASSUME NEW p \in Callers,
            TakesHold(p)
     PROVE  Followed'
  <2>1. \A v \in Units : ~Sees(v)
    BY <1>6 DEF Orderly, OneCaller, Watched, Followed, TakesHold
  <2>2. ~Told(mine[p].unit)
    BY <1>6 DEF Watched, Fresh, Spawning, TakesHold
  <2>3. UNCHANGED processes /\ watch' = [watch EXCEPT ![mine[p].unit] = "watching"]
    BY <1>6 DEF TakesHold
  <2>4. \A v \in Units : ~Sees(v)'
    BY <2>1, <2>2, <2>3 DEF HostInv, TypeOK, Told, processes
  <2>5. QED
    BY <2>4 DEF Followed
<1>7. ASSUME NEW p \in Callers,
            AdoptSupersedes(p)
     PROVE  Followed'
  <2>1. \A v \in Units : ~Sees(v)
    BY <1>7 DEF Orderly, OneCaller, Watched, Followed, AdoptSupersedes
  <2>2. record \in Units /\ open = NoHold /\ mine[p] = NoHold
    BY <1>7 DEF HostInv, TypeOK, Places, Free, Alone, AdoptSupersedes
  <2>3. watch[record] # "watching"
    <3>1. open # Child(record) /\ \A q \in Callers : mine[q] # Child(record)
      BY <2>2, SidecarAssumption DEF Orderly, OneCaller, Child, NoHold
    <3>2. QED
      BY <2>2, <3>1 DEF Watched, Kept
  <2>4. /\ UNCHANGED <<watch, proc>>
        /\ signalled' = [signalled EXCEPT ![record] = TRUE]
    BY <1>7 DEF AdoptSupersedes, Terminate
  <2>5. \A v \in Units : ~Sees(v)'
    BY <2>1, <2>3, <2>4 DEF HostInv, TypeOK, Told
  <2>6. QED
    BY <2>5 DEF Followed
<1>8. ASSUME NEW p \in Callers,
            EndSignals(p)
     PROVE  Followed'
  <2>1. \A v \in Units : ~Sees(v)
    BY <1>8 DEF Orderly, OneCaller, Watched, Followed, EndSignals
  <2> DEFINE w == mine[p].unit
  <2>2. w \in Units /\ (mine[p].adopted \/ mine[p] = Child(w))
    BY <1>8 DEF HostInv, TypeOK, Places, Holding, Holds, Child, EndSignals
  <2>3. /\ UNCHANGED <<watch, mine>> /\ pc' = [pc EXCEPT ![p] = "ending"]
        /\ \A v \in Units \ {w} : Told(v)' => Told(v)
    BY <1>8, <2>2 DEF HostInv, TypeOK, EndSignals, Kill, Terminate, Goes, Told
  <2>4. CASE mine[p].adopted
    <3>1. watch[w] \notin {"watching", "unheld"}
      BY <2>4 DEF Watched, Adopted
    <3>2. QED
      BY <2>1, <2>2, <2>3, <3>1 DEF Followed
  <2>5. CASE mine[p] = Child(w)
    <3>1. \A v \in Units : Sees(v)' => v = w
      BY <2>1, <2>3
    <3>2. pc'[p] = "ending" /\ mine'[p] = Child(w)
      BY <2>3, <2>5 DEF HostInv, TypeOK
    <3>3. QED
      BY <3>1, <3>2 DEF Followed, Child
  <2>6. QED
    BY <2>2, <2>4, <2>5
<1>9. ASSUME NEW p \in Callers,
            EndObserved(p)
     PROVE  Followed'
  <2>1. \A v \in Units : ~Sees(v)
    <3> SUFFICES ASSUME NEW v \in Units, Sees(v)
                 PROVE  FALSE
      OBVIOUS
    <3>1. mine[p] = Child(v)
      BY DEF Orderly, OneCaller, Watched, Followed
    <3>2. watch[v] = "gone"
      BY <1>9, <3>1 DEF EndObserved, HasEnded, Child
    <3>3. QED
      BY <3>2
  <2>2. UNCHANGED <<watch, signalled, proc>>
    BY <1>9 DEF EndObserved, processes
  <2>3. QED
    BY <2>1, <2>2 DEF Followed, Told
<1>10. ASSUME NEW u \in Units,
            Announces(u)
     PROVE  Followed'
  BY <1>10, ZenonT(40)
  DEF Orderly, OneCaller, HostInv, TypeOK, Places, Started, Holding, Free, Alone,
      Watched, Holds, NoHold, Followed, Adopted, Fresh, Told, Child, Spawning, Ended,
      Announces, locals
<1>11. ASSUME NEW u \in Units,
            Mutes(u)
     PROVE  Followed'
  BY <1>11, ZenonT(40)
  DEF Orderly, OneCaller, HostInv, TypeOK, Places, Started, Holding, Free, Alone,
      Watched, Holds, NoHold, Followed, Adopted, Fresh, Told, Child, Spawning, Ended,
      Mutes, locals
<1>12. ASSUME NEW u \in Units,
            Deafens(u)
     PROVE  Followed'
  BY <1>12, ZenonT(40)
  DEF Orderly, OneCaller, HostInv, TypeOK, Places, Started, Holding, Free, Alone,
      Watched, Holds, NoHold, Followed, Adopted, Fresh, Told, Child, Spawning, Ended,
      Deafens, locals
<1>13. ASSUME NEW u \in Units,
            WatcherForgets(u)
     PROVE  Followed'
  BY <1>13, ZenonT(40)
  DEF Orderly, OneCaller, HostInv, TypeOK, Places, Started, Holding, Free, Alone,
      Watched, Holds, NoHold, Followed, Adopted, Fresh, Told, Child, Spawning, Ended,
      WatcherForgets, processes, locals
<1>14. ASSUME NEW p \in Callers,
            OpenStands(p)
     PROVE  Followed'
  BY <1>14
  DEF Orderly, OneCaller, HostInv, TypeOK, Places, Started, Holding, Free, Alone,
      Watched, Holds, NoHold, Followed, Adopted, Fresh, Told, Child, Spawning, Ended,
      OpenStands, Returns, processes, locals, GoesWith, Goes
<1>15. ASSUME NEW p \in Callers,
            OpenConflicts(p)
     PROVE  Followed'
  BY <1>15
  DEF Orderly, OneCaller, HostInv, TypeOK, Places, Started, Holding, Free, Alone,
      Watched, Holds, NoHold, Followed, Adopted, Fresh, Told, Child, Spawning, Ended,
      OpenConflicts, Returns, processes, locals, GoesWith, Goes
<1>16. ASSUME NEW p \in Callers,
            OpenYields(p)
     PROVE  Followed'
  BY <1>16
  DEF Orderly, OneCaller, HostInv, TypeOK, Places, Started, Holding, Free, Alone,
      Watched, Holds, NoHold, Followed, Adopted, Fresh, Told, Child, Spawning, Ended,
      OpenYields, GoesWith, processes, locals, Goes
<1>17. ASSUME NEW p \in Callers,
            Unrecord(p)
     PROVE  Followed'
  BY <1>17, ZenonT(40)
  DEF Orderly, OneCaller, HostInv, TypeOK, Places, Started, Holding, Free, Alone,
      Watched, Holds, NoHold, Followed, Adopted, Fresh, Told, Child, Spawning, Ended,
      Unrecord, Goes, processes, locals
<1>18. ASSUME NEW p \in Callers,
            OpenMatches(p)
     PROVE  Followed'
  BY <1>18
  DEF Orderly, OneCaller, HostInv, TypeOK, Places, Started, Holding, Free, Alone,
      Watched, Holds, NoHold, Followed, Adopted, Fresh, Told, Child, Spawning, Ended,
      OpenMatches, GoesWith, processes, locals, Goes
<1>19. ASSUME NEW p \in Callers,
            ProbeAnswers(p)
     PROVE  Followed'
  BY <1>19
  DEF Orderly, OneCaller, HostInv, TypeOK, Places, Started, Holding, Free, Alone,
      Watched, Holds, NoHold, Followed, Adopted, Fresh, Told, Child, Spawning, Ended,
      ProbeAnswers, Returns, processes, locals, GoesWith, Goes
<1>20. ASSUME NEW p \in Callers,
            ProbeFails(p)
     PROVE  Followed'
  BY <1>20, ZenonT(40)
  DEF Orderly, OneCaller, HostInv, TypeOK, Places, Started, Holding, Free, Alone,
      Watched, Holds, NoHold, Followed, Adopted, Fresh, Told, Child, Spawning, Ended,
      ProbeFails, Goes, processes, locals
<1>21. ASSUME NEW p \in Callers,
            Drop(p)
     PROVE  Followed'
  BY <1>21, ZenonT(40)
  DEF Orderly, OneCaller, HostInv, TypeOK, Places, Started, Holding, Free, Alone,
      Watched, Holds, NoHold, Followed, Adopted, Fresh, Told, Child, Spawning, Ended,
      Drop, Goes, OpenWithout, processes, locals
<1>22. ASSUME NEW p \in Callers,
            DropForgets(p)
     PROVE  Followed'
  BY <1>22
  DEF Orderly, OneCaller, HostInv, TypeOK, Places, Started, Holding, Free, Alone,
      Watched, Holds, NoHold, Followed, Adopted, Fresh, Told, Child, Spawning, Ended,
      DropForgets, GoesWith, processes, locals, Goes
<1>23. ASSUME NEW p \in Callers,
            BecomesAttempt(p)
     PROVE  Followed'
  BY <1>23, ZenonT(40)
  DEF Orderly, OneCaller, HostInv, TypeOK, Places, Started, Holding, Free, Alone,
      Watched, Holds, NoHold, Followed, Adopted, Fresh, Told, Child, Spawning, Ended,
      BecomesAttempt, Goes, ReachesPending, NonePending, processes, locals
<1>24. ASSUME NEW p \in Callers,
            JoinsAttempt(p)
     PROVE  Followed'
  BY <1>24, ZenonT(40)
  DEF Orderly, OneCaller, HostInv, TypeOK, Places, Started, Holding, Free, Alone,
      Watched, Holds, NoHold, Followed, Adopted, Fresh, Told, Child, Spawning, Ended,
      JoinsAttempt, Goes, ReachesPending, processes, locals
<1>25. ASSUME NEW p \in Callers,
            PendingConflicts(p)
     PROVE  Followed'
  BY <1>25
  DEF Orderly, OneCaller, HostInv, TypeOK, Places, Started, Holding, Free, Alone,
      Watched, Holds, NoHold, Followed, Adopted, Fresh, Told, Child, Spawning, Ended,
      PendingConflicts, Returns, ReachesPending, processes, locals, GoesWith, Goes
<1>26. ASSUME NEW p \in Callers,
            FinishStart(p)
     PROVE  Followed'
  BY <1>26, ZenonT(40)
  DEF Orderly, OneCaller, HostInv, TypeOK, Places, Started, Holding, Free, Alone,
      Watched, Holds, NoHold, Followed, Adopted, Fresh, Told, Child, Spawning, Ended,
      FinishStart, Shares, Released, processes, locals
<1>27. ASSUME NEW p \in Callers,
            SpawnFails(p)
     PROVE  Followed'
  BY <1>27
  DEF Orderly, OneCaller, HostInv, TypeOK, Places, Started, Holding, Free, Alone,
      Watched, Holds, NoHold, Followed, Adopted, Fresh, Told, Child, Spawning, Ended,
      SpawnFails, Resolves, processes, locals, GoesWith, Goes
<1>28. ASSUME NEW p \in Callers,
            AwaitAnnounced(p)
     PROVE  Followed'
  BY <1>28, ZenonT(40)
  DEF Orderly, OneCaller, HostInv, TypeOK, Places, Started, Holding, Free, Alone,
      Watched, Holds, NoHold, Followed, Adopted, Fresh, Told, Child, Spawning, Ended,
      AwaitAnnounced, Goes, processes, locals
<1>29. ASSUME NEW p \in Callers,
            AwaitSilent(p)
     PROVE  Followed'
  BY <1>29, ZenonT(40)
  DEF Orderly, OneCaller, HostInv, TypeOK, Places, Started, Holding, Free, Alone,
      Watched, Holds, NoHold, Followed, Adopted, Fresh, Told, Child, Spawning, Ended,
      AwaitSilent, Resolves, EndSilent, locals, GoesWith, Kill, Goes
<1>30. ASSUME NEW p \in Callers,
            AwaitEOF(p)
     PROVE  Followed'
  BY <1>30, ZenonT(40)
  DEF Orderly, OneCaller, HostInv, TypeOK, Places, Started, Holding, Free, Alone,
      Watched, Holds, NoHold, Followed, Adopted, Fresh, Told, Child, Spawning, Ended,
      AwaitEOF, Goes, processes, locals
<1>31. ASSUME NEW p \in Callers,
            AwaitExit(p)
     PROVE  Followed'
  BY <1>31
  DEF Orderly, OneCaller, HostInv, TypeOK, Places, Started, Holding, Free, Alone,
      Watched, Holds, NoHold, Followed, Adopted, Fresh, Told, Child, Spawning, Ended,
      AwaitExit, Resolves, processes, locals, GoesWith, Goes
<1>32. ASSUME NEW p \in Callers,
            LosesRace(p)
     PROVE  Followed'
  BY <1>32
  DEF Orderly, OneCaller, HostInv, TypeOK, Places, Started, Holding, Free, Alone,
      Watched, Holds, NoHold, Followed, Adopted, Fresh, Told, Child, Spawning, Ended,
      LosesRace, Resolves, EndLoser, locals, GoesWith, Kill, Goes
<1>33. ASSUME NEW p \in Callers,
            AdoptNoRecord(p)
     PROVE  Followed'
  BY <1>33
  DEF Orderly, OneCaller, HostInv, TypeOK, Places, Started, Holding, Free, Alone,
      Watched, Holds, NoHold, Followed, Adopted, Fresh, Told, Child, Spawning, Ended,
      AdoptNoRecord, AdoptMisses, processes, locals, GoesWith, Goes
<1>34. ASSUME NEW p \in Callers,
            AdoptConflicts(p)
     PROVE  Followed'
  BY <1>34
  DEF Orderly, OneCaller, HostInv, TypeOK, Places, Started, Holding, Free, Alone,
      Watched, Holds, NoHold, Followed, Adopted, Fresh, Told, Child, Spawning, Ended,
      AdoptConflicts, Resolves, processes, locals, GoesWith, Goes
<1>35. ASSUME NEW p \in Callers,
            AwaitGone(p)
     PROVE  Followed'
  BY <1>35
  DEF Orderly, OneCaller, HostInv, TypeOK, Places, Started, Holding, Free, Alone,
      Watched, Holds, NoHold, Followed, Adopted, Fresh, Told, Child, Spawning, Ended,
      AwaitGone, GoesWith, processes, locals, Goes
<1>36. ASSUME NEW p \in Callers,
            AdoptReads(p)
     PROVE  Followed'
  BY <1>36
  DEF Orderly, OneCaller, HostInv, TypeOK, Places, Started, Holding, Free, Alone,
      Watched, Holds, NoHold, Followed, Adopted, Fresh, Told, Child, Spawning, Ended,
      AdoptReads, GoesWith, RecordRead, processes, locals, Goes
<1>37. ASSUME NEW p \in Callers,
            DialFails(p)
     PROVE  Followed'
  BY <1>37
  DEF Orderly, OneCaller, HostInv, TypeOK, Places, Started, Holding, Free, Alone,
      Watched, Holds, NoHold, Followed, Adopted, Fresh, Told, Child, Spawning, Ended,
      DialFails, AdoptMisses, processes, locals, GoesWith, Goes
<1>38. ASSUME NEW p \in Callers,
            DialFindsOpen(p)
     PROVE  Followed'
  BY <1>38
  DEF Orderly, OneCaller, HostInv, TypeOK, Places, Started, Holding, Free, Alone,
      Watched, Holds, NoHold, Followed, Adopted, Fresh, Told, Child, Spawning, Ended,
      DialFindsOpen, AdoptFinds, processes, locals, GoesWith, Resolves, Goes
<1>39. ASSUME NEW p \in Callers,
            DialHolds(p)
     PROVE  Followed'
  BY <1>39, ZenonT(40)
  DEF Orderly, OneCaller, HostInv, TypeOK, Places, Started, Holding, Free, Alone,
      Watched, Holds, NoHold, Followed, Adopted, Fresh, Told, Child, Spawning, Ended,
      DialHolds, Goes, processes, locals
<1>40. ASSUME NEW p \in Callers,
            GreetFails(p)
     PROVE  Followed'
  BY <1>40, ZenonT(40)
  DEF Orderly, OneCaller, HostInv, TypeOK, Places, Started, Holding, Free, Alone,
      Watched, Holds, NoHold, Followed, Adopted, Fresh, Told, Child, Spawning, Ended,
      GreetFails, Goes, OpenWithout, processes, locals
<1>41. ASSUME NEW p \in Callers,
            Ungreeted(p)
     PROVE  Followed'
  BY <1>41
  DEF Orderly, OneCaller, HostInv, TypeOK, Places, Started, Holding, Free, Alone,
      Watched, Holds, NoHold, Followed, Adopted, Fresh, Told, Child, Spawning, Ended,
      Ungreeted, AdoptMisses, processes, locals, GoesWith, Goes
<1>42. ASSUME NEW p \in Callers,
            StopTakes(p)
     PROVE  Followed'
  BY <1>42
  DEF Orderly, OneCaller, HostInv, TypeOK, Places, Started, Holding, Free, Alone,
      Watched, Holds, NoHold, Followed, Adopted, Fresh, Told, Child, Spawning, Ended,
      StopTakes, GoesWith, processes, locals, Goes
<1>43. ASSUME NEW p \in Callers,
            StopFindsNothing(p)
     PROVE  Followed'
  BY <1>43, ZenonT(40)
  DEF Orderly, OneCaller, HostInv, TypeOK, Places, Started, Holding, Free, Alone,
      Watched, Holds, NoHold, Followed, Adopted, Fresh, Told, Child, Spawning, Ended,
      StopFindsNothing, Goes, processes, locals
<1>44. ASSUME NEW p \in Callers,
            EndTimesOut(p)
     PROVE  Followed'
  BY <1>44
  DEF Orderly, OneCaller, HostInv, TypeOK, Places, Started, Holding, Free, Alone,
      Watched, Holds, NoHold, Followed, Adopted, Fresh, Told, Child, Spawning, Ended,
      EndTimesOut, GoesWith, Returns, HasEnded, processes, locals, Goes
<1>45. ASSUME NEW p \in Callers,
            ShutdownReads(p)
     PROVE  Followed'
  BY <1>45, ZenonT(40)
  DEF Orderly, OneCaller, HostInv, TypeOK, Places, Started, Holding, Free, Alone,
      Watched, Holds, NoHold, Followed, Adopted, Fresh, Told, Child, Spawning, Ended,
      ShutdownReads, Goes, processes, Alive
<1>46. ASSUME NEW p \in Callers,
            ShutdownDone(p)
     PROVE  Followed'
  BY <1>46
  DEF Orderly, OneCaller, HostInv, TypeOK, Places, Started, Holding, Free, Alone,
      Watched, Holds, NoHold, Followed, Adopted, Fresh, Told, Child, Spawning, Ended,
      ShutdownDone, Returns, processes, locals, GoesWith, Alive, Goes
<1>47. ASSUME NEW p \in Callers, NEW u \in Units,
            Spawn(p, u)
     PROVE  Followed'
  BY <1>47, ZenonT(40)
  DEF Orderly, OneCaller, HostInv, TypeOK, Places, Started, Holding, Free, Alone,
      Watched, Holds, NoHold, Followed, Adopted, Fresh, Told, Child, Spawning, Ended,
      Spawn, GoesWith, locals, Goes
<1>48. ASSUME NEW p \in Callers, NEW written \in BOOLEAN,
            Remember(p, written)
     PROVE  Followed'
  BY <1>48, ZenonT(40)
  DEF Orderly, OneCaller, HostInv, TypeOK, Places, Started, Holding, Free, Alone,
      Watched, Holds, NoHold, Followed, Adopted, Fresh, Told, Child, Spawning, Ended,
      Remember, Goes, processes, locals
<1>49. ASSUME NEW p \in Callers, NEW what \in Calls, NEW d \in Decls,
            Begin(p, what, d)
     PROVE  Followed'
  BY <1>49, ZenonT(40)
  DEF Orderly, OneCaller, HostInv, TypeOK, Places, Started, Holding, Free, Alone,
      Watched, Holds, NoHold, Followed, Adopted, Fresh, Told, Child, Spawning, Ended,
      Begin, processes
<1>50. ASSUME Crash
     PROVE  Followed'
  BY <1>50
  DEF Orderly, OneCaller, HostInv, TypeOK, Places, Started, Holding, Free, Alone,
      Watched, Holds, NoHold, Followed, Adopted, Fresh, Told, Child, Spawning, Ended,
      Crash, processes
<1>51. CASE UNCHANGED vars
  BY <1>51, ZenonT(40) DEF Orderly, OneCaller, HostInv, TypeOK, Places, Started, Holding, Free, Alone,
      Watched, Holds, NoHold, Followed, Adopted, Fresh, Told, Child, Spawning, Ended,
      vars, processes, locals
<1>52. QED
  BY <1>1, <1>2, <1>3, <1>4, <1>5, <1>6, <1>7, <1>8, <1>9, <1>10, <1>11, <1>12,
     <1>13, <1>14, <1>15, <1>16, <1>17, <1>18, <1>19, <1>20, <1>21, <1>22, <1>23,
     <1>24, <1>25, <1>26, <1>27, <1>28, <1>29, <1>30, <1>31, <1>32, <1>33, <1>34,
     <1>35, <1>36, <1>37, <1>38, <1>39, <1>40, <1>41, <1>42, <1>43, <1>44, <1>45,
     <1>46, <1>47, <1>48, <1>49, <1>50, <1>51
  DEF Next, UnitStep, WatcherStep, CallerStep, StartStep, AdoptStep, StopStep

\* A record of a watched unit outlives its hold only in the hands of the caller.
LEMMA KeptStep ==
    ASSUME Orderly, HostInv, OneAttempt, Alone, Watched, Recorded, [Next]_vars
    PROVE  Kept'
<1>1. ASSUME NEW p \in Callers,
            OpenYields(p)
     PROVE  Kept'
  <2>1. mine[p] = NoHold /\ record' = record /\ watch' = watch
    BY <1>1 DEF HostInv, Places, Free, OpenYields
  <2>2. \A v \in Units : open = Child(v) => mine'[p] = Child(v)
    BY <1>1, SidecarAssumption DEF HostInv, TypeOK, OpenYields, GoesWith, Goes, Child, NoHold
  <2>3. QED
    BY <2>1, <2>2, SidecarAssumption
    DEF Orderly, OneCaller, Watched, Kept, Child, NoHold
<1>2. ASSUME NEW p \in Callers,
            OpenMatches(p)
     PROVE  Kept'
  <2>1. mine[p] = NoHold /\ record' = record /\ watch' = watch
    BY <1>2 DEF HostInv, Places, Free, OpenMatches
  <2>2. \A v \in Units : open = Child(v) => mine'[p] = Child(v)
    BY <1>2, SidecarAssumption DEF HostInv, TypeOK, OpenMatches, GoesWith, Goes, Child, NoHold
  <2>3. QED
    BY <2>1, <2>2, SidecarAssumption
    DEF Orderly, OneCaller, Watched, Kept, Child, NoHold
<1>3. ASSUME NEW p \in Callers,
            StopTakes(p)
     PROVE  Kept'
  <2>1. mine[p] = NoHold /\ record' = record /\ watch' = watch
    BY <1>3 DEF HostInv, Places, Free, StopTakes
  <2>2. \A v \in Units : open = Child(v) => mine'[p] = Child(v)
    BY <1>3, SidecarAssumption DEF HostInv, TypeOK, StopTakes, GoesWith, Goes, Child, NoHold
  <2>3. QED
    BY <2>1, <2>2, SidecarAssumption
    DEF Orderly, OneCaller, Watched, Kept, Child, NoHold
<1>4. ASSUME NEW p \in Callers,
            Retake(p)
     PROVE  Kept'
  <2>1. mine[p] = NoHold /\ record' = record /\ watch' = watch
    BY <1>4 DEF HostInv, Places, Free, Retake
  <2>2. \A v \in Units : Child(v) # NoHold
    BY SidecarAssumption DEF Child, NoHold
  <2>3. open # NoHold => mine'[p] = open
    BY <1>4 DEF HostInv, TypeOK, Retake, GoesWith
  <2>4. QED
    BY <2>1, <2>2, <2>3 DEF Orderly, OneCaller, Watched, Kept, Child
<1>5. ASSUME NEW u \in Units,
            WatcherUnholds(u)
     PROVE  Kept'
  <2>1. \A v \in Units : watch'[v] = "watching" => v # u /\ watch[v] = "watching"
    BY <1>5 DEF HostInv, TypeOK, WatcherUnholds
  <2>2. \A v \in Units : v # u /\ open = Child(v) => open' = Child(v)
    BY <1>5 DEF WatcherUnholds, OpenWithout, Child
  <2>3. record' = record /\ mine' = mine
    BY <1>5 DEF WatcherUnholds
  <2>4. QED
    BY <2>1, <2>2, <2>3 DEF Watched, Kept, Child
<1>6. ASSUME NEW p \in Callers,
            Drop(p)
     PROVE  Kept'
  <2>1. open = mine[p] /\ mine' = mine /\ record' = record /\ watch' = watch
    BY <1>6 DEF Recorded, Drop
  <2>2. QED
    BY <2>1 DEF Watched, Kept, Child
<1>7. ASSUME NEW p \in Callers,
            GreetFails(p)
     PROVE  Kept'
  <2>1. open = mine[p] /\ mine' = mine /\ record' = record /\ watch' = watch
    BY <1>7 DEF Recorded, GreetFails
  <2>2. QED
    BY <2>1 DEF Watched, Kept, Child
<1>8. ASSUME NEW p \in Callers,
            DialHolds(p)
     PROVE  Kept'
  <2>1. open = NoHold /\ mine' = mine /\ record' = record /\ watch' = watch
    BY <1>8 DEF DialHolds
  <2>2. QED
    BY <2>1, SidecarAssumption DEF Watched, Kept, Child, NoHold
<1>9. ASSUME NEW u \in Units,
            \/ Announces(u) \/ Mutes(u) \/ Deafens(u) \/ Dies(u)
     PROVE  Kept'
  BY <1>9
  DEF Orderly, OneCaller, HostInv, TypeOK, Places, Started, Holding, Free, Alone,
      Watched, Holds, NoHold, Followed, Kept, Fresh, Told, Child, Spawning, Recorded,
      Announces, locals, Mutes, Deafens, Dies, Alive
<1>10. ASSUME NEW u \in Units,
            WatcherForgets(u)
     PROVE  Kept'
  BY <1>10, ZenonT(40)
  DEF Orderly, OneCaller, HostInv, TypeOK, Places, Started, Holding, Free, Alone,
      Watched, Holds, NoHold, Followed, Kept, Fresh, Told, Child, Spawning, Recorded,
      WatcherForgets, processes, locals
<1>11. ASSUME NEW p \in Callers,
            \/ OpenStands(p) \/ OpenConflicts(p) \/ Unrecord(p) \/ ProbeAnswers(p)
     PROVE  Kept'
  BY <1>11
  DEF Orderly, OneCaller, HostInv, TypeOK, Places, Started, Holding, Free, Alone,
      Watched, Holds, NoHold, Followed, Kept, Fresh, Told, Child, Spawning, Recorded,
      OpenStands, Returns, processes, locals, GoesWith, Goes, OpenConflicts,
      Unrecord, ProbeAnswers
<1>12. ASSUME NEW p \in Callers,
            \/ ProbeFails(p) \/ DropForgets(p) \/ BecomesAttempt(p)
            \/ JoinsAttempt(p)
     PROVE  Kept'
  BY <1>12
  DEF Orderly, OneCaller, HostInv, TypeOK, Places, Started, Holding, Free, Alone,
      Watched, Holds, NoHold, Followed, Kept, Fresh, Told, Child, Spawning, Recorded,
      ProbeFails, Goes, processes, locals, DropForgets, GoesWith, BecomesAttempt,
      ReachesPending, NonePending, JoinsAttempt
<1>13. ASSUME NEW p \in Callers,
            \/ PendingConflicts(p) \/ FinishStart(p) \/ SpawnFails(p)
            \/ AwaitAnnounced(p)
     PROVE  Kept'
  BY <1>13
  DEF Orderly, OneCaller, HostInv, TypeOK, Places, Started, Holding, Free, Alone,
      Watched, Holds, NoHold, Followed, Kept, Fresh, Told, Child, Spawning, Recorded,
      PendingConflicts, Returns, ReachesPending, processes, locals, GoesWith, Goes,
      FinishStart, Shares, Released, SpawnFails, Resolves, AwaitAnnounced
<1>14. ASSUME NEW p \in Callers,
            \/ AwaitSilent(p) \/ AwaitEOF(p) \/ AwaitExit(p) \/ TakesHold(p)
     PROVE  Kept'
  BY <1>14
  DEF Orderly, OneCaller, HostInv, TypeOK, Places, Started, Holding, Free, Alone,
      Watched, Holds, NoHold, Followed, Kept, Fresh, Told, Child, Spawning, Recorded,
      AwaitSilent, Resolves, EndSilent, locals, GoesWith, Kill, Goes, AwaitEOF,
      processes, AwaitExit, TakesHold
<1>15. ASSUME NEW p \in Callers,
            \/ LosesRace(p) \/ AdoptNoRecord(p) \/ AdoptConflicts(p)
            \/ AdoptSupersedes(p)
     PROVE  Kept'
  BY <1>15
  DEF Orderly, OneCaller, HostInv, TypeOK, Places, Started, Holding, Free, Alone,
      Watched, Holds, NoHold, Followed, Kept, Fresh, Told, Child, Spawning, Recorded,
      LosesRace, Resolves, EndLoser, locals, GoesWith, Kill, Goes, AdoptNoRecord,
      AdoptMisses, processes, AdoptConflicts, AdoptSupersedes, Terminate
<1>16. ASSUME NEW p \in Callers,
            \/ AwaitGone(p) \/ AdoptReads(p) \/ DialFails(p) \/ DialFindsOpen(p)
     PROVE  Kept'
  BY <1>16
  DEF Orderly, OneCaller, HostInv, TypeOK, Places, Started, Holding, Free, Alone,
      Watched, Holds, NoHold, Followed, Kept, Fresh, Told, Child, Spawning, Recorded,
      AwaitGone, GoesWith, processes, locals, Goes, AdoptReads, RecordRead,
      DialFails, AdoptMisses, DialFindsOpen, AdoptFinds, Resolves
<1>17. ASSUME NEW p \in Callers,
            \/ GreetAnswers(p) \/ Ungreeted(p) \/ StopFindsNothing(p)
            \/ EndSignals(p)
     PROVE  Kept'
  BY <1>17
  DEF Orderly, OneCaller, HostInv, TypeOK, Places, Started, Holding, Free, Alone,
      Watched, Holds, NoHold, Followed, Kept, Fresh, Told, Child, Spawning, Recorded,
      GreetAnswers, AdoptFinds, processes, locals, GoesWith, Resolves, Goes,
      Ungreeted, AdoptMisses, StopFindsNothing, EndSignals, Kill, Terminate
<1>18. ASSUME NEW p \in Callers,
            \/ EndObserved(p) \/ EndTimesOut(p) \/ StopForgets(p)
            \/ ShutdownReads(p)
     PROVE  Kept'
  BY <1>18
  DEF Orderly, OneCaller, HostInv, TypeOK, Places, Started, Holding, Free, Alone,
      Watched, Holds, NoHold, Followed, Kept, Fresh, Told, Child, Spawning, Recorded,
      EndObserved, GoesWith, HasEnded, processes, locals, Goes, EndTimesOut, Returns,
      StopForgets, Stopped, ShutdownReads, Alive
<1>19. ASSUME NEW p \in Callers,
            ShutdownDone(p)
     PROVE  Kept'
  BY <1>19
  DEF Orderly, OneCaller, HostInv, TypeOK, Places, Started, Holding, Free, Alone,
      Watched, Holds, NoHold, Followed, Kept, Fresh, Told, Child, Spawning, Recorded,
      ShutdownDone, Returns, processes, locals, GoesWith, Alive, Goes
<1>20. ASSUME NEW p \in Callers, NEW u \in Units,
            Spawn(p, u)
     PROVE  Kept'
  BY <1>20
  DEF Orderly, OneCaller, HostInv, TypeOK, Places, Started, Holding, Free, Alone,
      Watched, Holds, NoHold, Followed, Kept, Fresh, Told, Child, Spawning, Recorded,
      Spawn, GoesWith, locals, Goes
<1>21. ASSUME NEW p \in Callers, NEW written \in BOOLEAN,
            Remember(p, written)
     PROVE  Kept'
  BY <1>21
  DEF Orderly, OneCaller, HostInv, TypeOK, Places, Started, Holding, Free, Alone,
      Watched, Holds, NoHold, Followed, Kept, Fresh, Told, Child, Spawning, Recorded,
      Remember, Goes, processes, locals
<1>22. ASSUME NEW p \in Callers, NEW what \in Calls, NEW d \in Decls,
            Begin(p, what, d)
     PROVE  Kept'
  BY <1>22
  DEF Orderly, OneCaller, HostInv, TypeOK, Places, Started, Holding, Free, Alone,
      Watched, Holds, NoHold, Followed, Kept, Fresh, Told, Child, Spawning, Recorded,
      Begin, processes
<1>23. ASSUME Crash
     PROVE  Kept'
  BY <1>23
  DEF Orderly, OneCaller, HostInv, TypeOK, Places, Started, Holding, Free, Alone,
      Watched, Holds, NoHold, Followed, Kept, Fresh, Told, Child, Spawning, Recorded,
      Crash, processes
<1>24. CASE UNCHANGED vars
  BY <1>24 DEF Orderly, OneCaller, HostInv, TypeOK, Places, Started, Holding, Free, Alone,
      Watched, Holds, NoHold, Followed, Kept, Fresh, Told, Child, Spawning, Recorded,
      vars, processes, locals
<1>25. QED
  BY <1>1, <1>2, <1>3, <1>4, <1>5, <1>6, <1>7, <1>8, <1>9, <1>10, <1>11, <1>12,
     <1>13, <1>14, <1>15, <1>16, <1>17, <1>18, <1>19, <1>20, <1>21, <1>22, <1>23,
     <1>24
  DEF Next, UnitStep, WatcherStep, CallerStep, StartStep, AdoptStep, StopStep

\* The caller adopts from the record, which names no watched unit then.
LEMMA AdoptedStep ==
    ASSUME Orderly, HostInv, OneAttempt, Alone, Watched, Recorded, [Next]_vars
    PROVE  Adopted'
<1>1. ASSUME NEW p \in Callers,
            AdoptSupersedes(p)
     PROVE  Adopted'
  <2>1. record \in Units /\ open = NoHold /\ mine[p] = NoHold
    BY <1>1 DEF HostInv, TypeOK, Places, Free, Alone, AdoptSupersedes
  <2>2. watch[record] # "watching"
    <3>1. open # Child(record) /\ \A q \in Callers : mine[q] # Child(record)
      BY <2>1, SidecarAssumption DEF Orderly, OneCaller, Child, NoHold
    <3>2. QED
      BY <2>1, <3>1 DEF Watched, Kept
  <2>3. watch[record] # "unheld"
    BY <1>1, <2>1 DEF Orderly, OneCaller, Watched, Followed, AdoptSupersedes
  <2>4. /\ open' = open /\ watch' = watch
        /\ mine' = [mine EXCEPT ![p] = [unit |-> record, adopted |-> TRUE]]
    BY <1>1 DEF AdoptSupersedes, GoesWith
  <2>5. QED
    BY <2>2, <2>3, <2>4 DEF HostInv, TypeOK, Watched, Adopted
<1>2. ASSUME NEW p \in Callers,
            AdoptReads(p)
     PROVE  Adopted'
  <2>1. record \in Units /\ open = NoHold /\ mine[p] = NoHold
    BY <1>2 DEF HostInv, TypeOK, Places, Free, Alone, AdoptReads
  <2>2. watch[record] # "watching"
    <3>1. open # Child(record) /\ \A q \in Callers : mine[q] # Child(record)
      BY <2>1, SidecarAssumption DEF Orderly, OneCaller, Child, NoHold
    <3>2. QED
      BY <2>1, <3>1 DEF Watched, Kept
  <2>3. watch[record] # "unheld"
    BY <1>2, <2>1 DEF Orderly, OneCaller, Watched, Followed, AdoptReads
  <2>4. /\ open' = open /\ watch' = watch
        /\ mine' = [mine EXCEPT ![p] = [unit |-> record, adopted |-> TRUE]]
    BY <1>2 DEF AdoptReads, GoesWith
  <2>5. QED
    BY <2>2, <2>3, <2>4 DEF HostInv, TypeOK, Watched, Adopted
<1>3. ASSUME NEW u \in Units,
            \/ Announces(u) \/ Mutes(u) \/ Deafens(u) \/ Dies(u)
     PROVE  Adopted'
  BY <1>3
  DEF Orderly, OneCaller, HostInv, TypeOK, Places, Started, Holding, Free, Alone,
      Watched, Holds, NoHold, Followed, Adopted, Kept, Fresh, Spawning, Recorded,
      Child, Announces, locals, Mutes, Deafens, Dies, Alive
<1>4. ASSUME NEW u \in Units,
            \/ WatcherUnholds(u) \/ WatcherForgets(u)
     PROVE  Adopted'
  BY <1>4
  DEF Orderly, OneCaller, HostInv, TypeOK, Places, Started, Holding, Free, Alone,
      Watched, Holds, NoHold, Followed, Adopted, Kept, Fresh, Spawning, Recorded,
      Child, WatcherUnholds, OpenWithout, processes, locals, WatcherForgets
<1>5. ASSUME NEW p \in Callers,
            \/ OpenStands(p) \/ OpenConflicts(p) \/ OpenYields(p) \/ Unrecord(p)
     PROVE  Adopted'
  BY <1>5
  DEF Orderly, OneCaller, HostInv, TypeOK, Places, Started, Holding, Free, Alone,
      Watched, Holds, NoHold, Followed, Adopted, Kept, Fresh, Spawning, Recorded,
      Child, OpenStands, Returns, processes, locals, GoesWith, Goes, OpenConflicts,
      OpenYields, Unrecord
<1>6. ASSUME NEW p \in Callers,
            \/ OpenMatches(p) \/ ProbeAnswers(p) \/ ProbeFails(p) \/ Drop(p)
     PROVE  Adopted'
  BY <1>6
  DEF Orderly, OneCaller, HostInv, TypeOK, Places, Started, Holding, Free, Alone,
      Watched, Holds, NoHold, Followed, Adopted, Kept, Fresh, Spawning, Recorded,
      Child, OpenMatches, GoesWith, processes, locals, Goes, ProbeAnswers, Returns,
      ProbeFails, Drop, OpenWithout
<1>7. ASSUME NEW p \in Callers,
            \/ DropForgets(p) \/ BecomesAttempt(p) \/ JoinsAttempt(p)
            \/ PendingConflicts(p)
     PROVE  Adopted'
  BY <1>7
  DEF Orderly, OneCaller, HostInv, TypeOK, Places, Started, Holding, Free, Alone,
      Watched, Holds, NoHold, Followed, Adopted, Kept, Fresh, Spawning, Recorded,
      Child, DropForgets, GoesWith, processes, locals, Goes, BecomesAttempt,
      ReachesPending, NonePending, JoinsAttempt, PendingConflicts, Returns
<1>8. ASSUME NEW p \in Callers,
            \/ FinishStart(p) \/ SpawnFails(p) \/ AwaitAnnounced(p)
            \/ AwaitSilent(p)
     PROVE  Adopted'
  BY <1>8
  DEF Orderly, OneCaller, HostInv, TypeOK, Places, Started, Holding, Free, Alone,
      Watched, Holds, NoHold, Followed, Adopted, Kept, Fresh, Spawning, Recorded,
      Child, FinishStart, Shares, Released, processes, locals, SpawnFails, Resolves,
      GoesWith, Goes, AwaitAnnounced, AwaitSilent, EndSilent, Kill
<1>9. ASSUME NEW p \in Callers,
            \/ AwaitEOF(p) \/ AwaitExit(p) \/ TakesHold(p) \/ LosesRace(p)
     PROVE  Adopted'
  BY <1>9
  DEF Orderly, OneCaller, HostInv, TypeOK, Places, Started, Holding, Free, Alone,
      Watched, Holds, NoHold, Followed, Adopted, Kept, Fresh, Spawning, Recorded,
      Child, AwaitEOF, Goes, processes, locals, AwaitExit, Resolves, GoesWith,
      TakesHold, LosesRace, EndLoser, Kill
<1>10. ASSUME NEW p \in Callers,
            \/ AdoptNoRecord(p) \/ AdoptConflicts(p) \/ AwaitGone(p)
            \/ DialFails(p)
     PROVE  Adopted'
  BY <1>10
  DEF Orderly, OneCaller, HostInv, TypeOK, Places, Started, Holding, Free, Alone,
      Watched, Holds, NoHold, Followed, Adopted, Kept, Fresh, Spawning, Recorded,
      Child, AdoptNoRecord, AdoptMisses, processes, locals, GoesWith, Goes,
      AdoptConflicts, Resolves, AwaitGone, DialFails
<1>11. ASSUME NEW p \in Callers,
            \/ DialFindsOpen(p) \/ DialHolds(p) \/ GreetAnswers(p)
            \/ GreetFails(p)
     PROVE  Adopted'
  BY <1>11
  DEF Orderly, OneCaller, HostInv, TypeOK, Places, Started, Holding, Free, Alone,
      Watched, Holds, NoHold, Followed, Adopted, Kept, Fresh, Spawning, Recorded,
      Child, DialFindsOpen, AdoptFinds, processes, locals, GoesWith, Resolves, Goes,
      DialHolds, GreetAnswers, GreetFails, OpenWithout
<1>12. ASSUME NEW p \in Callers,
            \/ Ungreeted(p) \/ StopTakes(p) \/ StopFindsNothing(p) \/ Retake(p)
     PROVE  Adopted'
  BY <1>12
  DEF Orderly, OneCaller, HostInv, TypeOK, Places, Started, Holding, Free, Alone,
      Watched, Holds, NoHold, Followed, Adopted, Kept, Fresh, Spawning, Recorded,
      Child, Ungreeted, AdoptMisses, processes, locals, GoesWith, Goes, StopTakes,
      StopFindsNothing, Retake, Returns, Stopped
<1>13. ASSUME NEW p \in Callers,
            \/ EndSignals(p) \/ EndObserved(p) \/ EndTimesOut(p) \/ StopForgets(p)
     PROVE  Adopted'
  BY <1>13
  DEF Orderly, OneCaller, HostInv, TypeOK, Places, Started, Holding, Free, Alone,
      Watched, Holds, NoHold, Followed, Adopted, Kept, Fresh, Spawning, Recorded,
      Child, EndSignals, Goes, Kill, Terminate, locals, EndObserved, GoesWith,
      HasEnded, processes, EndTimesOut, Returns, StopForgets, Stopped
<1>14. ASSUME NEW p \in Callers,
            \/ ShutdownReads(p) \/ ShutdownDone(p)
     PROVE  Adopted'
  BY <1>14
  DEF Orderly, OneCaller, HostInv, TypeOK, Places, Started, Holding, Free, Alone,
      Watched, Holds, NoHold, Followed, Adopted, Kept, Fresh, Spawning, Recorded,
      Child, ShutdownReads, Goes, processes, Alive, ShutdownDone, Returns, locals,
      GoesWith
<1>15. ASSUME NEW p \in Callers, NEW u \in Units,
            Spawn(p, u)
     PROVE  Adopted'
  BY <1>15
  DEF Orderly, OneCaller, HostInv, TypeOK, Places, Started, Holding, Free, Alone,
      Watched, Holds, NoHold, Followed, Adopted, Kept, Fresh, Spawning, Recorded,
      Child, Spawn, GoesWith, locals, Goes
<1>16. ASSUME NEW p \in Callers, NEW written \in BOOLEAN,
            Remember(p, written)
     PROVE  Adopted'
  BY <1>16
  DEF Orderly, OneCaller, HostInv, TypeOK, Places, Started, Holding, Free, Alone,
      Watched, Holds, NoHold, Followed, Adopted, Kept, Fresh, Spawning, Recorded,
      Child, Remember, Goes, processes, locals
<1>17. ASSUME NEW p \in Callers, NEW what \in Calls, NEW d \in Decls,
            Begin(p, what, d)
     PROVE  Adopted'
  BY <1>17
  DEF Orderly, OneCaller, HostInv, TypeOK, Places, Started, Holding, Free, Alone,
      Watched, Holds, NoHold, Followed, Adopted, Kept, Fresh, Spawning, Recorded,
      Child, Begin, processes
<1>18. ASSUME Crash
     PROVE  Adopted'
  BY <1>18
  DEF Orderly, OneCaller, HostInv, TypeOK, Places, Started, Holding, Free, Alone,
      Watched, Holds, NoHold, Followed, Adopted, Kept, Fresh, Spawning, Recorded,
      Child, Crash, processes
<1>19. CASE UNCHANGED vars
  BY <1>19 DEF Orderly, OneCaller, HostInv, TypeOK, Places, Started, Holding, Free, Alone,
      Watched, Holds, NoHold, Followed, Adopted, Kept, Fresh, Spawning, Recorded,
      Child, vars, processes, locals
<1>20. QED
  BY <1>1, <1>2, <1>3, <1>4, <1>5, <1>6, <1>7, <1>8, <1>9, <1>10, <1>11, <1>12,
     <1>13, <1>14, <1>15, <1>16, <1>17, <1>18, <1>19
  DEF Next, UnitStep, WatcherStep, CallerStep, StartStep, AdoptStep, StopStep

\* Nobody signals a unit between its spawn and its hold.
LEMMA FreshStep ==
    ASSUME Orderly, HostInv, OneAttempt, Alone, Watched, Recorded, [Next]_vars
    PROVE  Fresh'
<1>1. ASSUME NEW u \in Units,
            \/ Announces(u) \/ Mutes(u) \/ Deafens(u) \/ Dies(u)
     PROVE  Fresh'
  BY <1>1
  DEF Orderly, OneCaller, HostInv, TypeOK, Places, Started, Holding, Free, Alone,
      Watched, Holds, NoHold, Followed, Fresh, Told, Spawning, Announces, locals,
      Mutes, Deafens, Dies, Alive
<1>2. ASSUME NEW u \in Units,
            \/ WatcherUnholds(u) \/ WatcherForgets(u)
     PROVE  Fresh'
  BY <1>2
  DEF Orderly, OneCaller, HostInv, TypeOK, Places, Started, Holding, Free, Alone,
      Watched, Holds, NoHold, Followed, Fresh, Told, Spawning, WatcherUnholds,
      OpenWithout, processes, locals, WatcherForgets
<1>3. ASSUME NEW p \in Callers,
            \/ OpenStands(p) \/ OpenConflicts(p) \/ OpenYields(p) \/ Unrecord(p)
     PROVE  Fresh'
  BY <1>3
  DEF Orderly, OneCaller, HostInv, TypeOK, Places, Started, Holding, Free, Alone,
      Watched, Holds, NoHold, Followed, Fresh, Told, Spawning, OpenStands, Returns,
      processes, locals, GoesWith, Goes, OpenConflicts, OpenYields, Unrecord
<1>4. ASSUME NEW p \in Callers,
            \/ OpenMatches(p) \/ ProbeAnswers(p) \/ ProbeFails(p) \/ Drop(p)
     PROVE  Fresh'
  BY <1>4
  DEF Orderly, OneCaller, HostInv, TypeOK, Places, Started, Holding, Free, Alone,
      Watched, Holds, NoHold, Followed, Fresh, Told, Spawning, OpenMatches, GoesWith,
      processes, locals, Goes, ProbeAnswers, Returns, ProbeFails, Drop, OpenWithout
<1>5. ASSUME NEW p \in Callers,
            \/ DropForgets(p) \/ BecomesAttempt(p) \/ JoinsAttempt(p)
            \/ PendingConflicts(p)
     PROVE  Fresh'
  BY <1>5
  DEF Orderly, OneCaller, HostInv, TypeOK, Places, Started, Holding, Free, Alone,
      Watched, Holds, NoHold, Followed, Fresh, Told, Spawning, DropForgets, GoesWith,
      processes, locals, Goes, BecomesAttempt, ReachesPending, NonePending,
      JoinsAttempt, PendingConflicts, Returns
<1>6. ASSUME NEW p \in Callers,
            \/ FinishStart(p) \/ SpawnFails(p) \/ AwaitAnnounced(p)
            \/ AwaitSilent(p)
     PROVE  Fresh'
  BY <1>6
  DEF Orderly, OneCaller, HostInv, TypeOK, Places, Started, Holding, Free, Alone,
      Watched, Holds, NoHold, Followed, Fresh, Told, Spawning, FinishStart, Shares,
      Released, processes, locals, SpawnFails, Resolves, GoesWith, Goes,
      AwaitAnnounced, AwaitSilent, EndSilent, Kill
<1>7. ASSUME NEW p \in Callers,
            \/ AwaitEOF(p) \/ AwaitExit(p) \/ TakesHold(p) \/ LosesRace(p)
     PROVE  Fresh'
  BY <1>7
  DEF Orderly, OneCaller, HostInv, TypeOK, Places, Started, Holding, Free, Alone,
      Watched, Holds, NoHold, Followed, Fresh, Told, Spawning, AwaitEOF, Goes,
      processes, locals, AwaitExit, Resolves, GoesWith, TakesHold, LosesRace,
      EndLoser, Kill
<1>8. ASSUME NEW p \in Callers,
            \/ AdoptNoRecord(p) \/ AdoptConflicts(p) \/ AdoptSupersedes(p)
            \/ AwaitGone(p)
     PROVE  Fresh'
  BY <1>8
  DEF Orderly, OneCaller, HostInv, TypeOK, Places, Started, Holding, Free, Alone,
      Watched, Holds, NoHold, Followed, Fresh, Told, Spawning, AdoptNoRecord,
      AdoptMisses, processes, locals, GoesWith, Goes, AdoptConflicts, Resolves,
      AdoptSupersedes, Terminate, AwaitGone
<1>9. ASSUME NEW p \in Callers,
            \/ AdoptReads(p) \/ DialFails(p) \/ DialFindsOpen(p) \/ DialHolds(p)
     PROVE  Fresh'
  BY <1>9
  DEF Orderly, OneCaller, HostInv, TypeOK, Places, Started, Holding, Free, Alone,
      Watched, Holds, NoHold, Followed, Fresh, Told, Spawning, AdoptReads, GoesWith,
      RecordRead, processes, locals, Goes, DialFails, AdoptMisses, DialFindsOpen,
      AdoptFinds, Resolves, DialHolds
<1>10. ASSUME NEW p \in Callers,
            \/ GreetAnswers(p) \/ GreetFails(p) \/ Ungreeted(p) \/ StopTakes(p)
     PROVE  Fresh'
  BY <1>10
  DEF Orderly, OneCaller, HostInv, TypeOK, Places, Started, Holding, Free, Alone,
      Watched, Holds, NoHold, Followed, Fresh, Told, Spawning, GreetAnswers,
      AdoptFinds, processes, locals, GoesWith, Resolves, Goes, GreetFails,
      OpenWithout, Ungreeted, AdoptMisses, StopTakes
<1>11. ASSUME NEW p \in Callers,
            \/ StopFindsNothing(p) \/ Retake(p) \/ EndSignals(p) \/ EndObserved(p)
     PROVE  Fresh'
  BY <1>11
  DEF Orderly, OneCaller, HostInv, TypeOK, Places, Started, Holding, Free, Alone,
      Watched, Holds, NoHold, Followed, Fresh, Told, Spawning, StopFindsNothing,
      Goes, processes, locals, Retake, GoesWith, Returns, Stopped, EndSignals, Kill,
      Terminate, EndObserved, HasEnded
<1>12. ASSUME NEW p \in Callers,
            \/ EndTimesOut(p) \/ StopForgets(p) \/ ShutdownReads(p)
            \/ ShutdownDone(p)
     PROVE  Fresh'
  BY <1>12
  DEF Orderly, OneCaller, HostInv, TypeOK, Places, Started, Holding, Free, Alone,
      Watched, Holds, NoHold, Followed, Fresh, Told, Spawning, EndTimesOut, GoesWith,
      Returns, HasEnded, processes, locals, Goes, StopForgets, Stopped,
      ShutdownReads, Alive, ShutdownDone
<1>13. ASSUME NEW p \in Callers, NEW u \in Units,
            Spawn(p, u)
     PROVE  Fresh'
  BY <1>13
  DEF Orderly, OneCaller, HostInv, TypeOK, Places, Started, Holding, Free, Alone,
      Watched, Holds, NoHold, Followed, Fresh, Told, Spawning, Spawn, GoesWith,
      locals, Goes
<1>14. ASSUME NEW p \in Callers, NEW written \in BOOLEAN,
            Remember(p, written)
     PROVE  Fresh'
  BY <1>14
  DEF Orderly, OneCaller, HostInv, TypeOK, Places, Started, Holding, Free, Alone,
      Watched, Holds, NoHold, Followed, Fresh, Told, Spawning, Remember, Goes,
      processes, locals
<1>15. ASSUME NEW p \in Callers, NEW what \in Calls, NEW d \in Decls,
            Begin(p, what, d)
     PROVE  Fresh'
  BY <1>15
  DEF Orderly, OneCaller, HostInv, TypeOK, Places, Started, Holding, Free, Alone,
      Watched, Holds, NoHold, Followed, Fresh, Told, Spawning, Begin, processes
<1>16. ASSUME Crash
     PROVE  Fresh'
  BY <1>16
  DEF Orderly, OneCaller, HostInv, TypeOK, Places, Started, Holding, Free, Alone,
      Watched, Holds, NoHold, Followed, Fresh, Told, Spawning, Crash, processes
<1>17. CASE UNCHANGED vars
  BY <1>17 DEF Orderly, OneCaller, HostInv, TypeOK, Places, Started, Holding, Free, Alone,
      Watched, Holds, NoHold, Followed, Fresh, Told, Spawning, vars, processes,
      locals
<1>18. QED
  BY <1>1, <1>2, <1>3, <1>4, <1>5, <1>6, <1>7, <1>8, <1>9, <1>10, <1>11, <1>12,
     <1>13, <1>14, <1>15, <1>16, <1>17
  DEF Next, UnitStep, WatcherStep, CallerStep, StartStep, AdoptStep, StopStep

\* What is held is what the disk names, and each removal of the record is of the
\* unit the caller has.
LEMMA RecordedStep ==
    ASSUME Orderly, HostInv, OneAttempt, Alone, Watched, Recorded, [Next]_vars
    PROVE  Recorded'
<1>1. ASSUME NEW p \in Callers,
            Unrecord(p)
     PROVE  Recorded'
  BY <1>1
  DEF Orderly, OneCaller, HostInv, TypeOK, Places, Started, Holding, Free, Alone,
      Watched, Holds, NoHold, Recorded, Followed, Told, Ended, StartOnly, Unrecord,
      Goes, processes, locals
<1>2. ASSUME NEW p \in Callers,
            StopTakes(p)
     PROVE  Recorded'
  BY <1>2
  DEF Orderly, OneCaller, HostInv, TypeOK, Places, Started, Holding, Free, Alone,
      Watched, Holds, NoHold, Recorded, Followed, Told, Ended, StopOnly, StopTakes,
      GoesWith, processes, locals, Goes
<1>3. ASSUME NEW p \in Callers,
            Retake(p)
     PROVE  Recorded'
  <2>1. CASE open = NoHold
    BY <1>3, <2>1 DEF Orderly, OneCaller, HostInv, TypeOK, Places, Free, StopOnly, Recorded, Retake,
      GoesWith, Returns, Stopped, processes, locals, Goes
  <2>2. CASE open # NoHold
    BY <1>3, <2>2 DEF Orderly, OneCaller, HostInv, TypeOK, Places, Free, StopOnly, Recorded, Retake,
      GoesWith, Returns, Stopped, processes, locals, Goes
  <2>3. QED
    BY <2>1, <2>2
<1>4. ASSUME NEW u \in Units,
            \/ Announces(u) \/ Mutes(u) \/ Deafens(u) \/ Dies(u)
     PROVE  Recorded'
  BY <1>4
  DEF Orderly, OneCaller, HostInv, TypeOK, Places, Started, Holding, Free, Alone,
      Watched, Holds, NoHold, Recorded, Followed, Told, Ended, Announces, locals,
      Mutes, Deafens, Dies, Alive
<1>5. ASSUME NEW u \in Units,
            \/ WatcherUnholds(u) \/ WatcherForgets(u)
     PROVE  Recorded'
  BY <1>5
  DEF Orderly, OneCaller, HostInv, TypeOK, Places, Started, Holding, Free, Alone,
      Watched, Holds, NoHold, Recorded, Followed, Told, Ended, WatcherUnholds,
      OpenWithout, processes, locals, WatcherForgets
<1>6. ASSUME NEW p \in Callers,
            \/ OpenStands(p) \/ OpenConflicts(p) \/ OpenYields(p)
            \/ OpenMatches(p)
     PROVE  Recorded'
  BY <1>6
  DEF Orderly, OneCaller, HostInv, TypeOK, Places, Started, Holding, Free, Alone,
      Watched, Holds, NoHold, Recorded, Followed, Told, Ended, OpenStands, Returns,
      processes, locals, GoesWith, Goes, OpenConflicts, OpenYields, OpenMatches
<1>7. ASSUME NEW p \in Callers,
            \/ ProbeAnswers(p) \/ ProbeFails(p) \/ Drop(p) \/ DropForgets(p)
     PROVE  Recorded'
  BY <1>7
  DEF Orderly, OneCaller, HostInv, TypeOK, Places, Started, Holding, Free, Alone,
      Watched, Holds, NoHold, Recorded, Followed, Told, Ended, ProbeAnswers, Returns,
      processes, locals, GoesWith, Goes, ProbeFails, Drop, OpenWithout, DropForgets
<1>8. ASSUME NEW p \in Callers,
            \/ BecomesAttempt(p) \/ JoinsAttempt(p) \/ PendingConflicts(p)
            \/ FinishStart(p)
     PROVE  Recorded'
  BY <1>8
  DEF Orderly, OneCaller, HostInv, TypeOK, Places, Started, Holding, Free, Alone,
      Watched, Holds, NoHold, Recorded, Followed, Told, Ended, BecomesAttempt, Goes,
      ReachesPending, NonePending, processes, locals, JoinsAttempt, PendingConflicts,
      Returns, GoesWith, FinishStart, Shares, Released
<1>9. ASSUME NEW p \in Callers,
            \/ SpawnFails(p) \/ AwaitAnnounced(p) \/ AwaitSilent(p) \/ AwaitEOF(p)
     PROVE  Recorded'
  BY <1>9
  DEF Orderly, OneCaller, HostInv, TypeOK, Places, Started, Holding, Free, Alone,
      Watched, Holds, NoHold, Recorded, Followed, Told, Ended, SpawnFails, Resolves,
      processes, locals, GoesWith, Goes, AwaitAnnounced, AwaitSilent, EndSilent,
      Kill, AwaitEOF
<1>10. ASSUME NEW p \in Callers,
            \/ AwaitExit(p) \/ TakesHold(p) \/ LosesRace(p) \/ AdoptNoRecord(p)
     PROVE  Recorded'
  BY <1>10
  DEF Orderly, OneCaller, HostInv, TypeOK, Places, Started, Holding, Free, Alone,
      Watched, Holds, NoHold, Recorded, Followed, Told, Ended, AwaitExit, Resolves,
      processes, locals, GoesWith, Goes, TakesHold, LosesRace, EndLoser, Kill,
      AdoptNoRecord, AdoptMisses
<1>11. ASSUME NEW p \in Callers,
            \/ AdoptConflicts(p) \/ AdoptSupersedes(p) \/ AwaitGone(p)
            \/ AdoptReads(p)
     PROVE  Recorded'
  BY <1>11
  DEF Orderly, OneCaller, HostInv, TypeOK, Places, Started, Holding, Free, Alone,
      Watched, Holds, NoHold, Recorded, Followed, Told, Ended, AdoptConflicts,
      Resolves, processes, locals, GoesWith, Goes, AdoptSupersedes, Terminate,
      AwaitGone, AdoptReads, RecordRead
<1>12. ASSUME NEW p \in Callers,
            \/ DialFails(p) \/ DialFindsOpen(p) \/ DialHolds(p) \/ GreetAnswers(p)
     PROVE  Recorded'
  BY <1>12
  DEF Orderly, OneCaller, HostInv, TypeOK, Places, Started, Holding, Free, Alone,
      Watched, Holds, NoHold, Recorded, Followed, Told, Ended, DialFails,
      AdoptMisses, processes, locals, GoesWith, Goes, DialFindsOpen, AdoptFinds,
      Resolves, DialHolds, GreetAnswers
<1>13. ASSUME NEW p \in Callers,
            \/ GreetFails(p) \/ Ungreeted(p) \/ StopFindsNothing(p)
            \/ EndSignals(p)
     PROVE  Recorded'
  BY <1>13
  DEF Orderly, OneCaller, HostInv, TypeOK, Places, Started, Holding, Free, Alone,
      Watched, Holds, NoHold, Recorded, Followed, Told, Ended, GreetFails, Goes,
      OpenWithout, processes, locals, Ungreeted, AdoptMisses, GoesWith,
      StopFindsNothing, EndSignals, Kill, Terminate
<1>14. ASSUME NEW p \in Callers,
            \/ EndObserved(p) \/ EndTimesOut(p) \/ StopForgets(p)
            \/ ShutdownReads(p)
     PROVE  Recorded'
  BY <1>14
  DEF Orderly, OneCaller, HostInv, TypeOK, Places, Started, Holding, Free, Alone,
      Watched, Holds, NoHold, Recorded, Followed, Told, Ended, EndObserved, GoesWith,
      HasEnded, processes, locals, Goes, EndTimesOut, Returns, StopForgets, Stopped,
      ShutdownReads, Alive
<1>15. ASSUME NEW p \in Callers,
            ShutdownDone(p)
     PROVE  Recorded'
  BY <1>15
  DEF Orderly, OneCaller, HostInv, TypeOK, Places, Started, Holding, Free, Alone,
      Watched, Holds, NoHold, Recorded, Followed, Told, Ended, ShutdownDone, Returns,
      processes, locals, GoesWith, Alive, Goes
<1>16. ASSUME NEW p \in Callers, NEW u \in Units,
            Spawn(p, u)
     PROVE  Recorded'
  BY <1>16
  DEF Orderly, OneCaller, HostInv, TypeOK, Places, Started, Holding, Free, Alone,
      Watched, Holds, NoHold, Recorded, Followed, Told, Ended, Spawn, GoesWith,
      locals, Goes
<1>17. ASSUME NEW p \in Callers, NEW written \in BOOLEAN,
            Remember(p, written)
     PROVE  Recorded'
  BY <1>17
  DEF Orderly, OneCaller, HostInv, TypeOK, Places, Started, Holding, Free, Alone,
      Watched, Holds, NoHold, Recorded, Followed, Told, Ended, Remember, Goes,
      processes, locals
<1>18. ASSUME NEW p \in Callers, NEW what \in Calls, NEW d \in Decls,
            Begin(p, what, d)
     PROVE  Recorded'
  BY <1>18
  DEF Orderly, OneCaller, HostInv, TypeOK, Places, Started, Holding, Free, Alone,
      Watched, Holds, NoHold, Recorded, Followed, Told, Ended, Begin, processes
<1>19. ASSUME Crash
     PROVE  Recorded'
  BY <1>19
  DEF Orderly, OneCaller, HostInv, TypeOK, Places, Started, Holding, Free, Alone,
      Watched, Holds, NoHold, Recorded, Followed, Told, Ended, Crash, processes
<1>20. CASE UNCHANGED vars
  BY <1>20 DEF Orderly, OneCaller, HostInv, TypeOK, Places, Started, Holding, Free, Alone,
      Watched, Holds, NoHold, Recorded, Followed, Told, Ended, vars, processes,
      locals
<1>21. QED
  BY <1>1, <1>2, <1>3, <1>4, <1>5, <1>6, <1>7, <1>8, <1>9, <1>10, <1>11, <1>12,
     <1>13, <1>14, <1>15, <1>16, <1>17, <1>18, <1>19, <1>20
  DEF Next, UnitStep, WatcherStep, CallerStep, StartStep, AdoptStep, StopStep

\* Nothing is held, and nothing is recorded.
LEMMA InitRecord ==
    ASSUME Init
    PROVE  RecordInv
<1>1. HostInv /\ OneAttempt
  BY InitHost
<1>2. Alone /\ Watched /\ Recorded
  BY DEF Init, Alone, Watched, Followed, Kept, Adopted, Fresh, Spawning, Recorded,
      NoHold
<1>3. QED
  BY <1>1, <1>2 DEF RecordInv

\* One caller keeps the record and the table together.
LEMMA RecordStep ==
    ASSUME Orderly, RecordInv, [Next]_vars
    PROVE  RecordInv'
<1>1. HostInv' /\ OneAttempt' /\ Alone'
  BY HostStep, AttemptStep, AloneStep DEF RecordInv, Orderly
<1>2. Followed' /\ Kept' /\ Adopted' /\ Fresh' /\ Recorded'
  BY FollowedStep, KeptStep, AdoptedStep, FreshStep, RecordedStep DEF RecordInv
<1>3. QED
  BY <1>1, <1>2 DEF RecordInv, Watched

\* The unit that is held is on disk for the next run (adopt.go:52), whatever crashes,
\* goes deaf or stays mute.
THEOREM HeldIsOnDisk == ASSUME Orderly PROVE Spec => []OpenIsRecorded
<1>1. Init => RecordInv
  BY InitRecord
<1>2. RecordInv /\ [Next]_vars => RecordInv'
  BY RecordStep
<1>3. RecordInv => OpenIsRecorded
  BY DEF RecordInv, Recorded, OpenIsRecorded
<1>4. QED
  BY <1>1, <1>2, <1>3, PTL DEF Spec

-----------------------------------------------------------------------------
\* The same, of a host that does not die while only its memory names a process.

Traceable == Orderly /\ ~Orphaning

\* What the record names announced itself; what was given up does not answer, and
\* what is waited for was signalled.
Settled ==
    /\ record # NoUnit => said[record]
    /\ \A p \in Callers :
        /\ pc[p] \in {"dropped", "ungreeted"} => proc[mine[p].unit] \in {"deaf", "dead"}
        /\ pc[p] = "awaitGone" => signalled[mine[p].unit]

\* A process that answers and was not told to end is named by the disk or by the caller.
Traced ==
    \A u \in Units : Loose(u) =>
        \/ record = u
        \/ \E p \in Callers : /\ mine[p].unit = u
                              /\ pc[p] \in {"await", "awaitExit", "remember", "end"}

RestartInv == RecordInv /\ Spoken /\ Settled /\ Traced

\* What the record names announced itself; what was dropped answers no more.
LEMMA SettledStep ==
    ASSUME HostInv, Spoken, Settled, [Next]_vars
    PROVE  Settled'
<1>1. ASSUME NEW u \in Units,
            \/ Announces(u) \/ Mutes(u) \/ Deafens(u) \/ Dies(u)
     PROVE  Settled'
  BY <1>1
  DEF HostInv, TypeOK, Places, Started, Spoken, Settled, Holding, Free, Holds,
      Announces, locals, Mutes, Deafens, Dies
<1>2. ASSUME NEW u \in Units,
            \/ WatcherUnholds(u) \/ WatcherForgets(u)
     PROVE  Settled'
  BY <1>2
  DEF HostInv, TypeOK, Places, Started, Spoken, Settled, Holding, Free, Holds,
      WatcherUnholds, OpenWithout, processes, locals, WatcherForgets
<1>3. ASSUME NEW p \in Callers,
            \/ OpenStands(p) \/ OpenConflicts(p) \/ OpenYields(p) \/ Unrecord(p)
     PROVE  Settled'
  BY <1>3
  DEF HostInv, TypeOK, Places, Started, Spoken, Settled, Holding, Free, Holds,
      OpenStands, Returns, processes, locals, GoesWith, Goes, OpenConflicts,
      OpenYields, Unrecord
<1>4. ASSUME NEW p \in Callers,
            \/ OpenMatches(p) \/ ProbeAnswers(p) \/ ProbeFails(p) \/ Drop(p)
     PROVE  Settled'
  BY <1>4
  DEF HostInv, TypeOK, Places, Started, Spoken, Settled, Holding, Free, Holds,
      OpenMatches, GoesWith, processes, locals, Goes, ProbeAnswers, Returns, Listens,
      ProbeFails, Drop, OpenWithout
<1>5. ASSUME NEW p \in Callers,
            \/ DropForgets(p) \/ BecomesAttempt(p) \/ JoinsAttempt(p)
            \/ PendingConflicts(p)
     PROVE  Settled'
  BY <1>5
  DEF HostInv, TypeOK, Places, Started, Spoken, Settled, Holding, Free, Holds,
      DropForgets, GoesWith, processes, locals, Goes, BecomesAttempt, ReachesPending,
      JoinsAttempt, PendingConflicts, Returns
<1>6. ASSUME NEW p \in Callers,
            \/ FinishStart(p) \/ SpawnFails(p) \/ AwaitAnnounced(p)
            \/ AwaitSilent(p)
     PROVE  Settled'
  BY <1>6
  DEF HostInv, TypeOK, Places, Started, Spoken, Settled, Holding, Free, Holds,
      FinishStart, Shares, Released, processes, locals, SpawnFails, Resolves,
      GoesWith, Goes, AwaitAnnounced, AwaitSilent, EndSilent, Kill
<1>7. ASSUME NEW p \in Callers,
            \/ AwaitEOF(p) \/ AwaitExit(p) \/ TakesHold(p) \/ LosesRace(p)
     PROVE  Settled'
  BY <1>7
  DEF HostInv, TypeOK, Places, Started, Spoken, Settled, Holding, Free, Holds,
      AwaitEOF, Goes, processes, locals, AwaitExit, Resolves, GoesWith, TakesHold,
      LosesRace, EndLoser, Kill
<1>8. ASSUME NEW p \in Callers,
            \/ AdoptNoRecord(p) \/ AdoptConflicts(p) \/ AdoptSupersedes(p)
            \/ AwaitGone(p)
     PROVE  Settled'
  BY <1>8
  DEF HostInv, TypeOK, Places, Started, Spoken, Settled, Holding, Free, Holds,
      AdoptNoRecord, AdoptMisses, processes, locals, GoesWith, Goes, AdoptConflicts,
      Resolves, AdoptSupersedes, Terminate, AwaitGone, Listens
<1>9. ASSUME NEW p \in Callers,
            \/ AdoptReads(p) \/ DialFails(p) \/ DialFindsOpen(p) \/ DialHolds(p)
     PROVE  Settled'
  BY <1>9
  DEF HostInv, TypeOK, Places, Started, Spoken, Settled, Holding, Free, Holds,
      AdoptReads, GoesWith, RecordRead, processes, locals, Goes, DialFails,
      AdoptMisses, Listens, DialFindsOpen, AdoptFinds, Resolves, DialHolds
<1>10. ASSUME NEW p \in Callers,
            \/ GreetAnswers(p) \/ GreetFails(p) \/ Ungreeted(p) \/ StopTakes(p)
     PROVE  Settled'
  BY <1>10
  DEF HostInv, TypeOK, Places, Started, Spoken, Settled, Holding, Free, Holds,
      GreetAnswers, AdoptFinds, Listens, processes, locals, GoesWith, Resolves, Goes,
      GreetFails, OpenWithout, Ungreeted, AdoptMisses, StopTakes
<1>11. ASSUME NEW p \in Callers,
            \/ StopFindsNothing(p) \/ Retake(p) \/ EndSignals(p) \/ EndObserved(p)
     PROVE  Settled'
  BY <1>11, SMTT(30)
  DEF HostInv, TypeOK, Places, Started, Spoken, Settled, Holding, Free, Holds,
      StopFindsNothing, Goes, processes, locals, Retake, GoesWith, Returns, Stopped,
      EndSignals, Kill, Terminate, EndObserved
<1>12. ASSUME NEW p \in Callers,
            \/ EndTimesOut(p) \/ StopForgets(p) \/ ShutdownReads(p)
            \/ ShutdownDone(p)
     PROVE  Settled'
  BY <1>12
  DEF HostInv, TypeOK, Places, Started, Spoken, Settled, Holding, Free, Holds,
      EndTimesOut, GoesWith, Returns, processes, locals, Goes, StopForgets, Stopped,
      ShutdownReads, ShutdownDone
<1>13. ASSUME NEW p \in Callers, NEW u \in Units,
            Spawn(p, u)
     PROVE  Settled'
  BY <1>13
  DEF HostInv, TypeOK, Places, Started, Spoken, Settled, Holding, Free, Holds, Spawn,
      GoesWith, locals, Goes
<1>14. ASSUME NEW p \in Callers, NEW written \in BOOLEAN,
            Remember(p, written)
     PROVE  Settled'
  BY <1>14
  DEF HostInv, TypeOK, Places, Started, Spoken, Settled, Holding, Free, Holds,
      Remember, Goes, processes, locals
<1>15. ASSUME NEW p \in Callers, NEW what \in Calls, NEW d \in Decls,
            Begin(p, what, d)
     PROVE  Settled'
  BY <1>15
  DEF HostInv, TypeOK, Places, Started, Spoken, Settled, Holding, Free, Holds, Begin,
      processes
<1>16. ASSUME Crash
     PROVE  Settled'
  BY <1>16
  DEF HostInv, TypeOK, Places, Started, Spoken, Settled, Holding, Free, Holds, Crash,
      processes
<1>17. CASE UNCHANGED vars
  BY <1>17 DEF HostInv, TypeOK, Places, Started, Spoken, Settled, Holding, Free, Holds, vars,
      processes, locals
<1>18. QED
  BY <1>1, <1>2, <1>3, <1>4, <1>5, <1>6, <1>7, <1>8, <1>9, <1>10, <1>11, <1>12,
     <1>13, <1>14, <1>15, <1>16, <1>17
  DEF Next, UnitStep, WatcherStep, CallerStep, StartStep, AdoptStep, StopStep

\* A record goes only with a unit that answers no more, was told to end, or that the caller
\* goes on to end.
LEMMA TracedStep ==
    ASSUME Orderly, ~Orphaning, HostInv, OneAttempt, Alone, Watched, Recorded, Spoken, Settled, Traced, [Next]_vars
    PROVE  Traced'
<1> DEFINE Has(q, v) == /\ mine[q].unit = v
                       /\ pc[q] \in {"await", "awaitExit", "remember", "end"}
<1> SUFFICES ASSUME NEW v \in Units, Loose(v)'
             PROVE  (record = v \/ \E q \in Callers : Has(q, v))'
  BY DEF Traced
<1> DEFINE Remains == /\ Loose(v)
                      /\ record = v => (record = v)'
                      /\ \A q \in Callers : Has(q, v) => Has(q, v)'
<1>0. Remains => (record = v \/ \E q \in Callers : Has(q, v))'
  BY DEF Traced
<1>1. ASSUME NEW u \in Units,
            WatcherForgets(u)
     PROVE  Remains
  <2>1. watch[u] = "unheld" /\ record' = NoUnit /\ UNCHANGED <<proc, signalled, pc, mine>>
    BY <1>1 DEF WatcherForgets, processes
  <2>2. PICK p \in Callers : pc[p] = "ending" /\ mine[p] = Child(u)
    BY <2>1 DEF Watched, Followed
  <2>3. record \in {u, NoUnit} /\ proc[u] = "dead"
    BY <2>1, <2>2 DEF HostInv, Recorded, Ended, Child
  <2>4. QED
    BY <2>1, <2>3, SidecarAssumption DEF Loose
<1>2. ASSUME NEW p \in Callers,
            Unrecord(p)
     PROVE  (record = v \/ \E q \in Callers : Has(q, v))'
  <2>1. Loose(v) /\ (record = v => Has(p, v)')
    BY <1>2 DEF HostInv, TypeOK, Recorded, Unrecord, Goes, Loose, processes
  <2>2. \A q \in Callers : Has(q, v) => Has(q, v)'
    BY <1>2 DEF HostInv, TypeOK, Unrecord, Goes
  <2>3. QED
    BY <2>1, <2>2 DEF Traced
<1>3. ASSUME NEW p \in Callers, NEW u \in Units,
            Spawn(p, u)
     PROVE  (record = v \/ \E q \in Callers : Has(q, v))'
  <2>1. CASE u = v
    BY <1>3, <2>1 DEF HostInv, TypeOK, Spawn, GoesWith, Goes
  <2>2. CASE u # v
    <3>1. Loose(v) /\ record' = record
      BY <1>3, <2>2 DEF HostInv, TypeOK, Spawn, Loose
    <3>2. \A q \in Callers : Has(q, v) => Has(q, v)'
      BY <1>3 DEF HostInv, TypeOK, Spawn, GoesWith, Goes
    <3>3. QED
      BY <3>1, <3>2 DEF Traced
  <2>3. QED
    BY <2>1, <2>2
<1>4. ASSUME NEW p \in Callers, NEW written \in BOOLEAN,
            Remember(p, written)
     PROVE  (record = v \/ \E q \in Callers : Has(q, v))'
  <2>1. Loose(v) /\ record # v /\ record' = mine[p].unit
    BY <1>4, SidecarAssumption DEF Orderly, Remember, Recorded, Loose, processes
  <2>2. \A q \in Callers : q = p
    BY DEF Orderly, OneCaller
  <2>3. QED
    BY <2>1, <2>2 DEF Traced
<1>5. ASSUME Crash
     PROVE  (record = v \/ \E q \in Callers : Has(q, v))'
  <2>1. Loose(v) /\ record' = record
    BY <1>5 DEF Crash, Loose, processes
  <2>2. ASSUME NEW q \in Callers, Has(q, v)
        PROVE  record = v
    <3>1. pc[q] = "end" /\ call[q] # "start"
      BY <1>5, <2>2 DEF Crash, OnlyInMemory
    <3>2. QED
      BY <2>2, <3>1 DEF Recorded
  <2>3. QED
    BY <2>1, <2>2 DEF Traced
<1>6. ASSUME NEW u \in Units,
            \/ Announces(u) \/ Mutes(u) \/ Deafens(u) \/ Dies(u)
     PROVE  Remains
  BY <1>6
  DEF Orderly, OneCaller, HostInv, TypeOK, Places, Holding, Free, Spoken, Settled,
      Recorded, Loose, Ended, StopEndsFirst, NoHold, Announces, locals, Mutes,
      Deafens, Dies, Alive
<1>7. ASSUME NEW u \in Units,
            WatcherUnholds(u)
     PROVE  Remains
  BY <1>7
  DEF Orderly, OneCaller, HostInv, TypeOK, Places, Holding, Free, Spoken, Settled,
      Recorded, Loose, Ended, StopEndsFirst, NoHold, WatcherUnholds, OpenWithout,
      processes, locals
<1>8. ASSUME NEW p \in Callers,
            \/ OpenStands(p) \/ OpenConflicts(p) \/ OpenYields(p)
            \/ OpenMatches(p)
     PROVE  Remains
  BY <1>8
  DEF Orderly, OneCaller, HostInv, TypeOK, Places, Holding, Free, Spoken, Settled,
      Recorded, Loose, Ended, StopEndsFirst, NoHold, OpenStands, Returns, processes,
      locals, GoesWith, Goes, OpenConflicts, OpenYields, OpenMatches
<1>9. ASSUME NEW p \in Callers,
            \/ ProbeAnswers(p) \/ ProbeFails(p) \/ Drop(p) \/ DropForgets(p)
     PROVE  Remains
  BY <1>9
  DEF Orderly, OneCaller, HostInv, TypeOK, Places, Holding, Free, Spoken, Settled,
      Recorded, Loose, Ended, StopEndsFirst, NoHold, ProbeAnswers, Returns, Listens,
      processes, locals, GoesWith, Goes, ProbeFails, Drop, OpenWithout, DropForgets
<1>10. ASSUME NEW p \in Callers,
            \/ BecomesAttempt(p) \/ JoinsAttempt(p) \/ PendingConflicts(p)
            \/ FinishStart(p)
     PROVE  Remains
  BY <1>10
  DEF Orderly, OneCaller, HostInv, TypeOK, Places, Holding, Free, Spoken, Settled,
      Recorded, Loose, Ended, StopEndsFirst, NoHold, BecomesAttempt, Goes,
      ReachesPending, processes, locals, JoinsAttempt, PendingConflicts, Returns,
      GoesWith, FinishStart
<1>11. ASSUME NEW p \in Callers,
            \/ SpawnFails(p) \/ AwaitAnnounced(p) \/ AwaitSilent(p) \/ AwaitEOF(p)
     PROVE  Remains
  BY <1>11
  DEF Orderly, OneCaller, HostInv, TypeOK, Places, Holding, Free, Spoken, Settled,
      Recorded, Loose, Ended, StopEndsFirst, NoHold, SpawnFails, Resolves, processes,
      locals, GoesWith, Goes, AwaitAnnounced, AwaitSilent, EndSilent, Kill, AwaitEOF
<1>12. ASSUME NEW p \in Callers,
            \/ AwaitExit(p) \/ TakesHold(p) \/ LosesRace(p) \/ AdoptNoRecord(p)
     PROVE  Remains
  BY <1>12
  DEF Orderly, OneCaller, HostInv, TypeOK, Places, Holding, Free, Spoken, Settled,
      Recorded, Loose, Ended, StopEndsFirst, NoHold, AwaitExit, Resolves, processes,
      locals, GoesWith, Goes, TakesHold, LosesRace, EndLoser, Kill, AdoptNoRecord,
      AdoptMisses
<1>13. ASSUME NEW p \in Callers,
            \/ AdoptConflicts(p) \/ AdoptSupersedes(p) \/ AwaitGone(p)
            \/ AdoptReads(p)
     PROVE  Remains
  BY <1>13
  DEF Orderly, OneCaller, HostInv, TypeOK, Places, Holding, Free, Spoken, Settled,
      Recorded, Loose, Ended, StopEndsFirst, NoHold, AdoptConflicts, Resolves,
      processes, locals, GoesWith, Goes, AdoptSupersedes, Terminate, AwaitGone,
      Listens, AdoptReads, RecordRead
<1>14. ASSUME NEW p \in Callers,
            \/ DialFails(p) \/ DialFindsOpen(p) \/ DialHolds(p) \/ GreetAnswers(p)
     PROVE  Remains
  BY <1>14
  DEF Orderly, OneCaller, HostInv, TypeOK, Places, Holding, Free, Spoken, Settled,
      Recorded, Loose, Ended, StopEndsFirst, NoHold, DialFails, AdoptMisses, Listens,
      processes, locals, GoesWith, Goes, DialFindsOpen, AdoptFinds, Resolves,
      DialHolds, GreetAnswers
<1>15. ASSUME NEW p \in Callers,
            \/ GreetFails(p) \/ Ungreeted(p) \/ StopTakes(p)
            \/ StopFindsNothing(p)
     PROVE  Remains
  BY <1>15
  DEF Orderly, OneCaller, HostInv, TypeOK, Places, Holding, Free, Spoken, Settled,
      Recorded, Loose, Ended, StopEndsFirst, NoHold, GreetFails, Goes, OpenWithout,
      Listens, processes, locals, Ungreeted, AdoptMisses, GoesWith, StopTakes,
      StopFindsNothing
<1>16. ASSUME NEW p \in Callers,
            \/ Retake(p) \/ EndSignals(p) \/ EndObserved(p) \/ EndTimesOut(p)
     PROVE  Remains
  BY <1>16
  DEF Orderly, OneCaller, HostInv, TypeOK, Places, Holding, Free, Spoken, Settled,
      Recorded, Loose, Ended, StopEndsFirst, NoHold, Retake, GoesWith, Returns,
      Stopped, processes, locals, Goes, EndSignals, Kill, Terminate, EndObserved,
      EndTimesOut
<1>17. ASSUME NEW p \in Callers,
            \/ StopForgets(p) \/ ShutdownReads(p) \/ ShutdownDone(p)
     PROVE  Remains
  BY <1>17
  DEF Orderly, OneCaller, HostInv, TypeOK, Places, Holding, Free, Spoken, Settled,
      Recorded, Loose, Ended, StopEndsFirst, NoHold, StopForgets, GoesWith, Returns,
      Stopped, processes, locals, Goes, ShutdownReads, StillRecorded, Alive,
      ShutdownDone
<1>18. ASSUME NEW p \in Callers, NEW what \in Calls, NEW d \in Decls,
            Begin(p, what, d)
     PROVE  Remains
  BY <1>18
  DEF Orderly, OneCaller, HostInv, TypeOK, Places, Holding, Free, Spoken, Settled,
      Recorded, Loose, Ended, StopEndsFirst, NoHold, Begin, processes
<1>19. ASSUME UNCHANGED vars
     PROVE  Remains
  BY <1>19 DEF Loose, vars, processes, locals
<1>20. QED
  BY <1>1, <1>2, <1>3, <1>4, <1>5, <1>6, <1>7, <1>8, <1>9, <1>10, <1>11, <1>12,
     <1>13, <1>14, <1>15, <1>16, <1>17, <1>18, <1>19, <1>0
  DEF Next, UnitStep, WatcherStep, CallerStep, StartStep, AdoptStep, StopStep

\* Nothing runs and nothing is named by the disk at first.
LEMMA InitRestart ==
    ASSUME Init
    PROVE  RestartInv
<1>1. RecordInv
  BY InitRecord
<1>2. Spoken /\ Settled /\ Traced
  BY DEF Init, Spoken, Settled, Traced, Loose
<1>3. QED
  BY <1>1, <1>2 DEF RestartInv

\* A crash loses the table, and the record stays.
LEMMA RestartStep ==
    ASSUME Traceable, RestartInv, [Next]_vars
    PROVE  RestartInv'
<1>1. RecordInv'
  BY RecordStep DEF RestartInv, Traceable
<1>2. Spoken' /\ Settled' /\ Traced'
  BY SpokenStep, SettledStep, TracedStep DEF RestartInv, RecordInv, Traceable
<1>3. QED
  BY <1>1, <1>2 DEF RestartInv

\* The next run can find what the last one left: over any number of host crashes
\* every process that was not told to end is on disk, held, or in the caller's hands.
THEOREM RestartsLoseNobody == ASSUME Traceable, ~Lingering PROVE Spec => []NoneLost
<1>1. Init => RestartInv
  BY InitRestart
<1>2. RestartInv /\ [Next]_vars => RestartInv'
  BY RestartStep
<1>3. RestartInv => NoneLost
  BY DEF RestartInv, RecordInv, HostInv, TypeOK, Spoken, Traced, Loose, Alive,
      NoneLost
<1>4. QED
  BY <1>1, <1>2, <1>3, PTL DEF Spec

\* Nor does a restart put a second unit beside the one the last run left: what
\* answers and is settled is the unit the record names.
THEOREM RestartsKeepOneUnit == ASSUME Traceable PROVE Spec => []OneUnit
<1>1. Init => RestartInv
  BY InitRestart
<1>2. RestartInv /\ [Next]_vars => RestartInv'
  BY RestartStep
<1>3. RestartInv => OneUnit
  <2> SUFFICES ASSUME RestartInv, NEW u \in Units, Listens(u), ~Condemned(u), ~Unsettled(u)
               PROVE  record = u
    BY DEF OneUnit
  <2>1. Loose(u)
    BY DEF Loose, Listens, Condemned
  <2>2. \A p \in Callers : mine[p].unit = u =>
            pc[p] \notin {"await", "awaitExit", "remember", "end"}
    BY DEF Condemned, Unsettled
  <2>3. QED
    BY <2>1, <2>2 DEF RestartInv, Traced
<1>4. QED
  BY <1>1, <1>2, <1>3, PTL DEF Spec
=============================================================================
