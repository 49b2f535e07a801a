------------------------ MODULE ProcessManager_proofs ------------------------
(***************************************************************************)
(* Proofs about ProcessManager: type correctness, and an inductive         *)
(* invariant that yields its three safety properties, for any children,    *)
(* callers, windows and bounds.                                            *)
(***************************************************************************)
EXTENDS ProcessManager, TLAPS

\* A caller that is inside an operation on a child names one, and a reaping
\* caller works through what it claimed (Spawn, Write, CloseStdin, reap).
BusyCallers ==
    \A p \in Callers :
        /\ pc[p] \in {"started", "write", "writing", "close", "awaiting", "closing"}
               => cur[p] \in Children
        /\ claimed[p] # {} => pc[p] \in {"reaping", "awaiting", "closing"}
        /\ pc[p] \in {"awaiting", "closing"} => cur[p] \in claimed[p]
        /\ pc[p] = "closing" => done[cur[p]]

\* What is known of a child from where it is held.
CustodyOf(c) ==
    /\ done[c] => Registered(c) /\ (waitErr[c] \/ os[c] = "reaped")
    /\ c \in sessions \/ Registered(c) => os[c] # "unborn" /\ Registered(c)
    /\ os[c] # "unborn" /\ ~Registered(c) => HeldBySpawner(c)
    /\ \A p \in Callers :
           /\ c \in claimed[p] => Registered(c) /\ c \notin sessions
           /\ pc[p] = "started" /\ cur[p] = c =>
                  os[c] # "unborn" /\ ~Registered(c)
    /\ \A p, q \in Callers :
           /\ c \in claimed[p] \cap claimed[q] => p = q
           /\ pc[p] = "started" /\ pc[q] = "started" /\ cur[p] = c /\ cur[q] = c
                  => p = q
    /\ Registered(c) /\ ~done[c] => c \in sessions \/ HeldByReaper(c)

Custody == \A c \in Children : CustodyOf(c)

\* A child past the end of its stdout left the ledger, and its code stands.
Exits ==
    \A c \in Children :
        /\ lastEvent[c] = "exit" => reader[c]["stdout"] = "over"
        /\ reader[c]["stdout"] \in {"forgotten", "over"} =>
               c \notin sessions /\ done[c]
        /\ verdict[c] = "reaped" => os[c] = "reaped"

IInv == TypeOK /\ BusyCallers /\ Custody /\ Exits

LEMMA InitInv == Init => IInv
  BY ProcessAssumption
     DEF Init, IInv, TypeOK, Streams, BusyCallers, Custody, CustodyOf, Exits, Registered,
         HeldBySpawner, HeldByReaper

LEMMA TypeStep ==
    TypeOK /\ BusyCallers /\ [Next]_vars => TypeOK'
<1> SUFFICES ASSUME TypeOK, BusyCallers, [Next]_vars
             PROVE  TypeOK'
  OBVIOUS
<1> USE ProcessAssumption DEF TypeOK, BusyCallers, Streams, kernel, streams, callers
<1>1. ASSUME NEW c \in Children, ChildForks(c) PROVE TypeOK'
  BY <1>1 DEF ChildForks
<1>2. ASSUME NEW c \in Children, HeirEnds(c) PROVE TypeOK'
  BY <1>2 DEF HeirEnds
<1>3. ASSUME NEW c \in Children, ChildExits(c) PROVE TypeOK'
  BY <1>3 DEF ChildExits
<1>4. ASSUME NEW c \in Children, NEW s \in Streams, ChildWrites(c, s) PROVE TypeOK'
  BY <1>4 DEF ChildWrites
<1>5. ASSUME NEW c \in Children, NEW failed \in BOOLEAN, Await(c, failed) PROVE TypeOK'
  BY <1>5 DEF Await
<1>6. ASSUME NEW c \in Children, Forget(c) PROVE TypeOK'
  BY <1>6 DEF Forget, StreamAndWaitDone
<1>7. ASSUME NEW c \in Children, EmitExit(c) PROVE TypeOK'
  BY <1>7 DEF EmitExit
<1>8. ASSUME NEW c \in Children, NEW s \in Streams, NEW gone \in BOOLEAN,
               PumpRead(c, s, gone)
      PROVE  TypeOK'
  BY <1>8 DEF PumpRead, ReadSomething
<1>9. ASSUME NEW c \in Children, NEW s \in Streams, Drain(c, s) PROVE TypeOK'
  BY <1>9 DEF Drain, Drains
<1>10. ASSUME NEW c \in Children, NEW s \in Streams, StreamEOF(c, s) PROVE TypeOK'
  BY <1>10 DEF StreamEOF, AtEOF
<1>11. ASSUME NEW p \in Callers, SpawnRegister(p) PROVE TypeOK'
  BY <1>11 DEF SpawnRegister, Returns, Goes
<1>12. ASSUME NEW p \in Callers, WriteBegins(p) PROVE TypeOK'
  BY <1>12 DEF WriteBegins, Goes
<1>13. ASSUME NEW p \in Callers, WriteRefused(p) PROVE TypeOK'
  BY <1>13 DEF WriteRefused, Returns, Goes
<1>14. ASSUME NEW p \in Callers, WriteTaken(p) \/ WriteBroken(p) PROVE TypeOK'
  <2>1. CASE WriteTaken(p)
    BY <2>1 DEF WriteTaken, Returns, Goes
  <2>2. CASE WriteBroken(p)
    BY <2>2 DEF WriteBroken, Returns, Goes
  <2> QED
    BY <1>14, <2>1, <2>2
<1>15. ASSUME NEW p \in Callers, CloseStdin(p) PROVE TypeOK'
  BY <1>15 DEF CloseStdin, Returns, Goes
<1>16. ASSUME NEW p \in Callers, NEW c \in Children, Signal(p, c) PROVE TypeOK'
  BY <1>16 DEF Signal, SignalFirst, Goes
<1>17. ASSUME NEW p \in Callers, ReapObserved(p) PROVE TypeOK'
  BY <1>17 DEF ReapObserved, WaiterIsDone, Goes
<1>18. ASSUME NEW p \in Callers, ReapCloses(p) PROVE TypeOK'
  BY <1>18 DEF ReapCloses, Goes
<1>19. ASSUME NEW p \in Callers, NEW c \in Children, SpawnStart(p, c) PROVE TypeOK'
  BY <1>19 DEF SpawnStart, Goes
<1>20. ASSUME NEW p \in Callers, NEW c \in Children, NEW op \in {"write", "close"},
               Lookup(p, c, op)
      PROVE  TypeOK'
  BY <1>20 DEF Lookup, Goes
<1>21. ASSUME NEW p \in Callers, NEW S, Claim(p, S) PROVE TypeOK'
  BY <1>21 DEF Claim, WithoutClaimed, Goes
<1>22. CASE UNCHANGED vars
  BY <1>22 DEF vars
<1> HIDE ProcessAssumption DEF TypeOK, BusyCallers, Streams
<1> QED
  BY <1>1, <1>2, <1>3, <1>4, <1>5, <1>6, <1>7, <1>8, <1>9, <1>10, <1>11,
     <1>12, <1>13, <1>14, <1>15, <1>16, <1>17, <1>18, <1>19, <1>20, <1>21, <1>22
     DEF Next, ChildStep, GoroutineStep, CallerStep, CallerBegins, Kill,
         ReclaimByWindow, ReapAll

LEMMA BusyStep ==
    TypeOK /\ BusyCallers /\ [Next]_vars => BusyCallers'
<1> SUFFICES ASSUME TypeOK, BusyCallers, [Next]_vars
             PROVE  BusyCallers'
  OBVIOUS
<1> USE ProcessAssumption DEF TypeOK, BusyCallers, Streams, kernel, streams, callers
<1>1. ASSUME NEW c \in Children, ChildForks(c) PROVE BusyCallers'
  BY <1>1 DEF ChildForks
<1>2. ASSUME NEW c \in Children, HeirEnds(c) PROVE BusyCallers'
  BY <1>2 DEF HeirEnds
<1>3. ASSUME NEW c \in Children, ChildExits(c) PROVE BusyCallers'
  BY <1>3 DEF ChildExits
<1>4. ASSUME NEW c \in Children, NEW s \in Streams, ChildWrites(c, s) PROVE BusyCallers'
  BY <1>4 DEF ChildWrites
<1>5. ASSUME NEW c \in Children, NEW failed \in BOOLEAN, Await(c, failed) PROVE BusyCallers'
  BY <1>5 DEF Await
<1>6. ASSUME NEW c \in Children, Forget(c) PROVE BusyCallers'
  BY <1>6 DEF Forget, StreamAndWaitDone
<1>7. ASSUME NEW c \in Children, EmitExit(c) PROVE BusyCallers'
  BY <1>7 DEF EmitExit
<1>8. ASSUME NEW c \in Children, NEW s \in Streams, NEW gone \in BOOLEAN,
               PumpRead(c, s, gone)
      PROVE  BusyCallers'
  BY <1>8 DEF PumpRead, ReadSomething
<1>9. ASSUME NEW c \in Children, NEW s \in Streams, Drain(c, s) PROVE BusyCallers'
  BY <1>9 DEF Drain, Drains
<1>10. ASSUME NEW c \in Children, NEW s \in Streams, StreamEOF(c, s) PROVE BusyCallers'
  BY <1>10 DEF StreamEOF, AtEOF
<1>11. ASSUME NEW p \in Callers, SpawnRegister(p) PROVE BusyCallers'
  BY <1>11 DEF SpawnRegister, Returns, Goes
<1>12. ASSUME NEW p \in Callers, WriteBegins(p) PROVE BusyCallers'
  BY <1>12 DEF WriteBegins, Goes
<1>13. ASSUME NEW p \in Callers, WriteRefused(p) PROVE BusyCallers'
  BY <1>13 DEF WriteRefused, Returns, Goes
<1>14. ASSUME NEW p \in Callers, WriteTaken(p) \/ WriteBroken(p) PROVE BusyCallers'
  <2>1. CASE WriteTaken(p)
    BY <2>1 DEF WriteTaken, Returns, Goes
  <2>2. CASE WriteBroken(p)
    BY <2>2 DEF WriteBroken, Returns, Goes
  <2> QED
    BY <1>14, <2>1, <2>2
<1>15. ASSUME NEW p \in Callers, CloseStdin(p) PROVE BusyCallers'
  BY <1>15 DEF CloseStdin, Returns, Goes
<1>16. ASSUME NEW p \in Callers, NEW c \in Children, Signal(p, c) PROVE BusyCallers'
  BY <1>16 DEF Signal, SignalFirst, Goes
<1>17. ASSUME NEW p \in Callers, ReapObserved(p) PROVE BusyCallers'
  BY <1>17 DEF ReapObserved, WaiterIsDone, Goes
<1>18. ASSUME NEW p \in Callers, ReapCloses(p) PROVE BusyCallers'
  BY <1>18 DEF ReapCloses, Goes
<1>19. ASSUME NEW p \in Callers, NEW c \in Children, SpawnStart(p, c) PROVE BusyCallers'
  BY <1>19 DEF SpawnStart, Goes
<1>20. ASSUME NEW p \in Callers, NEW c \in Children, NEW op \in {"write", "close"},
               Lookup(p, c, op)
      PROVE  BusyCallers'
  BY <1>20 DEF Lookup, Goes
<1>21. ASSUME NEW p \in Callers, NEW S, Claim(p, S) PROVE BusyCallers'
  BY <1>21 DEF Claim, WithoutClaimed, Goes
<1>22. CASE UNCHANGED vars
  BY <1>22 DEF vars
<1> HIDE ProcessAssumption DEF TypeOK, BusyCallers, Streams
<1> QED
  BY <1>1, <1>2, <1>3, <1>4, <1>5, <1>6, <1>7, <1>8, <1>9, <1>10, <1>11,
     <1>12, <1>13, <1>14, <1>15, <1>16, <1>17, <1>18, <1>19, <1>20, <1>21, <1>22
     DEF Next, ChildStep, GoroutineStep, CallerStep, CallerBegins, Kill,
         ReclaimByWindow, ReapAll

LEMMA CustodyStep ==
    TypeOK /\ BusyCallers /\ Custody /\ [Next]_vars => Custody'
<1> SUFFICES ASSUME TypeOK, BusyCallers, Custody, [Next]_vars
             PROVE  Custody'
  OBVIOUS
<1> USE ProcessAssumption DEF TypeOK, BusyCallers, Custody, CustodyOf, Streams, Registered,
        HeldBySpawner, HeldByReaper, kernel, streams, callers
<1>1. ASSUME NEW c \in Children, ChildForks(c) PROVE Custody'
  BY <1>1 DEF ChildForks
<1>2. ASSUME NEW c \in Children, HeirEnds(c) PROVE Custody'
  BY <1>2 DEF HeirEnds
<1>3. ASSUME NEW c \in Children, ChildExits(c) PROVE Custody'
  BY <1>3 DEF ChildExits
<1>4. ASSUME NEW c \in Children, NEW s \in Streams, ChildWrites(c, s) PROVE Custody'
  BY <1>4 DEF ChildWrites
<1>5. ASSUME NEW c \in Children, NEW failed \in BOOLEAN, Await(c, failed) PROVE Custody'
  BY <1>5 DEF Await
<1>6. ASSUME NEW c \in Children, Forget(c) PROVE Custody'
  BY <1>6 DEF Forget, StreamAndWaitDone
<1>7. ASSUME NEW c \in Children, EmitExit(c) PROVE Custody'
  BY <1>7 DEF EmitExit
<1>8. ASSUME NEW c \in Children, NEW s \in Streams, NEW gone \in BOOLEAN,
               PumpRead(c, s, gone)
      PROVE  Custody'
  BY <1>8 DEF PumpRead, ReadSomething
<1>9. ASSUME NEW c \in Children, NEW s \in Streams, Drain(c, s) PROVE Custody'
  BY <1>9 DEF Drain, Drains
<1>10. ASSUME NEW c \in Children, NEW s \in Streams, StreamEOF(c, s) PROVE Custody'
  BY <1>10 DEF StreamEOF, AtEOF
<1>11. ASSUME NEW p \in Callers, SpawnRegister(p) PROVE Custody'
  BY <1>11 DEF SpawnRegister, Returns, Goes
<1>12. ASSUME NEW p \in Callers, WriteBegins(p) PROVE Custody'
  BY <1>12 DEF WriteBegins, Goes
<1>13. ASSUME NEW p \in Callers, WriteRefused(p) PROVE Custody'
  BY <1>13 DEF WriteRefused, Returns, Goes
<1>14. ASSUME NEW p \in Callers, WriteTaken(p) \/ WriteBroken(p) PROVE Custody'
  <2>1. CASE WriteTaken(p)
    BY <2>1 DEF WriteTaken, Returns, Goes
  <2>2. CASE WriteBroken(p)
    BY <2>2 DEF WriteBroken, Returns, Goes
  <2> QED
    BY <1>14, <2>1, <2>2
<1>15. ASSUME NEW p \in Callers, CloseStdin(p) PROVE Custody'
  BY <1>15 DEF CloseStdin, Returns, Goes
<1>16. ASSUME NEW p \in Callers, NEW c \in Children, Signal(p, c) PROVE Custody'
  BY <1>16 DEF Signal, SignalFirst, Goes
<1>17. ASSUME NEW p \in Callers, ReapObserved(p) PROVE Custody'
  BY <1>17 DEF ReapObserved, WaiterIsDone, Goes
<1>18. ASSUME NEW p \in Callers, ReapCloses(p) PROVE Custody'
  BY <1>18 DEF ReapCloses, Goes
<1>19. ASSUME NEW p \in Callers, NEW c \in Children, SpawnStart(p, c) PROVE Custody'
  BY <1>19 DEF SpawnStart, Goes
<1>20. ASSUME NEW p \in Callers, NEW c \in Children, NEW op \in {"write", "close"},
               Lookup(p, c, op)
      PROVE  Custody'
  BY <1>20 DEF Lookup, Goes
<1>21. ASSUME NEW p \in Callers, NEW S, Claim(p, S) PROVE Custody'
  <2> HIDE ProcessAssumption DEF Custody, CustodyOf
  <2> SUFFICES ASSUME NEW d \in Children
               PROVE  CustodyOf(d)'
    BY DEF Custody
  <2>1. claimed[p] = {}
    BY <1>21 DEF Claim
  <2>0. \A q \in Callers : q # p => claimed'[q] = claimed[q]
    BY <1>21 DEF Claim
  <2> USE <1>21 DEF Claim, WithoutClaimed, Goes, Custody, CustodyOf
  <2>2. ASSUME NEW q \in Callers, d \in claimed[q] PROVE q # p /\ d \in claimed'[q]
    BY <2>0, <2>1, <2>2
  <2>3. d \in S => d \in claimed'[p]
    OBVIOUS
  <2>4. Registered(d) /\ ~done[d] => (d \in sessions \/ HeldByReaper(d))'
    BY <2>2, <2>3
  <2>5. os[d] # "unborn" /\ ~Registered(d) => HeldBySpawner(d)'
    OBVIOUS
  <2>6. \A q, r \in Callers : d \in claimed'[q] \cap claimed'[r] => q = r
    BY <2>0, <2>1
  <2> QED
    BY <2>0, <2>1, <2>4, <2>5, <2>6
<1>22. CASE UNCHANGED vars
  BY <1>22 DEF vars
<1> HIDE ProcessAssumption DEF TypeOK, BusyCallers, Custody, CustodyOf, Streams, Registered,
        HeldBySpawner, HeldByReaper
<1> QED
  BY <1>1, <1>2, <1>3, <1>4, <1>5, <1>6, <1>7, <1>8, <1>9, <1>10, <1>11,
     <1>12, <1>13, <1>14, <1>15, <1>16, <1>17, <1>18, <1>19, <1>20, <1>21, <1>22
     DEF Next, ChildStep, GoroutineStep, CallerStep, CallerBegins, Kill,
         ReclaimByWindow, ReapAll

LEMMA ExitsStep ==
    TypeOK /\ BusyCallers /\ Custody /\ Exits /\ [Next]_vars => Exits'
<1> SUFFICES ASSUME TypeOK, BusyCallers, Custody, Exits, [Next]_vars
             PROVE  Exits'
  OBVIOUS
<1> USE ProcessAssumption DEF TypeOK, BusyCallers, Custody, CustodyOf, Exits, Streams, Registered, kernel, streams, callers
<1>1. ASSUME NEW c \in Children, ChildForks(c) PROVE Exits'
  BY <1>1 DEF ChildForks
<1>2. ASSUME NEW c \in Children, HeirEnds(c) PROVE Exits'
  BY <1>2 DEF HeirEnds
<1>3. ASSUME NEW c \in Children, ChildExits(c) PROVE Exits'
  BY <1>3 DEF ChildExits
<1>4. ASSUME NEW c \in Children, NEW s \in Streams, ChildWrites(c, s) PROVE Exits'
  BY <1>4 DEF ChildWrites
<1>5. ASSUME NEW c \in Children, NEW failed \in BOOLEAN, Await(c, failed) PROVE Exits'
  BY <1>5 DEF Await
<1>6. ASSUME NEW c \in Children, Forget(c) PROVE Exits'
  BY <1>6 DEF Forget, StreamAndWaitDone
<1>7. ASSUME NEW c \in Children, EmitExit(c) PROVE Exits'
  BY <1>7 DEF EmitExit
<1>8. ASSUME NEW c \in Children, NEW s \in Streams, NEW gone \in BOOLEAN,
               PumpRead(c, s, gone)
      PROVE  Exits'
  BY <1>8 DEF PumpRead, ReadSomething
<1>9. ASSUME NEW c \in Children, NEW s \in Streams, Drain(c, s) PROVE Exits'
  BY <1>9 DEF Drain, Drains
<1>10. ASSUME NEW c \in Children, NEW s \in Streams, StreamEOF(c, s) PROVE Exits'
  BY <1>10 DEF StreamEOF, AtEOF
<1>11. ASSUME NEW p \in Callers, SpawnRegister(p) PROVE Exits'
  BY <1>11 DEF SpawnRegister, Returns, Goes
<1>12. ASSUME NEW p \in Callers, WriteBegins(p) PROVE Exits'
  BY <1>12 DEF WriteBegins, Goes
<1>13. ASSUME NEW p \in Callers, WriteRefused(p) PROVE Exits'
  BY <1>13 DEF WriteRefused, Returns, Goes
<1>14. ASSUME NEW p \in Callers, WriteTaken(p) \/ WriteBroken(p) PROVE Exits'
  <2>1. CASE WriteTaken(p)
    BY <2>1 DEF WriteTaken, Returns, Goes
  <2>2. CASE WriteBroken(p)
    BY <2>2 DEF WriteBroken, Returns, Goes
  <2> QED
    BY <1>14, <2>1, <2>2
<1>15. ASSUME NEW p \in Callers, CloseStdin(p) PROVE Exits'
  BY <1>15 DEF CloseStdin, Returns, Goes
<1>16. ASSUME NEW p \in Callers, NEW c \in Children, Signal(p, c) PROVE Exits'
  BY <1>16 DEF Signal, SignalFirst, Goes
<1>17. ASSUME NEW p \in Callers, ReapObserved(p) PROVE Exits'
  BY <1>17 DEF ReapObserved, WaiterIsDone, Goes
<1>18. ASSUME NEW p \in Callers, ReapCloses(p) PROVE Exits'
  BY <1>18 DEF ReapCloses, Goes
<1>19. ASSUME NEW p \in Callers, NEW c \in Children, SpawnStart(p, c) PROVE Exits'
  BY <1>19 DEF SpawnStart, Goes
<1>20. ASSUME NEW p \in Callers, NEW c \in Children, NEW op \in {"write", "close"},
               Lookup(p, c, op)
      PROVE  Exits'
  BY <1>20 DEF Lookup, Goes
<1>21. ASSUME NEW p \in Callers, NEW S, Claim(p, S) PROVE Exits'
  BY <1>21 DEF Claim, WithoutClaimed, Goes
<1>22. CASE UNCHANGED vars
  BY <1>22 DEF vars
<1> HIDE ProcessAssumption DEF TypeOK, BusyCallers, Custody, CustodyOf, Exits, Streams, Registered
<1> QED
  BY <1>1, <1>2, <1>3, <1>4, <1>5, <1>6, <1>7, <1>8, <1>9, <1>10, <1>11,
     <1>12, <1>13, <1>14, <1>15, <1>16, <1>17, <1>18, <1>19, <1>20, <1>21, <1>22
     DEF Next, ChildStep, GoroutineStep, CallerStep, CallerBegins, Kill,
         ReclaimByWindow, ReapAll

LEMMA Invariance == Spec => []IInv
<1>1. IInv /\ [Next]_vars => IInv'
  BY TypeStep, BusyStep, CustodyStep, ExitsStep DEF IInv
<1> QED
  BY InitInv, <1>1, PTL DEF Spec

\* The ledger, the goroutines and the callers stay well typed (manager.go).
THEOREM TypeCorrect == Spec => []TypeOK
<1>1. IInv => TypeOK
  BY DEF IInv
<1> QED
  BY Invariance, <1>1, PTL

\* Every started child that was not waited for has exactly one holder: the
\* caller still spawning it, the ledger, or one reaping caller (manager.go:
\* Spawn, forget, Kill, ReclaimByWindow, ReapAll).
THEOREM EveryChildHasOneHolder == Spec => []OneHolder
<1>1. IInv => OneHolder
  <2> SUFFICES ASSUME IInv, NEW c \in Children
               PROVE  /\ os[c] # "unborn" /\ ~done[c] =>
                             HeldBySpawner(c) \/ c \in sessions \/ HeldByReaper(c)
                      /\ ~(HeldBySpawner(c) /\ (c \in sessions \/ HeldByReaper(c)))
                      /\ ~(c \in sessions /\ HeldByReaper(c))
                      /\ \A p, q \in Callers : c \in claimed[p] \cap claimed[q] => p = q
    BY DEF OneHolder
  <2>1. CustodyOf(c)
    BY DEF IInv, Custody
  <2> QED
    BY <2>1 DEF CustodyOf, HeldBySpawner, HeldByReaper
<1> QED
  BY Invariance, <1>1, PTL

\* A child whose exit the sink was told of is off the ledger and its code was
\* recorded (manager.go:198-205).
THEOREM ExitAgrees == Spec => []ExitAgreesWithLedger
<1>1. IInv => ExitAgreesWithLedger
  BY DEF IInv, Exits, ExitAgreesWithLedger
<1> QED
  BY Invariance, <1>1, PTL

\* A reaping is reported only of a child the waiter reaped (manager.go:334-358).
THEOREM ReapedMeansReaped == Spec => []ReapedIsReaped
<1>1. IInv => ReapedIsReaped
  BY DEF IInv, Exits, ReapedIsReaped
<1> QED
  BY Invariance, <1>1, PTL
=============================================================================
