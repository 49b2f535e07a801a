----------------------------- MODULE SidecarHost -----------------------------
(***************************************************************************)
(* One unit name of the sidecar host (core/sidecar: sidecar.go, adopt.go): *)
(* callers start, stop and shut it down concurrently, each generation of   *)
(* the unit is a process with a watcher, and a record file outlives the    *)
(* host so that the next run adopts the process instead of starting a      *)
(* second one. Names do not interact except through the host's mutex.      *)
(*                                                                         *)
(* What a caller declares is the set of secret names (an opaque            *)
(* fingerprint) and the program it wants run.                              *)
(***************************************************************************)
EXTENDS Naturals

CONSTANTS Units,      \* generations: the processes that may be started
          Callers,
          Decls,      \* declarations: records [keys, runtime]
          NoKeys,     \* the empty secret declaration
          NoUnit, NoCaller,
          Calls,      \* which of "start", "stop", "shutdown" are called
          MaxCrashes, \* bound: times the host process dies under its units
          Orphaning,  \* it may die while only its memory names a live unit
          Mortal,     \* a unit may end on its own
          Lingering,  \* a unit may stop answering and live on
          Stubborn,   \* a unit may outlive a signal by more than the deadline
          Mute,       \* a unit may close its stdout, announce nothing, live on
          DiskFails   \* a record may fail to be written

ASSUME SidecarAssumption ==
    /\ NoUnit \notin Units
    /\ Units \cap {"none", "failed", "stopped", "shut"} = {}
    /\ NoCaller \notin Callers
    /\ Calls \subseteq {"start", "stop", "shutdown"}
    /\ Decls # {}
    /\ \A d, e \in Decls : d.keys = e.keys /\ d.runtime = e.runtime => d = e
    /\ MaxCrashes \in Nat
    /\ {Orphaning, Mortal, Lingering, Stubborn, Mute, DiskFails} \subseteq BOOLEAN

\* A *unit: the same process may be held as a child and as an adopted one.
Holds == [unit : Units, adopted : BOOLEAN]
NoHold == [unit |-> NoUnit, adopted |-> FALSE]

VARIABLES
    \* the processes
    proc,      \* unborn, launched, mute, serving, deaf, dead
    runs,      \* the declaration a process was started for
    said,      \* it wrote its announcement
    signalled, \* a signal was sent to it
    \* the disk
    record,    \* the unit the record file names
    \* the host
    open,      \* host.open[name]
    attempt,   \* the caller whose start is pending: host.starting[name]
    watch,     \* the goroutines that follow a child
    crashes,
    \* the callers
    pc, call, ask, mine, answer

processes == <<proc, runs, said, signalled>>
locals == <<call, ask>>
vars == <<proc, runs, said, signalled, record, open, attempt, watch, crashes,
          pc, call, ask, mine, answer>>

Answers == Units \cup {"none", "failed", "stopped", "shut"}

TypeOK ==
    /\ proc \in [Units -> {"unborn", "launched", "mute", "serving", "deaf", "dead"}]
    /\ runs \in [Units -> Decls]
    /\ said \in [Units -> BOOLEAN]
    /\ signalled \in [Units -> BOOLEAN]
    /\ record \in Units \cup {NoUnit}
    /\ open \in Holds \cup {NoHold}
    /\ attempt \in Callers \cup {NoCaller}
    /\ watch \in [Units -> {"none", "waiting", "watching", "unheld", "gone"}]
    /\ crashes \in 0..MaxCrashes
    /\ pc \in [Callers -> {"idle", "enter", "probe", "drop", "dropped", "unrecord",
           "end", "ending", "pend", "joined", "adopt", "awaitGone", "dial", "greet",
           "ungreeted", "spawn", "await", "awaitExit", "remember", "hold", "finish",
           "stop", "retake", "stopped", "recorded"}]
    /\ call \in [Callers -> {"none", "start", "stop", "shutdown", "lastStop"}]
    /\ ask \in [Callers -> Decls]
    /\ mine \in [Callers -> Holds \cup {NoHold}]
    /\ answer \in [Callers -> Answers]

AnyDecl == CHOOSE d \in Decls : TRUE

Init ==
    /\ proc = [u \in Units |-> "unborn"]
    /\ runs = [u \in Units |-> AnyDecl]
    /\ said = [u \in Units |-> FALSE]
    /\ signalled = [u \in Units |-> FALSE]
    /\ record = NoUnit
    /\ open = NoHold
    /\ attempt = NoCaller
    /\ watch = [u \in Units |-> "none"]
    /\ crashes = 0
    /\ pc = [p \in Callers |-> "idle"]
    /\ call = [p \in Callers |-> "none"]
    /\ ask = [p \in Callers |-> AnyDecl]
    /\ mine = [p \in Callers |-> NoHold]
    /\ answer = [p \in Callers |-> "none"]

Alive(u) == proc[u] \in {"launched", "mute", "serving", "deaf"}
Listens(u) == proc[u] = "serving"

\* What a declaration means to a unit that runs for another one.
HasNoOpinion(d, running) == d.keys # running.keys /\ d.keys = NoKeys
TakesOver(d, running) ==
    \/ d.keys # running.keys /\ d.keys # NoKeys /\ running.keys = NoKeys
    \/ d.keys = running.keys /\ d.runtime # running.runtime
Conflicts(d, running) ==
    d.keys # running.keys /\ d.keys # NoKeys /\ running.keys # NoKeys

Goes(p, at) == pc' = [pc EXCEPT ![p] = at]
GoesWith(p, at, held) == Goes(p, at) /\ mine' = [mine EXCEPT ![p] = held]
Returns(p, value) ==
    /\ GoesWith(p, "idle", NoHold)
    /\ answer' = [answer EXCEPT ![p] = value]
\* startResolved answers; the attempt is still to be closed.
Resolves(p, value) ==
    /\ GoesWith(p, "finish", NoHold)
    /\ answer' = [answer EXCEPT ![p] = value]

\* child.Signal kills the group; an adopted unit gets its pid terminated.
Kill(u) ==
    /\ proc' = [proc EXCEPT ![u] = "dead"]
    /\ signalled' = [signalled EXCEPT ![u] = TRUE]
    /\ UNCHANGED <<runs, said>>
Terminate(u) ==
    /\ signalled' = [signalled EXCEPT ![u] = TRUE]
    /\ UNCHANGED <<proc, runs, said>>

\* A hold is compared by pointer before the table drops it; two adoptions of one
\* process by this host are one value here.
OpenWithout(held) == IF open = held THEN NoHold ELSE open

-----------------------------------------------------------------------------
\* The unit's process.

Announces(u) ==
    /\ proc[u] = "launched"
    /\ proc' = [proc EXCEPT ![u] = "serving"]
    /\ said' = [said EXCEPT ![u] = TRUE]
    /\ UNCHANGED <<runs, signalled, record, open, attempt, watch, crashes,
                   pc, locals, mine, answer>>

Mutes(u) ==
    /\ Mute /\ proc[u] = "launched"
    /\ proc' = [proc EXCEPT ![u] = "mute"]
    /\ UNCHANGED <<runs, said, signalled, record, open, attempt, watch, crashes, pc, locals, mine, answer>>

Deafens(u) ==
    /\ Lingering /\ proc[u] = "serving"
    /\ proc' = [proc EXCEPT ![u] = "deaf"]
    /\ UNCHANGED <<runs, said, signalled, record, open, attempt, watch, crashes, pc, locals, mine, answer>>

Dies(u) ==
    /\ Alive(u) /\ (Mortal \/ signalled[u])
    /\ proc' = [proc EXCEPT ![u] = "dead"]
    /\ UNCHANGED <<runs, said, signalled, record, open, attempt, watch, crashes, pc, locals, mine, answer>>

-----------------------------------------------------------------------------
\* forgetWhenGone: the table first, under the lock, then the record.

WatcherUnholds(u) ==
    /\ watch[u] = "watching" /\ proc[u] = "dead"
    /\ open' = OpenWithout([unit |-> u, adopted |-> FALSE])
    /\ watch' = [watch EXCEPT ![u] = "unheld"]
    /\ UNCHANGED <<processes, record, attempt, crashes, pc, locals, mine,
                   answer>>

\* The record goes whatever it names by now, observers hear, gone closes.
WatcherForgets(u) ==
    /\ watch[u] = "unheld"
    /\ record' = NoUnit
    /\ watch' = [watch EXCEPT ![u] = "gone"]
    /\ UNCHANGED <<processes, open, attempt, crashes, pc, locals, mine, answer>>

-----------------------------------------------------------------------------
\* startResolvedWithSecrets: what is open decides first.

Begin(p, what, d) ==
    /\ pc[p] = "idle" /\ what \in Calls
    /\ pc' = [pc EXCEPT ![p] = IF what = "start" THEN "enter" ELSE "stop"]
    /\ call' = [call EXCEPT ![p] = what]
    /\ ask' = [ask EXCEPT ![p] = d]
    /\ answer' = [answer EXCEPT ![p] = "none"]
    /\ UNCHANGED <<processes, record, open, attempt, watch, crashes, mine>>

OpenStands(p) ==
    /\ pc[p] = "enter" /\ open # NoHold /\ HasNoOpinion(ask[p], runs[open.unit])
    /\ Returns(p, open.unit)
    /\ UNCHANGED <<processes, record, open, attempt, watch, crashes, locals>>

OpenConflicts(p) ==
    /\ pc[p] = "enter" /\ open # NoHold /\ Conflicts(ask[p], runs[open.unit])
    /\ Returns(p, "failed")
    /\ UNCHANGED <<processes, record, open, attempt, watch, crashes, locals>>

\* It yields: taken out of the table, then its record, then the process ends.
OpenYields(p) ==
    /\ pc[p] = "enter" /\ open # NoHold /\ TakesOver(ask[p], runs[open.unit])
    /\ GoesWith(p, "unrecord", open)
    /\ open' = NoHold
    /\ UNCHANGED <<processes, record, attempt, watch, crashes, locals, answer>>

Unrecord(p) ==
    /\ pc[p] = "unrecord"
    /\ record' = NoUnit
    /\ Goes(p, "end")
    /\ UNCHANGED <<processes, open, attempt, watch, crashes, locals, mine,
                   answer>>

\* The same declaration: answered at once if something listens there.
OpenMatches(p) ==
    /\ pc[p] = "enter" /\ open # NoHold /\ ask[p] = runs[open.unit]
    /\ GoesWith(p, "probe", open)
    /\ UNCHANGED <<processes, record, open, attempt, watch, crashes, locals,
                   answer>>

ProbeAnswers(p) ==
    /\ pc[p] = "probe" /\ Listens(mine[p].unit)
    /\ Returns(p, mine[p].unit)
    /\ UNCHANGED <<processes, record, open, attempt, watch, crashes, locals>>

ProbeFails(p) ==
    /\ pc[p] = "probe" /\ ~Listens(mine[p].unit)
    /\ Goes(p, "drop")
    /\ UNCHANGED <<processes, record, open, attempt, watch, crashes, locals,
                   mine, answer>>

\* drop: the process is not ended, only forgotten.
Drop(p) ==
    /\ pc[p] = "drop"
    /\ open' = OpenWithout(mine[p])
    /\ Goes(p, "dropped")
    /\ UNCHANGED <<processes, record, attempt, watch, crashes, locals, mine,
                   answer>>

DropForgets(p) ==
    /\ pc[p] = "dropped"
    /\ record' = NoUnit
    /\ GoesWith(p, "pend", NoHold)
    /\ UNCHANGED <<processes, open, attempt, watch, crashes, locals, answer>>

\* Past the open table, under the same lock or after taking it again.
ReachesPending(p) == pc[p] = "pend" \/ (pc[p] = "enter" /\ open = NoHold)

NonePending(p) == attempt = NoCaller

BecomesAttempt(p) ==
    /\ ReachesPending(p) /\ NonePending(p)
    /\ attempt' = p
    /\ Goes(p, "adopt")
    /\ UNCHANGED <<processes, record, open, watch, crashes, locals, mine,
                   answer>>

JoinsAttempt(p) ==
    /\ ReachesPending(p) /\ attempt # NoCaller
    /\ ~Conflicts(ask[p], ask[attempt])
    /\ Goes(p, "joined")
    /\ UNCHANGED <<processes, record, open, attempt, watch, crashes, locals,
                   mine, answer>>

PendingConflicts(p) ==
    /\ ReachesPending(p) /\ attempt # NoCaller
    /\ Conflicts(ask[p], ask[attempt])
    /\ Returns(p, "failed")
    /\ UNCHANGED <<processes, record, open, attempt, watch, crashes, locals>>

\* The attempt closes: a caller that joined with the same declaration shares its
\* outcome, any other one starts over.
ReleasedBySuccess(p) == answer[p] # "failed"
Released(p) == TRUE
Shares(q, p) == pc[q] = "joined" /\ ask[q] = ask[p] /\ Released(p)

FinishStart(p) ==
    /\ pc[p] = "finish"
    /\ attempt' = NoCaller
    /\ pc' = [q \in Callers |->
           IF q = p \/ Shares(q, p) THEN "idle"
           ELSE IF pc[q] = "joined" /\ Released(p) THEN "enter" ELSE pc[q]]
    /\ answer' = [q \in Callers |-> IF Shares(q, p) THEN answer[p] ELSE answer[q]]
    /\ UNCHANGED <<processes, record, open, watch, crashes, locals, mine>>

-----------------------------------------------------------------------------
\* adopt, for a start that may have a unit to find and for a stop of a unit this
\* run never held.

AdoptMisses(p) ==
    /\ GoesWith(p, IF call[p] = "start" THEN "spawn" ELSE "stopped", NoHold)
    /\ UNCHANGED answer
AdoptFinds(p, u) ==
    IF call[p] = "start" THEN Resolves(p, u)
    ELSE GoesWith(p, "retake", NoHold) /\ UNCHANGED answer

AdoptNoRecord(p) ==
    /\ pc[p] = "adopt" /\ record = NoUnit
    /\ AdoptMisses(p)
    /\ UNCHANGED <<processes, record, open, attempt, watch, crashes, locals>>

AdoptConflicts(p) ==
    /\ pc[p] = "adopt" /\ record # NoUnit /\ call[p] = "start"
    /\ Conflicts(ask[p], runs[record])
    /\ Resolves(p, "failed")
    /\ UNCHANGED <<processes, record, open, attempt, watch, crashes, locals>>

\* With no opinion on the secrets the program must still be the recorded one.
SupersedesByProgram(d, running) == d.runtime # running.runtime
Supersedes(d, running) == TakesOver(d, running) \/ d.runtime # running.runtime

AdoptSupersedes(p) ==
    /\ pc[p] = "adopt" /\ record # NoUnit /\ call[p] = "start"
    /\ ~Conflicts(ask[p], runs[record]) /\ Supersedes(ask[p], runs[record])
    /\ Terminate(record)
    /\ GoesWith(p, "awaitGone", [unit |-> record, adopted |-> TRUE])
    /\ UNCHANGED <<record, open, attempt, watch, crashes, locals, answer>>

AwaitGone(p) ==
    /\ pc[p] = "awaitGone" /\ (~Listens(mine[p].unit) \/ Stubborn)
    /\ record' = NoUnit
    /\ GoesWith(p, "spawn", NoHold)
    /\ UNCHANGED <<processes, open, attempt, watch, crashes, locals, answer>>

RecordConsumed == NoUnit
RecordRead == record

AdoptReads(p) ==
    /\ pc[p] = "adopt" /\ record # NoUnit
    /\ call[p] = "start" => /\ ~Conflicts(ask[p], runs[record])
                            /\ ~Supersedes(ask[p], runs[record])
    /\ GoesWith(p, "dial", [unit |-> record, adopted |-> TRUE])
    /\ record' = RecordRead
    /\ UNCHANGED <<processes, open, attempt, watch, crashes, locals,
                   answer>>

DialFails(p) ==
    /\ pc[p] = "dial" /\ ~Listens(mine[p].unit)
    /\ record' = NoUnit
    /\ AdoptMisses(p)
    /\ UNCHANGED <<processes, open, attempt, watch, crashes, locals>>

DialFindsOpen(p) ==
    /\ pc[p] = "dial" /\ Listens(mine[p].unit) /\ open # NoHold
    /\ AdoptFinds(p, open.unit)
    /\ UNCHANGED <<processes, record, open, attempt, watch, crashes, locals>>

DialHolds(p) ==
    /\ pc[p] = "dial" /\ Listens(mine[p].unit) /\ open = NoHold
    /\ open' = mine[p]
    /\ Goes(p, "greet")
    /\ UNCHANGED <<processes, record, attempt, watch, crashes, locals, mine,
                   answer>>

GreetAnswers(p) ==
    /\ pc[p] = "greet" /\ Listens(mine[p].unit)
    /\ AdoptFinds(p, mine[p].unit)
    /\ UNCHANGED <<processes, record, open, attempt, watch, crashes, locals>>

GreetFails(p) ==
    /\ pc[p] = "greet" /\ ~Listens(mine[p].unit)
    /\ open' = OpenWithout(mine[p])
    /\ Goes(p, "ungreeted")
    /\ UNCHANGED <<processes, record, attempt, watch, crashes, locals, mine,
                   answer>>

Ungreeted(p) ==
    /\ pc[p] = "ungreeted"
    /\ record' = NoUnit
    /\ AdoptMisses(p)
    /\ UNCHANGED <<processes, open, attempt, watch, crashes, locals>>

-----------------------------------------------------------------------------
\* startResolved: spawn, read the announcement, record, hold.

\* A locked secret, an unresolved binding or a failed exec.
SpawnFails(p) ==
    /\ pc[p] = "spawn"
    /\ Resolves(p, "failed")
    /\ UNCHANGED <<processes, record, open, attempt, watch, crashes, locals>>

Spawn(p, u) ==
    /\ pc[p] = "spawn" /\ proc[u] = "unborn"
    /\ proc' = [proc EXCEPT ![u] = "launched"]
    /\ runs' = [runs EXCEPT ![u] = ask[p]]
    /\ watch' = [watch EXCEPT ![u] = "waiting"]
    /\ GoesWith(p, "await", [unit |-> u, adopted |-> FALSE])
    /\ UNCHANGED <<said, signalled, record, open, attempt, crashes, locals, answer>>

AwaitAnnounced(p) ==
    /\ pc[p] = "await" /\ said[mine[p].unit]
    /\ Goes(p, "remember")
    /\ UNCHANGED <<processes, record, open, attempt, watch, crashes, locals,
                   mine, answer>>

LeaveSilent(u) == UNCHANGED processes
EndSilent(u) == Kill(u)

\* The deadline, or a first line that is no announcement: it is signalled.
AwaitSilent(p) ==
    /\ pc[p] = "await"
    /\ EndSilent(mine[p].unit)
    /\ Resolves(p, "failed")
    /\ UNCHANGED <<record, open, attempt, watch, crashes, locals>>

\* stdout ended with no line: now only the child's exit is waited for.
AwaitEOF(p) ==
    /\ pc[p] = "await" /\ ~said[mine[p].unit] /\ proc[mine[p].unit] \in {"mute", "dead"}
    /\ Goes(p, "awaitExit")
    /\ UNCHANGED <<processes, record, open, attempt, watch, crashes, locals,
                   mine, answer>>

AwaitExit(p) ==
    /\ pc[p] = "awaitExit" /\ proc[mine[p].unit] = "dead"
    /\ Resolves(p, "failed")
    /\ UNCHANGED <<processes, record, open, attempt, watch, crashes, locals>>

\* A record that cannot be written is not a failure to start.
Remember(p, written) ==
    /\ pc[p] = "remember"
    /\ written \/ DiskFails
    /\ record' = IF written THEN mine[p].unit ELSE record
    /\ Goes(p, "hold")
    /\ UNCHANGED <<processes, open, attempt, watch, crashes, locals, mine,
                   answer>>

TakesHold(p) ==
    /\ pc[p] = "hold" /\ open = NoHold
    /\ open' = mine[p]
    /\ watch' = [watch EXCEPT ![mine[p].unit] = "watching"]
    /\ Resolves(p, mine[p].unit)
    /\ UNCHANGED <<processes, record, attempt, crashes, locals>>

LeaveLoser(u) == UNCHANGED processes
EndLoser(u) == Kill(u)

\* Another one got there first: this one ends what it started.
LosesRace(p) ==
    /\ pc[p] = "hold" /\ open # NoHold
    /\ EndLoser(mine[p].unit)
    /\ Resolves(p, open.unit)
    /\ UNCHANGED <<record, open, attempt, watch, crashes, locals>>

-----------------------------------------------------------------------------
\* Stop and ServiceShutdown; a yielding unit ends the same way. The Stop that
\* ServiceShutdown makes for a recorded unit is call "lastStop".

Stopped(p) == IF call[p] = "stop" THEN "stopped" ELSE "shut"

StopTakes(p) ==
    /\ pc[p] = "stop" /\ open # NoHold
    /\ open' = NoHold
    /\ GoesWith(p, "end", open)
    /\ UNCHANGED <<processes, record, attempt, watch, crashes, locals, answer>>

StopFindsNothing(p) ==
    /\ pc[p] = "stop" /\ open = NoHold
    /\ Goes(p, IF call[p] = "shutdown" THEN "recorded" ELSE "adopt")
    /\ UNCHANGED <<processes, record, open, attempt, watch, crashes, locals,
                   mine, answer>>

Retake(p) ==
    /\ pc[p] = "retake"
    /\ open' = NoHold
    /\ IF open = NoHold THEN Returns(p, Stopped(p))
       ELSE GoesWith(p, "end", open) /\ UNCHANGED answer
    /\ UNCHANGED <<processes, record, attempt, watch, crashes, locals>>

EndSignals(p) ==
    /\ pc[p] = "end"
    /\ IF mine[p].adopted THEN Terminate(mine[p].unit) ELSE Kill(mine[p].unit)
    /\ Goes(p, "ending")
    /\ UNCHANGED <<record, open, attempt, watch, crashes, locals, mine, answer>>

HasBeenTold(held) == signalled[held.unit]
\* A child has ended when its watcher says so; an adopted unit when its pid has.
HasEnded(held) ==
    IF held.adopted THEN proc[held.unit] = "dead" ELSE watch[held.unit] = "gone"

EndObserved(p) ==
    /\ pc[p] = "ending" /\ HasEnded(mine[p])
    /\ IF call[p] = "start" THEN GoesWith(p, "pend", NoHold)
       ELSE GoesWith(p, "stopped", mine[p])
    /\ UNCHANGED <<processes, record, open, attempt, watch, crashes, locals,
                   answer>>

EndTimesOut(p) ==
    /\ pc[p] = "ending" /\ Stubborn /\ ~HasEnded(mine[p])
    /\ IF call[p] = "shutdown" THEN GoesWith(p, "recorded", NoHold) /\ UNCHANGED answer
       ELSE Returns(p, "failed")
    /\ UNCHANGED <<processes, record, open, attempt, watch, crashes, locals>>

StopForgets(p) ==
    /\ pc[p] = "stopped"
    /\ record' = NoUnit
    /\ IF call[p] = "shutdown" THEN GoesWith(p, "recorded", NoHold) /\ UNCHANGED answer
       ELSE Returns(p, Stopped(p))
    /\ UNCHANGED <<processes, open, attempt, watch, crashes, locals>>

StillRecorded == record # NoUnit /\ Alive(record)

\* ServiceShutdown stops what the disk still names, and forgets the dead.
ShutdownReads(p) ==
    /\ pc[p] = "recorded" /\ StillRecorded
    /\ call' = [call EXCEPT ![p] = "lastStop"]
    /\ Goes(p, "stop")
    /\ UNCHANGED <<processes, record, open, attempt, watch, crashes, ask, mine,
                   answer>>

ShutdownDone(p) ==
    /\ pc[p] = "recorded" /\ ~StillRecorded
    /\ record' = NoUnit
    /\ Returns(p, "shut")
    /\ UNCHANGED <<processes, open, attempt, watch, crashes, locals>>

-----------------------------------------------------------------------------
\* The host process ends under its units: the disk and the processes stay.

\* Between a spawn and its record, and between the removal of the record of a unit
\* that yields and its end.
OnlyInMemory(p) ==
    \/ pc[p] \in {"await", "awaitExit", "remember"}
    \/ pc[p] = "end" /\ call[p] = "start"

Crash ==
    /\ crashes < MaxCrashes
    /\ Orphaning \/ \A p \in Callers : ~OnlyInMemory(p)
    /\ crashes' = crashes + 1
    /\ open' = NoHold
    /\ attempt' = NoCaller
    /\ watch' = [u \in Units |-> "none"]
    /\ pc' = [p \in Callers |-> "idle"]
    /\ call' = [p \in Callers |-> "none"]
    /\ mine' = [p \in Callers |-> NoHold]
    /\ answer' = [p \in Callers |-> "none"]
    /\ UNCHANGED <<processes, record, ask>>

-----------------------------------------------------------------------------

UnitStep(u) == Announces(u) \/ Mutes(u) \/ Deafens(u) \/ Dies(u)

WatcherStep(u) == WatcherUnholds(u) \/ WatcherForgets(u)

StartStep(p) ==
    \/ OpenStands(p) \/ OpenConflicts(p) \/ OpenYields(p) \/ Unrecord(p)
    \/ OpenMatches(p) \/ ProbeAnswers(p) \/ ProbeFails(p) \/ Drop(p) \/ DropForgets(p)
    \/ BecomesAttempt(p) \/ JoinsAttempt(p) \/ PendingConflicts(p) \/ FinishStart(p)
    \/ (\E u \in Units : Spawn(p, u)) \/ SpawnFails(p)
    \/ AwaitAnnounced(p) \/ AwaitSilent(p) \/ AwaitEOF(p) \/ AwaitExit(p)
    \/ (\E written \in BOOLEAN : Remember(p, written)) \/ TakesHold(p) \/ LosesRace(p)

AdoptStep(p) ==
    \/ AdoptNoRecord(p) \/ AdoptConflicts(p) \/ AdoptSupersedes(p) \/ AwaitGone(p)
    \/ AdoptReads(p) \/ DialFails(p) \/ DialFindsOpen(p) \/ DialHolds(p)
    \/ GreetAnswers(p) \/ GreetFails(p) \/ Ungreeted(p)

StopStep(p) ==
    \/ StopTakes(p) \/ StopFindsNothing(p) \/ Retake(p)
    \/ EndSignals(p) \/ EndObserved(p) \/ EndTimesOut(p) \/ StopForgets(p)
    \/ ShutdownReads(p) \/ ShutdownDone(p)

CallerStep(p) == StartStep(p) \/ AdoptStep(p) \/ StopStep(p)

Next ==
    \/ \E u \in Units : UnitStep(u) \/ WatcherStep(u)
    \/ \E p \in Callers : \/ CallerStep(p)
                          \/ \E what \in Calls, d \in Decls : Begin(p, what, d)
    \/ Crash

Spec == Init /\ [][Next]_vars

\* Goroutines run when they can, and a signalled unit dies unless it is stubborn.
Fairness ==
    /\ \A p \in Callers : WF_vars(CallerStep(p))
    /\ \A u \in Units : /\ WF_vars(WatcherStep(u))
                        /\ WF_vars(signalled[u] /\ ~Stubborn /\ Dies(u))

FairSpec == Spec /\ Fairness

-----------------------------------------------------------------------------
\* What the host promises.

\* A unit that was signalled or that a caller took away to end.
Condemned(u) ==
    \/ signalled[u]
    \/ \E p \in Callers : pc[p] \in {"unrecord", "end"} /\ mine[p].unit = u

\* A unit whose start has yet to take the table or to end it: a second start may
\* have gone past the table meanwhile, and the loser ends what it started.
Unsettled(u) ==
    \E p \in Callers : pc[p] \in {"await", "awaitExit", "remember", "hold"} /\ mine[p].unit = u

\* No two processes answer behind the one name, other than one on its way out or
\* one whose start is still to be settled (sidecar.go:587-592, 744).
OneUnit ==
    \A u, v \in Units :
        /\ Listens(u) /\ ~Condemned(u) /\ ~Unsettled(u)
        /\ Listens(v) /\ ~Condemned(v) /\ ~Unsettled(v)
        => u = v

\* A start that succeeded handed out a unit that runs what was declared: the
\* same secrets unless none were declared, and never a keyless unit to a caller
\* that declared some (sidecar.go:406-440, adopt.go:167-196).
AnswerFits ==
    \A p \in Callers :
        answer[p] \in Units =>
            LET running == runs[answer[p]]
            IN ask[p].keys # NoKeys => ask[p] = running

\* Somebody can still find every process that was not told to end.
NoneLost ==
    \A u \in Units :
        Alive(u) /\ ~signalled[u] =>
            \/ open.unit = u \/ record = u
            \/ \E p \in Callers : mine[p].unit = u

\* A stop removes the record only after the process it held has ended: a record
\* removed earlier makes a running unit unreachable (sidecar.go:742-749).
StopEndsFirst ==
    \A p \in Callers :
        pc[p] = "stopped" /\ mine[p] # NoHold => proc[mine[p].unit] = "dead"

\* A unit that is held and answers is on disk for the next run (adopt.go:52).
OpenIsRecorded ==
    open # NoHold /\ Listens(open.unit) /\ ~signalled[open.unit]
        => record = open.unit

\* Kept with one caller only (README, Disagreements).
\* Every process is stopped before the application exits (sidecar.go:921).
ShutdownStopsAll ==
    \A p \in Callers : answer[p] = "shut" =>
        \A u \in Units : Alive(u) => signalled[u]

\* Every start is answered within its deadlines.
StartReturns ==
    \A p \in Callers : pc[p] = "enter" ~> pc[p] = "idle"
=============================================================================
