--------------------------- MODULE ProcessManager ---------------------------
(***************************************************************************)
(* The ledger of child processes (core/process/manager.go): a caller       *)
(* starts a child, one goroutine waits for it, two pump its pipes, and     *)
(* callers write to it, close its stdin and reap it, all concurrently.     *)
(*                                                                         *)
(* A session is named by its child: handles are never reused, so the test  *)
(* `manager.sessions[entry.id] == entry` is membership of the ledger.      *)
(* The bytes of a pipe are counted, never looked at.                       *)
(***************************************************************************)
EXTENDS Naturals

CONSTANTS Children,     \* the children that may ever be started
          Callers,      \* goroutines that call the manager
          NoChild,
          Windows,      \* the windows a child may be stamped with
          Stamped,      \* Stamped[w]: the children started for that window
          Grouped,      \* children started as a process group of their own
          Untouchable,  \* children the kernel will not let this process signal
          PipeSize,     \* bound: chunks a pipe holds before its writer blocks
          MaxWrites     \* bound: chunks a child's tree writes in its life

ASSUME ProcessAssumption ==
    /\ NoChild \notin Children
    /\ Stamped \in [Windows -> SUBSET Children]
    /\ Grouped \subseteq Children
    /\ Untouchable \subseteq Children
    /\ PipeSize \in Nat \ {0}
    /\ MaxWrites \in Nat

Streams == {"stdout", "stderr"}

VARIABLES
    \* the kernel's side of a child
    os,        \* unborn, running, dead (not yet waited for), reaped
    heir,      \* a live grandchild holds the inherited pipes
    pipe,      \* chunks written and not yet read, per stream
    unwritten, \* chunks the child's tree has yet to write
    stdin,     \* the write end of its stdin is open
    \* the manager's side
    sessions,  \* the ledger
    done,      \* the waiter recorded the code: alive is FALSE, done is closed
    waitErr,   \* the waiter could not reap it
    reader,    \* the goroutine pumping a stream
    lastEvent, \* the last thing the sink heard of the child
    verdict,   \* what the reaping of the child answered
    \* the callers
    pc, cur, claimed, signalErr

kernel   == <<os, heir, pipe, unwritten>>
streams  == <<reader, lastEvent>>
callers  == <<pc, cur, claimed, signalErr>>
vars == <<os, heir, pipe, unwritten, stdin, sessions, done,
          waitErr, reader, lastEvent, verdict, pc, cur, claimed, signalErr>>

TypeOK ==
    /\ os \in [Children -> {"unborn", "running", "dead", "reaped"}]
    /\ heir \in [Children -> BOOLEAN]
    /\ pipe \in [Children -> [Streams -> 0..PipeSize]]
    /\ unwritten \in [Children -> 0..MaxWrites]
    /\ stdin \in [Children -> BOOLEAN]
    /\ sessions \in SUBSET Children
    /\ done \in [Children -> BOOLEAN]
    /\ waitErr \in [Children -> BOOLEAN]
    /\ reader \in [Children -> [Streams ->
           {"none", "reading", "draining", "closed", "forgotten", "over"}]]
    /\ lastEvent \in [Children -> {"none", "output", "exit"}]
    /\ verdict \in [Children -> {"none", "reaped", "notReaped"}]
    /\ pc \in [Callers -> {"idle", "started", "write", "writing", "close",
                           "reaping", "awaiting", "closing"}]
    /\ cur \in [Callers -> Children \cup {NoChild}]
    /\ claimed \in [Callers -> SUBSET Children]
    /\ signalErr \in [Callers -> BOOLEAN]

Init ==
    /\ os = [c \in Children |-> "unborn"]
    /\ heir = [c \in Children |-> FALSE]
    /\ pipe = [c \in Children |-> [s \in Streams |-> 0]]
    /\ unwritten = [c \in Children |-> MaxWrites]
    /\ stdin = [c \in Children |-> FALSE]
    /\ sessions = {}
    /\ done = [c \in Children |-> FALSE]
    /\ waitErr = [c \in Children |-> FALSE]
    /\ reader = [c \in Children |-> [s \in Streams |-> "none"]]
    /\ lastEvent = [c \in Children |-> "none"]
    /\ verdict = [c \in Children |-> "none"]
    /\ pc = [p \in Callers |-> "idle"]
    /\ cur = [p \in Callers |-> NoChild]
    /\ claimed = [p \in Callers |-> {}]
    /\ signalErr = [p \in Callers |-> FALSE]

\* Someone still has the child's ends of its pipes.
HoldsPipes(c) == os[c] = "running" \/ heir[c]

\* The goroutines of a registered child were started.
Registered(c) == reader[c]["stdout"] # "none"

\* stdinMu is held across the kernel's write.
StdinLocked(c) == \E p \in Callers : pc[p] = "writing" /\ cur[p] = c

\* Guards that the properties below lean on. The first of each pair is the
\* mistake the code's comments warn of, kept to show that a property sees it.

\* pump: a read that returned something.
ReadSomething(c, s) == reader[c][s] = "reading" /\ pipe[c][s] > 0

\* drain: the consumer is gone and its pipe is not empty.
DrainsTheDead(c, s) == reader[c][s] = "draining" /\ pipe[c][s] > 0 /\ done[c]
Drains(c, s) == reader[c][s] = "draining" /\ pipe[c][s] > 0

\* EOF comes when the last holder of the pipe let go.
AtEOFForConsumer(c, s) ==
    reader[c][s] = "reading" /\ pipe[c][s] = 0 /\ ~HoldsPipes(c)
AtEOF(c, s) ==
    /\ reader[c][s] \in {"reading", "draining"}
    /\ pipe[c][s] = 0 /\ ~HoldsPipes(c)

\* The end of stdout waits for the recorded code.
StreamDone(c) == reader[c]["stdout"] = "closed"
StreamAndWaitDone(c) == reader[c]["stdout"] = "closed" /\ done[c]

\* The ledger without the claimed children.
WithClaimed(S) == sessions
WithoutClaimed(S) == sessions \ S

\* The signal goes first, before stdin is touched.
StdinFirst(p, c) == pc[p] = "reaping" /\ c \in claimed[p] /\ ~StdinLocked(c)
SignalFirst(p, c) == pc[p] = "reaping" /\ c \in claimed[p]

\* A signal is not a reaping: the waiter's word is.
SignalIsEnough(p) == pc[p] = "awaiting"
WaiterIsDone(p) == pc[p] = "awaiting" /\ done[cur[p]]

\* Where caller p goes on, and the child it is busy with.
Goes(p, at, c) ==
    /\ pc' = [pc EXCEPT ![p] = at]
    /\ cur' = [cur EXCEPT ![p] = c]

Returns(p) == Goes(p, "idle", NoChild)

-----------------------------------------------------------------------------
\* The child and its tree.

ChildForks(c) ==
    /\ os[c] = "running" /\ ~heir[c]
    /\ heir' = [heir EXCEPT ![c] = TRUE]
    /\ UNCHANGED <<os, pipe, unwritten, stdin, sessions, done,
                   waitErr, streams, verdict, callers>>

HeirEnds(c) ==
    /\ heir[c]
    /\ heir' = [heir EXCEPT ![c] = FALSE]
    /\ UNCHANGED <<os, pipe, unwritten, stdin, sessions, done,
                   waitErr, streams, verdict, callers>>

ChildWrites(c, s) ==
    /\ HoldsPipes(c)
    /\ unwritten[c] > 0 /\ pipe[c][s] < PipeSize
    /\ unwritten' = [unwritten EXCEPT ![c] = @ - 1]
    /\ pipe' = [pipe EXCEPT ![c][s] = @ + 1]
    /\ UNCHANGED <<os, heir, stdin, sessions, done, waitErr,
                   streams, verdict, callers>>

ChildExits(c) ==
    /\ os[c] = "running"
    /\ os' = [os EXCEPT ![c] = "dead"]
    /\ UNCHANGED <<heir, pipe, unwritten, stdin, sessions, done,
                   waitErr, streams, verdict, callers>>

-----------------------------------------------------------------------------
\* Spawn: the child runs before the ledger hears of it.

SpawnStart(p, c) ==
    /\ pc[p] = "idle" /\ os[c] = "unborn"
    /\ os' = [os EXCEPT ![c] = "running"]
    /\ stdin' = [stdin EXCEPT ![c] = TRUE]
    /\ Goes(p, "started", c)
    /\ UNCHANGED <<heir, pipe, unwritten, sessions, done, waitErr, streams,
                   verdict, claimed, signalErr>>

SpawnRegister(p) ==
    /\ pc[p] = "started"
    /\ sessions' = sessions \cup {cur[p]}
    /\ reader' = [reader EXCEPT ![cur[p]] = [s \in Streams |-> "reading"]]
    /\ Returns(p)
    /\ UNCHANGED <<kernel, stdin, done, waitErr, lastEvent, verdict, claimed,
                   signalErr>>

\* await: the one waiter; a wait that fails reaps nothing and still ends.
Await(c, failed) ==
    /\ Registered(c) /\ os[c] = "dead" /\ ~done[c]
    /\ os' = [os EXCEPT ![c] = IF failed THEN "dead" ELSE "reaped"]
    /\ waitErr' = [waitErr EXCEPT ![c] = failed]
    /\ done' = [done EXCEPT ![c] = TRUE]
    /\ UNCHANGED <<heir, pipe, unwritten, stdin, sessions, streams, verdict,
                   callers>>

-----------------------------------------------------------------------------
\* stream and pump.

\* One read goes to the sink; a departed consumer turns the pump into a drain.
PumpRead(c, s, gone) ==
    /\ ReadSomething(c, s)
    /\ pipe' = [pipe EXCEPT ![c][s] = @ - 1]
    /\ lastEvent' = [lastEvent EXCEPT ![c] = "output"]
    /\ reader' = [reader EXCEPT ![c][s] = IF gone THEN "draining" ELSE @]
    /\ UNCHANGED <<os, heir, unwritten, stdin, sessions, done,
                   waitErr, verdict, callers>>

Drain(c, s) ==
    /\ Drains(c, s)
    /\ pipe' = [pipe EXCEPT ![c][s] = @ - 1]
    /\ UNCHANGED <<os, heir, unwritten, stdin, sessions, done,
                   waitErr, streams, verdict, callers>>

\* stderr ends at its EOF; stdout has the exit still to tell.
StreamEOF(c, s) ==
    /\ AtEOF(c, s)
    /\ reader' = [reader EXCEPT ![c][s] = IF s = "stdout" THEN "closed" ELSE "over"]
    /\ UNCHANGED <<kernel, stdin, sessions, done, waitErr, lastEvent, verdict,
                   callers>>

Forget(c) ==
    /\ StreamAndWaitDone(c)
    /\ sessions' = sessions \ {c}
    /\ reader' = [reader EXCEPT ![c]["stdout"] = "forgotten"]
    /\ UNCHANGED <<kernel, stdin, done, waitErr, lastEvent, verdict, callers>>

EmitExit(c) ==
    /\ reader[c]["stdout"] = "forgotten"
    /\ lastEvent' = [lastEvent EXCEPT ![c] = "exit"]
    /\ reader' = [reader EXCEPT ![c]["stdout"] = "over"]
    /\ UNCHANGED <<kernel, stdin, sessions, done, waitErr, verdict, callers>>

-----------------------------------------------------------------------------
\* Write and CloseStdin look the session up and then take stdinMu.

Lookup(p, c, op) ==
    /\ pc[p] = "idle" /\ c \in sessions
    /\ Goes(p, op, c)
    /\ UNCHANGED <<kernel, stdin, sessions, done, waitErr, streams, verdict,
                   claimed, signalErr>>

WriteBegins(p) ==
    /\ pc[p] = "write" /\ ~StdinLocked(cur[p]) /\ stdin[cur[p]]
    /\ Goes(p, "writing", cur[p])
    /\ UNCHANGED <<kernel, stdin, sessions, done, waitErr, streams, verdict,
                   claimed, signalErr>>

\* stdin was closed, by CloseStdin or by the reaping of the child.
WriteRefused(p) ==
    /\ pc[p] = "write" /\ ~StdinLocked(cur[p]) /\ ~stdin[cur[p]]
    /\ Returns(p)
    /\ UNCHANGED <<kernel, stdin, sessions, done, waitErr, streams, verdict,
                   claimed, signalErr>>

\* The kernel took the bytes: only a reader on the other end makes that happen.
WriteTaken(p) ==
    /\ pc[p] = "writing" /\ HoldsPipes(cur[p])
    /\ Returns(p)
    /\ UNCHANGED <<kernel, stdin, sessions, done, waitErr, streams, verdict,
                   claimed, signalErr>>

\* EPIPE: nobody is left to read.
WriteBroken(p) ==
    /\ pc[p] = "writing" /\ ~HoldsPipes(cur[p])
    /\ Returns(p)
    /\ UNCHANGED <<kernel, stdin, sessions, done, waitErr, streams, verdict,
                   claimed, signalErr>>

CloseStdin(p) ==
    /\ pc[p] = "close" /\ ~StdinLocked(cur[p])
    /\ stdin' = [stdin EXCEPT ![cur[p]] = FALSE]
    /\ Returns(p)
    /\ UNCHANGED <<kernel, sessions, done, waitErr, streams, verdict, claimed,
                   signalErr>>

-----------------------------------------------------------------------------
\* Kill, ReclaimByWindow and ReapAll claim children out of the ledger and then
\* reap them one at a time. The code goes by handle; any order is allowed here.

Claim(p, S) ==
    /\ pc[p] = "idle" /\ S # {} /\ S \subseteq sessions
    /\ sessions' = WithoutClaimed(S)
    /\ claimed' = [claimed EXCEPT ![p] = S]
    /\ Goes(p, "reaping", NoChild)
    /\ UNCHANGED <<kernel, stdin, done, waitErr, streams, verdict, signalErr>>

Kill(p, c) == Claim(p, {c})

ReclaimByWindow(p, w) == Claim(p, sessions \cap Stamped[w])

ReapAll(p) == Claim(p, sessions)

\* The signal reaches the group first. A refused one is remembered, not acted on.
Signal(p, c) ==
    /\ SignalFirst(p, c)
    /\ Goes(p, "awaiting", c)
    /\ heir' = [heir EXCEPT ![c] = @ /\ c \notin Grouped]
    /\ signalErr' = [signalErr EXCEPT ![p] = c \in Untouchable /\ os[c] = "running"]
    /\ os' = [os EXCEPT ![c] = IF @ = "running" /\ c \notin Untouchable
                               THEN "dead" ELSE @]
    /\ UNCHANGED <<pipe, unwritten, stdin, sessions, done,
                   waitErr, streams, verdict, claimed>>

ReapObserved(p) ==
    /\ WaiterIsDone(p)
    /\ Goes(p, "closing", cur[p])
    /\ UNCHANGED <<kernel, stdin, sessions, done, waitErr, streams, verdict,
                   claimed, signalErr>>

ReapCloses(p) ==
    LET c == cur[p]
        rest == claimed[p] \ {c}
    IN /\ pc[p] = "closing" /\ ~StdinLocked(c)
       /\ stdin' = [stdin EXCEPT ![c] = FALSE]
       /\ verdict' = [verdict EXCEPT ![c] =
              IF waitErr[c] \/ signalErr[p] THEN "notReaped" ELSE "reaped"]
       /\ claimed' = [claimed EXCEPT ![p] = rest]
       /\ signalErr' = [signalErr EXCEPT ![p] = FALSE]
       /\ Goes(p, IF rest = {} THEN "idle" ELSE "reaping", NoChild)
       /\ UNCHANGED <<kernel, sessions, done, waitErr, streams>>

-----------------------------------------------------------------------------

ChildStep(c) ==
    \/ ChildForks(c) \/ HeirEnds(c) \/ ChildExits(c)
    \/ \E s \in Streams : ChildWrites(c, s)

GoroutineStep(c) ==
    \/ \E failed \in BOOLEAN : Await(c, failed)
    \/ Forget(c) \/ EmitExit(c)
    \/ \E s \in Streams : \/ \E gone \in BOOLEAN : PumpRead(c, s, gone)
                          \/ Drain(c, s) \/ StreamEOF(c, s)

\* What a caller that is inside an operation does next.
CallerStep(p) ==
    \/ SpawnRegister(p)
    \/ WriteBegins(p) \/ WriteRefused(p) \/ WriteBroken(p) \/ CloseStdin(p)
    \/ (\E c \in Children : Signal(p, c)) \/ ReapObserved(p) \/ ReapCloses(p)

CallerBegins(p) ==
    \/ \E c \in Children : SpawnStart(p, c)
    \/ \E c \in Children, op \in {"write", "close"} : Lookup(p, c, op)
    \/ \E c \in Children : Kill(p, c)
    \/ \E w \in Windows : ReclaimByWindow(p, w)
    \/ ReapAll(p)

Next ==
    \/ \E c \in Children : ChildStep(c) \/ GoroutineStep(c)
    \/ \E p \in Callers : CallerStep(p) \/ WriteTaken(p) \/ CallerBegins(p)

Spec == Init /\ [][Next]_vars

\* The scheduler runs every goroutine that can run. Children, their consumers
\* and the kernel taking a write owe nothing.
Fairness ==
    /\ \A c \in Children :
           /\ WF_vars(\E failed \in BOOLEAN : Await(c, failed))
           /\ WF_vars(Forget(c))
           /\ WF_vars(EmitExit(c))
           /\ \A s \in Streams :
                  WF_vars(StreamEOF(c, s) \/ Drain(c, s)
                          \/ \E gone \in BOOLEAN : PumpRead(c, s, gone))
    /\ \A p \in Callers : WF_vars(CallerStep(p))

FairSpec == Spec /\ Fairness

\* A child that only has its output left to write, and then exits.
ProductiveChildren ==
    \A c \in Children :
        /\ WF_vars(\E s \in Streams : ChildWrites(c, s))
        /\ WF_vars(unwritten[c] = 0 /\ ChildExits(c))

-----------------------------------------------------------------------------
\* What the manager promises.

HeldBySpawner(c) == \E p \in Callers : pc[p] = "started" /\ cur[p] = c
HeldByReaper(c)  == \E p \in Callers : c \in claimed[p]

\* A child that was started and not yet waited for is held by exactly one of
\* the spawning caller, the ledger and one reaping caller: nothing this process
\* started is lost, and no two callers signal the same child (Spawn, Kill,
\* ReclaimByWindow, ReapAll, forget).
OneHolder ==
    \A c \in Children :
        /\ os[c] # "unborn" /\ ~done[c] =>
               HeldBySpawner(c) \/ c \in sessions \/ HeldByReaper(c)
        /\ ~(HeldBySpawner(c) /\ (c \in sessions \/ HeldByReaper(c)))
        /\ ~(c \in sessions /\ HeldByReaper(c))
        /\ \A p, q \in Callers :
               c \in claimed[p] \cap claimed[q] => p = q

\* Leaving the ledger and the exit receipt agree: a child whose exit the sink
\* was told of is not listed, and its code was recorded (manager.go:198-205).
ExitAgreesWithLedger ==
    \A c \in Children :
        lastEvent[c] = "exit" => c \notin sessions /\ done[c]

\* A reaping is reported only of a child the kernel gave up (manager.go:334).
ReapedIsReaped ==
    \A c \in Children : verdict[c] = "reaped" => os[c] = "reaped"

\* A claimed child whose tree the signal reaches gets its answer: the kill is
\* never parked behind the write it is there to break (manager.go:337-350).
ReapReturns ==
    \A c \in Grouped \ Untouchable : HeldByReaper(c) ~> verdict[c] # "none"

\* The code breaks this one (README, Disagreements).
\* One child that would not be reaped does not excuse the rest: every claimed
\* child the signal can reach is ended (comment at manager.go:450).
RestNotExcused ==
    \A c \in Children \ Untouchable : HeldByReaper(c) ~> os[c] # "running"

\* Once the last holder of its stdout is gone the exit is announced, whether
\* the child was killed, its consumer left, or neither.
ExitIsAnnounced ==
    \A c \in Children :
        (Registered(c) /\ ~HoldsPipes(c)) ~> reader[c]["stdout"] = "over"

\* A consumer that left never wedges the child it stopped reading from: the
\* pipe is drained, so the child finishes its output (manager.go:188-191).
ChildFinishes ==
    ProductiveChildren => \A c \in Children : Registered(c) ~> os[c] # "running"
=============================================================================
