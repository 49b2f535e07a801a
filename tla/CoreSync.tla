------------------------------- MODULE CoreSync -------------------------------
(***************************************************************************)
(* One persisted setting (settings, theme, plugin settings, registries,    *)
(* section sets, ...) shared by the windows of the application.            *)
(*                                                                         *)
(* createCoreSync (src/frontend/src/state/coreSync.ts) keeps a store in    *)
(* step with makeCoreStore (coreStore.ts): a synchronous cache in the      *)
(* browser's localStorage, which all windows share, and the authority in   *)
(* the core's key-value store.  A window                                   *)
(*   - loads from the cache, then hydrates from the authority (init);      *)
(*   - saves to the cache and to its own memory at once (stage) and to the *)
(*     authority after a debounce (flush), or at once (saveNow, pagehide); *)
(*   - hears of the writes of other windows and reads the authority again. *)
(*                                                                         *)
(* Every call to the core is two points of its own, the service and the    *)
(* reply, and calls of one window may be served and answered in any order: *)
(* the desktop host serves each in a goroutine.                            *)
(***************************************************************************)
EXTENDS Naturals, Sequences, SequencesExt, FiniteSets

CONSTANTS
    Windows,        \* the windows that hold the setting
    Values,         \* the values a user may give it
    Fallback,       \* the value where none was ever given
    None,           \* no value
    BadShape,       \* a cache entry another build left behind
    Announces,      \* does the host emit data-change after a write?
    MaxEvents       \* bound: saves by users and calls the core refuses

ASSUME CoreSyncAssumption ==
    /\ Announces \in BOOLEAN
    /\ MaxEvents \in Nat
    /\ Fallback \notin Values
    /\ {None, BadShape} \cap (Values \cup {Fallback}) = {}
    /\ None # BadShape

VARIABLES
    disk,       \* the authority: data_kv of namespace core, this key
    cache,      \* the localStorage entry
    stage,      \* each window: off, loaded, on, gone
    shown,      \* the value the window's store holds and renders
    staged,     \* coreStore's in-memory authority
    dirty,      \* is staged newer than the authority?
    lastSaved,  \* lastSavedJson: what this window wrote last
    pending,    \* coreSync's debounced write
    hydrating,  \* the read init started: no, asked, or its answer
    sets,       \* the data_kv_set calls of a window that are not answered
    heard,      \* the data-change events whose read is not served yet
    answers,    \* the values those reads were answered with
    saves, failures, \* how much of the bound is spent
    last,       \* history: the last value saved after init
    sent,       \* history: the values posted to the core
    newest      \* history: the one of them posted last

vars == <<disk, cache, stage, shown, staged, dirty, lastSaved, pending, hydrating,
          sets, heard, answers, saves, failures, last, sent, newest>>

local   == <<shown, staged, dirty, lastSaved, pending, hydrating>>
history == <<last, sent, newest>>

Value == Values \cup {Fallback}
Call == [value : Values, served : BOOLEAN, refused : BOOLEAN]

TypeOK ==
    /\ disk \in Value \cup {None}
    /\ cache \in Value \cup {None, BadShape}
    /\ stage \in [Windows -> {"off", "loaded", "on", "gone"}]
    /\ shown \in [Windows -> Value]
    /\ staged \in [Windows -> Value \cup {None}]
    /\ dirty \in [Windows -> BOOLEAN]
    /\ lastSaved \in [Windows -> Values \cup {None}]
    /\ pending \in [Windows -> Values \cup {None}]
    /\ hydrating \in [Windows -> {"no", "asked"} \X {None} \cup {"got"} \X (Value \cup {None})]
    /\ sets \in [Windows -> Seq(Call)]
    /\ heard \in [Windows -> Nat]
    /\ answers \in [Windows -> Seq(Value)]
    /\ saves \in 0 .. MaxEvents /\ failures \in 0 .. MaxEvents
    /\ last \in [Windows -> Values \cup {None}]
    /\ sent \in [Windows -> SUBSET Values]
    /\ newest \in [Windows -> Values \cup {None}]

(***************************************************************************)
(* A window starts with nothing of its own.  The cache may hold what an    *)
(* earlier run or another build left, the authority what an earlier run    *)
(* wrote.                                                                  *)
(***************************************************************************)
Init ==
    /\ disk \in Values \cup {None}
    /\ cache \in Values \cup {None, BadShape}
    /\ stage = [w \in Windows |-> "off"]
    /\ shown = [w \in Windows |-> Fallback]
    /\ staged = [w \in Windows |-> None]
    /\ dirty = [w \in Windows |-> FALSE]
    /\ lastSaved = [w \in Windows |-> None]
    /\ pending = [w \in Windows |-> None]
    /\ hydrating = [w \in Windows |-> <<"no", None>>]
    /\ sets = [w \in Windows |-> <<>>]
    /\ heard = [w \in Windows |-> 0]
    /\ answers = [w \in Windows |-> <<>>]
    /\ saves = 0 /\ failures = 0
    /\ last = [w \in Windows |-> None]
    /\ sent = [w \in Windows |-> {}]
    /\ newest = [w \in Windows |-> None]

------------------------------------------------------------------------------
(***************************************************************************)
(* loadSync through readBootCache: an entry that is not of this setting's  *)
(* shape is discarded, and removed.                                        *)
(***************************************************************************)
Readable(c) == IF c \in Value THEN c ELSE Fallback

Load(w) ==
    /\ stage[w] = "off"
    /\ stage' = [stage EXCEPT ![w] = "loaded"]
    /\ shown' = [shown EXCEPT ![w] = Readable(cache)]
    /\ cache' = IF cache = BadShape THEN None ELSE cache
    /\ UNCHANGED <<disk, staged, dirty, lastSaved, pending, hydrating, sets, heard, answers,
                   saves, failures, history>>

(***************************************************************************)
(* init(deps): subscribe, and start the read of the authority.             *)
(***************************************************************************)
Start(w) ==
    /\ stage[w] = "loaded"
    /\ stage' = [stage EXCEPT ![w] = "on"]
    /\ hydrating' = [hydrating EXCEPT ![w] = <<"asked", None>>]
    /\ UNCHANGED <<disk, cache, shown, staged, dirty, lastSaved, pending, sets, heard, answers,
                   saves, failures, history>>

ServeHydrate(w) ==
    /\ hydrating[w][1] = "asked"
    /\ hydrating' = [hydrating EXCEPT ![w] = <<"got", disk>>]
    /\ UNCHANGED <<disk, cache, stage, shown, staged, dirty, lastSaved, pending, sets, heard,
                   answers, saves, failures, history>>

RefuseHydrate(w) ==
    /\ hydrating[w][1] = "asked" /\ saves + failures < MaxEvents
    /\ failures' = failures + 1
    /\ hydrating' = [hydrating EXCEPT ![w] = <<"no", None>>]
    /\ UNCHANGED <<disk, cache, stage, shown, staged, dirty, lastSaved, pending, sets, heard,
                   answers, saves, history>>

(***************************************************************************)
(* read answers and hydrate().then(apply): whether the window wrote in the *)
(* meantime is not asked again.  Where the authority holds nothing, a      *)
(* cache that does is discarded, and nothing is written.                   *)
(***************************************************************************)
HydrateMigrates(w) ==   \* mutant: an empty authority takes what the cache holds
    disk' = IF hydrating[w][2] = None THEN Readable(cache) ELSE disk
HydrateWrites(w) == UNCHANGED disk

Hydrated(w) ==
    /\ stage[w] = "on" /\ hydrating[w][1] = "got"
    /\ LET found == hydrating[w][2]
           value == IF found = None THEN Fallback ELSE found
       IN  /\ shown' = [shown EXCEPT ![w] = value]
           /\ staged' = [staged EXCEPT ![w] = value]
           /\ cache' = IF found # None THEN found
                       ELSE IF Readable(cache) # Fallback THEN None ELSE cache
    /\ HydrateWrites(w)
    /\ hydrating' = [hydrating EXCEPT ![w] = <<"no", None>>]
    /\ UNCHANGED <<stage, dirty, lastSaved, pending, sets, heard, answers, saves, failures,
                   history>>

------------------------------------------------------------------------------
(***************************************************************************)
(* save(value) before init is the cache alone; after it, stage and a       *)
(* debounced write of the newest value only.                               *)
(***************************************************************************)
Staging(w, v) ==
    /\ staged' = [staged EXCEPT ![w] = v]
    /\ dirty' = [dirty EXCEPT ![w] = TRUE]
    /\ lastSaved' = [lastSaved EXCEPT ![w] = v]
    /\ cache' = v

Posting(w, v) ==
    /\ sets' = [sets EXCEPT ![w] = Append(@, [value |-> v, served |-> FALSE, refused |-> FALSE])]
    /\ sent' = [sent EXCEPT ![w] = @ \cup {v}]
    /\ newest' = [newest EXCEPT ![w] = v]

SaveEarly(w, v) ==
    /\ stage[w] = "loaded" /\ saves + failures < MaxEvents
    /\ saves' = saves + 1
    /\ shown' = [shown EXCEPT ![w] = v]
    /\ cache' = v
    /\ UNCHANGED <<disk, stage, staged, dirty, lastSaved, pending, hydrating, sets, heard, answers,
                   failures, history>>

Save(w, v) ==
    /\ stage[w] = "on" /\ saves + failures < MaxEvents
    /\ saves' = saves + 1
    /\ shown' = [shown EXCEPT ![w] = v]
    /\ Staging(w, v)
    /\ pending' = [pending EXCEPT ![w] = v]
    /\ last' = [last EXCEPT ![w] = v]
    /\ UNCHANGED <<disk, stage, hydrating, sets, heard, answers, failures, sent, newest>>

SaveNow(w, v) ==
    /\ stage[w] = "on" /\ saves + failures < MaxEvents
    /\ saves' = saves + 1
    /\ shown' = [shown EXCEPT ![w] = v]
    /\ Staging(w, v)
    /\ pending' = [pending EXCEPT ![w] = None]
    /\ Posting(w, v)
    /\ last' = [last EXCEPT ![w] = v]
    /\ UNCHANGED <<disk, stage, hydrating, heard, answers, failures>>

(***************************************************************************)
(* flush: the debounce has run out.  The pending write becomes the call,   *)
(* through coreStore.save, which stages it again.                          *)
(***************************************************************************)
Flush(w) ==
    /\ stage[w] = "on" /\ pending[w] # None
    /\ Staging(w, pending[w])
    /\ Posting(w, pending[w])
    /\ pending' = [pending EXCEPT ![w] = None]
    /\ UNCHANGED <<disk, stage, shown, hydrating, heard, answers, saves, failures, last>>

(***************************************************************************)
(* The window goes.  pagehide flushes what is pending; the calls that are  *)
(* out are served or not, and nobody reads their answers.                  *)
(***************************************************************************)
OnHideNothing(w) == UNCHANGED <<cache, sets, sent, newest>>    \* mutant: pagehide is not heard
OnHide(w) == IF pending[w] # None
             THEN cache' = pending[w] /\ Posting(w, pending[w])
             ELSE UNCHANGED <<cache, sets, sent, newest>>

Close(w) ==
    /\ stage[w] \in {"loaded", "on"}
    /\ stage' = [stage EXCEPT ![w] = "gone"]
    /\ OnHide(w)
    /\ pending' = [pending EXCEPT ![w] = None]
    /\ hydrating' = [hydrating EXCEPT ![w] = <<"no", None>>]
    /\ heard' = [heard EXCEPT ![w] = 0]
    /\ answers' = [answers EXCEPT ![w] = <<>>]
    /\ UNCHANGED <<disk, shown, staged, dirty, lastSaved, saves, failures, last>>

------------------------------------------------------------------------------
(***************************************************************************)
(* The core serves one data_kv_set.  A host that announces writes tells    *)
(* every window, the writer too.                                           *)
(***************************************************************************)
Listening == {w \in Windows : stage[w] = "on"}

ServeSet(w, i) ==
    /\ ~sets[w][i].served
    /\ disk' = sets[w][i].value
    /\ sets' = [sets EXCEPT ![w][i].served = TRUE]
    /\ heard' = IF Announces
                THEN [x \in Windows |-> heard[x] + (IF x \in Listening THEN 1 ELSE 0)]
                ELSE heard
    /\ UNCHANGED <<cache, stage, local, answers, saves, failures, history>>

RefuseSet(w, i) ==
    /\ ~sets[w][i].served /\ saves + failures < MaxEvents
    /\ failures' = failures + 1
    /\ sets' = [sets EXCEPT ![w][i] = [@ EXCEPT !.served = TRUE, !.refused = TRUE]]
    /\ UNCHANGED <<disk, cache, stage, local, heard, answers, saves, history>>

(***************************************************************************)
(* save resumes: the authority is the newest now.  A refused call throws,  *)
(* and dirty stays.                                                        *)
(***************************************************************************)
AcknowledgeNone(w, i) == dirty' = dirty    \* mutant: the reply cleans nothing
Acknowledge(w, i) ==
    dirty' = IF sets[w][i].refused \/ stage[w] # "on" THEN dirty
             ELSE [dirty EXCEPT ![w] = FALSE]

SetAnswered(w, i) ==
    /\ sets[w][i].served
    /\ Acknowledge(w, i)
    /\ sets' = [sets EXCEPT ![w] = RemoveAt(@, i)]
    /\ UNCHANGED <<disk, cache, stage, shown, staged, lastSaved, pending, hydrating, heard, answers,
                   saves, failures, history>>

(***************************************************************************)
(* subscribe: an event starts a read of the authority; its answer is       *)
(* dropped when it is what this window wrote last, and while it has a      *)
(* write of its own that is not in the authority.                          *)
(***************************************************************************)
ServeRead(w) ==
    /\ heard[w] > 0
    /\ heard' = [heard EXCEPT ![w] = @ - 1]
    /\ answers' = IF disk = None THEN answers ELSE [answers EXCEPT ![w] = Append(@, disk)]
    /\ UNCHANGED <<disk, cache, stage, local, sets, saves, failures, history>>

RefuseRead(w) ==
    /\ heard[w] > 0 /\ saves + failures < MaxEvents
    /\ failures' = failures + 1
    /\ heard' = [heard EXCEPT ![w] = @ - 1]
    /\ UNCHANGED <<disk, cache, stage, local, sets, answers, saves, history>>

Adopts(w, v) == v # lastSaved[w] /\ ~dirty[w]

ReadAnswered(w, i) ==
    /\ LET v == answers[w][i]
       IN  IF Adopts(w, v)
           THEN /\ shown' = [shown EXCEPT ![w] = v]
                /\ staged' = [staged EXCEPT ![w] = v]
                /\ cache' = v
           ELSE UNCHANGED <<shown, staged, cache>>
    /\ answers' = [answers EXCEPT ![w] = RemoveAt(@, i)]
    /\ UNCHANGED <<disk, stage, dirty, lastSaved, pending, hydrating, sets, heard, saves, failures,
                   history>>

------------------------------------------------------------------------------
Next ==
    \E w \in Windows :
       \/ Load(w) \/ Start(w) \/ Flush(w) \/ Close(w)
       \/ ServeHydrate(w) \/ RefuseHydrate(w) \/ Hydrated(w)
       \/ \E v \in Values : SaveEarly(w, v) \/ Save(w, v) \/ SaveNow(w, v)
       \/ \E i \in 1 .. Len(sets[w]) : ServeSet(w, i) \/ RefuseSet(w, i) \/ SetAnswered(w, i)
       \/ ServeRead(w) \/ RefuseRead(w)
       \/ \E i \in 1 .. Len(answers[w]) : ReadAnswered(w, i)

Spec == Init /\ [][Next]_vars

------------------------------------------------------------------------------
(***************************************************************************)
(* Properties.                                                             *)
(***************************************************************************)

(* Reading writes nothing: what the authority holds is what it held or what
   a user saved.  Neither the fallback of an empty authority nor the cache
   of another home or build reaches it (read, hydrate; coreStore.ts:217-230
   and coreStore.test.ts:80-98 say why).  The headers of coreSync.ts and
   coreStore.ts still promise the opposite, a migration of the cache on the
   first run (README, Disagreements).                                      *)
OnlySavesReachDisk == [][disk' # disk => \E w \in Windows : disk' \in sent[w]]_vars

(* What a window saved last waits for its debounce, or is what it sent
   last: no path through the debounce, saveNow and pagehide drops the
   newest write or sends an older one after it, also when the window closes
   inside the debounce (save, flush).                                      *)
NewestIsSent ==
    \A w \in Windows :
       last[w] # None => last[w] = IF pending[w] = None THEN newest[w] ELSE pending[w]

(* A window is not deaf for good: while it takes its own value for newer
   than the authority, and so drops what others write, a write of its own
   is on its way.  Only a refused call leaves it so (save, subscribe).     *)
DirtyHasAWrite ==
    \A w \in Windows :
       stage[w] = "on" /\ dirty[w] /\ failures = 0 => pending[w] # None \/ sets[w] # <<>>

(* Not kept by the code (README, Disagreements): once nothing is under way
   and no call failed, every open window shows
   what the authority holds: "another window applies the same key change
   with 0 polling" (coreStore.ts, subscribe).                              *)
Quiet ==
    /\ failures = 0
    /\ \A w \in Windows :
          /\ stage[w] = "on" /\ hydrating[w][1] = "no" /\ pending[w] = None
          /\ sets[w] = <<>> /\ heard[w] = 0 /\ answers[w] = <<>>

WindowsAgree == Quiet /\ disk # None => \A w \in Windows : shown[w] = disk
==============================================================================
