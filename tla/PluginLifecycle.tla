---------------------------- MODULE PluginLifecycle ----------------------------
(***************************************************************************)
(* The plugins of one window (src/frontend/src/state/plugins.ts,           *)
(* plugins/loader.ts, pluginModuleCache.ts, host.ts, environmentEvents.ts) *)
(* against the environment the core holds (src/core/environment).          *)
(*                                                                         *)
(* The environment has a revision, the version of each installed plugin    *)
(* and the enabled ones.  A window reads it whole in a reload, and writes  *)
(* it one change at a time, at the revision it has just read; each write   *)
(* is announced to every window, and a coordinator reloads for revisions   *)
(* the window has not applied.  Of a plugin the window holds the status it *)
(* shows, the instance, the registrations made for it and the realm its    *)
(* code is loaded in.                                                      *)
(*                                                                         *)
(* Each operation is a task that goes from await to await; a task of its   *)
(* own is the coordinator's.  A version stands for the manifest and the    *)
(* code.  Programs, libraries, the service ledger and rejected manifests   *)
(* are left out.                                                           *)
(*                                                                         *)
(* The orders of dependencyGraph.ts are in PluginGraph.                    *)
(***************************************************************************)
EXTENDS PluginGraph

CONSTANTS
    Plugins,        \* plugin ids
    Needs,          \* the dependencies each one declares
    Order,          \* the order the core lists the plugins in
    Graphs,         \* the graphs the orders are asked to serve, besides the window's own
    Development,    \* those whose source is a development directory
    Tasks,          \* operations that can be under way at a time
    Coordinator,    \* the task of the environment revision coordinator
    Nobody,         \* no plugin
    Overlap,        \* may an operation start while another is under way?
    Failures,       \* what can fail: "load", "activate", "list", "write"
    MaxVersion,     \* bound: versions of a plugin
    MaxOps,         \* bound: operations on plugins
    MaxChanges,     \* bound: changes made by others
    MaxFaults       \* bound: failures

ASSUME PluginLifecycleAssumption ==
    /\ Needs \in [Plugins -> SUBSET Plugins]
    /\ Order \in Seq(Plugins) /\ IsInjective(Order) /\ Range(Order) = Plugins
    /\ Development \subseteq Plugins /\ Nobody \notin Plugins
    /\ Coordinator \notin Tasks /\ Overlap \in BOOLEAN
    /\ {MaxVersion, MaxOps, MaxChanges, MaxFaults} \subseteq Nat /\ MaxVersion > 0

(* A graph is what its plugins need, and those installed, in their order. *)
ASSUME GraphsAssumption ==
    \A g \in Graphs :
       /\ g.needs \in [DOMAIN g.needs -> SUBSET DOMAIN g.needs]
       /\ g.installed \in Seq(DOMAIN g.needs) /\ IsInjective(g.installed)

VARIABLES
    env,        \* the core's environment: its revision, the versions (0: absent), the enabled
    events,     \* revisions announced and not yet heard
    host,       \* how far initPluginHost has come
    applied, pending,   \* the coordinator's revisions
    store,      \* the versions in the window's store (0: absent)
    status,     \* the status shown
    enabledIds, \* the window's copy of the enabled plugins
    consents,   \* the version a person consented to (0: none)
    active,     \* the version of the active instance (0: none)
    registered, \* the plugins that have registrations (commands, views)
    realms,     \* the plugins whose code is loaded
    task,       \* the operations under way
    read,       \* history: the revision the store was read at
    unlisted,   \* history: did the last reload fail to read the environment?
    outcome,    \* history: how the last operation ended
    ops, changes, faults    \* how much of the bounds is spent

announced == <<env, events>>
applying  == <<host, applied, pending>>
shown     == <<store, status, enabledIds, consents>>
running   == <<active, registered, realms>>
bounds    == <<ops, changes, faults>>
listing   == <<read, unlisted>>
vars == <<announced, applying, shown, running, task, listing, outcome, bounds>>

Everyone == Tasks \cup {Coordinator}
Idle == [do |-> "none", at |-> "none", id |-> Nobody, levels |-> <<>>,
         doing |-> [p \in Plugins |-> "no"], stops |-> <<>>, gen |-> [p \in Plugins |-> 0],
         did |-> <<>>, rev |-> 0, published |-> 0, failed |-> FALSE]

Versions == [Plugins -> 0 .. MaxVersion]
Operations == {"none", "enable", "disable", "remove", "reloadOne", "reload", "revoke"}
Points == {"none", "fetch", "list", "activate", "stop", "stopping", "undo", "undoing", "read", "write",
           "join", "joined", "resumed", "rejected"}
TaskRecords ==
    [do : Operations, at : Points, id : Plugins \cup {Nobody}, levels : Seq(SUBSET Plugins),
     doing : [Plugins -> {"no", "load", "activate"}], stops : Seq(Plugins), gen : Versions,
     did : Seq(Plugins), rev : Nat, published : Nat, failed : BOOLEAN]

TypeOK ==
    /\ env \in [rev : Nat, version : Versions, on : SUBSET Plugins]
    /\ \A p \in env.on : env.version[p] # 0
    /\ events \subseteq 1 .. env.rev
    /\ host \in {"start", "loading", "ready", "failed"}
    /\ applied \in 0 .. pending /\ pending \in 0 .. env.rev
    /\ store \in Versions /\ consents \in Versions /\ active \in Versions
    /\ status \in [Plugins -> {"disabled", "enabled", "error"}]
    /\ {enabledIds, registered, realms} \subseteq SUBSET Plugins
    /\ task \in [Everyone -> TaskRecords]
    /\ read \in 0 .. env.rev /\ unlisted \in BOOLEAN
    /\ outcome \in [do : Operations, id : Plugins \cup {Nobody}, ok : BOOLEAN]
    /\ ops \in 0 .. MaxOps /\ changes \in 0 .. MaxChanges /\ faults \in 0 .. MaxFaults

------------------------------------------------------------------------------
(***************************************************************************)
(* Consent: each plugin of the activation chain that is not a development  *)
(* one needs the consent to the version in the store.                      *)
(***************************************************************************)
Present(s) == {p \in Plugins : s[p] # 0}
Listed(S) == Among(S, Order)
InStore(s) == Listed(Present(s))
Chains == [installed \in Seq(Plugins) |-> [id \in Plugins |-> ActivationChain(id, Needs, installed)]]
Chain(id, s) == Chains[InStore(s)][id]
PendingOwnConsent(id, s) == {p \in {id} \ Development : consents[p] # s[p]}    \* mutant: no chain
PendingConsentChain(id, s) == {p \in Range(Chain(id, s)) \ Development : consents[p] # s[p]}

OneByOne(order) == [i \in DOMAIN order |-> {order[i]}]
Fails(kind) == kind \in Failures /\ faults < MaxFaults /\ faults' = faults + 1

(* What ends a task, and what an operation tells the one who asked for it. *)
Ends(t, how) ==
    /\ task' = [task EXCEPT ![t] = Idle]
    /\ outcome' = IF t = Coordinator THEN outcome
                  ELSE [do |-> task[t].do, id |-> task[t].id, ok |-> how = "ok"]

------------------------------------------------------------------------------
(***************************************************************************)
(* The start of an operation.                                              *)
(***************************************************************************)
Quiet ==
    /\ host \in {"ready", "failed"}
    /\ \A t \in Everyone : task[t] = Idle
    /\ host = "ready" => events = {}

Begin(t, op) ==
    /\ host = "ready" /\ task[t] = Idle /\ ops < MaxOps
    /\ Overlap \/ Quiet
    /\ ops' = ops + 1
    /\ task' = [task EXCEPT ![t] = op]
    /\ UNCHANGED <<announced, applying, running, listing, outcome, changes, faults>>

StartEnable(t, id) ==
    /\ store[id] # 0 /\ ~(status[id] = "enabled" /\ active[id] # 0)
    /\ PendingConsentChain(id, store) = {}
    /\ ~\E x \in Tasks : task[x].do = "enable" /\ task[x].id = id
    /\ Begin(t, [Idle EXCEPT !.do = "enable", !.at = "activate", !.id = id,
                             !.levels = OneByOne(Chain(id, store))])
    /\ UNCHANGED shown

StartDisable(t, id) ==
    /\ store[id] # 0
    /\ Begin(t, [Idle EXCEPT !.do = "disable", !.at = "read", !.id = id])
    /\ UNCHANGED shown

StartRemove(t, id) ==
    /\ store[id] # 0
    /\ Begin(t, [Idle EXCEPT !.do = "remove", !.at = "read", !.id = id,
                             !.stops = CascadeRemovalSet(id, Needs, InStore(store))])
    /\ UNCHANGED shown

StartReloadOne(t, id) ==
    /\ store[id] # 0
    /\ Begin(t, [Idle EXCEPT !.do = "reloadOne", !.at = "fetch", !.id = id])
    /\ UNCHANGED shown

Actives == InStore(active)

StartReload(t) ==
    /\ Begin(t, [Idle EXCEPT !.do = "reload", !.at = "stop", !.stops = Actives])
    /\ UNCHANGED shown

StartRevoke(t, id) ==
    /\ store[id] # 0
    /\ Begin(t, [Idle EXCEPT !.do = "revoke", !.at = "stop", !.id = id,
                             !.stops = CascadeRemovalSet(id, Needs, InStore(store))])
    /\ UNCHANGED shown

GrantConsent(id) ==
    /\ host = "ready" /\ store[id] # 0 /\ consents[id] # store[id] /\ ops < MaxOps
    /\ Overlap \/ Quiet
    /\ ops' = ops + 1
    /\ consents' = [consents EXCEPT ![id] = store[id]]
    /\ UNCHANGED <<announced, applying, store, status, enabledIds, running, task, listing, outcome,
                   changes, faults>>

------------------------------------------------------------------------------
(***************************************************************************)
(* Activation (activateRuntime, activatePlugin): the code is loaded, its   *)
(* registrations are made, and when its activate has returned the instance *)
(* is kept.  What is registered already cannot be registered again.  A     *)
(* reload activates level by level, an enable one plugin at a time.        *)
(***************************************************************************)
Enabling(t) == task[t].do \in {"enable", "reloadOne"}
Busy(t) == {p \in Plugins : task[t].doing[p] # "no"}

NextLevel(t) ==
    /\ task[t].at = "activate" /\ Busy(t) = {} /\ task[t].levels # <<>>
    /\ LET level == {p \in Head(task[t].levels) :
                        /\ store[p] # 0
                        /\ Enabling(t) => ~(status[p] = "enabled" /\ active[p] # 0)}
       IN task' = [task EXCEPT ![t].levels = Tail(@),
                               ![t].doing = [p \in Plugins |-> IF p \in level THEN "load" ELSE "no"],
                               ![t].gen = [p \in Plugins |-> IF p \in level THEN store[p] ELSE 0]]
    /\ UNCHANGED <<announced, applying, shown, running, listing, outcome, bounds>>

Undoing(t, failed) ==
    /\ task' = [task EXCEPT ![t].doing[failed] = "no",
                            ![t].at = IF Enabling(t) THEN "undo" ELSE @,
                            ![t].levels = IF Enabling(t) THEN <<>> ELSE @,
                            ![t].stops = IF Enabling(t) THEN Reverse(task[t].did) ELSE @]
    /\ status' = [status EXCEPT ![failed] = IF store[failed] = 0 THEN @ ELSE "error"]

Load(t, p) ==
    /\ task[t].doing[p] = "load"
    /\ IF p \in registered
       THEN Undoing(t, p) /\ realms' = realms \ {p} /\ UNCHANGED registered
       ELSE /\ task' = [task EXCEPT ![t].doing[p] = "activate"]
            /\ registered' = registered \cup {p}
            /\ realms' = realms \cup {p}
            /\ UNCHANGED status
    /\ UNCHANGED <<announced, applying, store, enabledIds, consents, active, listing, outcome, bounds>>

LoadFails(t, p) ==
    /\ task[t].doing[p] = "load" /\ Fails("load")
    /\ Undoing(t, p)
    /\ UNCHANGED <<announced, applying, store, enabledIds, consents, running, listing, outcome, ops,
                   changes>>

Activated(t, p) ==
    /\ task[t].doing[p] = "activate"
    /\ active' = [active EXCEPT ![p] = task[t].gen[p]]
    /\ status' = [status EXCEPT ![p] = IF store[p] = 0 THEN @ ELSE "enabled"]
    /\ task' = [task EXCEPT ![t].doing[p] = "no", ![t].did = Append(@, p)]
    /\ UNCHANGED <<announced, applying, store, enabledIds, consents, registered, realms, listing,
                   outcome, bounds>>

KeepRegistrations(p) == registered      \* mutant: a failed activation is not taken back
Unregister(p) == registered \ {p}

ActivateFails(t, p) ==
    /\ task[t].doing[p] = "activate" /\ Fails("activate")
    /\ Undoing(t, p)
    /\ registered' = Unregister(p)
    /\ realms' = realms \ {p}
    /\ UNCHANGED <<announced, applying, store, enabledIds, consents, active, listing, outcome, ops,
                   changes>>

------------------------------------------------------------------------------
(***************************************************************************)
(* Deactivation (deactivateById): the instance is gone at once, and its    *)
(* registrations when its deactivate has returned.  The plugins of stops   *)
(* are taken one by one; what else is done with each depends on the        *)
(* operation.                                                              *)
(***************************************************************************)
BeginStop(t) ==
    /\ task[t].at \in {"stop", "undo"} /\ task[t].stops # <<>>
    /\ active[Head(task[t].stops)] # 0
    /\ active' = [active EXCEPT ![Head(task[t].stops)] = 0]
    /\ task' = [task EXCEPT ![t].at = IF @ = "stop" THEN "stopping" ELSE "undoing"]
    /\ UNCHANGED <<announced, applying, shown, registered, realms, listing, outcome, bounds>>

Releases(t, p) ==
    \/ task[t].do \in {"disable", "remove", "revoke"}
    \/ task[t].do = "reloadOne" /\ task[t].at \in {"stop", "stopping"} /\ p \notin enabledIds

Stopped(t) ==
    /\ task[t].stops # <<>>
    /\ LET p    == Head(task[t].stops)
           ends == task[t].at \in {"stopping", "undoing"}
           rest == Tail(task[t].stops)
       IN  /\ ends \/ (task[t].at \in {"stop", "undo"} /\ active[p] = 0)
           /\ registered' = IF ends THEN Unregister(p) ELSE registered
           /\ realms' = IF Releases(t, p) THEN realms \ {p} ELSE realms
           /\ status' = IF task[t].do = "reload" \/ store[p] = 0 \/ (task[t].do = "remove" /\ ~ends)
                        THEN status ELSE [status EXCEPT ![p] = "disabled"]
           /\ IF task[t].do = "remove"
              THEN /\ consents' = [consents EXCEPT ![p] = 0]
                   /\ enabledIds' = enabledIds \ {p}
                   /\ task' = [task EXCEPT ![t].stops = rest, ![t].did = Append(@, p),
                                           ![t].at = IF rest = <<>> THEN "join" ELSE "read"]
              ELSE /\ task' = [task EXCEPT ![t].stops = rest,
                                           ![t].at = IF @ \in {"stop", "stopping"} THEN "stop" ELSE "undo"]
                   /\ UNCHANGED <<consents, enabledIds>>
    /\ UNCHANGED <<announced, applying, store, active, listing, outcome, bounds>>

Undone(t) ==
    /\ task[t].at = "undo" /\ task[t].stops = <<>>
    /\ Ends(t, "error")
    /\ UNCHANGED <<announced, applying, shown, running, listing, bounds>>

AllStopped(t) == task[t].at = "stop" /\ task[t].stops = <<>>

Disabled(t) ==
    /\ AllStopped(t) /\ task[t].do = "disable"
    /\ enabledIds' = enabledIds \ {task[t].id}
    /\ Ends(t, "ok")
    /\ UNCHANGED <<announced, applying, store, status, consents, running, listing, bounds>>

Revoked(t) ==
    /\ AllStopped(t) /\ task[t].do = "revoke"
    /\ consents' = [consents EXCEPT ![task[t].id] = 0]
    /\ Ends(t, "ok")
    /\ UNCHANGED <<announced, applying, store, status, enabledIds, running, listing, bounds>>

(***************************************************************************)
(* reloadOne: the manifest and the code are read again; when they changed  *)
(* the instance is stopped, and a plugin that is enabled is activated with *)
(* its chain, without writing the environment.                             *)
(***************************************************************************)
Fetch(t) ==
    /\ task[t].at = "fetch"
    /\ LET id    == task[t].id
           fresh == IF id \in Development THEN env.version[id] ELSE store[id]
       IN  IF fresh = 0 \/ (fresh = store[id] /\ status[id] = "enabled" /\ active[id] # 0)
           THEN Ends(t, IF fresh = 0 THEN "error" ELSE "ok") /\ UNCHANGED store
           ELSE /\ store' = [store EXCEPT ![id] = fresh]
                /\ task' = [task EXCEPT ![t].at = "stop", ![t].stops = <<id>>]
                /\ UNCHANGED outcome
    /\ UNCHANGED <<announced, applying, status, enabledIds, consents, running, listing, bounds>>

FetchFails(t) ==
    /\ task[t].at = "fetch" /\ Fails("load")
    /\ Ends(t, "error")
    /\ UNCHANGED <<announced, applying, shown, running, listing, ops, changes>>

Reenable(t) ==
    /\ AllStopped(t) /\ task[t].do = "reloadOne"
    /\ LET id == task[t].id
       IN  IF id \notin enabledIds \/ PendingConsentChain(id, store) # {}
           THEN Ends(t, IF id \notin enabledIds THEN "ok" ELSE "error")
           ELSE /\ task' = [task EXCEPT ![t].at = "activate", ![t].levels = OneByOne(Chain(id, store))]
                /\ UNCHANGED outcome
    /\ UNCHANGED <<announced, applying, shown, running, listing, bounds>>

------------------------------------------------------------------------------
(***************************************************************************)
(* Writing the environment: its revision is read, and the change is        *)
(* written at that revision or refused.  An enable names the versions it   *)
(* activated; a removal that leaves a dependent is refused.  After the     *)
(* write the operation waits for the coordinator to apply the revision.    *)
(***************************************************************************)
ActivatedAll(t) == task[t].at = "activate" /\ Busy(t) = {} /\ task[t].levels = <<>>

ChainActivated(t) ==
    /\ ActivatedAll(t) /\ Enabling(t)
    /\ IF task[t].do = "enable"
       THEN task' = [task EXCEPT ![t].at = "read"] /\ UNCHANGED <<enabledIds, outcome>>
       ELSE enabledIds' = enabledIds \cup Range(task[t].did) /\ Ends(t, "ok")
    /\ UNCHANGED <<announced, applying, store, status, consents, running, listing, bounds>>

ReadEnvironment(t) ==
    /\ task[t].at = "read"
    /\ task' = [task EXCEPT ![t].at = "write", ![t].rev = env.rev]
    /\ UNCHANGED <<announced, applying, shown, running, listing, outcome, bounds>>

Accepted(t) ==
    /\ task[t].rev = env.rev
    /\ CASE task[t].do = "enable"  -> \A p \in Range(task[t].did) : env.version[p] = store[p] /\ store[p] # 0
         [] task[t].do = "disable" -> env.version[task[t].id] # 0
         [] task[t].do = "remove"  ->
              LET p == Head(task[t].stops)
              IN  env.version[p] # 0 /\ \A q \in Plugins \ {p} : env.version[q] # 0 => p \notin Needs[q]

Written(t) ==
    CASE task[t].do = "enable"  -> [env EXCEPT !.rev = @ + 1, !.on = @ \cup Range(task[t].did)]
      [] task[t].do = "disable" -> [env EXCEPT !.rev = @ + 1, !.on = @ \ {task[t].id}]
      [] task[t].do = "remove"  -> [env EXCEPT !.rev = @ + 1, !.on = @ \ {Head(task[t].stops)},
                                             !.version[Head(task[t].stops)] = 0]

Write(t) ==
    /\ task[t].at = "write" /\ Accepted(t)
    /\ env' = Written(t)
    /\ events' = events \cup {env'.rev}
    /\ task' = [task EXCEPT ![t].at = IF task[t].do = "remove" THEN "stop" ELSE "join",
                            ![t].published = env'.rev]
    /\ UNCHANGED <<applying, shown, running, listing, outcome, bounds>>

GiveUp(t) == Ends(t, "error")       \* mutant: what was activated is left running
Refused(t) ==
    CASE task[t].do = "enable" ->
            /\ task' = [task EXCEPT ![t].at = "undo", ![t].stops = Reverse(task[t].did)]
            /\ UNCHANGED outcome
      [] task[t].do = "remove" /\ task[t].published # 0 ->
            /\ task' = [task EXCEPT ![t].at = "join", ![t].failed = TRUE]
            /\ UNCHANGED outcome
      [] OTHER -> Ends(t, "error")

WriteRefused(t) ==
    /\ task[t].at = "write"
    /\ (~Accepted(t) /\ UNCHANGED faults) \/ Fails("write")
    /\ Refused(t)
    /\ UNCHANGED <<announced, applying, shown, running, listing, ops, changes>>

Resume(t) ==
    /\ task[t].at = "resumed"
    /\ CASE task[t].do = "enable"  -> enabledIds' = enabledIds \cup Range(task[t].did) /\ Ends(t, "ok")
         [] task[t].do = "disable" ->
               /\ task' = [task EXCEPT ![t].at = "stop", ![t].stops = <<task[t].id>>]
               /\ UNCHANGED <<enabledIds, outcome>>
         [] task[t].do = "remove"  ->
               Ends(t, IF task[t].failed THEN "error" ELSE "ok") /\ UNCHANGED enabledIds
    /\ UNCHANGED <<announced, applying, store, status, consents, running, listing, bounds>>

Rejected(t) ==
    /\ task[t].at = "rejected"
    /\ IF task[t].do = "enable"
       THEN /\ task' = [task EXCEPT ![t].at = "undo", ![t].stops = Reverse(task[t].did)]
            /\ UNCHANGED outcome
       ELSE Ends(t, "error")
    /\ UNCHANGED <<announced, applying, shown, running, listing, bounds>>

------------------------------------------------------------------------------
(***************************************************************************)
(* A reload: what the core lists becomes the store, all of it disabled;    *)
(* the enabled plugins whose chain is consented to are activated level by  *)
(* level; code nobody needs is released.                                   *)
(***************************************************************************)
Unstarted == [p \in Plugins |-> "disabled"]

List(t) ==
    /\ AllStopped(t) /\ task[t].do = "reload"
    /\ LET ready == {p \in env.on : PendingConsentChain(p, env.version) = {}}
       IN  /\ task' = [task EXCEPT ![t].at = "activate",
                                   ![t].levels = ActivationLevels(ready, Needs, InStore(env.version))]
           /\ realms' = realms \cap ready
    /\ store' = env.version
    /\ status' = Unstarted
    /\ enabledIds' = env.on
    /\ read' = env.rev /\ unlisted' = FALSE
    /\ UNCHANGED <<announced, applying, consents, active, registered, outcome, bounds>>

(***************************************************************************)
(* The coordinator (createEnvironmentEventHandler): one reload at a time,  *)
(* for the latest revision known when it starts, again while a later one   *)
(* is pending.  Operations that wait for a revision wait for all of it.    *)
(***************************************************************************)
ReloadFor(rev) ==
    [Idle EXCEPT !.do = "reload", !.at = "stop", !.stops = Actives, !.rev = rev]

Later(a, b) == IF a < b THEN b ELSE a
Joined(answer) == [t \in Everyone |-> IF task[t].at = "joined" THEN [task[t] EXCEPT !.at = answer]
                                      ELSE task[t]]

DropLater(rev) ==       \* mutant: a revision that comes during a reload is taken for applied by it
    IF task[Coordinator] = Idle THEN Later(pending, rev) ELSE pending
Awaiting(rev) == Later(pending, rev)

Hear(rev, waiting) ==
    /\ pending' = Awaiting(rev)
    /\ task' = IF task[Coordinator] = Idle
               THEN [waiting EXCEPT ![Coordinator] = ReloadFor(Awaiting(rev))]
               ELSE waiting
    /\ UNCHANGED <<host, applied>>

Event(rev) ==
    /\ host = "ready" /\ rev \in events
    /\ events' = events \ {rev}
    /\ IF rev > applied THEN Hear(rev, task) ELSE UNCHANGED <<applying, task>>
    /\ UNCHANGED <<env, shown, running, listing, outcome, bounds>>

Join(t) ==
    /\ task[t].at = "join"
    /\ IF task[t].published > applied
       THEN Hear(task[t].published, [task EXCEPT ![t].at = "joined"])
       ELSE task' = [task EXCEPT ![t].at = "resumed"] /\ UNCHANGED applying
    /\ UNCHANGED <<announced, shown, running, listing, outcome, bounds>>

AppliedTarget == task[Coordinator].rev

Reloaded(t) ==
    /\ ActivatedAll(t) /\ task[t].do = "reload"
    /\ CASE t # Coordinator -> Ends(t, "ok") /\ UNCHANGED applying
         [] t = Coordinator /\ host = "loading" ->
              /\ host' = "ready"
              /\ Ends(t, "ok") /\ UNCHANGED <<applied, pending>>
         [] OTHER ->
              /\ applied' = AppliedTarget
              /\ task' = IF pending > AppliedTarget THEN [task EXCEPT ![t] = ReloadFor(pending)]
                         ELSE [Joined("resumed") EXCEPT ![t] = Idle]
              /\ UNCHANGED <<host, pending, outcome>>
    /\ UNCHANGED <<announced, shown, running, listing, bounds>>

ListFails(t) ==
    /\ AllStopped(t) /\ task[t].do = "reload" /\ Fails("list")
    /\ host' = IF t = Coordinator /\ host = "loading" THEN "failed" ELSE host
    /\ IF t = Coordinator THEN task' = [Joined("rejected") EXCEPT ![t] = Idle] /\ UNCHANGED outcome
       ELSE Ends(t, "error")
    /\ unlisted' = TRUE
    /\ UNCHANGED <<announced, applied, pending, shown, running, read, ops, changes>>

(* initPluginHost: the revision the first reload starts from. *)
Start ==
    /\ host = "start"
    /\ host' = "loading"
    /\ applied' = env.rev /\ pending' = env.rev
    /\ task' = [task EXCEPT ![Coordinator] = ReloadFor(env.rev)]
    /\ UNCHANGED <<announced, shown, running, listing, outcome, bounds>>

------------------------------------------------------------------------------
(***************************************************************************)
(* Others: another window or the command line enables, disables or         *)
(* installs; an author edits a development plugin, which is not announced. *)
(***************************************************************************)
Change(e) ==
    /\ changes < MaxChanges
    /\ Overlap \/ \A t \in Tasks : task[t] = Idle
    /\ changes' = changes + 1
    /\ env' = e
    /\ events' = IF e.rev = env.rev THEN events ELSE events \cup {e.rev}
    /\ UNCHANGED <<applying, shown, running, task, listing, outcome, ops, faults>>

Toggle(p) ==
    /\ env.version[p] # 0
    /\ Change([env EXCEPT !.rev = @ + 1, !.on = IF p \in @ THEN @ \ {p} ELSE @ \cup {p}])

Install(p) ==
    /\ env.version[p] < MaxVersion /\ p \notin Development
    /\ \A q \in Needs[p] \ {p} : env.version[q] # 0
    /\ Change([env EXCEPT !.rev = @ + 1, !.version[p] = @ + 1])

Edit(p) ==
    /\ p \in Development /\ env.version[p] \in 1 .. MaxVersion - 1
    /\ Change([env EXCEPT !.version[p] = @ + 1])

------------------------------------------------------------------------------
Init ==
    /\ env \in [rev : {1}, version : {[p \in Plugins |-> 1]}, on : SUBSET Plugins]
    /\ events = {} /\ host = "start" /\ applied = 0 /\ pending = 0
    /\ store = [p \in Plugins |-> 0] /\ status = [p \in Plugins |-> "disabled"]
    /\ enabledIds = {}
    /\ consents \in {c \in Versions : \A p \in Plugins : c[p] <= 1}
    /\ active = [p \in Plugins |-> 0] /\ registered = {} /\ realms = {}
    /\ task = [t \in Everyone |-> Idle]
    /\ read = 0 /\ unlisted = FALSE /\ outcome = [do |-> "none", id |-> Nobody, ok |-> TRUE]
    /\ ops = 0 /\ changes = 0 /\ faults = 0

TaskStep(t) ==
    \/ NextLevel(t) \/ BeginStop(t) \/ Stopped(t) \/ Undone(t) \/ Disabled(t) \/ Revoked(t)
    \/ Fetch(t) \/ Reenable(t) \/ ChainActivated(t) \/ ReadEnvironment(t) \/ Write(t)
    \/ (WriteRefused(t) /\ faults' = faults) \/ Join(t) \/ Resume(t) \/ Rejected(t) \/ List(t)
    \/ Reloaded(t)
    \/ \E p \in Plugins : Load(t, p) \/ Activated(t, p)

Failure(t) ==
    \/ FetchFails(t) \/ ListFails(t) \/ (WriteRefused(t) /\ faults' # faults)
    \/ \E p \in Plugins : LoadFails(t, p) \/ ActivateFails(t, p)

User(t, p) ==
    \/ StartEnable(t, p) \/ StartDisable(t, p) \/ StartRemove(t, p) \/ StartReloadOne(t, p)
    \/ StartRevoke(t, p)

Hears == \E rev \in events : Event(rev)

Next ==
    \/ \E t \in Everyone : TaskStep(t) \/ Failure(t)
    \/ \E t \in Tasks : StartReload(t) \/ \E p \in Plugins : User(t, p)
    \/ \E p \in Plugins : GrantConsent(p) \/ Toggle(p) \/ Install(p) \/ Edit(p)
    \/ Hears \/ Start

Fairness ==
    /\ \A t \in Everyone : WF_vars(TaskStep(t))
    /\ WF_vars(Hears) /\ WF_vars(Start)

Spec == Init /\ [][Next]_vars /\ Fairness

------------------------------------------------------------------------------
(***************************************************************************)
(* Properties.                                                             *)
(***************************************************************************)

(* "A human consent record is required before activation": what runs is a
   version that was consented to, with all it depends on, or a development
   plugin.  Losing a consent, or a dependency's, stops it first
   (revokeConsent: "an unconsented dependency must not leave dependents
   up"), and a new version waits for its own (reload).  What is removed
   while a reload is under way may run until the next.                     *)
ConsentBeforeRun ==
    \A p \in Plugins : active[p] # 0 /\ env.version[p] # 0 =>
       /\ p \notin Development => consents[p] = active[p]
       /\ PendingConsentChain(p, store) = {}

(* At rest the status a window shows is what runs, until a reload cannot
   read the environment (then all is stopped and the status stays), and
   nothing is left of a plugin that does not run (loader.ts: "no leak on
   deactivation"), whatever activation failed or was refused: what is
   registered is of a plugin that runs, and one that runs has its realm.   *)
RestIsClean ==
    Quiet => \A p \in Plugins :
       /\ ~unlisted /\ store[p] # 0 => (status[p] = "enabled" <=> active[p] # 0)
       /\ active[p] # 0 <=> p \in registered
       /\ active[p] # 0 => p \in realms

(* At rest every plugin that runs is enabled in the environment the window
   has applied, or serves one that is, and is of the version it holds.     *)
NothingRunsUnselected ==
    Quiet /\ host = "ready" /\ ~unlisted => \A p \in Plugins : active[p] # 0 =>
       /\ \E q \in env.on : p \in Range(Chain(q, store))
       /\ p \notin Development => active[p] = env.version[p]

(* The orders serve their purpose: a chain is the plugin with all it needs,
   a cascade all that is lost with it, levels all of their targets, each
   once, and dependencies come first in a graph without cycles.  They read
   no variable: asked before the host starts, not in every state.          *)
OrdersPrepare ==
    host = "start" =>
       \A g \in Graphs \cup [needs : {Needs}, installed : {Listed(S) : S \in SUBSET Plugins}] :
          OrdersServe(g.needs, g.installed)

(* Not kept by the code (README, Disagreements).
   A cascade removal that no call failed for removes its target
   (dependencyGraph.ts: "Removing in this order always removes the
   dependents first"; the core refuses a removal that leaves one).         *)
CascadeCompletes ==
    outcome.do = "remove" /\ faults = 0 /\ changes = 0 => outcome.ok

(* Every operation ends, and the window comes to hold the last revision,
   unless its last reload could not read it: nothing waits for a reload
   that does not come (createEnvironmentEventHandler).                     *)
AllApplied == <>[](Quiet /\ (host = "ready" /\ ~unlisted => read = env.rev))
==============================================================================
