--------------------------- MODULE PipelineControl --------------------------
(***************************************************************************)
(* Starting and stopping pipelines: the `pipelines` registry of core.go,   *)
(* Pipeline.Start and Pipeline.stop with the webhook routes and cron jobs  *)
(* of their agents (webhook.go, scheduler.go), and their callers: the API  *)
(* handlers, each in its goroutine, and core.Stop in main.  The registry,  *)
(* the routes and the jobs are shared maps with one atomic call per step;  *)
(* nothing holds a lock across two of them.  How an agent drains between   *)
(* its close and its Done is the matter of AgentRuntime.                   *)
(***************************************************************************)
EXTENDS Integers, FiniteSets

CONSTANTS
  Uuids,         \* pipelines
  Clients,       \* API requests served at the same time
  Main,          \* the main goroutine, which runs core.Stop
  K,             \* agents of a pipeline, numbered in SortInputsFirst order
  HookOf,        \* HookOf[u][k]: the hook name of an agent, or NoHook
  NoHook,
  ShortHooks,    \* the <<u, k>> that register it with AddShort
  Scheduled,     \* the <<u, k>> with a schedule
  LabelOf,       \* LabelOf[u][k]: the label of an agent
  MaxInstances   \* bound: Pipeline values built in a behaviour

ASSUME ControlAssumption ==
  /\ Main \notin Clients
  /\ K \in Nat \ {0} /\ MaxInstances \in Nat
  /\ \A u \in Uuids : DOMAIN HookOf[u] = 1..K /\ DOMAIN LabelOf[u] = 1..K
  /\ ShortHooks \cup Scheduled \subseteq Uuids \X (1..K)

Threads == Clients \cup {Main}
Instances == 1..MaxInstances
None == 0

VARIABLES
  registry,  \* pipelines: the instance stored under a uuid, or None
  made,      \* instances built so far
  uuidOf,    \* uuid of an instance
  started,   \* agents of an instance that were started, from K downwards
  closed,    \* agents whose packetChan is closed, from 1 upwards
  drained,   \* agents whose Done was waited for
  routes,    \* webHookMap: the agent <<i, k>> a url leads to
  jobs,      \* cron entries: name and agent
  thread,    \* what each goroutine is doing
  shutdown,  \* core.Stop: phase, the uuids Range has visited and collected
  mixed,     \* history: uuids that two requests were about at the same time
  doubled,   \* history: uuids whose registered instance a second start replaced
  dead       \* main panicked

vars == <<registry, made, uuidOf, started, closed, drained, routes, jobs,
          thread, shutdown, mixed, doubled, dead>>
instanceVars == <<made, uuidOf, started, closed, drained>>
plugVars == <<routes, jobs>>

Idle == [pc |-> "idle", uuid |-> None, inst |-> None, k |-> 0, goal |-> "none"]
Init ==
  /\ registry = [u \in Uuids |-> None]
  /\ made = 0 /\ uuidOf = [i \in Instances |-> None]
  /\ started = [i \in Instances |-> 0]
  /\ closed = [i \in Instances |-> 0] /\ drained = [i \in Instances |-> 0]
  /\ routes = <<>> /\ jobs = {}
  /\ thread = [t \in Threads |-> Idle]
  /\ shutdown = [phase |-> "no", seen |-> {}, todo |-> {}, had |-> {}]
  /\ mixed = {} /\ doubled = {} /\ dead = FALSE

Running == ~dead /\ shutdown.phase # "done"
About(u) == {t \in Threads : thread[t].pc # "idle" /\ thread[t].uuid = u}
At(t, pc) == Running /\ thread[t].pc = pc
Goto(t, pc) == thread' = [thread EXCEPT ![t].pc = pc]
Finish(t) == thread' = [thread EXCEPT ![t] = Idle]
Uuid(t) == thread[t].uuid
Inst(t) == thread[t].inst
Agent(t) == <<thread[t].uuid, thread[t].k>>
-----------------------------------------------------------------------------
(* The API handlers. *)

Begin(t, u, pc, goal) ==
  /\ thread' = [thread EXCEPT ![t] = [Idle EXCEPT !.pc = pc, !.uuid = u, !.goal = goal]]
  /\ mixed' = IF About(u) \cap Clients # {} THEN mixed \cup {u} ELSE mixed
  /\ UNCHANGED <<registry, instanceVars, plugVars, shutdown, doubled, dead>>

\* UpdateByUUID: reads whether the pipeline is active, then stops, restarts or
\* starts it.
Patch(t, u) ==
  /\ At(t, "idle")
  /\ \/ registry[u] # None /\ \E goal \in {"restart", "stop"} : Begin(t, u, "load", goal)
     \/ registry[u] = None /\ Begin(t, u, "check", "start")

\* Create with `active`, and the pipelines started at boot.
Post(t, u) == At(t, "idle") /\ Begin(t, u, "check", "start")
-----------------------------------------------------------------------------
(* StopPipeline and Pipeline.stop *)

\* pipelines.Load; a pipeline that is gone meanwhile is an error.
Load(t) ==
  /\ At(t, "load")
  /\ LET i == registry[Uuid(t)] IN
     IF i = None THEN Finish(t)
     ELSE thread' = [thread EXCEPT ![t].inst = i, ![t].k = 1, ![t].pc = "unplug"]
  /\ UNCHANGED <<registry, instanceVars, plugVars, shutdown, mixed, doubled, dead>>

\* The urls a hook name may be registered under.
LongUrl(u, hook) == <<u, hook>>
ShortUrl(hook) == <<"_", hook>>
Url(u, k) == IF <<u, k>> \in ShortHooks THEN ShortUrl(HookOf[u][k]) ELSE LongUrl(u, HookOf[u][k])

\* Agent.stop, first part: the cron job with the agent's name is deleted (one
\* of them, if several bear it), then both urls of its hook.
Without(f, S) == [x \in DOMAIN f \ S |-> f[x]]
UnplugWith(t, urls) ==
  /\ At(t, "unplug")
  /\ LET u == Uuid(t)
         named == {j \in jobs : j.name = <<u, LabelOf[u][thread[t].k]>>}
     IN /\ IF named = {} THEN jobs' = jobs ELSE \E j \in named : jobs' = jobs \ {j}
        /\ routes' = Without(routes, urls)
  /\ Goto(t, "close")
  /\ UNCHANGED <<registry, instanceVars, shutdown, mixed, doubled, dead>>
\* Mutant: only the long url is deleted.
Unplug_LongOnly(t) ==
  At(t, "unplug") /\ UnplugWith(t, {LongUrl(Uuid(t), HookOf[Uuid(t)][thread[t].k])})
Unplug(t) ==
  /\ At(t, "unplug")
  /\ LET hook == HookOf[Uuid(t)][thread[t].k] IN
     UnplugWith(t, IF hook = NoHook THEN {} ELSE {LongUrl(Uuid(t), hook), ShortUrl(hook)})

\* close(packetChan): closing it twice panics, which gin recovers in a handler
\* and nobody in main.
Close(t) ==
  /\ At(t, "close")
  /\ LET i == Inst(t)
         k == thread[t].k
     IN IF closed[i] >= k
        THEN /\ dead' = (t = Main)
             /\ Finish(t)
             /\ UNCHANGED closed
        ELSE /\ closed' = [closed EXCEPT ![i] = k]
             /\ Goto(t, "join")
             /\ UNCHANGED dead
  /\ UNCHANGED <<registry, made, uuidOf, started, drained, plugVars, shutdown, mixed, doubled>>

\* <-Done, and on to the next agent.
JoinTo(t, last) ==
  /\ At(t, "join")
  /\ drained' = [drained EXCEPT ![Inst(t)] = thread[t].k]
  /\ thread' = [thread EXCEPT ![t].pc = IF @ = "join" /\ thread[t].k < last THEN "unplug" ELSE "delete",
                              ![t].k = IF @ < last THEN @ + 1 ELSE @]
  /\ UNCHANGED <<registry, made, uuidOf, started, closed, plugVars, shutdown, mixed, doubled, dead>>
\* Mutants: the last agent is forgotten; the loop goes one too far.
Join_ButLast(t) == JoinTo(t, K - 1)
Join_PastLast(t) == JoinTo(t, K + 1)
Join(t) == JoinTo(t, K)

\* pipelines.Delete; a restart goes on with the start.
Deregister(t) ==
  /\ IF thread[t].goal = "restart" THEN Goto(t, "check") ELSE Finish(t)
  /\ UNCHANGED <<instanceVars, plugVars, shutdown, mixed, doubled, dead>>
\* Mutant: the registry is left as it is.
Delete_Nothing(t) == At(t, "delete") /\ UNCHANGED registry /\ Deregister(t)
Delete(t) ==
  /\ At(t, "delete")
  /\ registry' = [registry EXCEPT ![Uuid(t)] = None]
  /\ Deregister(t)
-----------------------------------------------------------------------------
(* startPipeline and Pipeline.Start *)

\* pipelines.Load again; then the agents are built.  Preparing, parsing or
\* building may fail, before any agent runs.
Build(t) ==
  /\ made < MaxInstances
  /\ made' = made + 1
  /\ uuidOf' = [uuidOf EXCEPT ![made + 1] = Uuid(t)]
  /\ thread' = [thread EXCEPT ![t].inst = made + 1, ![t].k = K, ![t].pc = "plug"]
  /\ UNCHANGED <<registry, started, closed, drained, plugVars, shutdown, mixed, doubled, dead>>
GiveUp(t) ==
  Finish(t) /\ UNCHANGED <<registry, instanceVars, plugVars, shutdown, mixed, doubled, dead>>
\* Mutant: the check for a running pipeline is missing.
Check_Missing(t) == At(t, "check") /\ (Build(t) \/ GiveUp(t))
Check(t) ==
  /\ At(t, "check")
  /\ \/ registry[Uuid(t)] = None /\ Build(t)
     \/ GiveUp(t)

\* Agent.start: processor.Start adds the route, then the cron job is added.
PlugWith(t, scheduled) ==
  /\ At(t, "plug")
  /\ LET u == Uuid(t)
         k == thread[t].k
         a == <<Inst(t), k>>
     IN /\ started' = [started EXCEPT ![Inst(t)] = @ + 1]
        /\ routes' = IF HookOf[u][k] = NoHook THEN routes
                     ELSE [url \in DOMAIN routes \cup {Url(u, k)} |->
                             IF url = Url(u, k) THEN a ELSE routes[url]]
        /\ jobs' = IF <<u, k>> \in scheduled
                   THEN jobs \cup {[name |-> <<u, LabelOf[u][k]>>, agent |-> a]} ELSE jobs
        /\ thread' = [thread EXCEPT ![t].pc = IF k = 1 THEN "store" ELSE "plug", ![t].k = k - 1]
  /\ UNCHANGED <<registry, made, uuidOf, closed, drained, shutdown, mixed, doubled, dead>>
\* Mutant: the scheduler is not told.
Plug_Unscheduled(t) == PlugWith(t, {})
Plug(t) == PlugWith(t, Scheduled)

\* Mutant: pipelines.Store is forgotten.
Store_Nothing(t) ==
  At(t, "store") /\ Finish(t) /\ UNCHANGED <<registry, instanceVars, plugVars, shutdown, mixed, doubled, dead>>
Store(t) ==
  /\ At(t, "store")
  /\ registry' = [registry EXCEPT ![Uuid(t)] = Inst(t)]
  /\ doubled' = IF registry[Uuid(t)] = None THEN doubled ELSE doubled \cup {Uuid(t)}
  /\ Finish(t)
  /\ UNCHANGED <<instanceVars, plugVars, shutdown, mixed, dead>>
-----------------------------------------------------------------------------
(* core.Stop, which main runs on SIGINT or SIGTERM while the API still answers. *)

Interrupt ==
  /\ Running /\ shutdown.phase = "no"
  /\ shutdown' = [shutdown EXCEPT !.phase = "range",
                                  !.had = {registry[u] : u \in Uuids} \ {None}]
  /\ UNCHANGED <<registry, instanceVars, plugVars, thread, mixed, doubled, dead>>

\* syncmap's Range visits the keys one after the other, not a snapshot.
RangeVisit ==
  /\ Running /\ shutdown.phase = "range"
  /\ \/ \E u \in Uuids \ shutdown.seen :
          shutdown' = [shutdown EXCEPT !.seen = @ \cup {u},
                         !.todo = IF registry[u] # None THEN @ \cup {u} ELSE @]
     \/ shutdown.seen = Uuids /\ shutdown' = [shutdown EXCEPT !.phase = "stop"]
  /\ UNCHANGED <<registry, instanceVars, plugVars, thread, mixed, doubled, dead>>

\* GetPipeline of the next uuid; one that is gone is skipped.
ShutdownNext ==
  /\ At(Main, "idle") /\ shutdown.phase = "stop"
  /\ \/ \E u \in shutdown.todo :
          /\ shutdown' = [shutdown EXCEPT !.todo = @ \ {u}]
          /\ thread' = IF registry[u] = None THEN thread
                       ELSE [thread EXCEPT ![Main] =
                               [Idle EXCEPT !.pc = "load", !.uuid = u, !.goal = "stop"]]
     \/ shutdown.todo = {} /\ shutdown' = [shutdown EXCEPT !.phase = "done"] /\ UNCHANGED thread
  /\ UNCHANGED <<registry, instanceVars, plugVars, mixed, doubled, dead>>

Done == ~Running /\ UNCHANGED vars

Step(t) ==
  \/ Load(t) \/ Unplug(t) \/ Close(t) \/ Join(t) \/ Delete(t)
  \/ Check(t) \/ Plug(t) \/ Store(t)
Request(t) == \E u \in Uuids : Patch(t, u) \/ Post(t, u)
Next ==
  \/ \E t \in Clients : Request(t)
  \/ \E t \in Threads : Step(t)
  \/ Interrupt \/ RangeVisit \/ ShutdownNext \/ Done

Spec == Init /\ [][Next]_vars
-----------------------------------------------------------------------------
TypeOK ==
  /\ registry \in [Uuids -> {None} \cup Instances]
  /\ made \in 0..MaxInstances /\ uuidOf \in [Instances -> {None} \cup Uuids]
  /\ started \in [Instances -> 0..K]
  /\ closed \in [Instances -> 0..K] /\ drained \in [Instances -> 0..K]
  /\ \A url \in DOMAIN routes : routes[url] \in Instances \X (1..K)
  /\ \A j \in jobs : j.agent \in Instances \X (1..K)
  /\ thread \in [Threads -> [pc : {"idle", "load", "unplug", "close", "join", "delete",
                                   "check", "plug", "store"},
                             uuid : {None} \cup Uuids, inst : {None} \cup Instances,
                             k : 0..K, goal : {"none", "start", "stop", "restart"}]]
  /\ shutdown \in [phase : {"no", "range", "stop", "done"}, seen : SUBSET Uuids, todo : SUBSET Uuids,
                   had : SUBSET Instances]
  /\ mixed \subseteq Uuids /\ doubled \subseteq Uuids /\ dead \in BOOLEAN

\* An instance with a goroutine of some agent running.
Live(i) == started[i] > 0 /\ drained[i] < K
LiveOf(u) == {i \in Instances : uuidOf[i] = u /\ Live(i)}

\* At most one instance of a pipeline is alive ("a pipeline with same uuid is
\* already running", Pipeline.Start).
OneInstance == \A u \in Uuids : Cardinality(LiveOf(u)) <= 1
\* ... unless two requests about that pipeline overlapped.
OneInstanceUnlessMixed == \A u \in Uuids \ mixed : Cardinality(LiveOf(u)) <= 1

\* When no request is about a pipeline, the registry knows exactly what runs,
\* unless two requests about it overlapped before.
RegistryTruthful ==
  \A u \in Uuids \ mixed : About(u) = {} => LiveOf(u) = {registry[u]} \ {None}

\* However requests overlap, no pipeline is left registered that was stopped,
\* which would block its uuid for ever.
NoDeadPipelineRegistered ==
  ~dead => \A u \in Uuids : About(u) = {} /\ registry[u] # None => closed[registry[u]] = 0

\* No url leads to the handler of an agent whose channel is closed, and nobody
\* ticks one, however requests overlap (ticks: unless they do).
StoppedIsUnplugged ==
  /\ \A url \in DOMAIN routes : closed[routes[url][1]] < routes[url][2]
  /\ \A j \in jobs : j.name[1] \notin mixed => closed[j.agent[1]] < j.agent[2]

\* A running pipeline keeps its routes and its jobs, whatever is started and
\* stopped next to it.
RunningIsPlugged ==
  ~dead => \A u \in Uuids \ mixed : About(u) = {} /\ registry[u] # None =>
    \A k \in 1..K :
      LET a == <<registry[u], k>> IN
      /\ HookOf[u][k] # NoHook => Url(u, k) \in DOMAIN routes /\ routes[Url(u, k)] = a
      /\ <<u, k>> \in Scheduled => \E j \in jobs : j.agent = a

\* What leads to an agent, its routes and its jobs, is there while it runs and
\* gone before its channel is closed.
PluggedWhileRunning == StoppedIsUnplugged /\ RunningIsPlugged

\* When core.Stop returns, every instance that was registered when it was called
\* has been stopped to its last agent, by main or by a request that overlapped,
\* unless the Store of a second start has replaced an instance of its pipeline in
\* the registry: one that is not found there is left running.
ShutdownIsComplete ==
  shutdown.phase = "done" =>
    \A i \in shutdown.had : uuidOf[i] \notin doubled => drained[i] = K
=============================================================================
