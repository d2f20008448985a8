------------------------ MODULE PipelineControlProofs ------------------------
(***************************************************************************)
(* Theorems about PipelineControl, for any pipelines, agents, hooks,       *)
(* labels and number of requests at a time.                                *)
(***************************************************************************)
EXTENDS PipelineControl, FiniteSetTheorems, TLAPS

-----------------------------------------------------------------------------
(***************************************************************************)
(* The inductive invariant.  A goroutine is stopping or starting the       *)
(* instance it holds.  Of those that stop an instance one closes its first *)
(* channel: it alone gets on, the others panic at that channel.            *)
(***************************************************************************)
StopSteps == {"unplug", "close", "join", "delete"}
StartSteps == {"plug", "store"}
Stops(t) == thread[t].pc \in StopSteps
Starts(t) == thread[t].pc \in StartSteps
\* t has closed the first channel of its instance.
GotOn(t) ==
  thread[t].pc \in {"join", "delete"} \/ (thread[t].pc \in {"unplug", "close"} /\ thread[t].k > 1)

\* How far a goroutine is agrees with what has become of its instance.
StopsInOrder ==
  \A t \in Threads : Stops(t) =>
    LET i == Inst(t)  k == thread[t].k IN
    /\ i \in 1..made /\ uuidOf[i] = Uuid(t) /\ started[i] = K /\ k \in 1..K
    /\ thread[t].goal \in {"stop", "restart"}
    /\ thread[t].pc \in {"unplug", "close"} =>
         (closed[i] = k - 1 /\ drained[i] = k - 1) \/ (k = 1 /\ closed[i] > 0)
    /\ thread[t].pc = "join" => closed[i] = k /\ drained[i] = k - 1
    /\ thread[t].pc = "delete" => closed[i] = K /\ drained[i] = K
StartsInOrder ==
  \A t \in Threads : Starts(t) =>
    LET i == Inst(t)  k == thread[t].k IN
    /\ i \in 1..made /\ uuidOf[i] = Uuid(t) /\ closed[i] = 0 /\ drained[i] = 0
    /\ thread[t].pc = "plug" => k \in 1..K /\ started[i] = K - k
    /\ thread[t].pc = "store" => k = 0 /\ started[i] = K
AboutPipelines ==
  /\ \A t \in Threads : thread[t].pc # "idle" => Uuid(t) \in Uuids
  /\ \A t \in Threads : thread[t].pc = "load" => thread[t].goal \in {"stop", "restart"}
  /\ thread[Main].pc \in {"idle", "load"} \cup StopSteps /\ thread[Main].goal \in {"none", "stop"}
\* Nobody but the one that starts an instance holds it; one that stops it got on.
HeldApart ==
  \A s, t \in Threads : s # t /\ Inst(s) = Inst(t) =>
    /\ Starts(s) => ~Stops(t) /\ ~Starts(t)
    /\ GotOn(s) => ~GotOn(t)
InstancesInOrder ==
  \A i \in Instances :
    /\ drained[i] <= closed[i]
    /\ i > made => started[i] = 0 /\ closed[i] = 0
    /\ i <= made => uuidOf[i] \in Uuids
\* What is registered was started, and somebody is stopping it once a channel is closed.
RegisteredRuns ==
  \A u \in Uuids : registry[u] # None =>
    LET i == registry[u] IN
    /\ i \in 1..made /\ uuidOf[i] = u /\ started[i] = K
    /\ \A t \in Threads : Starts(t) => Inst(t) # i
    /\ closed[i] > 0 => \E t \in Threads : GotOn(t) /\ Inst(t) = i
Basics == TypeOK /\ StopsInOrder /\ StartsInOrder /\ AboutPipelines /\ HeldApart /\ InstancesInOrder /\ RegisteredRuns

\* Of the pipelines no two requests were about at a time.
OneClient == \A u \in Uuids \ mixed : \A s, t \in About(u) \cap Clients : s = t
LiveIsHeld ==
  \A i \in 1..made : uuidOf[i] \notin mixed /\ Live(i) =>
    registry[uuidOf[i]] = i \/ \E t \in Clients : Starts(t) /\ Inst(t) = i
HeldIsRegistered ==
  \A t \in Threads : Uuid(t) \notin mixed =>
    /\ Starts(t) => registry[Uuid(t)] = None
    /\ GotOn(t) => registry[Uuid(t)] = Inst(t)
    /\ Stops(t) => registry[Uuid(t)] = Inst(t) \/ closed[Inst(t)] > 0
    /\ Stops(t) /\ t # Main => registry[Uuid(t)] \in {Inst(t), None}
Unmixed == OneClient /\ LiveIsHeld /\ HeldIsRegistered

\* Of the pipelines of which no start replaced a registered instance: the one that
\* gets on stops what is registered, and who is to panic cannot get on any more.
StopsTheRegistered ==
  \A t \in Threads : Uuid(t) \notin doubled =>
    /\ GotOn(t) => registry[Uuid(t)] = Inst(t)
    /\ Stops(t) => registry[Uuid(t)] = Inst(t) \/ closed[Inst(t)] > 0

\* A route leads to an agent that was started and that nobody is about to close.
RouteTo(url, i, k) ==
  /\ uuidOf[i] \in Uuids /\ HookOf[uuidOf[i]][k] # NoHook /\ url = Url(uuidOf[i], k)
  /\ k > K - started[i] /\ closed[i] < k
  /\ \A t \in Threads : thread[t].pc = "close" /\ Inst(t) = i => thread[t].k # k
RoutesLead == \A url \in DOMAIN routes : \E i \in 1..made, k \in 1..K : routes[url] = <<i, k>> /\ RouteTo(url, i, k)

\* core.Stop is about to stop i, or at it.
SeesTo(i) == Uuid(Main) = uuidOf[i] /\ (thread[Main].pc = "load" \/ (Stops(Main) /\ Inst(Main) = i))
\* core.Stop has yet to come to what it found registered, or sees to it, or it is drained.
ShutdownGoesOn ==
  /\ shutdown.seen \subseteq Uuids /\ shutdown.todo \subseteq Uuids /\ shutdown.had \subseteq 1..made
  /\ shutdown.phase = "no" => shutdown.seen = {} /\ shutdown.had = {}
  /\ shutdown.phase \in {"no", "range"} => thread[Main].pc = "idle"
  /\ shutdown.phase \in {"stop", "done"} => shutdown.seen = Uuids
  /\ shutdown.phase = "done" => shutdown.todo = {} /\ thread[Main].pc = "idle" /\ ~dead
  /\ \A i \in shutdown.had : uuidOf[i] \notin doubled /\ drained[i] # K =>
       /\ registry[uuidOf[i]] = i
       /\ uuidOf[i] \in shutdown.seen =>
            uuidOf[i] \in shutdown.todo \/ dead \/ SeesTo(i)

\* What the names must be for routes and jobs to be those of one agent.
HooksApart ==
  \A u, v \in Uuids, k, l \in 1..K : HookOf[u][k] # NoHook /\ HookOf[v][l] # NoHook =>
    /\ <<u, k>> # <<v, l>> => Url(u, k) # Url(v, l)
    /\ u # v => Url(u, k) \notin {LongUrl(v, HookOf[v][l]), ShortUrl(HookOf[v][l])}
LabelsApart == \A u \in Uuids, k, l \in 1..K : <<u, k>> \in Scheduled /\ LabelOf[u][k] = LabelOf[u][l] => k = l

\* A job ticks an agent that runs and that nobody is about to close.
Held(i) == registry[uuidOf[i]] = i \/ \E t \in Clients : Starts(t) /\ Inst(t) = i
JobOf(j, i, k) ==
  /\ uuidOf[i] \in Uuids /\ <<uuidOf[i], k>> \in Scheduled
  /\ j = [name |-> <<uuidOf[i], LabelOf[uuidOf[i]][k]>>, agent |-> <<i, k>>]
Ticks(i, k) ==
  uuidOf[i] \notin mixed =>
    /\ closed[i] < k /\ Held(i)
    /\ \A t \in Threads : thread[t].pc = "close" /\ Inst(t) = i => thread[t].k # k
JobsTick == \A j \in jobs : \E i \in 1..made, k \in 1..K : JobOf(j, i, k) /\ Ticks(i, k)

\* An agent of i has its route and its job.
PluggedBy(rs, js, u, i, k) ==
  /\ HookOf[u][k] # NoHook => Url(u, k) \in DOMAIN rs /\ rs[Url(u, k)] = <<i, k>>
  /\ <<u, k>> \in Scheduled => \E j \in js : j.agent = <<i, k>>
Plugged(u, i, k) == PluggedBy(routes, jobs, u, i, k)
\* Somebody has unplugged an agent of the pipeline, and is not done with it.
Unplugs(t) == GotOn(t) \/ thread[t].pc = "close"
Unplugging(u) == \E t \in Threads : Uuid(t) = u /\ Unplugs(t)
PluggedIn(u) ==
  /\ registry[u] # None => \A k \in 1..K : Plugged(u, registry[u], k)
  /\ \A t \in Clients : Starts(t) /\ Uuid(t) = u => \A k \in 1..K : k > thread[t].k => Plugged(u, Inst(t), k)
StaysPlugged == ~dead => \A u \in Uuids \ mixed : Unplugging(u) \/ PluggedIn(u)
IInv == Basics /\ Unmixed /\ StopsTheRegistered /\ RoutesLead /\ ShutdownGoesOn
PlugInv == JobsTick /\ StaysPlugged
-----------------------------------------------------------------------------
(***************************************************************************)
(* The invariant is inductive: first what holds however requests overlap.  *)
(***************************************************************************)
LEMMA Constants ==
  /\ Main \in Threads /\ Main \notin Clients /\ Clients \subseteq Threads
  /\ K \in Nat /\ K > 0 /\ MaxInstances \in Nat /\ Instances \subseteq Nat
  /\ 0 \notin Instances
BY ControlAssumption DEF ControlAssumption, Threads, Instances

LEMMA InitIInv == Init => IInv /\ PlugInv
<1> SUFFICES ASSUME Init PROVE IInv /\ PlugInv
  OBVIOUS
<1> USE Constants DEF Init, Idle, None
<1>1. TypeOK
  <2>1. DOMAIN routes = {}
    OBVIOUS
  <2>2. Idle \in [pc : {"idle", "load", "unplug", "close", "join", "delete", "check", "plug", "store"},
                  uuid : {None} \cup Uuids, inst : {None} \cup Instances,
                  k : 0..K, goal : {"none", "start", "stop", "restart"}]
    OBVIOUS
  <2>3. registry \in [Uuids -> {None} \cup Instances] /\ made \in 0..MaxInstances /\ uuidOf \in [Instances -> {None} \cup Uuids]
    OBVIOUS
  <2>4. started \in [Instances -> 0..K] /\ closed \in [Instances -> 0..K] /\ drained \in [Instances -> 0..K]
    OBVIOUS
  <2>5. thread \in [Threads -> [pc : {"idle", "load", "unplug", "close", "join", "delete", "check", "plug", "store"},
                  uuid : {None} \cup Uuids, inst : {None} \cup Instances,
                  k : 0..K, goal : {"none", "start", "stop", "restart"}]]
    BY <2>2
  <2> QED
    BY <2>1, <2>3, <2>4, <2>5 DEF TypeOK
<1>2. StopsInOrder /\ StartsInOrder /\ AboutPipelines /\ HeldApart /\ InstancesInOrder /\ RegisteredRuns
  BY DEF StopsInOrder, StartsInOrder, AboutPipelines, HeldApart, InstancesInOrder,
         RegisteredRuns, Stops, Starts, StopSteps, StartSteps, GotOn, Instances, Inst, Uuid
<1>3. Unmixed
  BY DEF Unmixed, OneClient, LiveIsHeld, HeldIsRegistered, About, Live, Stops, Starts, StopSteps,
         StartSteps, GotOn, Inst, Uuid, Instances
<1>7. StopsTheRegistered
  BY DEF StopsTheRegistered, Stops, StopSteps, GotOn
<1>4. RoutesLead /\ JobsTick
  BY DEF RoutesLead, JobsTick
<1>5. ShutdownGoesOn
  BY DEF ShutdownGoesOn
<1>6. StaysPlugged
  BY DEF StaysPlugged, PluggedIn, Starts, StartSteps
<1> QED
  BY <1>1, <1>2, <1>3, <1>4, <1>5, <1>6, <1>7 DEF IInv, PlugInv, Basics

-----------------------------------------------------------------------------
(***************************************************************************)
(* What each step does to the goroutines.                                  *)
(***************************************************************************)
Only(t) == \A s \in Threads \ {t} : thread'[s] = thread[s]
Quits(t) ==
  /\ thread'[t].pc = "idle" /\ thread'[t].uuid = None /\ thread'[t].inst = None
  /\ thread'[t].k = 0 /\ thread'[t].goal = "none"
KeepsPipeline(t) == thread'[t].uuid = thread[t].uuid /\ thread'[t].goal = thread[t].goal
KeepsInstance(t) == KeepsPipeline(t) /\ thread'[t].inst = thread[t].inst

LEMMA RequestSteps ==
  ASSUME TypeOK, NEW t \in Clients, Request(t)
  PROVE  /\ Only(t) /\ thread[t].pc = "idle"
         /\ thread'[t].uuid \in Uuids
         /\ mixed' = IF About(thread'[t].uuid) \cap Clients # {} THEN mixed \cup {thread'[t].uuid} ELSE mixed
         /\ thread'[t].pc \in {"load", "check"} /\ thread'[t].inst = None /\ thread'[t].k = 0
         /\ thread'[t].pc = "load" => thread'[t].goal \in {"stop", "restart"}
         /\ thread'[t].goal \in {"start", "stop", "restart"}
         /\ UNCHANGED <<registry, instanceVars, plugVars, shutdown, doubled, dead>>
<1>1. PICK u \in Uuids : Patch(t, u) \/ Post(t, u)
  BY DEF Request
<1>2. /\ thread[t].pc = "idle"
      /\ \E pc \in {"load", "check"}, goal \in {"start", "stop", "restart"} : Begin(t, u, pc, goal) /\ (pc = "load" => goal # "start")
  BY <1>1 DEF Patch, Post, At
<1>3. PICK pc \in {"load", "check"}, goal \in {"start", "stop", "restart"} : Begin(t, u, pc, goal) /\ (pc = "load" => goal # "start")
  BY <1>2
<1>4. /\ Only(t) /\ thread'[t].pc = pc /\ thread'[t].uuid = u /\ thread'[t].goal = goal
      /\ thread'[t].inst = None /\ thread'[t].k = 0
  BY <1>3, Constants DEF TypeOK, Only, Begin, Idle
<1>5. /\ mixed' = IF About(u) \cap Clients # {} THEN mixed \cup {u} ELSE mixed
      /\ UNCHANGED <<registry, instanceVars, plugVars, shutdown, doubled, dead>>
  BY <1>3 DEF Begin
<1> QED
  BY <1>2, <1>3, <1>4, <1>5

LEMMA LoadSteps ==
  ASSUME TypeOK, NEW t \in Threads, Load(t)
  PROVE  /\ Only(t) /\ thread[t].pc = "load"
         /\ \/ registry[Uuid(t)] = None /\ Quits(t)
            \/ /\ registry[Uuid(t)] # None /\ thread'[t].pc = "unplug" /\ thread'[t].k = 1
               /\ thread'[t].inst = registry[Uuid(t)] /\ KeepsPipeline(t)
         /\ UNCHANGED <<registry, instanceVars, plugVars, shutdown, mixed, doubled, dead>>
BY DEF TypeOK, Load, At, Only, Finish, Uuid, KeepsPipeline, Quits, Idle

LEMMA UnplugSteps ==
  ASSUME TypeOK, NEW t \in Threads, Unplug(t)
  PROVE  /\ Only(t) /\ thread[t].pc = "unplug" /\ thread'[t].pc = "close"
         /\ thread'[t].k = thread[t].k /\ KeepsInstance(t)
         /\ UNCHANGED <<registry, instanceVars, shutdown, mixed, doubled, dead>>
BY DEF TypeOK, Unplug, UnplugWith, At, Only, Goto, KeepsInstance, KeepsPipeline

LEMMA CloseSteps ==
  ASSUME TypeOK, NEW t \in Threads, Close(t)
  PROVE  /\ Only(t) /\ thread[t].pc = "close" /\ ~dead
         /\ \/ /\ closed[Inst(t)] >= thread[t].k /\ Quits(t)
               /\ UNCHANGED closed /\ dead' = (t = Main)
            \/ /\ ~(closed[Inst(t)] >= thread[t].k) /\ closed' = [closed EXCEPT ![Inst(t)] = thread[t].k]
               /\ thread'[t].pc = "join" /\ thread'[t].k = thread[t].k /\ KeepsInstance(t) /\ UNCHANGED dead
         /\ UNCHANGED <<registry, made, uuidOf, started, drained, plugVars, shutdown, mixed, doubled>>
BY DEF TypeOK, Close, At, Running, Only, Goto, Finish, Quits, Idle, Inst, KeepsInstance, KeepsPipeline

LEMMA JoinSteps ==
  ASSUME TypeOK, NEW t \in Threads, Join(t)
  PROVE  /\ Only(t) /\ thread[t].pc = "join" /\ KeepsInstance(t)
         /\ drained' = [drained EXCEPT ![Inst(t)] = thread[t].k]
         /\ \/ thread[t].k < K /\ thread'[t].pc = "unplug" /\ thread'[t].k = thread[t].k + 1
            \/ ~(thread[t].k < K) /\ thread'[t].pc = "delete" /\ thread'[t].k = thread[t].k
         /\ UNCHANGED <<registry, made, uuidOf, started, closed, plugVars, shutdown, mixed, doubled, dead>>
BY DEF TypeOK, Join, JoinTo, At, Only, Inst, KeepsInstance, KeepsPipeline

LEMMA DeleteSteps ==
  ASSUME TypeOK, NEW t \in Threads, Delete(t)
  PROVE  /\ Only(t) /\ thread[t].pc = "delete"
         /\ registry' = [registry EXCEPT ![Uuid(t)] = None]
         /\ \/ thread[t].goal # "restart" /\ Quits(t)
            \/ thread[t].goal = "restart" /\ thread'[t].pc = "check" /\ thread'[t].k = thread[t].k /\ KeepsInstance(t)
         /\ UNCHANGED <<instanceVars, plugVars, shutdown, mixed, doubled, dead>>
BY DEF TypeOK, Delete, Deregister, At, Only, Goto, Finish, Quits, Idle, KeepsInstance, KeepsPipeline

LEMMA CheckSteps ==
  ASSUME TypeOK, NEW t \in Threads, Check(t)
  PROVE  /\ Only(t) /\ thread[t].pc = "check"
         /\ \/ Quits(t) /\ UNCHANGED <<made, uuidOf>>
            \/ /\ registry[Uuid(t)] = None /\ made < MaxInstances /\ made' = made + 1
               /\ uuidOf' = [uuidOf EXCEPT ![made + 1] = Uuid(t)]
               /\ thread'[t].pc = "plug" /\ thread'[t].k = K /\ thread'[t].inst = made + 1 /\ KeepsPipeline(t)
         /\ UNCHANGED <<registry, started, closed, drained, plugVars, shutdown, mixed, doubled, dead>>
BY DEF TypeOK, Check, Build, GiveUp, At, Only, Finish, Quits, Idle, KeepsPipeline, instanceVars

LEMMA PlugSteps ==
  ASSUME TypeOK, NEW t \in Threads, Plug(t)
  PROVE  /\ Only(t) /\ thread[t].pc = "plug" /\ KeepsInstance(t)
         /\ started' = [started EXCEPT ![Inst(t)] = started[Inst(t)] + 1]
         /\ thread'[t].k = thread[t].k - 1 /\ thread'[t].pc = IF thread[t].k = 1 THEN "store" ELSE "plug"
         /\ UNCHANGED <<registry, made, uuidOf, closed, drained, shutdown, mixed, doubled, dead>>
BY DEF TypeOK, Plug, PlugWith, At, Only, Inst, KeepsInstance, KeepsPipeline

LEMMA StoreSteps ==
  ASSUME TypeOK, NEW t \in Threads, Store(t)
  PROVE  /\ Only(t) /\ thread[t].pc = "store" /\ Quits(t)
         /\ registry' = [registry EXCEPT ![Uuid(t)] = Inst(t)]
         /\ doubled' = IF registry[Uuid(t)] = None THEN doubled ELSE doubled \cup {Uuid(t)}
         /\ UNCHANGED <<instanceVars, plugVars, shutdown, mixed, dead>>
BY DEF TypeOK, Store, At, Only, Finish, Quits, Idle

LEMMA ShutdownSteps ==
  ASSUME TypeOK, ShutdownNext
  PROVE  /\ Only(Main) /\ thread[Main].pc = "idle" /\ ~dead
         /\ \/ UNCHANGED thread
            \/ /\ thread'[Main].pc = "load" /\ thread'[Main].uuid \in shutdown.todo /\ thread'[Main].goal = "stop"
               /\ thread'[Main].inst = None /\ thread'[Main].k = 0
         /\ shutdown'.todo \subseteq shutdown.todo
         /\ UNCHANGED <<registry, instanceVars, plugVars, mixed, doubled, dead>>
<1>1. Main \in Threads /\ thread[Main].pc = "idle" /\ ~dead
  BY Constants DEF ShutdownNext, At, Running
<1>2. CASE shutdown.todo = {} /\ shutdown' = [shutdown EXCEPT !.phase = "done"] /\ UNCHANGED thread
  BY <1>1, <1>2 DEF TypeOK, ShutdownNext, Only
<1>3. CASE \E u \in shutdown.todo :
          /\ shutdown' = [shutdown EXCEPT !.todo = @ \ {u}]
          /\ thread' = IF registry[u] = None THEN thread
                       ELSE [thread EXCEPT ![Main] = [Idle EXCEPT !.pc = "load", !.uuid = u, !.goal = "stop"]]
  <2>1. PICK u \in shutdown.todo :
          /\ shutdown' = [shutdown EXCEPT !.todo = @ \ {u}]
          /\ thread' = IF registry[u] = None THEN thread
                       ELSE [thread EXCEPT ![Main] = [Idle EXCEPT !.pc = "load", !.uuid = u, !.goal = "stop"]]
    BY <1>3
  <2>2. shutdown'.todo \subseteq shutdown.todo
    BY <2>1 DEF TypeOK
  <2>3. /\ Only(Main)
        /\ \/ UNCHANGED thread
           \/ /\ thread'[Main].pc = "load" /\ thread'[Main].uuid = u /\ thread'[Main].goal = "stop"
              /\ thread'[Main].inst = None /\ thread'[Main].k = 0
    BY <1>1, <2>1 DEF TypeOK, Only, Idle
  <2> QED
    BY <1>1, <2>2, <2>3 DEF ShutdownNext
<1> QED
  BY <1>2, <1>3 DEF ShutdownNext

\* What does not touch the registered instances, and lets nobody that got on forget it.
LEMMA StaysRegistered ==
  ASSUME TypeOK, RegisteredRuns, UNCHANGED <<registry, made, uuidOf, started, closed>>,
         \A s \in Threads : GotOn(s) => GotOn(s)' /\ Inst(s)' = Inst(s),
         \A s \in Threads : Starts(s)' => Starts(s) /\ Inst(s)' = Inst(s)
  PROVE  RegisteredRuns'
BY DEF RegisteredRuns, TypeOK

Goroutines == [pc : {"idle", "load", "unplug", "close", "join", "delete", "check", "plug", "store"},
               uuid : {None} \cup Uuids, inst : {None} \cup Instances,
               k : 0..K, goal : {"none", "start", "stop", "restart"}]
LEMMA IdleGoroutine == Idle \in Goroutines
BY Constants DEF Idle, Goroutines, None

LEMMA TypeKept == Basics /\ [Next]_vars => TypeOK'
<1> SUFFICES ASSUME Basics, [Next]_vars PROVE TypeOK'
  OBVIOUS
<1> USE Constants, IdleGoroutine DEF instanceVars, plugVars
<1>0. TypeOK /\ thread \in [Threads -> Goroutines]
  BY DEF Basics, TypeOK, Goroutines
<1>1. ASSUME NEW t \in Clients, Request(t) PROVE TypeOK'
  <2>1. PICK u \in Uuids, pc \in {"load", "check"}, goal \in {"start", "stop", "restart"} : Begin(t, u, pc, goal)
    BY <1>1 DEF Request, Patch, Post
  <2>2. thread' \in [Threads -> Goroutines]
    BY <1>0, <2>1 DEF Begin, Goroutines
  <2>3. mixed' \subseteq Uuids
    BY <1>0, <2>1 DEF Begin, TypeOK
  <2> QED
    BY <1>0, <2>1, <2>2, <2>3 DEF Begin, TypeOK, Goroutines
<1>2. ASSUME NEW t \in Threads, Load(t) PROVE TypeOK'
  <2>1. thread' \in [Threads -> Goroutines]
    <3>1. CASE registry[Uuid(t)] = None
      BY <1>0, <1>2, <3>1 DEF Load, Finish
    <3>2. CASE registry[Uuid(t)] # None
      <4>1. Uuid(t) \in Uuids
        BY <1>2 DEF Basics, AboutPipelines, Load, At
      <4>2. registry[Uuid(t)] \in Instances
        BY <1>0, <3>2, <4>1 DEF TypeOK
      <4> QED
        BY <1>0, <1>2, <3>2, <4>2 DEF Load, Goroutines
    <3> QED
      BY <3>1, <3>2
  <2> QED
    BY <1>0, <1>2, <2>1 DEF Load, TypeOK, Goroutines
<1>3. ASSUME NEW t \in Threads, Unplug(t) PROVE TypeOK'
  <2>1. thread' \in [Threads -> Goroutines]
    BY <1>0, <1>3 DEF Unplug, UnplugWith, Goto, Goroutines
  <2>2. \A url \in DOMAIN routes' : routes'[url] \in Instances \X (1..K)
    BY <1>0, <1>3 DEF Unplug, UnplugWith, Without, TypeOK
  <2>3. jobs' \subseteq jobs
    BY <1>3 DEF Unplug, UnplugWith
  <2> QED
    BY <1>0, <1>3, <2>1, <2>2, <2>3 DEF Unplug, UnplugWith, TypeOK, Goroutines
<1>4. ASSUME NEW t \in Threads, Close(t) PROVE TypeOK'
  <2>1. thread' \in [Threads -> Goroutines]
    BY <1>0, <1>4 DEF Close, Finish, Goto, Goroutines
  <2>2. closed' \in [Instances -> 0..K] /\ dead' \in BOOLEAN
    BY <1>0, <1>4 DEF Close, TypeOK
  <2> QED
    BY <1>0, <1>4, <2>1, <2>2 DEF Close, TypeOK, Goroutines
<1>5. ASSUME NEW t \in Threads, Join(t) PROVE TypeOK'
  <2>1. thread' \in [Threads -> Goroutines]
    <3>1. thread[t].k < K => thread[t].k + 1 \in 0..K
      BY <1>0 DEF Goroutines
    <3> DEFINE pc == IF thread[t].pc = "join" /\ thread[t].k < K THEN "unplug" ELSE "delete"
               k == IF thread[t].k < K THEN thread[t].k + 1 ELSE thread[t].k
    <3>2. [thread[t] EXCEPT !.pc = pc, !.k = k] \in Goroutines
      BY <1>0, <3>1 DEF Goroutines
    <3>3. thread' = [thread EXCEPT ![t] = [thread[t] EXCEPT !.pc = pc, !.k = k]]
      BY <1>0, <1>5 DEF Join, JoinTo
    <3> HIDE DEF pc, k
    <3> QED
      BY <1>0, <3>2, <3>3
  <2>2. drained' \in [Instances -> 0..K]
    BY <1>0, <1>5 DEF Join, JoinTo, TypeOK
  <2> QED
    BY <1>0, <1>5, <2>1, <2>2 DEF Join, JoinTo, TypeOK, Goroutines
<1>6. ASSUME NEW t \in Threads, Delete(t) PROVE TypeOK'
  <2>1. thread' \in [Threads -> Goroutines]
    BY <1>0, <1>6 DEF Delete, Deregister, Finish, Goto, Goroutines
  <2>2. registry' \in [Uuids -> {None} \cup Instances]
    BY <1>0, <1>6 DEF Delete, TypeOK
  <2> QED
    BY <1>0, <1>6, <2>1, <2>2 DEF Delete, Deregister, TypeOK, Goroutines
<1>7. ASSUME NEW t \in Threads, Check(t) PROVE TypeOK'
  <2>1. CASE GiveUp(t)
    <3>1. thread' \in [Threads -> Goroutines]
      BY <1>0, <2>1 DEF GiveUp, Finish, Goroutines
    <3> QED
      BY <1>0, <2>1, <3>1 DEF GiveUp, TypeOK, Goroutines
  <2>2. CASE Build(t)
    <3>1. made + 1 \in Instances /\ made' \in 0..MaxInstances /\ made' = made + 1
      BY <1>0, <2>2 DEF Build, TypeOK, Instances
    <3>2. Uuid(t) \in {None} \cup Uuids
      BY <1>0 DEF Goroutines, Uuid
    <3>3. thread' \in [Threads -> Goroutines]
      <4>1. thread' = [thread EXCEPT ![t] = [[[thread[t] EXCEPT !.inst = made + 1] EXCEPT !.k = K] EXCEPT !.pc = "plug"]]
        BY <1>0, <2>2 DEF Build
      <4>2. thread[t] \in Goroutines /\ K \in 0..K
        BY <1>0
      <4>3. [[[thread[t] EXCEPT !.inst = made + 1] EXCEPT !.k = K] EXCEPT !.pc = "plug"] \in Goroutines
        BY <3>1, <4>2 DEF Goroutines
      <4> QED
        BY <1>0, <4>1, <4>3
    <3>4. uuidOf' \in [Instances -> {None} \cup Uuids]
      BY <1>0, <2>2, <3>1, <3>2 DEF Build, TypeOK
    <3> QED
      BY <1>0, <2>2, <3>1, <3>3, <3>4 DEF Build, TypeOK, Goroutines
  <2> QED
    BY <1>7, <2>1, <2>2 DEF Check
<1>8. ASSUME NEW t \in Threads, Plug(t) PROVE TypeOK'
  <2>1. Inst(t) \in 1..made /\ thread[t].k \in 1..K /\ started[Inst(t)] = K - thread[t].k
    BY <1>8 DEF Plug, PlugWith, At, Basics, StartsInOrder, Starts, StartSteps
  <2>2. Inst(t) \in Instances /\ <<Inst(t), thread[t].k>> \in Instances \X (1..K)
    BY <1>0, <2>1 DEF TypeOK, Instances
  <2>3. thread' \in [Threads -> Goroutines]
    BY <1>0, <1>8, <2>1 DEF Plug, PlugWith, Goroutines
  <2>4. started' \in [Instances -> 0..K]
    BY <1>0, <1>8, <2>1, <2>2 DEF Plug, PlugWith, TypeOK
  <2>5. \A url \in DOMAIN routes' : routes'[url] \in Instances \X (1..K)
    BY <1>0, <1>8, <2>2 DEF Plug, PlugWith, TypeOK
  <2>6. \A j \in jobs' : j.agent \in Instances \X (1..K)
    BY <1>0, <1>8, <2>2 DEF Plug, PlugWith, TypeOK
  <2> QED
    BY <1>0, <1>8, <2>3, <2>4, <2>5, <2>6 DEF Plug, PlugWith, TypeOK, Goroutines
<1>9. ASSUME NEW t \in Threads, Store(t) PROVE TypeOK'
  <2>1. thread' \in [Threads -> Goroutines]
    BY <1>0, <1>9 DEF Store, Finish, Goroutines
  <2>2. registry' \in [Uuids -> {None} \cup Instances]
    BY <1>0, <1>9 DEF Store, TypeOK, Inst
  <2> QED
    BY <1>0, <1>9, <2>1, <2>2 DEF Store, TypeOK, Goroutines
<1>10. ASSUME Interrupt PROVE TypeOK'
  <2>1. {registry[u] : u \in Uuids} \ {None} \in SUBSET Instances
    BY <1>0 DEF TypeOK
  <2>2. shutdown' \in [phase : {"no", "range", "stop", "done"}, seen : SUBSET Uuids, todo : SUBSET Uuids,
                       had : SUBSET Instances]
    <3> DEFINE S == {registry[u] : u \in Uuids} \ {None}
    <3>1. shutdown' = [[shutdown EXCEPT !.phase = "range"] EXCEPT !.had = S] /\ S \in SUBSET Instances
      BY <1>10, <2>1 DEF Interrupt
    <3> HIDE DEF S
    <3> QED
      BY <1>0, <3>1 DEF TypeOK
  <2>3. UNCHANGED <<registry, instanceVars, plugVars, thread, mixed, doubled, dead>>
    BY <1>10 DEF Interrupt
  <2> QED
    BY <1>0, <2>2, <2>3 DEF TypeOK
<1>11. ASSUME RangeVisit PROVE TypeOK'
  <2>1. shutdown' \in [phase : {"no", "range", "stop", "done"}, seen : SUBSET Uuids, todo : SUBSET Uuids,
                       had : SUBSET Instances]
    <3>1. CASE shutdown' = [shutdown EXCEPT !.phase = "stop"]
      BY <1>0, <3>1 DEF TypeOK
    <3>2. ASSUME NEW u \in Uuids,
                 shutdown' = [shutdown EXCEPT !.seen = @ \cup {u},
                                !.todo = IF registry[u] # None THEN @ \cup {u} ELSE @]
          PROVE  shutdown' \in [phase : {"no", "range", "stop", "done"}, seen : SUBSET Uuids, todo : SUBSET Uuids,
                                had : SUBSET Instances]
      BY <1>0, <3>2 DEF TypeOK
    <3> QED
      BY <1>11, <3>1, <3>2 DEF RangeVisit
  <2>2. UNCHANGED <<registry, instanceVars, plugVars, thread, mixed, doubled, dead>>
    BY <1>11 DEF RangeVisit
  <2> QED
    BY <1>0, <2>1, <2>2 DEF TypeOK
<1>12. ASSUME ShutdownNext PROVE TypeOK'
  <2>1. thread' \in [Threads -> Goroutines]
    <3>1. CASE UNCHANGED thread
      BY <1>0, <3>1
    <3>2. ASSUME NEW u \in shutdown.todo,
                 thread' = [thread EXCEPT ![Main] = [Idle EXCEPT !.pc = "load", !.uuid = u, !.goal = "stop"]]
          PROVE  thread' \in [Threads -> Goroutines]
      <4>1. u \in Uuids
        BY <1>0 DEF TypeOK
      <4>2. [Idle EXCEPT !.pc = "load", !.uuid = u, !.goal = "stop"] \in Goroutines
        BY <4>1 DEF Goroutines, Idle, None
      <4> QED
        BY <1>0, <3>2, <4>2
    <3> QED
      BY <1>12, <3>1, <3>2 DEF ShutdownNext
  <2>2. shutdown' \in [phase : {"no", "range", "stop", "done"}, seen : SUBSET Uuids, todo : SUBSET Uuids,
                       had : SUBSET Instances]
    <3>1. CASE shutdown' = [shutdown EXCEPT !.phase = "done"]
      BY <1>0, <3>1 DEF TypeOK
    <3>2. ASSUME NEW u \in shutdown.todo, shutdown' = [shutdown EXCEPT !.todo = @ \ {u}]
          PROVE  shutdown' \in [phase : {"no", "range", "stop", "done"}, seen : SUBSET Uuids, todo : SUBSET Uuids,
                                had : SUBSET Instances]
      BY <1>0, <3>2 DEF TypeOK
    <3> QED
      BY <1>12, <3>1, <3>2 DEF ShutdownNext
  <2> QED
    BY <1>0, <1>12, <2>1, <2>2 DEF ShutdownNext, TypeOK, Goroutines
<1>13. CASE UNCHANGED vars
  BY <1>0, <1>13 DEF TypeOK, vars
<1> QED
  BY <1>1, <1>2, <1>3, <1>4, <1>5, <1>6, <1>7, <1>8, <1>9, <1>10, <1>11, <1>12, <1>13 DEF Next, Step, Done

LEMMA BasicsKept == Basics /\ [Next]_vars => Basics'
<1> SUFFICES ASSUME Basics, [Next]_vars PROVE Basics'
  OBVIOUS
<1>0. TypeOK /\ TypeOK'
  BY TypeKept DEF Basics
<1> USE Constants DEF None, Basics, Stops, Starts, StopSteps, StartSteps, GotOn, Inst, Uuid, Quits, Only, KeepsPipeline, KeepsInstance, instanceVars, plugVars
<1>1. ASSUME NEW t \in Clients, Request(t) PROVE Basics'
  <2>1. StopsInOrder'
    BY <1>0, <1>1, RequestSteps DEF TypeOK, StopsInOrder, RegisteredRuns, InstancesInOrder, AboutPipelines, HeldApart
  <2>2. StartsInOrder'
    BY <1>0, <1>1, RequestSteps DEF TypeOK, StartsInOrder, InstancesInOrder, HeldApart, StopsInOrder
  <2>3. AboutPipelines'
    BY <1>0, <1>1, RequestSteps DEF TypeOK, AboutPipelines
  <2>4. HeldApart'
    BY <1>0, <1>1, RequestSteps DEF TypeOK, HeldApart, StopsInOrder, StartsInOrder, RegisteredRuns, AboutPipelines
  <2>5. InstancesInOrder'
    BY <1>0, <1>1, RequestSteps DEF TypeOK, InstancesInOrder, StopsInOrder, StartsInOrder, AboutPipelines
  <2>6. RegisteredRuns'
    BY <1>0, <1>1, RequestSteps DEF TypeOK, RegisteredRuns, StopsInOrder, StartsInOrder, InstancesInOrder, HeldApart, AboutPipelines
  <2> QED
    BY <1>0, <2>1, <2>2, <2>3, <2>4, <2>5, <2>6
<1>2. ASSUME NEW t \in Threads, Load(t) PROVE Basics'
  <2>1. StopsInOrder'
    BY <1>0, <1>2, LoadSteps DEF TypeOK, StopsInOrder, RegisteredRuns, InstancesInOrder, AboutPipelines, HeldApart
  <2>2. StartsInOrder'
    BY <1>0, <1>2, LoadSteps DEF TypeOK, StartsInOrder, InstancesInOrder, HeldApart, StopsInOrder
  <2>3. AboutPipelines'
    BY <1>0, <1>2, LoadSteps, SMTT(60) DEF TypeOK, AboutPipelines
  <2>4. HeldApart'
    BY <1>0, <1>2, LoadSteps DEF TypeOK, HeldApart, StopsInOrder, StartsInOrder, RegisteredRuns, AboutPipelines
  <2>5. InstancesInOrder'
    BY <1>0, <1>2, LoadSteps DEF TypeOK, InstancesInOrder, StopsInOrder, StartsInOrder, AboutPipelines
  <2>6. RegisteredRuns'
    <3>1. \A s \in Threads : /\ GotOn(s) => GotOn(s)' /\ Inst(s)' = Inst(s)
                             /\ Starts(s)' => Starts(s) /\ Inst(s)' = Inst(s)
      BY <1>0, <1>2, LoadSteps
    <3>2. UNCHANGED <<registry, made, uuidOf, started, closed>>
      BY <1>0, <1>2, LoadSteps
    <3> HIDE DEF GotOn, Starts, Inst
    <3> QED
      BY <1>0, <3>1, <3>2, StaysRegistered
  <2> QED
    BY <1>0, <2>1, <2>2, <2>3, <2>4, <2>5, <2>6
<1>3. ASSUME NEW t \in Threads, Unplug(t) PROVE Basics'
  <2>1. StopsInOrder'
    BY <1>0, <1>3, UnplugSteps DEF TypeOK, StopsInOrder, RegisteredRuns, InstancesInOrder, AboutPipelines, HeldApart
  <2>2. StartsInOrder'
    BY <1>0, <1>3, UnplugSteps DEF TypeOK, StartsInOrder, InstancesInOrder, HeldApart, StopsInOrder
  <2>3. AboutPipelines'
    BY <1>0, <1>3, UnplugSteps, SMTT(60) DEF TypeOK, AboutPipelines
  <2>4. HeldApart'
    BY <1>0, <1>3, UnplugSteps DEF TypeOK, HeldApart, StopsInOrder, StartsInOrder, RegisteredRuns, AboutPipelines
  <2>5. InstancesInOrder'
    BY <1>0, <1>3, UnplugSteps DEF TypeOK, InstancesInOrder, StopsInOrder, StartsInOrder, AboutPipelines
  <2>6. RegisteredRuns'
    BY <1>0, <1>3, UnplugSteps, SMTT(60) DEF TypeOK, RegisteredRuns, StopsInOrder, StartsInOrder, InstancesInOrder, HeldApart, AboutPipelines
  <2> QED
    BY <1>0, <2>1, <2>2, <2>3, <2>4, <2>5, <2>6
<1>4. ASSUME NEW t \in Threads, Close(t) PROVE Basics'
  <2>1. StopsInOrder'
    BY <1>0, <1>4, CloseSteps DEF TypeOK, StopsInOrder, RegisteredRuns, InstancesInOrder, AboutPipelines, HeldApart
  <2>2. StartsInOrder'
    BY <1>0, <1>4, CloseSteps DEF TypeOK, StartsInOrder, InstancesInOrder, HeldApart, StopsInOrder
  <2>3. AboutPipelines'
    BY <1>0, <1>4, CloseSteps, SMTT(60) DEF TypeOK, AboutPipelines
  <2>4. HeldApart'
    BY <1>0, <1>4, CloseSteps DEF TypeOK, HeldApart, StopsInOrder, StartsInOrder, RegisteredRuns, AboutPipelines
  <2>5. InstancesInOrder'
    BY <1>0, <1>4, CloseSteps DEF TypeOK, InstancesInOrder, StopsInOrder, StartsInOrder, AboutPipelines
  <2>6. RegisteredRuns'
    BY <1>0, <1>4, CloseSteps, SMTT(60) DEF TypeOK, RegisteredRuns, StopsInOrder, StartsInOrder, InstancesInOrder, HeldApart, AboutPipelines
  <2> QED
    BY <1>0, <2>1, <2>2, <2>3, <2>4, <2>5, <2>6
<1>5. ASSUME NEW t \in Threads, Join(t) PROVE Basics'
  <2>1. StopsInOrder'
    BY <1>0, <1>5, JoinSteps DEF TypeOK, StopsInOrder, RegisteredRuns, InstancesInOrder, AboutPipelines, HeldApart
  <2>2. StartsInOrder'
    BY <1>0, <1>5, JoinSteps DEF TypeOK, StartsInOrder, InstancesInOrder, HeldApart, StopsInOrder
  <2>3. AboutPipelines'
    BY <1>0, <1>5, JoinSteps, SMTT(60) DEF TypeOK, AboutPipelines
  <2>4. HeldApart'
    BY <1>0, <1>5, JoinSteps DEF TypeOK, HeldApart, StopsInOrder, StartsInOrder, RegisteredRuns, AboutPipelines
  <2>5. InstancesInOrder'
    BY <1>0, <1>5, JoinSteps DEF TypeOK, InstancesInOrder, StopsInOrder, StartsInOrder, AboutPipelines
  <2>6. RegisteredRuns'
    BY <1>0, <1>5, JoinSteps, SMTT(60) DEF TypeOK, RegisteredRuns, StopsInOrder, StartsInOrder, InstancesInOrder, HeldApart, AboutPipelines
  <2> QED
    BY <1>0, <2>1, <2>2, <2>3, <2>4, <2>5, <2>6
<1>6. ASSUME NEW t \in Threads, Delete(t) PROVE Basics'
  <2>1. StopsInOrder'
    BY <1>0, <1>6, DeleteSteps DEF TypeOK, StopsInOrder, RegisteredRuns, InstancesInOrder, AboutPipelines, HeldApart
  <2>2. StartsInOrder'
    BY <1>0, <1>6, DeleteSteps DEF TypeOK, StartsInOrder, InstancesInOrder, HeldApart, StopsInOrder
  <2>3. AboutPipelines'
    BY <1>0, <1>6, DeleteSteps, SMTT(60) DEF TypeOK, AboutPipelines
  <2>4. HeldApart'
    BY <1>0, <1>6, DeleteSteps, SMTT(60) DEF TypeOK, HeldApart, StopsInOrder, StartsInOrder, RegisteredRuns, AboutPipelines
  <2>5. InstancesInOrder'
    BY <1>0, <1>6, DeleteSteps DEF TypeOK, InstancesInOrder, StopsInOrder, StartsInOrder, AboutPipelines
  <2>6. RegisteredRuns'
    BY <1>0, <1>6, DeleteSteps, SMTT(60) DEF TypeOK, RegisteredRuns, StopsInOrder, StartsInOrder, InstancesInOrder, HeldApart, AboutPipelines
  <2> QED
    BY <1>0, <2>1, <2>2, <2>3, <2>4, <2>5, <2>6
<1>7. ASSUME NEW t \in Threads, Check(t) PROVE Basics'
  <2>1. StopsInOrder'
    BY <1>0, <1>7, CheckSteps DEF TypeOK, StopsInOrder, RegisteredRuns, InstancesInOrder, AboutPipelines, HeldApart
  <2>2. StartsInOrder'
    BY <1>0, <1>7, CheckSteps DEF TypeOK, StartsInOrder, InstancesInOrder, HeldApart, StopsInOrder
  <2>3. AboutPipelines'
    BY <1>0, <1>7, CheckSteps, SMTT(60) DEF TypeOK, AboutPipelines
  <2>4. HeldApart'
    BY <1>0, <1>7, CheckSteps DEF TypeOK, HeldApart, StopsInOrder, StartsInOrder, RegisteredRuns, AboutPipelines
  <2>5. InstancesInOrder'
    <3>1. Quits(t) /\ UNCHANGED <<made, uuidOf, started, closed, drained>> => InstancesInOrder'
      BY <1>0 DEF InstancesInOrder
    <3>2. ASSUME made < MaxInstances, made' = made + 1, uuidOf' = [uuidOf EXCEPT ![made + 1] = Uuid(t)],
                 UNCHANGED <<started, closed, drained>>, Uuid(t) \in Uuids
          PROVE  InstancesInOrder'
      BY <1>0, <3>2 DEF InstancesInOrder, TypeOK, Instances
    <3>3. Uuid(t) \in Uuids
      BY <1>0, <1>7, CheckSteps DEF AboutPipelines
    <3> QED
      BY <1>0, <1>7, <3>1, <3>2, <3>3, CheckSteps
  <2>6. RegisteredRuns'
    BY <1>0, <1>7, CheckSteps, SMTT(60) DEF TypeOK, RegisteredRuns, StopsInOrder, StartsInOrder, InstancesInOrder, HeldApart, AboutPipelines
  <2> QED
    BY <1>0, <2>1, <2>2, <2>3, <2>4, <2>5, <2>6
<1>8. ASSUME NEW t \in Threads, Plug(t) PROVE Basics'
  <2>1. StopsInOrder'
    BY <1>0, <1>8, PlugSteps DEF TypeOK, StopsInOrder, RegisteredRuns, InstancesInOrder, AboutPipelines, HeldApart
  <2>2. StartsInOrder'
    BY <1>0, <1>8, PlugSteps DEF TypeOK, StartsInOrder, InstancesInOrder, HeldApart, StopsInOrder
  <2>3. AboutPipelines'
    BY <1>0, <1>8, PlugSteps, SMTT(60) DEF TypeOK, AboutPipelines
  <2>4. HeldApart'
    BY <1>0, <1>8, PlugSteps, SMTT(60) DEF TypeOK, HeldApart, StopsInOrder, StartsInOrder, RegisteredRuns, AboutPipelines
  <2>5. InstancesInOrder'
    BY <1>0, <1>8, PlugSteps DEF TypeOK, InstancesInOrder, StopsInOrder, StartsInOrder, AboutPipelines
  <2>6. RegisteredRuns'
    BY <1>0, <1>8, PlugSteps, SMTT(60) DEF TypeOK, RegisteredRuns, StopsInOrder, StartsInOrder, InstancesInOrder, HeldApart, AboutPipelines
  <2> QED
    BY <1>0, <2>1, <2>2, <2>3, <2>4, <2>5, <2>6
<1>9. ASSUME NEW t \in Threads, Store(t) PROVE Basics'
  <2>1. StopsInOrder'
    BY <1>0, <1>9, StoreSteps DEF TypeOK, StopsInOrder, RegisteredRuns, InstancesInOrder, AboutPipelines, HeldApart
  <2>2. StartsInOrder'
    BY <1>0, <1>9, StoreSteps DEF TypeOK, StartsInOrder, InstancesInOrder, HeldApart, StopsInOrder
  <2>3. AboutPipelines'
    <3>1. Only(t) /\ Quits(t)
      BY <1>0, <1>9, StoreSteps
    <3>2. \A s \in Threads : s = t \/ thread'[s] = thread[s]
      BY <3>1 DEF Only
    <3>3. AboutPipelines
      BY <1>0 DEF Basics
    <3>4. \A s \in Threads : thread'[s].pc # "idle" => thread'[s].uuid \in Uuids
      BY <3>1, <3>2, <3>3 DEF AboutPipelines, Quits
    <3>5. \A s \in Threads : thread'[s].pc = "load" => thread'[s].goal \in {"stop", "restart"}
      BY <3>1, <3>2, <3>3 DEF AboutPipelines, Quits
    <3>6. Main = t \/ thread'[Main] = thread[Main]
      BY <3>2
    <3>7. thread'[Main].pc \in {"idle", "load"} \cup StopSteps /\ thread'[Main].goal \in {"none", "stop"}
      BY <3>1, <3>3, <3>6 DEF AboutPipelines, Quits
    <3> QED
      BY <3>4, <3>5, <3>7 DEF AboutPipelines
  <2>4. HeldApart'
    BY <1>0, <1>9, StoreSteps DEF TypeOK, HeldApart, StopsInOrder, StartsInOrder, RegisteredRuns, AboutPipelines
  <2>5. InstancesInOrder'
    BY <1>0, <1>9, StoreSteps DEF TypeOK, InstancesInOrder, StopsInOrder, StartsInOrder, AboutPipelines
  <2>6. RegisteredRuns'
    <3>1. /\ Inst(t) \in 1..made /\ uuidOf[Inst(t)] = Uuid(t) /\ started[Inst(t)] = K /\ closed[Inst(t)] = 0
          /\ Uuid(t) \in Uuids
      BY <1>0, <1>9, StoreSteps DEF StartsInOrder, AboutPipelines
    <3>2. \A s \in Threads : /\ GotOn(s) => GotOn(s)' /\ Inst(s)' = Inst(s)
                             /\ Starts(s)' => Starts(s) /\ Inst(s)' = Inst(s) /\ Inst(s) # Inst(t)
      BY <1>0, <1>9, StoreSteps DEF HeldApart
    <3>3. UNCHANGED <<made, uuidOf, started, closed>> /\ registry' = [registry EXCEPT ![Uuid(t)] = Inst(t)]
      BY <1>0, <1>9, StoreSteps
    <3> HIDE DEF GotOn, Starts
    <3> QED
      BY <1>0, <3>1, <3>2, <3>3 DEF RegisteredRuns, TypeOK
  <2> QED
    BY <1>0, <2>1, <2>2, <2>3, <2>4, <2>5, <2>6
<1>11. ASSUME ShutdownNext PROVE Basics'
  <2>1. StopsInOrder'
    BY <1>0, <1>11, ShutdownSteps DEF TypeOK, StopsInOrder, RegisteredRuns, InstancesInOrder, AboutPipelines, HeldApart
  <2>2. StartsInOrder'
    BY <1>0, <1>11, ShutdownSteps DEF TypeOK, StartsInOrder, InstancesInOrder, HeldApart, StopsInOrder
  <2>3. AboutPipelines'
    BY <1>0, <1>11, ShutdownSteps DEF TypeOK, AboutPipelines
  <2>4. HeldApart'
    BY <1>0, <1>11, ShutdownSteps, SMTT(60) DEF TypeOK, HeldApart, StopsInOrder, StartsInOrder, RegisteredRuns, AboutPipelines
  <2>5. InstancesInOrder'
    BY <1>0, <1>11, ShutdownSteps DEF TypeOK, InstancesInOrder, StopsInOrder, StartsInOrder, AboutPipelines
  <2>6. RegisteredRuns'
    <3>1. \A s \in Threads : /\ GotOn(s) => GotOn(s)' /\ Inst(s)' = Inst(s)
                             /\ Starts(s)' => Starts(s) /\ Inst(s)' = Inst(s)
      BY <1>0, <1>11, ShutdownSteps
    <3>2. UNCHANGED <<registry, made, uuidOf, started, closed>>
      BY <1>0, <1>11, ShutdownSteps
    <3> HIDE DEF GotOn, Starts, Inst
    <3> QED
      BY <1>0, <3>1, <3>2, StaysRegistered
  <2> QED
    BY <1>0, <2>1, <2>2, <2>3, <2>4, <2>5, <2>6
<1>10. CASE Interrupt \/ RangeVisit \/ UNCHANGED vars
  <2>1. UNCHANGED <<registry, made, uuidOf, started, closed, drained, thread>>
    BY <1>10 DEF Interrupt, RangeVisit, vars
  <2>2. StopsInOrder' /\ StartsInOrder' /\ AboutPipelines'
    BY <2>1 DEF StopsInOrder, StartsInOrder, AboutPipelines
  <2>3. HeldApart' /\ InstancesInOrder' /\ RegisteredRuns'
    BY <2>1 DEF HeldApart, InstancesInOrder, RegisteredRuns
  <2> QED
    BY <1>0, <2>2, <2>3
<1> QED
  BY <1>1, <1>2, <1>3, <1>4, <1>5, <1>6, <1>7, <1>8, <1>9, <1>11, <1>10 DEF Next, Step, Done
-----------------------------------------------------------------------------
(***************************************************************************)
(* Of the pipelines no two requests were about at a time, what lives is    *)
(* registered, or about to be.                                             *)
(***************************************************************************)
LEMMA LiveStaysHeld ==
  ASSUME TypeOK, TypeOK', LiveIsHeld, UNCHANGED <<registry, made, uuidOf, started>>, mixed \subseteq mixed',
         \A i \in Instances : drained[i] <= drained'[i],
         \A s \in Clients : Starts(s) => Starts(s)' /\ Inst(s)' = Inst(s)
  PROVE  LiveIsHeld'
<1> USE Constants
<1> SUFFICES ASSUME NEW i \in 1..made, uuidOf[i] \notin mixed, Live(i)'
             PROVE  registry[uuidOf[i]] = i \/ \E t \in Clients : Starts(t)' /\ Inst(t)' = i
  BY DEF LiveIsHeld
<1>1. i \in Instances
  BY DEF TypeOK, Instances
<1>2. Live(i)
  BY <1>1 DEF Live, TypeOK
<1> QED
  BY <1>2 DEF LiveIsHeld

LEMMA UnmixedKept == Basics /\ Unmixed /\ [Next]_vars => Unmixed'
<1> SUFFICES ASSUME Basics, Unmixed, [Next]_vars PROVE Unmixed'
  OBVIOUS
<1>0. TypeOK /\ TypeOK'
  BY TypeKept DEF Basics
<1> USE Constants DEF None, Basics, Unmixed, Stops, Starts, StopSteps, StartSteps, GotOn, Inst, Uuid, Quits, Only, KeepsPipeline, KeepsInstance, instanceVars, plugVars
<1>1. ASSUME NEW t \in Clients, Request(t) PROVE Unmixed'
  <2>1. OneClient'
    BY <1>0, <1>1, RequestSteps DEF TypeOK, OneClient, About, AboutPipelines
  <2>2. LiveIsHeld'
    <3>1. \A s \in Clients : Starts(s) => Starts(s)' /\ Inst(s)' = Inst(s)
      BY <1>0, <1>1, RequestSteps DEF Threads
    <3>2. \A i \in Instances : drained[i] <= drained'[i]
      BY <1>0, <1>1, RequestSteps DEF TypeOK, StopsInOrder
    <3>3. UNCHANGED <<registry, made, uuidOf, started>> /\ mixed \subseteq mixed'
      BY <1>0, <1>1, RequestSteps
    <3> HIDE DEF Starts, Inst
    <3> QED
      BY <1>0, <3>1, <3>2, <3>3, LiveStaysHeld
  <2>3. HeldIsRegistered'
    BY <1>0, <1>1, RequestSteps DEF TypeOK, HeldIsRegistered, HeldApart, OneClient, About, AboutPipelines, StopsInOrder, StartsInOrder, Threads
  <2> QED
    BY <2>1, <2>2, <2>3
<1>2. ASSUME NEW t \in Threads, Load(t) PROVE Unmixed'
  <2>1. OneClient'
    BY <1>0, <1>2, LoadSteps DEF TypeOK, OneClient, About, AboutPipelines
  <2>2. LiveIsHeld'
    <3>1. \A s \in Clients : Starts(s) => Starts(s)' /\ Inst(s)' = Inst(s)
      BY <1>0, <1>2, LoadSteps DEF Threads
    <3>2. \A i \in Instances : drained[i] <= drained'[i]
      BY <1>0, <1>2, LoadSteps DEF TypeOK, StopsInOrder
    <3>3. UNCHANGED <<registry, made, uuidOf, started>> /\ mixed \subseteq mixed'
      BY <1>0, <1>2, LoadSteps
    <3> HIDE DEF Starts, Inst
    <3> QED
      BY <1>0, <3>1, <3>2, <3>3, LiveStaysHeld
  <2>3. HeldIsRegistered'
    BY <1>0, <1>2, LoadSteps DEF TypeOK, HeldIsRegistered, HeldApart, OneClient, About, AboutPipelines, StopsInOrder, StartsInOrder, Threads
  <2> QED
    BY <2>1, <2>2, <2>3
<1>3. ASSUME NEW t \in Threads, Unplug(t) PROVE Unmixed'
  <2>1. OneClient'
    BY <1>0, <1>3, UnplugSteps DEF TypeOK, OneClient, About, AboutPipelines
  <2>2. LiveIsHeld'
    <3>1. \A s \in Clients : Starts(s) => Starts(s)' /\ Inst(s)' = Inst(s)
      BY <1>0, <1>3, UnplugSteps DEF Threads
    <3>2. \A i \in Instances : drained[i] <= drained'[i]
      BY <1>0, <1>3, UnplugSteps DEF TypeOK, StopsInOrder
    <3>3. UNCHANGED <<registry, made, uuidOf, started>> /\ mixed \subseteq mixed'
      BY <1>0, <1>3, UnplugSteps
    <3> HIDE DEF Starts, Inst
    <3> QED
      BY <1>0, <3>1, <3>2, <3>3, LiveStaysHeld
  <2>3. HeldIsRegistered'
    BY <1>0, <1>3, UnplugSteps DEF TypeOK, HeldIsRegistered, HeldApart, OneClient, About, AboutPipelines, StopsInOrder, StartsInOrder, Threads
  <2> QED
    BY <2>1, <2>2, <2>3
<1>4. ASSUME NEW t \in Threads, Close(t) PROVE Unmixed'
  <2>1. OneClient'
    BY <1>0, <1>4, CloseSteps DEF TypeOK, OneClient, About, AboutPipelines
  <2>2. LiveIsHeld'
    <3>1. \A s \in Clients : Starts(s) => Starts(s)' /\ Inst(s)' = Inst(s)
      BY <1>0, <1>4, CloseSteps DEF Threads
    <3>2. \A i \in Instances : drained[i] <= drained'[i]
      BY <1>0, <1>4, CloseSteps DEF TypeOK, StopsInOrder
    <3>3. UNCHANGED <<registry, made, uuidOf, started>> /\ mixed \subseteq mixed'
      BY <1>0, <1>4, CloseSteps
    <3> HIDE DEF Starts, Inst
    <3> QED
      BY <1>0, <3>1, <3>2, <3>3, LiveStaysHeld
  <2>3. HeldIsRegistered'
    BY <1>0, <1>4, CloseSteps DEF TypeOK, HeldIsRegistered, HeldApart, OneClient, About, AboutPipelines, StopsInOrder, StartsInOrder, Threads
  <2> QED
    BY <2>1, <2>2, <2>3
<1>5. ASSUME NEW t \in Threads, Join(t) PROVE Unmixed'
  <2>1. OneClient'
    BY <1>0, <1>5, JoinSteps DEF TypeOK, OneClient, About, AboutPipelines
  <2>2. LiveIsHeld'
    <3>1. \A s \in Clients : Starts(s) => Starts(s)' /\ Inst(s)' = Inst(s)
      BY <1>0, <1>5, JoinSteps DEF Threads
    <3>2. \A i \in Instances : drained[i] <= drained'[i]
      BY <1>0, <1>5, JoinSteps DEF TypeOK, StopsInOrder
    <3>3. UNCHANGED <<registry, made, uuidOf, started>> /\ mixed \subseteq mixed'
      BY <1>0, <1>5, JoinSteps
    <3> HIDE DEF Starts, Inst
    <3> QED
      BY <1>0, <3>1, <3>2, <3>3, LiveStaysHeld
  <2>3. HeldIsRegistered'
    BY <1>0, <1>5, JoinSteps DEF TypeOK, HeldIsRegistered, HeldApart, OneClient, About, AboutPipelines, StopsInOrder, StartsInOrder, Threads
  <2> QED
    BY <2>1, <2>2, <2>3
<1>6. ASSUME NEW t \in Threads, Delete(t) PROVE Unmixed'
  <2>1. OneClient'
    BY <1>0, <1>6, DeleteSteps DEF TypeOK, OneClient, About, AboutPipelines
  <2>2. LiveIsHeld'
    <3> SUFFICES ASSUME NEW i \in 1..made, uuidOf[i] \notin mixed, Live(i)
                 PROVE  registry'[uuidOf[i]] = i \/ \E s \in Clients : Starts(s)' /\ Inst(s)' = i
      BY <1>6, DeleteSteps DEF LiveIsHeld, Live
    <3>1. GotOn(t) /\ drained[Inst(t)] = K /\ Uuid(t) \in Uuids
      BY <1>6, DeleteSteps DEF StopsInOrder, AboutPipelines
    <3>2. CASE registry[uuidOf[i]] = i
      <4>1. ASSUME uuidOf[i] = Uuid(t) PROVE FALSE
        <5>1. registry[Uuid(t)] = Inst(t)
          BY <3>1, <4>1 DEF HeldIsRegistered
        <5>2. drained[i] = K
          BY <3>1, <3>2, <4>1, <5>1
        <5> QED
          BY <5>2 DEF Live
      <4>2. uuidOf[i] \in Uuids
        BY <1>0 DEF InstancesInOrder, TypeOK, Instances
      <4>3. registry'[uuidOf[i]] = registry[uuidOf[i]]
        BY <1>0, <1>6, DeleteSteps, <4>1, <4>2 DEF TypeOK
      <4> QED
        BY <3>2, <4>3
    <3>3. CASE \E s \in Clients : Starts(s) /\ Inst(s) = i
      BY <1>6, <3>3, DeleteSteps DEF Threads
    <3> QED
      BY <3>2, <3>3 DEF LiveIsHeld
  <2>3. HeldIsRegistered'
    BY <1>0, <1>6, DeleteSteps DEF TypeOK, HeldIsRegistered, HeldApart, OneClient, About, AboutPipelines, StopsInOrder, StartsInOrder, Threads
  <2> QED
    BY <2>1, <2>2, <2>3
<1>7. ASSUME NEW t \in Threads, Check(t) PROVE Unmixed'
  <2>1. OneClient'
    BY <1>0, <1>7, CheckSteps DEF TypeOK, OneClient, About, AboutPipelines
  <2>2. LiveIsHeld'
    <3>1. \A s \in Clients : Starts(s) => Starts(s)' /\ Inst(s)' = Inst(s)
      BY <1>7, CheckSteps DEF Threads
    <3>2. CASE UNCHANGED <<made, uuidOf>>
      BY <1>0, <1>7, <3>1, <3>2, CheckSteps DEF LiveIsHeld, Live
    <3>3. CASE made < MaxInstances /\ made' = made + 1 /\ uuidOf' = [uuidOf EXCEPT ![made + 1] = Uuid(t)]
      <4> SUFFICES ASSUME NEW i \in 1..made', uuidOf'[i] \notin mixed, Live(i)
                   PROVE  registry[uuidOf'[i]] = i \/ \E s \in Clients : Starts(s)' /\ Inst(s)' = i
        BY <1>7, CheckSteps DEF LiveIsHeld, Live
      <4>1. i \in Instances /\ i # made + 1
        BY <1>0, <3>3, SMTT(60) DEF InstancesInOrder, TypeOK, Instances, Live
      <4>2. i \in 1..made /\ uuidOf'[i] = uuidOf[i]
        BY <1>0, <3>3, <4>1 DEF TypeOK
      <4> QED
        BY <3>1, <4>2 DEF LiveIsHeld
    <3> QED
      BY <1>7, <3>2, <3>3, CheckSteps
  <2>3. HeldIsRegistered'
    BY <1>0, <1>7, CheckSteps DEF TypeOK, HeldIsRegistered, HeldApart, OneClient, About, AboutPipelines, StopsInOrder, StartsInOrder, Threads
  <2> QED
    BY <2>1, <2>2, <2>3
<1>8. ASSUME NEW t \in Threads, Plug(t) PROVE Unmixed'
  <2>1. OneClient'
    BY <1>0, <1>8, PlugSteps, SMTT(60) DEF TypeOK, OneClient, About, AboutPipelines
  <2>2. LiveIsHeld'
    <3>1. t \in Clients /\ Starts(t)' /\ Inst(t)' = Inst(t)
      BY <1>8, PlugSteps DEF AboutPipelines, Threads
    <3>2. \A s \in Clients : Starts(s) => Starts(s)' /\ Inst(s)' = Inst(s)
      BY <1>8, PlugSteps DEF Threads
    <3> SUFFICES ASSUME NEW i \in 1..made, uuidOf[i] \notin mixed, Live(i)', i # Inst(t)
                 PROVE  registry[uuidOf[i]] = i \/ \E s \in Clients : Starts(s)' /\ Inst(s)' = i
      BY <1>8, <3>1, PlugSteps DEF LiveIsHeld
    <3>3. Live(i)
      <4>1. i \in Instances /\ Inst(t) \in Instances
        <5>1. Starts(t)
          BY <1>0, <1>8, PlugSteps
        <5>2. Inst(t) \in 1..made /\ made \in 0..MaxInstances
          BY <1>0, <5>1 DEF TypeOK, StartsInOrder
        <5> HIDE DEF Inst
        <5> QED
          BY <5>2 DEF Instances
      <4>2. started'[i] = started[i] /\ drained'[i] = drained[i]
        BY <1>0, <1>8, <4>1, PlugSteps DEF TypeOK
      <4> QED
        BY <4>2 DEF Live
    <3> QED
      BY <3>2, <3>3 DEF LiveIsHeld
  <2>3. HeldIsRegistered'
    BY <1>0, <1>8, PlugSteps DEF TypeOK, HeldIsRegistered, HeldApart, OneClient, About, AboutPipelines, StopsInOrder, StartsInOrder, Threads
  <2> QED
    BY <2>1, <2>2, <2>3
<1>9. ASSUME NEW t \in Threads, Store(t) PROVE Unmixed'
  <2>1. OneClient'
    BY <1>0, <1>9, StoreSteps DEF TypeOK, OneClient, About, AboutPipelines
  <2>2. LiveIsHeld'
    <3>1. t \in Clients /\ Starts(t) /\ Uuid(t) \in Uuids /\ uuidOf[Inst(t)] = Uuid(t)
      BY <1>9, StoreSteps DEF AboutPipelines, Threads, StartsInOrder
    <3>2. \A s \in Clients \ {t} : /\ thread'[s] = thread[s]
                                 /\ Starts(s) => Uuid(s) = uuidOf[Inst(s)] /\ s \in About(Uuid(s))
      BY <1>9, StoreSteps DEF StartsInOrder, About, Threads
    <3>4. UNCHANGED <<made, uuidOf, started, drained, mixed>> /\ registry' = [registry EXCEPT ![Uuid(t)] = Inst(t)]
      BY <1>9, StoreSteps
    <3>5. Uuid(t) \notin mixed => registry[Uuid(t)] = None
      BY <3>1, <1>0 DEF HeldIsRegistered, Threads
    <3> SUFFICES ASSUME NEW i \in 1..made, uuidOf[i] \notin mixed, Live(i)
                 PROVE  registry'[uuidOf[i]] = i \/ \E s \in Clients : Starts(s)' /\ Inst(s)' = i
      BY <3>4 DEF LiveIsHeld, Live
    <3>6. uuidOf[i] \in Uuids /\ i # 0
      BY <1>0 DEF InstancesInOrder, TypeOK, Instances
    <3>7. CASE uuidOf[i] = Uuid(t)
      <4>1. PICK s \in Clients : Starts(s) /\ Inst(s) = i
        BY <3>5, <3>7, <3>6 DEF LiveIsHeld
      <4>2. s = t
        BY <3>1, <3>2, <3>6, <3>7, <4>1, <1>9, StoreSteps DEF OneClient, About
      <4> QED
        BY <1>0, <3>1, <3>4, <4>1, <4>2 DEF TypeOK
    <3>8. CASE uuidOf[i] # Uuid(t)
      <4>1. registry'[uuidOf[i]] = registry[uuidOf[i]]
        BY <1>0, <3>4, <3>6, <3>8 DEF TypeOK
      <4>2. ASSUME NEW s \in Clients, Starts(s), Inst(s) = i PROVE Starts(s)' /\ Inst(s)' = i
        <5>1. s # t
          <6>1. Inst(t) # i
            BY <3>1, <3>8
          <6> QED
            BY <4>2, <6>1
        <5>2. thread'[s] = thread[s]
          BY <1>9, StoreSteps, <5>1 DEF Threads
        <5> QED
          BY <4>2, <5>2
      <4>3. registry[uuidOf[i]] = i \/ \E s \in Clients : Starts(s) /\ Inst(s) = i
        BY DEF LiveIsHeld
      <4> HIDE DEF Starts, Inst
      <4> QED
        BY <4>1, <4>2, <4>3
    <3> QED
      BY <3>7, <3>8
  <2>3. HeldIsRegistered'
    BY <1>0, <1>9, StoreSteps DEF TypeOK, HeldIsRegistered, HeldApart, OneClient, About, AboutPipelines, StopsInOrder, StartsInOrder, Threads
  <2> QED
    BY <2>1, <2>2, <2>3
<1>10. ASSUME ShutdownNext PROVE Unmixed'
  <2>1. OneClient'
    BY <1>0, <1>10, ShutdownSteps DEF TypeOK, OneClient, About, AboutPipelines
  <2>2. LiveIsHeld'
    <3>1. \A s \in Clients : Starts(s) => Starts(s)' /\ Inst(s)' = Inst(s)
      BY <1>0, <1>10, ShutdownSteps DEF Threads
    <3>2. \A i \in Instances : drained[i] <= drained'[i]
      BY <1>0, <1>10, ShutdownSteps DEF TypeOK, StopsInOrder
    <3>3. UNCHANGED <<registry, made, uuidOf, started>> /\ mixed \subseteq mixed'
      BY <1>0, <1>10, ShutdownSteps
    <3> HIDE DEF Starts, Inst
    <3> QED
      BY <1>0, <3>1, <3>2, <3>3, LiveStaysHeld
  <2>3. HeldIsRegistered'
    BY <1>0, <1>10, ShutdownSteps DEF TypeOK, HeldIsRegistered, HeldApart, OneClient, About, AboutPipelines, StopsInOrder, StartsInOrder, Threads
  <2> QED
    BY <2>1, <2>2, <2>3
<1>11. CASE Interrupt \/ RangeVisit \/ UNCHANGED vars
  <2>1. UNCHANGED <<registry, made, uuidOf, started, closed, drained, thread, mixed>>
    BY <1>11 DEF Interrupt, RangeVisit, vars
  <2> QED
    BY <2>1 DEF OneClient, LiveIsHeld, HeldIsRegistered, About, Live
<1> QED
  BY <1>1, <1>2, <1>3, <1>4, <1>5, <1>6, <1>7, <1>8, <1>9, <1>10, <1>11 DEF Next, Step, Done
-----------------------------------------------------------------------------
(***************************************************************************)
(* What unplugging and plugging do to the routes and the jobs.             *)
(***************************************************************************)
Named(t) == {j \in jobs : j.name = <<Uuid(t), LabelOf[Uuid(t)][thread[t].k]>>}
Urls(t) ==
  LET hook == HookOf[Uuid(t)][thread[t].k] IN
  IF hook = NoHook THEN {} ELSE {LongUrl(Uuid(t), hook), ShortUrl(hook)}

LEMMA UnplugPlugs ==
  ASSUME NEW t \in Threads, Unplug(t)
  PROVE  /\ DOMAIN routes' = DOMAIN routes \ Urls(t)
         /\ \A url \in DOMAIN routes' : routes'[url] = routes[url]
         /\ \/ Named(t) = {} /\ jobs' = jobs
            \/ \E j \in Named(t) : jobs' = jobs \ {j}
BY DEF Unplug, UnplugWith, Urls, Named, Without

LEMMA PlugPlugs ==
  ASSUME NEW t \in Threads, Plug(t)
  PROVE  LET u == Uuid(t)  k == thread[t].k  a == <<Inst(t), thread[t].k>> IN
         /\ HookOf[u][k] = NoHook => routes' = routes
         /\ HookOf[u][k] # NoHook =>
              /\ DOMAIN routes' = DOMAIN routes \cup {Url(u, k)} /\ routes'[Url(u, k)] = a
              /\ \A url \in DOMAIN routes \ {Url(u, k)} : routes'[url] = routes[url]
         /\ jobs' = IF <<u, k>> \in Scheduled
                    THEN jobs \cup {[name |-> <<u, LabelOf[u][k]>>, agent |-> a]} ELSE jobs
<1> DEFINE u == Uuid(t)
           k == thread[t].k
           a == <<Inst(t), thread[t].k>>
<1>1. /\ routes' = IF HookOf[u][k] = NoHook THEN routes
                   ELSE [url \in DOMAIN routes \cup {Url(u, k)} |-> IF url = Url(u, k) THEN a ELSE routes[url]]
      /\ jobs' = IF <<u, k>> \in Scheduled
                 THEN jobs \cup {[name |-> <<u, LabelOf[u][k]>>, agent |-> a]} ELSE jobs
  BY DEF Plug, PlugWith
<1> HIDE DEF u, k, a
<1>2. HookOf[u][k] # NoHook =>
              /\ DOMAIN routes' = DOMAIN routes \cup {Url(u, k)} /\ routes'[Url(u, k)] = a
              /\ \A url \in DOMAIN routes \ {Url(u, k)} : routes'[url] = routes[url]
  BY <1>1
<1> QED
  BY <1>1, <1>2 DEF u, k, a

-----------------------------------------------------------------------------
(***************************************************************************)
(* Every route leads to an agent that takes what comes.                    *)
(***************************************************************************)
LEMMA RoutesStay ==
  ASSUME TypeOK, RoutesLead, UNCHANGED <<routes, made, uuidOf, started, closed>>,
         \A s \in Threads : thread'[s].pc = "close" => thread'[s] = thread[s]
  PROVE  RoutesLead'
BY DEF RoutesLead, RouteTo, Inst

LEMMA RoutesLeadKept == Basics /\ RoutesLead /\ [Next]_vars => RoutesLead'
<1> SUFFICES ASSUME Basics, RoutesLead, [Next]_vars PROVE RoutesLead'
  OBVIOUS
<1>0. TypeOK /\ TypeOK'
  BY TypeKept DEF Basics
<1> USE Constants DEF None, Quits, Only, instanceVars, plugVars
<1>1. ASSUME NEW t \in Clients, Request(t) PROVE RoutesLead'
  <2>1. \A s \in Threads : thread'[s].pc = "close" => thread'[s] = thread[s]
    BY <1>0, <1>1, RequestSteps DEF Threads
  <2>2. UNCHANGED <<routes, made, uuidOf, started, closed>>
    BY <1>0, <1>1, RequestSteps
  <2> QED
    BY <1>0, <2>1, <2>2, RoutesStay
<1>2. ASSUME NEW t \in Threads, Load(t) PROVE RoutesLead'
  <2>1. \A s \in Threads : thread'[s].pc = "close" => thread'[s] = thread[s]
    BY <1>0, <1>2, LoadSteps DEF Threads
  <2>2. UNCHANGED <<routes, made, uuidOf, started, closed>>
    BY <1>0, <1>2, LoadSteps
  <2> QED
    BY <1>0, <2>1, <2>2, RoutesStay
<1>3. ASSUME NEW t \in Threads, Unplug(t) PROVE RoutesLead'
  <2> SUFFICES ASSUME NEW url \in DOMAIN routes'
               PROVE  \E i \in 1..made, k \in 1..K : routes'[url] = <<i, k>> /\ RouteTo(url, i, k)'
    BY <1>0, <1>3, UnplugSteps DEF RoutesLead
  <2>1. PICK i \in 1..made, k \in 1..K : routes[url] = <<i, k>> /\ RouteTo(url, i, k)
    BY <1>3, UnplugPlugs DEF RoutesLead
  <2>2. routes'[url] = <<i, k>> /\ url \notin Urls(t)
    BY <1>3, <2>1, UnplugPlugs
  <2>3. thread'[t].k = thread[t].k /\ thread'[t].inst = thread[t].inst
    BY <1>0, <1>3, UnplugSteps DEF KeepsInstance
  <2>4. ASSUME Inst(t) = i PROVE thread[t].k # k
    <3>1. uuidOf[i] = Uuid(t)
      BY <1>0, <1>3, <2>4, UnplugSteps DEF Basics, StopsInOrder, Stops, StopSteps
    <3> QED
      BY <2>1, <2>2, <3>1 DEF RouteTo, Url, Urls
  <2>5. \A s \in Threads : thread'[s].pc = "close" /\ thread'[s].inst = i => thread'[s].k # k
    BY <1>0, <1>3, <2>1, <2>3, <2>4, UnplugSteps DEF RouteTo, Inst
  <2>6. UNCHANGED <<uuidOf, started, closed>>
    BY <1>0, <1>3, UnplugSteps
  <2>7. RouteTo(url, i, k)'
    BY <2>1, <2>5, <2>6 DEF RouteTo, Inst
  <2> QED
    BY <2>2, <2>7
<1>4. ASSUME NEW t \in Threads, Close(t) PROVE RoutesLead'
  <2>1. CASE Quits(t) /\ UNCHANGED closed
    <3>1. \A s \in Threads : thread'[s].pc = "close" => thread'[s] = thread[s]
      BY <1>0, <1>4, <2>1, CloseSteps
    <3>2. UNCHANGED <<routes, made, uuidOf, started, closed>>
      BY <1>0, <1>4, <2>1, CloseSteps
    <3> QED
      BY <1>0, <3>1, <3>2, RoutesStay
  <2>2. CASE /\ ~(closed[Inst(t)] >= thread[t].k) /\ closed' = [closed EXCEPT ![Inst(t)] = thread[t].k]
             /\ thread'[t].pc = "join"
    <3>1. UNCHANGED <<routes, made, uuidOf, started>>
      BY <1>0, <1>4, CloseSteps
    <3>2. \A s \in Threads : thread'[s].pc = "close" => thread'[s] = thread[s]
      BY <1>0, <1>4, <2>2, CloseSteps
    <3>3. thread[t].pc = "close" /\ closed[Inst(t)] = thread[t].k - 1 /\ Inst(t) \in Instances
      <4>1. thread[t].pc = "close"
        BY <1>0, <1>4, CloseSteps
      <4>2. /\ Inst(t) \in 1..made /\ thread[t].k \in 1..K
            /\ closed[Inst(t)] = thread[t].k - 1 \/ (thread[t].k = 1 /\ closed[Inst(t)] > 0)
        BY <4>1 DEF Basics, StopsInOrder, Stops, StopSteps
      <4>3. Inst(t) \in Instances
        BY <1>0, <4>2 DEF TypeOK, Instances
      <4>4. closed[Inst(t)] \in 0..K
        BY <1>0, <4>3 DEF TypeOK
      <4> QED
        BY <2>2, <4>1, <4>2, <4>3, <4>4
    <3> SUFFICES ASSUME NEW url \in DOMAIN routes
                 PROVE  \E i \in 1..made, k \in 1..K : routes[url] = <<i, k>> /\ RouteTo(url, i, k)'
      BY <3>1 DEF RoutesLead
    <3>4. PICK i \in 1..made, k \in 1..K : routes[url] = <<i, k>> /\ RouteTo(url, i, k)
      BY DEF RoutesLead
    <3>5. i \in Instances
      BY <1>0 DEF TypeOK, Instances
    <3>6. closed'[i] < k
      <4>1. CASE i = Inst(t)
        <5>1. thread[t].k # k /\ closed[i] < k
          BY <3>3, <3>4, <4>1 DEF RouteTo
        <5>2. closed'[i] = thread[t].k /\ closed[i] = thread[t].k - 1 /\ thread[t].k \in 0..K
          BY <1>0, <2>2, <3>3, <3>5, <4>1 DEF TypeOK
        <5> QED
          BY <5>1, <5>2
      <4>2. CASE i # Inst(t)
        BY <1>0, <2>2, <3>4, <3>5, <4>2 DEF TypeOK, RouteTo
      <4> QED
        BY <4>1, <4>2
    <3>7. RouteTo(url, i, k)'
      BY <3>1, <3>2, <3>4, <3>6 DEF RouteTo, Inst
    <3> QED
      BY <3>4, <3>7
  <2> QED
    BY <1>0, <1>4, <2>1, <2>2, CloseSteps
<1>5. ASSUME NEW t \in Threads, Join(t) PROVE RoutesLead'
  <2>1. \A s \in Threads : thread'[s].pc = "close" => thread'[s] = thread[s]
    BY <1>0, <1>5, JoinSteps DEF Threads
  <2>2. UNCHANGED <<routes, made, uuidOf, started, closed>>
    BY <1>0, <1>5, JoinSteps
  <2> QED
    BY <1>0, <2>1, <2>2, RoutesStay
<1>6. ASSUME NEW t \in Threads, Delete(t) PROVE RoutesLead'
  <2>1. \A s \in Threads : thread'[s].pc = "close" => thread'[s] = thread[s]
    BY <1>0, <1>6, DeleteSteps DEF Threads
  <2>2. UNCHANGED <<routes, made, uuidOf, started, closed>>
    BY <1>0, <1>6, DeleteSteps
  <2> QED
    BY <1>0, <2>1, <2>2, RoutesStay
<1>7. ASSUME NEW t \in Threads, Check(t) PROVE RoutesLead'
  <2>1. CASE UNCHANGED <<made, uuidOf>>
    BY <1>0, <1>7, <2>1, CheckSteps, RoutesStay
  <2>2. CASE made < MaxInstances /\ made' = made + 1 /\ uuidOf' = [uuidOf EXCEPT ![made + 1] = Uuid(t)]
    <3> SUFFICES ASSUME NEW url \in DOMAIN routes
                 PROVE  \E i \in 1..made', k \in 1..K : routes[url] = <<i, k>> /\ RouteTo(url, i, k)'
      BY <1>0, <1>7, CheckSteps DEF RoutesLead
    <3>1. PICK i \in 1..made, k \in 1..K : routes[url] = <<i, k>> /\ RouteTo(url, i, k)
      BY DEF RoutesLead
    <3>2. uuidOf'[i] = uuidOf[i] /\ i \in 1..made'
      BY <1>0, <2>2 DEF TypeOK, Instances
    <3>3. \A s \in Threads : thread'[s].pc = "close" => thread'[s] = thread[s]
      BY <1>0, <1>7, CheckSteps
    <3>4. UNCHANGED <<started, closed>>
      BY <1>0, <1>7, CheckSteps
    <3>5. RouteTo(url, i, k)'
      BY <3>1, <3>2, <3>3, <3>4 DEF RouteTo, Inst
    <3> QED
      BY <3>1, <3>2, <3>5
  <2> QED
    BY <1>0, <1>7, <2>1, <2>2, CheckSteps
<1>8. ASSUME NEW t \in Threads, Plug(t) PROVE RoutesLead'
  <2>1. /\ Inst(t) \in 1..made /\ uuidOf[Inst(t)] = Uuid(t) /\ closed[Inst(t)] = 0
        /\ thread[t].k \in 1..K /\ started[Inst(t)] = K - thread[t].k /\ Uuid(t) \in Uuids
    BY <1>0, <1>8, PlugSteps DEF Basics, StartsInOrder, Starts, StartSteps, AboutPipelines
  <2>2. PICK h \in 1..made, n \in 1..K, u \in Uuids : h = Inst(t) /\ n = thread[t].k /\ u = Uuid(t)
    BY <2>1
  <2>3. \A s \in Threads : thread'[s].pc = "close" => thread'[s] = thread[s] /\ Inst(s) # h
    BY <1>0, <1>8, <2>2, PlugSteps DEF Basics, HeldApart, Starts, StartSteps, Stops, StopSteps
  <2>4. UNCHANGED <<made, uuidOf, closed>> /\ started' = [started EXCEPT ![h] = K - n + 1]
    BY <1>0, <1>8, <2>1, <2>2, PlugSteps
  <2>5. \A i \in 1..made : K - started'[i] <= K - started[i]
    <3> SUFFICES ASSUME NEW i \in 1..made PROVE K - started'[i] <= K - started[i]
      OBVIOUS
    <3>1. i \in Instances /\ started[i] \in 0..K
      BY <1>0 DEF TypeOK, Instances
    <3>2. CASE i = h
      <4>1. started[i] = K - n /\ started'[i] = K - n + 1
        BY <1>0, <2>1, <2>2, <2>4, <3>1, <3>2 DEF TypeOK
      <4> QED
        BY <4>1
    <3>3. CASE i # h
      <4>1. started'[i] = started[i]
        BY <1>0, <2>4, <3>1, <3>3 DEF TypeOK
      <4> QED
        BY <3>1, <4>1
    <3> QED
      BY <3>2, <3>3
  <2>6. ASSUME NEW url \in DOMAIN routes, routes'[url] = routes[url]
        PROVE  \E i \in 1..made, k \in 1..K : routes'[url] = <<i, k>> /\ RouteTo(url, i, k)'
    <3>1. PICK i \in 1..made, k \in 1..K : routes[url] = <<i, k>> /\ RouteTo(url, i, k)
      BY DEF RoutesLead
    <3>2. k > K - started'[i]
      <4>1. started[i] \in 0..K /\ started'[i] \in 0..K
        BY <1>0 DEF TypeOK, Instances
      <4>2. k > K - started[i]
        BY <3>1 DEF RouteTo
      <4> QED
        BY <2>5, <4>1, <4>2
    <3>3. RouteTo(url, i, k)'
      BY <2>3, <2>4, <3>1, <3>2 DEF RouteTo, Inst
    <3> QED
      BY <2>6, <3>1, <3>3
  <2>7. ASSUME HookOf[u][n] # NoHook PROVE RouteTo(Url(u, n), h, n)'
    <3>1. n > K - started'[h] /\ uuidOf'[h] = u /\ closed'[h] = 0
      BY <1>0, <2>1, <2>2, <2>4, SMTT(60) DEF TypeOK, Instances
    <3>2. \A s \in Threads : thread'[s].pc = "close" => thread'[s].inst # h
      BY <2>3 DEF Inst
    <3> QED
      BY <2>7, <3>1, <3>2 DEF RouteTo, Inst
  <2>8. /\ HookOf[u][n] = NoHook => routes' = routes
        /\ HookOf[u][n] # NoHook =>
             /\ DOMAIN routes' = DOMAIN routes \cup {Url(u, n)} /\ routes'[Url(u, n)] = <<h, n>>
             /\ \A url \in DOMAIN routes \ {Url(u, n)} : routes'[url] = routes[url]
    BY <1>8, <2>2, PlugPlugs
  <2> SUFFICES ASSUME NEW url \in DOMAIN routes'
               PROVE  \E i \in 1..made, k \in 1..K : routes'[url] = <<i, k>> /\ RouteTo(url, i, k)'
    BY <2>4 DEF RoutesLead
  <2>9. CASE url \in DOMAIN routes /\ routes'[url] = routes[url]
    BY <2>6, <2>9
  <2>10. CASE HookOf[u][n] # NoHook /\ url = Url(u, n)
    BY <2>7, <2>8, <2>10
  <2> QED
    BY <2>8, <2>9, <2>10
<1>9. ASSUME NEW t \in Threads, Store(t) PROVE RoutesLead'
  <2>1. \A s \in Threads : thread'[s].pc = "close" => thread'[s] = thread[s]
    BY <1>0, <1>9, StoreSteps DEF Threads
  <2>2. UNCHANGED <<routes, made, uuidOf, started, closed>>
    BY <1>0, <1>9, StoreSteps
  <2> QED
    BY <1>0, <2>1, <2>2, RoutesStay
<1>10. ASSUME ShutdownNext PROVE RoutesLead'
  <2>1. \A s \in Threads : thread'[s].pc = "close" => thread'[s] = thread[s]
    BY <1>0, <1>10, ShutdownSteps DEF Threads
  <2>2. UNCHANGED <<routes, made, uuidOf, started, closed>>
    BY <1>0, <1>10, ShutdownSteps
  <2> QED
    BY <1>0, <2>1, <2>2, RoutesStay
<1>11. CASE Interrupt \/ RangeVisit \/ UNCHANGED vars
  <2>1. UNCHANGED <<routes, made, uuidOf, started, closed, thread>>
    BY <1>11 DEF Interrupt, RangeVisit, vars
  <2> QED
    BY <1>0, <2>1, RoutesStay
<1> QED
  BY <1>1, <1>2, <1>3, <1>4, <1>5, <1>6, <1>7, <1>8, <1>9, <1>10, <1>11 DEF Next, Step, Done
-----------------------------------------------------------------------------
(***************************************************************************)
(* Only what is registered is stopped, where no start replaced it.         *)
(***************************************************************************)
LEMMA StopsStay ==
  ASSUME StopsTheRegistered, UNCHANGED registry, doubled \subseteq doubled',
         \A i \in Instances : closed[i] > 0 => closed'[i] > 0,
         \A t \in Threads : Stops(t)' => Stops(t) /\ Uuid(t)' = Uuid(t) /\ Inst(t)' = Inst(t) /\ Inst(t) \in Instances,
         \A t \in Threads : GotOn(t)' => GotOn(t)
  PROVE  StopsTheRegistered'
<1> SUFFICES ASSUME NEW t \in Threads, Uuid(t)' \notin doubled'
             PROVE  /\ GotOn(t)' => registry'[Uuid(t)'] = Inst(t)'
                    /\ Stops(t)' => registry'[Uuid(t)'] = Inst(t)' \/ closed'[Inst(t)'] > 0
  BY DEF StopsTheRegistered
<1>1. GotOn(t)' => Stops(t)'
  BY DEF GotOn, Stops, StopSteps
<1> QED
  BY <1>1 DEF StopsTheRegistered

LEMMA StopsKept == Basics /\ StopsTheRegistered /\ [Next]_vars => StopsTheRegistered'
<1> SUFFICES ASSUME Basics, StopsTheRegistered, [Next]_vars PROVE StopsTheRegistered'
  OBVIOUS
<1> USE Constants DEF None, Quits, Only, KeepsPipeline, KeepsInstance, instanceVars, plugVars
<1>0. TypeOK
  BY DEF Basics
<1>a. \A i \in 1..made : i \in Instances /\ i # 0
  BY <1>0 DEF TypeOK, Instances
<1>b. \A t \in Threads : Stops(t) => Inst(t) \in Instances /\ Inst(t) # 0 /\ uuidOf[Inst(t)] = Uuid(t)
  BY <1>a DEF Basics, StopsInOrder
<1>1. ASSUME NEW t \in Clients, Request(t) PROVE StopsTheRegistered'
  <2>1. \A s \in Threads : (Stops(s)' => Stops(s) /\ Uuid(s)' = Uuid(s) /\ Inst(s)' = Inst(s)) /\ (GotOn(s)' => GotOn(s))
    BY <1>0, <1>1, RequestSteps DEF Stops, StopSteps, GotOn, Uuid, Inst, Threads
  <2>2. UNCHANGED <<registry, doubled, closed>>
    BY <1>0, <1>1, RequestSteps
  <2> HIDE DEF Quits, Only
  <2> QED
    BY <1>b, <2>1, <2>2, StopsStay
<1>2. ASSUME NEW t \in Threads, Load(t) PROVE StopsTheRegistered'
  <2> SUFFICES ASSUME NEW s \in Threads, Uuid(s)' \notin doubled'
               PROVE  /\ GotOn(s)' => registry'[Uuid(s)'] = Inst(s)'
                      /\ Stops(s)' => registry'[Uuid(s)'] = Inst(s)' \/ closed'[Inst(s)'] > 0
    BY DEF StopsTheRegistered
  <2>1. UNCHANGED <<registry, doubled, closed>>
    BY <1>0, <1>2, LoadSteps
  <2>2. CASE s # t
    BY <1>0, <1>2, <2>1, <2>2, LoadSteps DEF StopsTheRegistered, Stops, GotOn, Uuid, Inst
  <2>3. CASE s = t
    BY <1>0, <1>2, <2>1, <2>3, LoadSteps DEF Stops, StopSteps, GotOn, Uuid, Inst
  <2> QED
    BY <2>2, <2>3
<1>3. ASSUME NEW t \in Threads, Unplug(t) PROVE StopsTheRegistered'
  <2>1. \A s \in Threads : (Stops(s)' => Stops(s) /\ Uuid(s)' = Uuid(s) /\ Inst(s)' = Inst(s)) /\ (GotOn(s)' => GotOn(s))
    BY <1>0, <1>3, UnplugSteps DEF Stops, StopSteps, GotOn, Uuid, Inst
  <2>2. UNCHANGED <<registry, doubled, closed>>
    BY <1>0, <1>3, UnplugSteps
  <2> HIDE DEF Quits, Only
  <2> QED
    BY <1>b, <2>1, <2>2, StopsStay
<1>4. ASSUME NEW t \in Threads, Close(t) PROVE StopsTheRegistered'
  <2> SUFFICES ASSUME NEW s \in Threads, Uuid(s)' \notin doubled'
               PROVE  /\ GotOn(s)' => registry'[Uuid(s)'] = Inst(s)'
                      /\ Stops(s)' => registry'[Uuid(s)'] = Inst(s)' \/ closed'[Inst(s)'] > 0
    BY DEF StopsTheRegistered
  <2>1. UNCHANGED <<registry, doubled>> /\ Stops(t)
    BY <1>0, <1>4, CloseSteps DEF Stops, StopSteps
  <2>2. thread[t].k \in 1..K /\ Inst(t) \in Instances
    BY <1>b, <2>1 DEF Basics, StopsInOrder
  <2>3. \A i \in Instances : closed[i] > 0 => closed'[i] > 0
    BY <1>0, <1>4, <2>2, CloseSteps DEF TypeOK
  <2>4. CASE s # t
    <3>1. thread'[s] = thread[s]
      BY <1>0, <1>4, <2>4, CloseSteps
    <3>2. /\ Uuid(s)' = Uuid(s) /\ Inst(s)' = Inst(s)
          /\ Stops(s)' <=> Stops(s)
          /\ GotOn(s)' <=> GotOn(s)
      BY <3>1 DEF Stops, GotOn, Uuid, Inst
    <3> HIDE DEF Stops, GotOn, Uuid, Inst
    <3> QED
      BY <1>b, <2>1, <2>3, <3>2 DEF StopsTheRegistered
  <2>5. CASE s = t
    <3>1. CASE closed[Inst(t)] >= thread[t].k
      BY <1>0, <1>4, <2>5, <3>1, CloseSteps DEF Stops, StopSteps, GotOn
    <3>2. CASE ~(closed[Inst(t)] >= thread[t].k)
      <4>1. Uuid(t)' = Uuid(t) /\ Inst(t)' = Inst(t)
        BY <1>0, <1>4, <3>2, CloseSteps DEF Uuid, Inst
      <4>2. thread[t].k > 1 => GotOn(t)
        BY <1>0, <1>4, CloseSteps DEF GotOn
      <4>3. thread[t].k = 1 => ~(closed[Inst(t)] > 0)
        <5>1. closed[Inst(t)] \in 0..K
          BY <1>0, <2>2 DEF TypeOK
        <5> QED
          BY <3>2, <5>1
      <4>4. registry[Uuid(t)] = Inst(t)
        BY <2>1, <2>2, <2>5, <4>1, <4>2, <4>3 DEF StopsTheRegistered
      <4> QED
        BY <2>1, <2>5, <4>1, <4>4
    <3> QED
      BY <3>1, <3>2
  <2> QED
    BY <2>4, <2>5
<1>5. ASSUME NEW t \in Threads, Join(t) PROVE StopsTheRegistered'
  <2>1. \A s \in Threads : (Stops(s)' => Stops(s) /\ Uuid(s)' = Uuid(s) /\ Inst(s)' = Inst(s)) /\ (GotOn(s)' => GotOn(s))
    BY <1>0, <1>5, JoinSteps DEF Stops, StopSteps, GotOn, Uuid, Inst
  <2>2. UNCHANGED <<registry, doubled, closed>>
    BY <1>0, <1>5, JoinSteps
  <2> HIDE DEF Quits, Only
  <2> QED
    BY <1>b, <2>1, <2>2, StopsStay
<1>6. ASSUME NEW t \in Threads, Delete(t) PROVE StopsTheRegistered'
  <2> SUFFICES ASSUME NEW s \in Threads, Uuid(s)' \notin doubled'
               PROVE  /\ GotOn(s)' => registry'[Uuid(s)'] = Inst(s)'
                      /\ Stops(s)' => registry'[Uuid(s)'] = Inst(s)' \/ closed'[Inst(s)'] > 0
    BY DEF StopsTheRegistered
  <2>1. UNCHANGED <<doubled, closed>> /\ registry' = [registry EXCEPT ![Uuid(t)] = None]
    BY <1>0, <1>6, DeleteSteps
  <2>2. GotOn(t) /\ Stops(t) /\ closed[Inst(t)] = K
    BY <1>0, <1>6, DeleteSteps DEF GotOn, Basics, StopsInOrder, Stops, StopSteps
  <2>3. CASE s = t
    BY <1>0, <1>6, <2>3, DeleteSteps DEF Stops, StopSteps, GotOn
  <2>4. CASE s # t
    <3>1. thread'[s] = thread[s]
      BY <1>0, <1>6, <2>4, DeleteSteps
    <3>2. CASE Uuid(s) = Uuid(t)
      <4>1. registry[Uuid(s)] = Inst(t)
        BY <2>1, <2>2, <3>1, <3>2 DEF StopsTheRegistered, Uuid
      <4>2. ~GotOn(s)
        BY <2>1, <2>2, <2>4, <3>1, <4>1 DEF StopsTheRegistered, Uuid, Basics, HeldApart
      <4>3. Stops(s) => closed[Inst(s)] > 0
        BY <2>1, <2>2, <3>1, <4>1 DEF StopsTheRegistered, Uuid
      <4> QED
        BY <2>1, <3>1, <4>2, <4>3 DEF GotOn, Stops, Inst
    <3>3. CASE Uuid(s) # Uuid(t)
      <4>1. Stops(s) => registry'[Uuid(s)] = registry[Uuid(s)]
        BY <2>1, <3>3
      <4>2. GotOn(s) => Stops(s)
        BY DEF GotOn, Stops, StopSteps
      <4> QED
        BY <2>1, <3>1, <4>1, <4>2 DEF StopsTheRegistered, GotOn, Stops, Uuid, Inst
    <3> QED
      BY <3>2, <3>3
  <2> QED
    BY <2>3, <2>4
<1>7. ASSUME NEW t \in Threads, Check(t) PROVE StopsTheRegistered'
  <2>1. \A s \in Threads : (Stops(s)' => Stops(s) /\ Uuid(s)' = Uuid(s) /\ Inst(s)' = Inst(s)) /\ (GotOn(s)' => GotOn(s))
    BY <1>0, <1>7, CheckSteps DEF Stops, StopSteps, GotOn, Uuid, Inst
  <2>2. UNCHANGED <<registry, doubled, closed>>
    BY <1>0, <1>7, CheckSteps
  <2> HIDE DEF Quits, Only
  <2> QED
    BY <1>b, <2>1, <2>2, StopsStay
<1>8. ASSUME NEW t \in Threads, Plug(t) PROVE StopsTheRegistered'
  <2>1. \A s \in Threads : (Stops(s)' => Stops(s) /\ Uuid(s)' = Uuid(s) /\ Inst(s)' = Inst(s)) /\ (GotOn(s)' => GotOn(s))
    BY <1>0, <1>8, PlugSteps DEF Stops, StopSteps, GotOn, Uuid, Inst
  <2>2. UNCHANGED <<registry, doubled, closed>>
    BY <1>0, <1>8, PlugSteps
  <2> HIDE DEF Quits, Only
  <2> QED
    BY <1>b, <2>1, <2>2, StopsStay
<1>9. ASSUME NEW t \in Threads, Store(t) PROVE StopsTheRegistered'
  <2> SUFFICES ASSUME NEW s \in Threads, Uuid(s)' \notin doubled'
               PROVE  /\ GotOn(s)' => registry'[Uuid(s)'] = Inst(s)'
                      /\ Stops(s)' => registry'[Uuid(s)'] = Inst(s)' \/ closed'[Inst(s)'] > 0
    BY DEF StopsTheRegistered
  <2>1. /\ UNCHANGED closed /\ registry' = [registry EXCEPT ![Uuid(t)] = Inst(t)]
        /\ doubled' = IF registry[Uuid(t)] = None THEN doubled ELSE doubled \cup {Uuid(t)}
    BY <1>0, <1>9, StoreSteps
  <2>2. CASE s = t
    BY <1>0, <1>9, <2>2, StoreSteps DEF Stops, StopSteps, GotOn
  <2>3. CASE s # t
    <3>1. thread'[s] = thread[s]
      BY <1>0, <1>9, <2>3, StoreSteps
    <3>2. Uuid(s) \notin doubled /\ Uuid(s) \notin doubled'
      BY <2>1, <3>1 DEF Uuid
    <3>3. GotOn(s) => Stops(s)
      BY DEF GotOn, Stops, StopSteps
    <3>4. CASE Uuid(s) = Uuid(t)
      <4>1. registry[Uuid(s)] = None
        BY <2>1, <3>2, <3>4
      <4>2. Stops(s) => ~GotOn(s) /\ closed[Inst(s)] > 0
        BY <1>b, <3>2, <4>1 DEF StopsTheRegistered
      <4> QED
        BY <2>1, <3>1, <3>3, <4>2 DEF GotOn, Stops, Inst
    <3>5. CASE Uuid(s) # Uuid(t)
      <4>1. registry'[Uuid(s)] = registry[Uuid(s)]
        BY <2>1, <3>5
      <4> QED
        BY <2>1, <3>1, <3>2, <4>1 DEF StopsTheRegistered, GotOn, Stops, Uuid, Inst
    <3> QED
      BY <3>4, <3>5
  <2> QED
    BY <2>2, <2>3
<1>10. ASSUME ShutdownNext PROVE StopsTheRegistered'
  <2>1. \A s \in Threads : (Stops(s)' => Stops(s) /\ Uuid(s)' = Uuid(s) /\ Inst(s)' = Inst(s)) /\ (GotOn(s)' => GotOn(s))
    BY <1>0, <1>10, ShutdownSteps DEF Stops, StopSteps, GotOn, Uuid, Inst
  <2>2. UNCHANGED <<registry, doubled, closed>>
    BY <1>0, <1>10, ShutdownSteps
  <2> HIDE DEF Quits, Only
  <2> QED
    BY <1>b, <2>1, <2>2, StopsStay
<1>11. CASE Interrupt \/ RangeVisit \/ UNCHANGED vars
  BY <1>11 DEF Interrupt, RangeVisit, vars, StopsTheRegistered, Stops, GotOn, Uuid, Inst
<1> QED
  BY <1>1, <1>2, <1>3, <1>4, <1>5, <1>6, <1>7, <1>8, <1>9, <1>10, <1>11 DEF Next, Step, Done
-----------------------------------------------------------------------------
(***************************************************************************)
(* core.Stop comes to all it found registered.                             *)
(***************************************************************************)
LEMMA DoneIsDone == ASSUME shutdown.phase = "done", [Next]_vars PROVE UNCHANGED vars
BY DEF Next, Step, Done, Request, Patch, Post, Load, Unplug, Close, Join, JoinTo, Delete, Check, Plug, PlugWith,
       Store, Interrupt, RangeVisit, ShutdownNext, At, Running

LEMMA ShutdownStays ==
  ASSUME TypeOK, TypeOK', Basics, ShutdownGoesOn, shutdown' = shutdown, shutdown.phase # "done",
         made <= made', doubled \subseteq doubled', dead => dead',
         thread[Main].pc = "idle" => thread'[Main].pc = "idle",
         \A i \in 1..made : /\ uuidOf'[i] = uuidOf[i]
                            /\ drained'[i] # K => drained[i] # K,
         \A i \in 1..made : uuidOf[i] \notin doubled' /\ drained'[i] # K /\ registry[uuidOf[i]] = i =>
                            /\ registry'[uuidOf[i]] = i
                            /\ SeesTo(i) => dead' \/ SeesTo(i)'
  PROVE  ShutdownGoesOn'
<1> USE Constants
<1>1. shutdown.had \subseteq 1..made /\ shutdown.had \subseteq 1..made'
  BY DEF ShutdownGoesOn, TypeOK
<1>2. ASSUME NEW i \in shutdown.had, uuidOf'[i] \notin doubled', drained'[i] # K
      PROVE  /\ registry'[uuidOf'[i]] = i
             /\ uuidOf'[i] \in shutdown.seen => uuidOf'[i] \in shutdown.todo \/ dead' \/ SeesTo(i)'
  <2>1. i \in 1..made /\ uuidOf'[i] = uuidOf[i] /\ uuidOf[i] \notin doubled' /\ uuidOf[i] \notin doubled /\ drained[i] # K
    BY <1>1, <1>2
  <2>2. registry[uuidOf[i]] = i /\ (uuidOf[i] \in shutdown.seen => uuidOf[i] \in shutdown.todo \/ dead \/ SeesTo(i))
    BY <1>2, <2>1 DEF ShutdownGoesOn
  <2> QED
    BY <1>2, <2>1, <2>2
<1> QED
  BY <1>1, <1>2 DEF ShutdownGoesOn

LEMMA ShutdownGoesOnKept == Basics /\ StopsTheRegistered /\ ShutdownGoesOn /\ [Next]_vars => ShutdownGoesOn'
<1> SUFFICES ASSUME Basics, StopsTheRegistered, ShutdownGoesOn, [Next]_vars PROVE ShutdownGoesOn'
  OBVIOUS
<1>0. TypeOK /\ TypeOK'
  BY TypeKept DEF Basics
<1>a. CASE shutdown.phase = "done"
  BY <1>a, DoneIsDone DEF vars, ShutdownGoesOn, SeesTo, Stops, Uuid, Inst
<1> SUFFICES ASSUME shutdown.phase # "done" PROVE ShutdownGoesOn'
  BY <1>a
<1> USE Constants DEF None, Quits, Only, KeepsPipeline, KeepsInstance, instanceVars, plugVars
<1>b. \A i \in 1..made : i \in Instances /\ i # 0
  BY <1>0 DEF TypeOK, Instances
<1>1. ASSUME NEW t \in Clients, Request(t) PROVE ShutdownGoesOn'
  <2>1. shutdown' = shutdown /\ doubled \subseteq doubled' /\ (dead => dead')
    BY <1>0, <1>1, RequestSteps
  <2>2. thread[Main].pc = "idle" => thread'[Main].pc = "idle"
    BY <1>0, <1>1, RequestSteps DEF Threads
  <2>3. made <= made' /\ \A i \in 1..made : uuidOf'[i] = uuidOf[i] /\ (drained'[i] # K => drained[i] # K)
    BY <1>0, <1>1, RequestSteps DEF TypeOK
  <2> SUFFICES ASSUME NEW i \in 1..made, uuidOf[i] \notin doubled' /\ drained'[i] # K /\ registry[uuidOf[i]] = i
               PROVE  registry'[uuidOf[i]] = i /\ (SeesTo(i) => dead' \/ SeesTo(i)')
    <3> HIDE DEF Quits, Only
    <3> QED
      BY <1>0, <2>1, <2>2, <2>3, ShutdownStays
  <2>4. uuidOf[i] \notin doubled /\ drained'[i] # K /\ drained[i] # K /\ registry[uuidOf[i]] = i /\ uuidOf'[i] = uuidOf[i]
    BY <2>1, <2>3
  <2>5. uuidOf[i] \in Uuids
    BY <1>b DEF Basics, InstancesInOrder
  <2>6. registry'[uuidOf[i]] = i
    BY <1>0, <1>1, RequestSteps, <2>4
  <2>7. ASSUME SeesTo(i) PROVE dead' \/ SeesTo(i)'
    BY <1>0, <1>b, <1>1, <2>4, <2>7, RequestSteps DEF SeesTo, Stops, StopSteps, Inst, Uuid, Threads, Basics, AboutPipelines
  <2> QED
    BY <2>6, <2>7
<1>2. ASSUME NEW t \in Threads, Load(t) PROVE ShutdownGoesOn'
  <2>1. shutdown' = shutdown /\ doubled \subseteq doubled' /\ (dead => dead')
    BY <1>0, <1>2, LoadSteps
  <2>2. thread[Main].pc = "idle" => thread'[Main].pc = "idle"
    BY <1>0, <1>2, LoadSteps DEF Threads
  <2>3. made <= made' /\ \A i \in 1..made : uuidOf'[i] = uuidOf[i] /\ (drained'[i] # K => drained[i] # K)
    BY <1>0, <1>2, LoadSteps DEF TypeOK
  <2> SUFFICES ASSUME NEW i \in 1..made, uuidOf[i] \notin doubled' /\ drained'[i] # K /\ registry[uuidOf[i]] = i
               PROVE  registry'[uuidOf[i]] = i /\ (SeesTo(i) => dead' \/ SeesTo(i)')
    <3> HIDE DEF Quits, Only
    <3> QED
      BY <1>0, <2>1, <2>2, <2>3, ShutdownStays
  <2>4. uuidOf[i] \notin doubled /\ drained'[i] # K /\ drained[i] # K /\ registry[uuidOf[i]] = i /\ uuidOf'[i] = uuidOf[i]
    BY <2>1, <2>3
  <2>5. uuidOf[i] \in Uuids
    BY <1>b DEF Basics, InstancesInOrder
  <2>6. registry'[uuidOf[i]] = i
    BY <1>0, <1>2, LoadSteps, <2>4
  <2>7. ASSUME SeesTo(i) PROVE dead' \/ SeesTo(i)'
    BY <1>0, <1>b, <1>2, <2>4, <2>7, LoadSteps DEF SeesTo, Stops, StopSteps, Inst, Uuid, Threads, Basics, AboutPipelines
  <2> QED
    BY <2>6, <2>7
<1>3. ASSUME NEW t \in Threads, Unplug(t) PROVE ShutdownGoesOn'
  <2>1. shutdown' = shutdown /\ doubled \subseteq doubled' /\ (dead => dead')
    BY <1>0, <1>3, UnplugSteps
  <2>2. thread[Main].pc = "idle" => thread'[Main].pc = "idle"
    BY <1>0, <1>3, UnplugSteps DEF Threads
  <2>3. made <= made' /\ \A i \in 1..made : uuidOf'[i] = uuidOf[i] /\ (drained'[i] # K => drained[i] # K)
    BY <1>0, <1>3, UnplugSteps DEF TypeOK
  <2> SUFFICES ASSUME NEW i \in 1..made, uuidOf[i] \notin doubled' /\ drained'[i] # K /\ registry[uuidOf[i]] = i
               PROVE  registry'[uuidOf[i]] = i /\ (SeesTo(i) => dead' \/ SeesTo(i)')
    <3> HIDE DEF Quits, Only
    <3> QED
      BY <1>0, <2>1, <2>2, <2>3, ShutdownStays
  <2>4. uuidOf[i] \notin doubled /\ drained'[i] # K /\ drained[i] # K /\ registry[uuidOf[i]] = i /\ uuidOf'[i] = uuidOf[i]
    BY <2>1, <2>3
  <2>5. uuidOf[i] \in Uuids
    BY <1>b DEF Basics, InstancesInOrder
  <2>6. registry'[uuidOf[i]] = i
    BY <1>0, <1>3, UnplugSteps, <2>4
  <2>7. ASSUME SeesTo(i) PROVE dead' \/ SeesTo(i)'
    BY <1>0, <1>b, <1>3, <2>4, <2>7, UnplugSteps DEF SeesTo, Stops, StopSteps, Inst, Uuid, Threads, Basics, AboutPipelines
  <2> QED
    BY <2>6, <2>7
<1>4. ASSUME NEW t \in Threads, Close(t) PROVE ShutdownGoesOn'
  <2>1. shutdown' = shutdown /\ doubled \subseteq doubled' /\ (dead => dead')
    BY <1>0, <1>4, CloseSteps
  <2>2. thread[Main].pc = "idle" => thread'[Main].pc = "idle"
    BY <1>0, <1>4, CloseSteps DEF Threads
  <2>3. made <= made' /\ \A i \in 1..made : uuidOf'[i] = uuidOf[i] /\ (drained'[i] # K => drained[i] # K)
    BY <1>0, <1>4, CloseSteps DEF TypeOK
  <2> SUFFICES ASSUME NEW i \in 1..made, uuidOf[i] \notin doubled' /\ drained'[i] # K /\ registry[uuidOf[i]] = i
               PROVE  registry'[uuidOf[i]] = i /\ (SeesTo(i) => dead' \/ SeesTo(i)')
    <3> HIDE DEF Quits, Only
    <3> QED
      BY <1>0, <2>1, <2>2, <2>3, ShutdownStays
  <2>4. uuidOf[i] \notin doubled /\ drained'[i] # K /\ drained[i] # K /\ registry[uuidOf[i]] = i /\ uuidOf'[i] = uuidOf[i]
    BY <2>1, <2>3
  <2>5. uuidOf[i] \in Uuids
    BY <1>b DEF Basics, InstancesInOrder
  <2>6. registry'[uuidOf[i]] = i
    BY <1>0, <1>4, CloseSteps, <2>4
  <2>7. ASSUME SeesTo(i) PROVE dead' \/ SeesTo(i)'
    BY <1>0, <1>b, <1>4, <2>4, <2>7, CloseSteps DEF SeesTo, Stops, StopSteps, Inst, Uuid, Threads, Basics, AboutPipelines
  <2> QED
    BY <2>6, <2>7
<1>5. ASSUME NEW t \in Threads, Join(t) PROVE ShutdownGoesOn'
  <2>1. shutdown' = shutdown /\ doubled \subseteq doubled' /\ (dead => dead')
    BY <1>0, <1>5, JoinSteps
  <2>2. thread[Main].pc = "idle" => thread'[Main].pc = "idle"
    BY <1>0, <1>5, JoinSteps DEF Threads
  <2>3. made <= made' /\ \A i \in 1..made : uuidOf'[i] = uuidOf[i] /\ (drained'[i] # K => drained[i] # K)
    <3>1. made' = made /\ uuidOf' = uuidOf /\ made <= made
      BY <1>0, <1>5, JoinSteps DEF TypeOK
    <3>2. drained[Inst(t)] = thread[t].k - 1 /\ thread[t].k \in 1..K
      BY <1>0, <1>5, JoinSteps DEF Basics, StopsInOrder, Stops, StopSteps
    <3>3. drained[Inst(t)] # K
      BY <3>2
    <3> QED
      BY <1>0, <1>b, <1>5, <3>1, <3>3, JoinSteps DEF TypeOK
  <2> SUFFICES ASSUME NEW i \in 1..made, uuidOf[i] \notin doubled' /\ drained'[i] # K /\ registry[uuidOf[i]] = i
               PROVE  registry'[uuidOf[i]] = i /\ (SeesTo(i) => dead' \/ SeesTo(i)')
    <3> HIDE DEF Quits, Only
    <3> QED
      BY <1>0, <2>1, <2>2, <2>3, ShutdownStays
  <2>4. uuidOf[i] \notin doubled /\ drained'[i] # K /\ drained[i] # K /\ registry[uuidOf[i]] = i /\ uuidOf'[i] = uuidOf[i]
    BY <2>1, <2>3
  <2>5. uuidOf[i] \in Uuids
    BY <1>b DEF Basics, InstancesInOrder
  <2>6. registry'[uuidOf[i]] = i
    BY <1>0, <1>5, JoinSteps, <2>4
  <2>7. ASSUME SeesTo(i) PROVE dead' \/ SeesTo(i)'
    BY <1>0, <1>b, <1>5, <2>4, <2>7, JoinSteps DEF SeesTo, Stops, StopSteps, Inst, Uuid, Threads, Basics, AboutPipelines
  <2> QED
    BY <2>6, <2>7
<1>6. ASSUME NEW t \in Threads, Delete(t) PROVE ShutdownGoesOn'
  <2>1. shutdown' = shutdown /\ doubled \subseteq doubled' /\ (dead => dead')
    BY <1>0, <1>6, DeleteSteps
  <2>2. thread[Main].pc = "idle" => thread'[Main].pc = "idle"
    BY <1>0, <1>6, DeleteSteps DEF Threads
  <2>3. made <= made' /\ \A i \in 1..made : uuidOf'[i] = uuidOf[i] /\ (drained'[i] # K => drained[i] # K)
    BY <1>0, <1>6, DeleteSteps DEF TypeOK
  <2> SUFFICES ASSUME NEW i \in 1..made, uuidOf[i] \notin doubled' /\ drained'[i] # K /\ registry[uuidOf[i]] = i
               PROVE  registry'[uuidOf[i]] = i /\ (SeesTo(i) => dead' \/ SeesTo(i)')
    <3> HIDE DEF Quits, Only
    <3> QED
      BY <1>0, <2>1, <2>2, <2>3, ShutdownStays
  <2>4. uuidOf[i] \notin doubled /\ drained'[i] # K /\ drained[i] # K /\ registry[uuidOf[i]] = i /\ uuidOf'[i] = uuidOf[i]
    BY <2>1, <2>3
  <2>5. uuidOf[i] \in Uuids
    BY <1>b DEF Basics, InstancesInOrder
  <2>6. registry'[uuidOf[i]] = i
    <3>1. CASE uuidOf[i] = Uuid(t)
      <4>1. GotOn(t) /\ drained[Inst(t)] = K
        BY <1>0, <1>6, DeleteSteps DEF GotOn, Basics, StopsInOrder, Stops, StopSteps
      <4>2. registry[Uuid(t)] = Inst(t)
        BY <2>4, <3>1, <4>1 DEF StopsTheRegistered
      <4> QED
        BY <1>0, <1>6, DeleteSteps, <2>4, <3>1, <4>1, <4>2
    <3>2. CASE uuidOf[i] # Uuid(t)
      BY <1>0, <1>6, DeleteSteps, <2>4, <3>2, <2>5 DEF TypeOK
    <3> QED
      BY <3>1, <3>2
  <2>7. ASSUME SeesTo(i) PROVE dead' \/ SeesTo(i)'
    <3>1. t = Main => drained[Inst(t)] = K
      BY <1>0, <1>6, DeleteSteps DEF Basics, StopsInOrder, Stops, StopSteps
    <3>2. t # Main
      BY <1>0, <1>6, <2>4, <2>7, <3>1, DeleteSteps DEF SeesTo
    <3> QED
      BY <1>0, <1>6, <2>4, <2>7, <3>2, DeleteSteps DEF SeesTo, Stops, Inst, Uuid
  <2> QED
    BY <2>6, <2>7
<1>7. ASSUME NEW t \in Threads, Check(t) PROVE ShutdownGoesOn'
  <2>1. shutdown' = shutdown /\ doubled \subseteq doubled' /\ (dead => dead')
    BY <1>0, <1>7, CheckSteps
  <2>2. thread[Main].pc = "idle" => thread'[Main].pc = "idle"
    BY <1>0, <1>7, CheckSteps DEF Threads
  <2>3. made <= made' /\ \A i \in 1..made : uuidOf'[i] = uuidOf[i] /\ (drained'[i] # K => drained[i] # K)
    <3>1. made \in Nat /\ \A i \in 1..made : i # made + 1
      BY <1>0 DEF TypeOK
    <3> QED
      BY <1>0, <1>b, <1>7, <3>1, CheckSteps DEF TypeOK
  <2> SUFFICES ASSUME NEW i \in 1..made, uuidOf[i] \notin doubled' /\ drained'[i] # K /\ registry[uuidOf[i]] = i
               PROVE  registry'[uuidOf[i]] = i /\ (SeesTo(i) => dead' \/ SeesTo(i)')
    <3> HIDE DEF Quits, Only
    <3> QED
      BY <1>0, <2>1, <2>2, <2>3, ShutdownStays
  <2>4. uuidOf[i] \notin doubled /\ drained'[i] # K /\ drained[i] # K /\ registry[uuidOf[i]] = i /\ uuidOf'[i] = uuidOf[i]
    BY <2>1, <2>3
  <2>5. uuidOf[i] \in Uuids
    BY <1>b DEF Basics, InstancesInOrder
  <2>6. registry'[uuidOf[i]] = i
    BY <1>0, <1>7, CheckSteps, <2>4
  <2>7. ASSUME SeesTo(i) PROVE dead' \/ SeesTo(i)'
    BY <1>0, <1>b, <1>7, <2>4, <2>7, CheckSteps DEF SeesTo, Stops, StopSteps, Inst, Uuid, Threads, Basics, AboutPipelines
  <2> QED
    BY <2>6, <2>7
<1>8. ASSUME NEW t \in Threads, Plug(t) PROVE ShutdownGoesOn'
  <2>1. shutdown' = shutdown /\ doubled \subseteq doubled' /\ (dead => dead')
    BY <1>0, <1>8, PlugSteps
  <2>2. thread[Main].pc = "idle" => thread'[Main].pc = "idle"
    BY <1>0, <1>8, PlugSteps DEF Threads
  <2>3. made <= made' /\ \A i \in 1..made : uuidOf'[i] = uuidOf[i] /\ (drained'[i] # K => drained[i] # K)
    BY <1>0, <1>8, PlugSteps DEF TypeOK
  <2> SUFFICES ASSUME NEW i \in 1..made, uuidOf[i] \notin doubled' /\ drained'[i] # K /\ registry[uuidOf[i]] = i
               PROVE  registry'[uuidOf[i]] = i /\ (SeesTo(i) => dead' \/ SeesTo(i)')
    <3> HIDE DEF Quits, Only
    <3> QED
      BY <1>0, <2>1, <2>2, <2>3, ShutdownStays
  <2>4. uuidOf[i] \notin doubled /\ drained'[i] # K /\ drained[i] # K /\ registry[uuidOf[i]] = i /\ uuidOf'[i] = uuidOf[i]
    BY <2>1, <2>3
  <2>5. uuidOf[i] \in Uuids
    BY <1>b DEF Basics, InstancesInOrder
  <2>6. registry'[uuidOf[i]] = i
    BY <1>0, <1>8, PlugSteps, <2>4
  <2>7. ASSUME SeesTo(i) PROVE dead' \/ SeesTo(i)'
    BY <1>0, <1>b, <1>8, <2>4, <2>7, PlugSteps DEF SeesTo, Stops, StopSteps, Inst, Uuid, Threads, Basics, AboutPipelines
  <2> QED
    BY <2>6, <2>7
<1>9. ASSUME NEW t \in Threads, Store(t) PROVE ShutdownGoesOn'
  <2>1. shutdown' = shutdown /\ doubled \subseteq doubled' /\ (dead => dead')
    BY <1>0, <1>9, StoreSteps
  <2>2. thread[Main].pc = "idle" => thread'[Main].pc = "idle"
    BY <1>0, <1>9, StoreSteps DEF Threads
  <2>3. made <= made' /\ \A i \in 1..made : uuidOf'[i] = uuidOf[i] /\ (drained'[i] # K => drained[i] # K)
    BY <1>0, <1>9, StoreSteps DEF TypeOK
  <2> SUFFICES ASSUME NEW i \in 1..made, uuidOf[i] \notin doubled' /\ drained'[i] # K /\ registry[uuidOf[i]] = i
               PROVE  registry'[uuidOf[i]] = i /\ (SeesTo(i) => dead' \/ SeesTo(i)')
    <3> HIDE DEF Quits, Only
    <3> QED
      BY <1>0, <2>1, <2>2, <2>3, ShutdownStays
  <2>4. uuidOf[i] \notin doubled /\ drained'[i] # K /\ drained[i] # K /\ registry[uuidOf[i]] = i /\ uuidOf'[i] = uuidOf[i]
    BY <2>1, <2>3
  <2>5. uuidOf[i] \in Uuids
    BY <1>b DEF Basics, InstancesInOrder
  <2>6. registry'[uuidOf[i]] = i
    <3>1. CASE uuidOf[i] = Uuid(t)
      <4>1. registry[Uuid(t)] # None
        BY <1>b, <2>4, <3>1
      <4>2. Uuid(t) \in doubled'
        BY <1>0, <1>9, StoreSteps, <4>1
      <4> QED
        BY <3>1, <4>2
    <3>2. CASE uuidOf[i] # Uuid(t)
      BY <1>0, <1>9, StoreSteps, <2>4, <3>2, <2>5 DEF TypeOK
    <3> QED
      BY <3>1, <3>2
  <2>7. ASSUME SeesTo(i) PROVE dead' \/ SeesTo(i)'
    BY <1>0, <1>b, <1>9, <2>4, <2>7, StoreSteps DEF SeesTo, Stops, StopSteps, Inst, Uuid, Threads, Basics, AboutPipelines
  <2> QED
    BY <2>6, <2>7
<1>10. ASSUME ShutdownNext PROVE ShutdownGoesOn'
  <2>1. UNCHANGED <<registry, made, uuidOf, drained, doubled, dead>> /\ ~dead /\ thread[Main].pc = "idle" /\ shutdown.phase = "stop"
    BY <1>0, <1>10, ShutdownSteps DEF ShutdownNext
  <2>2. ~SeesTo(1) /\ \A i \in 1..made : ~SeesTo(i)
    BY <2>1 DEF SeesTo, Stops, StopSteps
  <2>3. shutdown.seen = Uuids /\ shutdown.had \subseteq 1..made /\ shutdown.todo \subseteq Uuids
    BY <2>1 DEF ShutdownGoesOn
  <2>4. CASE shutdown.todo = {} /\ shutdown' = [shutdown EXCEPT !.phase = "done"] /\ UNCHANGED thread
    <3>1. /\ shutdown'.phase = "done" /\ shutdown'.seen = shutdown.seen
          /\ shutdown'.todo = shutdown.todo /\ shutdown'.had = shutdown.had
      BY <1>0, <2>4 DEF TypeOK
    <3> QED
      BY <2>1, <2>3, <2>4, <3>1 DEF ShutdownGoesOn, SeesTo, Stops, Inst, Uuid
  <2>5. ASSUME NEW u \in shutdown.todo, shutdown' = [shutdown EXCEPT !.todo = @ \ {u}],
               thread' = IF registry[u] = None THEN thread
                         ELSE [thread EXCEPT ![Main] = [Idle EXCEPT !.pc = "load", !.uuid = u, !.goal = "stop"]]
        PROVE  ShutdownGoesOn'
    <3>1. /\ shutdown'.phase = "stop" /\ shutdown'.seen = shutdown.seen
          /\ shutdown'.todo = shutdown.todo \ {u} /\ shutdown'.had = shutdown.had
      BY <1>0, <2>1, <2>5 DEF TypeOK
    <3>2. registry[u] # None => thread'[Main].pc = "load" /\ thread'[Main].uuid = u
      BY <1>0, <2>5 DEF TypeOK, Idle
    <3>3. ASSUME NEW i \in shutdown.had, uuidOf[i] \notin doubled, drained[i] # K
          PROVE  /\ registry[uuidOf[i]] = i
                 /\ uuidOf[i] \in shutdown.todo \ {u} \/ SeesTo(i)'
      <4>1. i \in 1..made /\ registry[uuidOf[i]] = i /\ i # 0 /\ uuidOf[i] \in Uuids
        BY <1>b, <2>3, <3>3 DEF ShutdownGoesOn, Basics, InstancesInOrder
      <4>2. uuidOf[i] \in shutdown.todo
        BY <2>1, <2>2, <2>3, <3>3, <4>1 DEF ShutdownGoesOn
      <4>3. uuidOf[i] = u => SeesTo(i)'
        BY <2>1, <3>2, <4>1 DEF SeesTo, Uuid
      <4> QED
        BY <4>1, <4>2, <4>3
    <3> QED
      BY <2>1, <2>3, <3>1, <3>3 DEF ShutdownGoesOn
  <2> QED
    BY <1>10, <2>4, <2>5 DEF ShutdownNext
<1>11. ASSUME Interrupt PROVE ShutdownGoesOn'
  <2> DEFINE S == {registry[u] : u \in Uuids} \ {None}
  <2>1. /\ UNCHANGED <<registry, made, uuidOf, drained, thread, doubled, dead>> /\ shutdown.phase = "no"
        /\ shutdown' = [[shutdown EXCEPT !.phase = "range"] EXCEPT !.had = S]
    BY <1>11 DEF Interrupt
  <2>2. \A i \in S : i \in 1..made /\ registry[uuidOf[i]] = i
    BY DEF Basics, RegisteredRuns
  <2>3. S \subseteq 1..made
    BY <2>2
  <2> HIDE DEF S
  <2>4. shutdown'.phase = "range" /\ shutdown'.seen = shutdown.seen /\ shutdown'.todo = shutdown.todo /\ shutdown'.had = S
    BY <1>0, <2>1 DEF TypeOK
  <2>5. shutdown.seen = {} /\ shutdown.todo \subseteq Uuids /\ thread[Main].pc = "idle"
    BY <2>1 DEF ShutdownGoesOn
  <2> QED
    BY <2>1, <2>2, <2>3, <2>4, <2>5 DEF ShutdownGoesOn
<1>12. ASSUME RangeVisit PROVE ShutdownGoesOn'
  <2>1. UNCHANGED <<registry, made, uuidOf, drained, thread, doubled, dead>> /\ shutdown.phase = "range"
    BY <1>12 DEF RangeVisit
  <2>2. thread[Main].pc = "idle" /\ shutdown.had \subseteq 1..made /\ shutdown.todo \subseteq Uuids /\ shutdown.seen \subseteq Uuids
    BY <2>1 DEF ShutdownGoesOn
  <2>3. CASE shutdown.seen = Uuids /\ shutdown' = [shutdown EXCEPT !.phase = "stop"]
    <3>1. /\ shutdown'.phase = "stop" /\ shutdown'.seen = shutdown.seen
          /\ shutdown'.todo = shutdown.todo /\ shutdown'.had = shutdown.had
      BY <1>0, <2>3 DEF TypeOK
    <3> QED
      BY <2>1, <2>2, <2>3, <3>1 DEF ShutdownGoesOn, SeesTo, Stops, Inst, Uuid
  <2>4. ASSUME NEW u \in Uuids \ shutdown.seen,
               shutdown' = [shutdown EXCEPT !.seen = @ \cup {u},
                              !.todo = IF registry[u] # None THEN @ \cup {u} ELSE @]
        PROVE  ShutdownGoesOn'
    <3>1. /\ shutdown'.phase = "range" /\ shutdown'.seen = shutdown.seen \cup {u} /\ shutdown'.had = shutdown.had
          /\ shutdown'.todo = IF registry[u] # None THEN shutdown.todo \cup {u} ELSE shutdown.todo
      BY <1>0, <2>1, <2>4 DEF TypeOK
    <3>2. ASSUME NEW i \in shutdown.had, uuidOf[i] \notin doubled, drained[i] # K
          PROVE  /\ registry[uuidOf[i]] = i
                 /\ uuidOf[i] \in shutdown'.seen => uuidOf[i] \in shutdown'.todo \/ dead \/ SeesTo(i)
      <4>1. i # 0 /\ registry[uuidOf[i]] = i
        BY <1>b, <2>2, <3>2 DEF ShutdownGoesOn
      <4>2. uuidOf[i] \in shutdown.seen => uuidOf[i] \in shutdown.todo \/ dead \/ SeesTo(i)
        BY <3>2 DEF ShutdownGoesOn
      <4> QED
        BY <3>1, <4>1, <4>2
    <3> QED
      BY <2>1, <2>2, <3>1, <3>2 DEF ShutdownGoesOn, SeesTo, Stops, Inst, Uuid
  <2> QED
    BY <1>12, <2>3, <2>4 DEF RangeVisit
<1>13. CASE UNCHANGED vars
  BY <1>13 DEF vars, ShutdownGoesOn, SeesTo, Stops, Uuid, Inst
<1> QED
  BY <1>1, <1>2, <1>3, <1>4, <1>5, <1>6, <1>7, <1>8, <1>9, <1>10, <1>11, <1>12, <1>13 DEF Next, Step, Done
-----------------------------------------------------------------------------
(***************************************************************************)
(* Of the pipelines no two requests were about at a time, every job ticks  *)
(* an agent that runs.  An agent's job is found by name: with labels apart *)
(* it is the only one of that name.                                        *)
(***************************************************************************)
LEMMA HeldOnce ==
  ASSUME Basics, Unmixed, NEW h \in 1..made, NEW i \in 1..made, uuidOf[h] = uuidOf[i], uuidOf[i] \notin mixed,
         Held(h), Held(i)
  PROVE  h = i
<1> USE Constants DEF None, Starts, StartSteps, Inst, Uuid
<1>0. TypeOK
  BY DEF Basics
<1>1. \A t \in Clients : Starts(t) => Uuid(t) = uuidOf[Inst(t)] /\ Uuid(t) \in Uuids /\ t \in About(Uuid(t))
  BY DEF Basics, StartsInOrder, AboutPipelines, About, Threads
<1>2. \A t \in Clients : Starts(t) /\ Uuid(t) \notin mixed => registry[Uuid(t)] = 0
  BY DEF Unmixed, HeldIsRegistered, Threads
<1>3. h # 0 /\ i # 0
  BY <1>0 DEF TypeOK, Instances
<1>4. CASE registry[uuidOf[i]] = i \/ registry[uuidOf[h]] = h
  <2>1. ~(\E t \in Clients : Starts(t) /\ Inst(t) \in {h, i})
    BY <1>1, <1>2, <1>3, <1>4
  <2> QED
    BY <2>1 DEF Held
<1>5. CASE ~(registry[uuidOf[i]] = i \/ registry[uuidOf[h]] = h)
  <2>1. PICK s \in Clients, t \in Clients : Starts(s) /\ Inst(s) = h /\ Starts(t) /\ Inst(t) = i
    BY <1>5 DEF Held
  <2>2. s = t
    BY <1>1, <2>1 DEF Unmixed, OneClient
  <2> QED
    BY <2>1, <2>2
<1> QED
  BY <1>4, <1>5

\* Of the steps that add no job.
LEMMA JobsStay ==
  ASSUME TypeOK, TypeOK', JobsTick, jobs' \subseteq jobs, made <= made', mixed \subseteq mixed',
         \A i \in 1..made : uuidOf'[i] = uuidOf[i],
         \A i \in 1..made, k \in 1..K : uuidOf[i] \notin mixed /\ Ticks(i, k) /\ (\E j \in jobs' : JobOf(j, i, k)) =>
           /\ closed'[i] < k /\ Held(i)'
           /\ \A s \in Threads : thread'[s].pc = "close" /\ thread'[s].inst = i => thread'[s].k # k
  PROVE  JobsTick'
<1> SUFFICES ASSUME NEW j \in jobs' PROVE \E i \in 1..made', k \in 1..K : JobOf(j, i, k)' /\ Ticks(i, k)'
  BY DEF JobsTick
<1>1. PICK i \in 1..made, k \in 1..K : JobOf(j, i, k) /\ Ticks(i, k)
  BY DEF JobsTick
<1>2. i \in 1..made' /\ uuidOf'[i] = uuidOf[i]
  BY DEF TypeOK
<1>3. JobOf(j, i, k)'
  BY <1>1, <1>2 DEF JobOf
<1>4. Ticks(i, k)'
  BY <1>1, <1>2 DEF Ticks, Inst
<1> QED
  BY <1>2, <1>3, <1>4

LEMMA JobsTickKept == LabelsApart /\ Basics /\ Unmixed /\ JobsTick /\ [Next]_vars => JobsTick'
<1> SUFFICES ASSUME LabelsApart, Basics, Unmixed, JobsTick, [Next]_vars PROVE JobsTick'
  OBVIOUS
<1>0. TypeOK /\ TypeOK'
  BY TypeKept DEF Basics
<1> USE Constants DEF None, Quits, Only, KeepsPipeline, KeepsInstance, instanceVars, plugVars
<1>b. \A i \in 1..made : i \in Instances /\ i # 0 /\ uuidOf[i] \in Uuids
  BY <1>0 DEF TypeOK, Instances, Basics, InstancesInOrder
<1>1. ASSUME NEW t \in Clients, Request(t) PROVE JobsTick'
  <2>1. jobs' \subseteq jobs /\ mixed \subseteq mixed' /\ made <= made' /\ \A i \in 1..made : uuidOf'[i] = uuidOf[i]
    BY <1>0, <1>1, RequestSteps DEF TypeOK
  <2> SUFFICES ASSUME NEW i \in 1..made, NEW k \in 1..K, uuidOf[i] \notin mixed, Ticks(i, k),
                      NEW j \in jobs', JobOf(j, i, k)
               PROVE  /\ closed'[i] < k /\ Held(i)'
                      /\ \A s \in Threads : thread'[s].pc = "close" /\ thread'[s].inst = i => thread'[s].k # k
    <3> HIDE DEF Quits, Only
    <3> QED
      BY <1>0, <2>1, JobsStay
  <2>2. closed[i] < k /\ Held(i) /\ \A s \in Threads : thread[s].pc = "close" /\ thread[s].inst = i => thread[s].k # k
    BY DEF Ticks, Inst
  <2>3. closed'[i] < k
    BY <1>0, <1>1, <2>2, RequestSteps
  <2>4. Held(i)'
    <3>1. UNCHANGED <<registry, uuidOf>> /\ \A s \in Clients : Starts(s) => Starts(s)' /\ Inst(s)' = Inst(s)
      BY <1>0, <1>1, RequestSteps DEF Starts, StartSteps, Inst, Threads
    <3> QED
      BY <2>2, <3>1 DEF Held
  <2>5. \A s \in Threads : thread'[s].pc = "close" /\ thread'[s].inst = i => thread'[s].k # k
    BY <1>0, <1>1, <2>2, RequestSteps DEF Threads
  <2> QED
    BY <2>3, <2>4, <2>5
<1>2. ASSUME NEW t \in Threads, Load(t) PROVE JobsTick'
  <2>1. jobs' \subseteq jobs /\ mixed \subseteq mixed' /\ made <= made' /\ \A i \in 1..made : uuidOf'[i] = uuidOf[i]
    BY <1>0, <1>2, LoadSteps DEF TypeOK
  <2> SUFFICES ASSUME NEW i \in 1..made, NEW k \in 1..K, uuidOf[i] \notin mixed, Ticks(i, k),
                      NEW j \in jobs', JobOf(j, i, k)
               PROVE  /\ closed'[i] < k /\ Held(i)'
                      /\ \A s \in Threads : thread'[s].pc = "close" /\ thread'[s].inst = i => thread'[s].k # k
    <3> HIDE DEF Quits, Only
    <3> QED
      BY <1>0, <2>1, JobsStay
  <2>2. closed[i] < k /\ Held(i) /\ \A s \in Threads : thread[s].pc = "close" /\ thread[s].inst = i => thread[s].k # k
    BY DEF Ticks, Inst
  <2>3. closed'[i] < k
    BY <1>0, <1>2, <2>2, LoadSteps
  <2>4. Held(i)'
    <3>1. UNCHANGED <<registry, uuidOf>> /\ \A s \in Clients : Starts(s) => Starts(s)' /\ Inst(s)' = Inst(s)
      BY <1>0, <1>2, LoadSteps DEF Starts, StartSteps, Inst, Threads
    <3> QED
      BY <2>2, <3>1 DEF Held
  <2>5. \A s \in Threads : thread'[s].pc = "close" /\ thread'[s].inst = i => thread'[s].k # k
    BY <1>0, <1>2, <2>2, LoadSteps DEF Threads
  <2> QED
    BY <2>3, <2>4, <2>5
<1>3. ASSUME NEW t \in Threads, Unplug(t) PROVE JobsTick'
  <2>1. jobs' \subseteq jobs /\ mixed \subseteq mixed' /\ made <= made' /\ \A i \in 1..made : uuidOf'[i] = uuidOf[i]
    <3>1. jobs' \subseteq jobs
      BY <1>3, UnplugPlugs
    <3> QED
      BY <1>0, <1>3, <3>1, UnplugSteps DEF TypeOK
  <2> SUFFICES ASSUME NEW i \in 1..made, NEW k \in 1..K, uuidOf[i] \notin mixed, Ticks(i, k),
                      NEW j \in jobs', JobOf(j, i, k)
               PROVE  /\ closed'[i] < k /\ Held(i)'
                      /\ \A s \in Threads : thread'[s].pc = "close" /\ thread'[s].inst = i => thread'[s].k # k
    <3> HIDE DEF Quits, Only
    <3> QED
      BY <1>0, <2>1, JobsStay
  <2>2. closed[i] < k /\ Held(i) /\ \A s \in Threads : thread[s].pc = "close" /\ thread[s].inst = i => thread[s].k # k
    BY DEF Ticks, Inst
  <2>3. closed'[i] < k
    BY <1>0, <1>3, <2>2, UnplugSteps
  <2>4. Held(i)'
    <3>1. UNCHANGED <<registry, uuidOf>> /\ \A s \in Clients : Starts(s) => Starts(s)' /\ Inst(s)' = Inst(s)
      BY <1>0, <1>3, UnplugSteps DEF Starts, StartSteps, Inst, Threads
    <3> QED
      BY <2>2, <3>1 DEF Held
  <2>5. \A s \in Threads : thread'[s].pc = "close" /\ thread'[s].inst = i => thread'[s].k # k
    <3>1. ASSUME Inst(t) = i, thread[t].k = k PROVE FALSE
      <4>1. uuidOf[i] = Uuid(t)
        BY <1>0, <1>3, <3>1, UnplugSteps DEF Basics, StopsInOrder, Stops, StopSteps
      <4>2. j \in Named(t)
        BY <2>1, <3>1, <4>1 DEF JobOf, Named
      <4>3. PICK g \in Named(t) : jobs' = jobs \ {g}
        BY <1>3, <4>2, UnplugPlugs
      <4>4. PICK h \in 1..made, m \in 1..K : JobOf(g, h, m) /\ Ticks(h, m)
        BY <4>3 DEF Named, JobsTick
      <4>5. uuidOf[h] = uuidOf[i] /\ LabelOf[uuidOf[i]][m] = LabelOf[uuidOf[i]][k]
        BY <3>1, <4>1, <4>3, <4>4 DEF JobOf, Named
      <4>6. m = k
        BY <1>b, <4>4, <4>5 DEF LabelsApart, JobOf
      <4>7. h = i
        BY <2>2, <4>4, <4>5, HeldOnce DEF Ticks
      <4>8. g = j
        BY <4>4, <4>6, <4>7 DEF JobOf
      <4> QED
        BY <4>3, <4>8
    <3> QED
      BY <1>0, <1>3, <2>2, <3>1, UnplugSteps DEF Inst
  <2> QED
    BY <2>3, <2>4, <2>5
<1>4. ASSUME NEW t \in Threads, Close(t) PROVE JobsTick'
  <2>1. jobs' \subseteq jobs /\ mixed \subseteq mixed' /\ made <= made' /\ \A i \in 1..made : uuidOf'[i] = uuidOf[i]
    BY <1>0, <1>4, CloseSteps DEF TypeOK
  <2> SUFFICES ASSUME NEW i \in 1..made, NEW k \in 1..K, uuidOf[i] \notin mixed, Ticks(i, k),
                      NEW j \in jobs', JobOf(j, i, k)
               PROVE  /\ closed'[i] < k /\ Held(i)'
                      /\ \A s \in Threads : thread'[s].pc = "close" /\ thread'[s].inst = i => thread'[s].k # k
    <3> HIDE DEF Quits, Only
    <3> QED
      BY <1>0, <2>1, JobsStay
  <2>2. closed[i] < k /\ Held(i) /\ \A s \in Threads : thread[s].pc = "close" /\ thread[s].inst = i => thread[s].k # k
    BY DEF Ticks, Inst
  <2>3. closed'[i] < k
    <3>1. CASE closed' = closed
      BY <2>2, <3>1
    <3>2. CASE ~(closed[Inst(t)] >= thread[t].k) /\ closed' = [closed EXCEPT ![Inst(t)] = thread[t].k]
      <4>1. CASE Inst(t) = i
        <5>1. thread[t].pc = "close" /\ thread[t].k # k
          BY <1>0, <1>4, <2>2, <4>1, CloseSteps DEF Inst
        <5>2. closed[i] = thread[t].k - 1 \/ (thread[t].k = 1 /\ closed[i] > 0)
          BY <4>1, <5>1 DEF Basics, StopsInOrder, Stops, StopSteps
        <5>3. closed[i] \in 0..K /\ thread[t].k \in 0..K /\ closed'[i] = thread[t].k
          BY <1>0, <1>b, <3>2, <4>1 DEF TypeOK
        <5> QED
          BY <2>2, <3>2, <4>1, <5>1, <5>2, <5>3
      <4>2. CASE Inst(t) # i
        BY <1>0, <1>b, <2>2, <3>2, <4>2 DEF TypeOK
      <4> QED
        BY <4>1, <4>2
    <3> QED
      BY <1>0, <1>4, <3>1, <3>2, CloseSteps
  <2>4. Held(i)'
    <3>1. UNCHANGED <<registry, uuidOf>> /\ \A s \in Clients : Starts(s) => Starts(s)' /\ Inst(s)' = Inst(s)
      BY <1>0, <1>4, CloseSteps DEF Starts, StartSteps, Inst, Threads
    <3> QED
      BY <2>2, <3>1 DEF Held
  <2>5. \A s \in Threads : thread'[s].pc = "close" /\ thread'[s].inst = i => thread'[s].k # k
    BY <1>0, <1>4, <2>2, CloseSteps DEF Threads
  <2> QED
    BY <2>3, <2>4, <2>5
<1>5. ASSUME NEW t \in Threads, Join(t) PROVE JobsTick'
  <2>1. jobs' \subseteq jobs /\ mixed \subseteq mixed' /\ made <= made' /\ \A i \in 1..made : uuidOf'[i] = uuidOf[i]
    BY <1>0, <1>5, JoinSteps DEF TypeOK
  <2> SUFFICES ASSUME NEW i \in 1..made, NEW k \in 1..K, uuidOf[i] \notin mixed, Ticks(i, k),
                      NEW j \in jobs', JobOf(j, i, k)
               PROVE  /\ closed'[i] < k /\ Held(i)'
                      /\ \A s \in Threads : thread'[s].pc = "close" /\ thread'[s].inst = i => thread'[s].k # k
    <3> HIDE DEF Quits, Only
    <3> QED
      BY <1>0, <2>1, JobsStay
  <2>2. closed[i] < k /\ Held(i) /\ \A s \in Threads : thread[s].pc = "close" /\ thread[s].inst = i => thread[s].k # k
    BY DEF Ticks, Inst
  <2>3. closed'[i] < k
    BY <1>0, <1>5, <2>2, JoinSteps
  <2>4. Held(i)'
    <3>1. UNCHANGED <<registry, uuidOf>> /\ \A s \in Clients : Starts(s) => Starts(s)' /\ Inst(s)' = Inst(s)
      BY <1>0, <1>5, JoinSteps DEF Starts, StartSteps, Inst, Threads
    <3> QED
      BY <2>2, <3>1 DEF Held
  <2>5. \A s \in Threads : thread'[s].pc = "close" /\ thread'[s].inst = i => thread'[s].k # k
    BY <1>0, <1>5, <2>2, JoinSteps DEF Threads
  <2> QED
    BY <2>3, <2>4, <2>5
<1>6. ASSUME NEW t \in Threads, Delete(t) PROVE JobsTick'
  <2>1. jobs' \subseteq jobs /\ mixed \subseteq mixed' /\ made <= made' /\ \A i \in 1..made : uuidOf'[i] = uuidOf[i]
    BY <1>0, <1>6, DeleteSteps DEF TypeOK
  <2> SUFFICES ASSUME NEW i \in 1..made, NEW k \in 1..K, uuidOf[i] \notin mixed, Ticks(i, k),
                      NEW j \in jobs', JobOf(j, i, k)
               PROVE  /\ closed'[i] < k /\ Held(i)'
                      /\ \A s \in Threads : thread'[s].pc = "close" /\ thread'[s].inst = i => thread'[s].k # k
    <3> HIDE DEF Quits, Only
    <3> QED
      BY <1>0, <2>1, JobsStay
  <2>2. closed[i] < k /\ Held(i) /\ \A s \in Threads : thread[s].pc = "close" /\ thread[s].inst = i => thread[s].k # k
    BY DEF Ticks, Inst
  <2>3. closed'[i] < k
    BY <1>0, <1>6, <2>2, DeleteSteps
  <2>4. Held(i)'
    <3>1. uuidOf' = uuidOf /\ \A s \in Clients : Starts(s) => Starts(s)' /\ Inst(s)' = Inst(s)
      BY <1>0, <1>6, DeleteSteps DEF Starts, StartSteps, Inst, Threads
    <3>2. GotOn(t) /\ closed[Inst(t)] = K /\ Uuid(t) \in Uuids
      BY <1>0, <1>6, DeleteSteps DEF GotOn, Basics, StopsInOrder, Stops, StopSteps, AboutPipelines
    <3>3. CASE registry[uuidOf[i]] = i
      <4>1. ASSUME uuidOf[i] = Uuid(t) PROVE FALSE
        <5>1. registry[Uuid(t)] = Inst(t)
          BY <3>2, <4>1 DEF Unmixed, HeldIsRegistered
        <5>2. closed[i] = K
          BY <3>2, <3>3, <4>1, <5>1
        <5> QED
          BY <2>2, <5>2
      <4>2. registry'[uuidOf[i]] = registry[uuidOf[i]]
        BY <1>0, <1>b, <1>6, <4>1, DeleteSteps DEF TypeOK
      <4> QED
        BY <3>1, <3>3, <4>2 DEF Held
    <3>4. CASE \E s \in Clients : Starts(s) /\ Inst(s) = i
      BY <3>1, <3>4 DEF Held
    <3> QED
      BY <2>2, <3>3, <3>4 DEF Held
  <2>5. \A s \in Threads : thread'[s].pc = "close" /\ thread'[s].inst = i => thread'[s].k # k
    BY <1>0, <1>6, <2>2, DeleteSteps DEF Threads
  <2> QED
    BY <2>3, <2>4, <2>5
<1>7. ASSUME NEW t \in Threads, Check(t) PROVE JobsTick'
  <2>1. jobs' \subseteq jobs /\ mixed \subseteq mixed' /\ made <= made' /\ \A i \in 1..made : uuidOf'[i] = uuidOf[i]
    <3>1. made \in Nat /\ \A i \in 1..made : i # made + 1
      BY <1>0 DEF TypeOK
    <3> QED
      BY <1>0, <1>b, <1>7, <3>1, CheckSteps DEF TypeOK
  <2> SUFFICES ASSUME NEW i \in 1..made, NEW k \in 1..K, uuidOf[i] \notin mixed, Ticks(i, k),
                      NEW j \in jobs', JobOf(j, i, k)
               PROVE  /\ closed'[i] < k /\ Held(i)'
                      /\ \A s \in Threads : thread'[s].pc = "close" /\ thread'[s].inst = i => thread'[s].k # k
    <3> HIDE DEF Quits, Only
    <3> QED
      BY <1>0, <2>1, JobsStay
  <2>2. closed[i] < k /\ Held(i) /\ \A s \in Threads : thread[s].pc = "close" /\ thread[s].inst = i => thread[s].k # k
    BY DEF Ticks, Inst
  <2>3. closed'[i] < k
    BY <1>0, <1>7, <2>2, CheckSteps
  <2>4. Held(i)'
    <3>1. registry' = registry /\ \A s \in Clients : Starts(s) => Starts(s)' /\ Inst(s)' = Inst(s)
      BY <1>0, <1>7, CheckSteps DEF Starts, StartSteps, Inst, Threads
    <3>2. uuidOf'[i] = uuidOf[i]
      BY <2>1
    <3> QED
      BY <2>2, <3>1, <3>2 DEF Held
  <2>5. \A s \in Threads : thread'[s].pc = "close" /\ thread'[s].inst = i => thread'[s].k # k
    BY <1>0, <1>7, <2>2, CheckSteps DEF Threads
  <2> QED
    BY <2>3, <2>4, <2>5
<1>8. ASSUME NEW t \in Threads, Plug(t) PROVE JobsTick'
  <2>1. /\ Inst(t) \in 1..made /\ uuidOf[Inst(t)] = Uuid(t) /\ closed[Inst(t)] = 0
        /\ thread[t].k \in 1..K /\ Uuid(t) \in Uuids /\ t \in Clients
    BY <1>0, <1>8, PlugSteps DEF Basics, StartsInOrder, Starts, StartSteps, AboutPipelines, Threads, StopSteps
  <2>2. PICK h \in 1..made, n \in 1..K, u \in Uuids : h = Inst(t) /\ n = thread[t].k /\ u = Uuid(t)
    BY <2>1
  <2>3. UNCHANGED <<registry, made, uuidOf, closed, mixed>>
    BY <1>0, <1>8, PlugSteps
  <2>4. \A s \in Threads : thread'[s].pc = "close" => thread'[s] = thread[s] /\ Inst(s) # h
    BY <1>0, <1>8, <2>2, PlugSteps DEF Basics, HeldApart, Starts, StartSteps, Stops, StopSteps
  <2>5. \A s \in Clients : Starts(s) => Starts(s)' /\ Inst(s)' = Inst(s)
    BY <1>0, <1>8, PlugSteps DEF Starts, StartSteps, Inst, Threads
  <2>6. Starts(t)' /\ Inst(t)' = h
    BY <1>0, <1>8, <2>2, PlugSteps DEF Starts, StartSteps, Inst
  <2>7. ASSUME NEW j \in jobs PROVE \E i \in 1..made, k \in 1..K : JobOf(j, i, k)' /\ Ticks(i, k)'
    <3>1. PICK i \in 1..made, k \in 1..K : JobOf(j, i, k) /\ Ticks(i, k)
      BY DEF JobsTick
    <3>2. JobOf(j, i, k)'
      BY <2>3, <3>1 DEF JobOf
    <3>3. Held(i) => Held(i)'
      BY <2>3, <2>5 DEF Held
    <3>4. Ticks(i, k)'
      BY <2>3, <2>4, <3>1, <3>3 DEF Ticks, Inst
    <3> QED
      BY <3>2, <3>4
  <2>8. ASSUME <<u, n>> \in Scheduled, NEW j \in {[name |-> <<u, LabelOf[u][n]>>, agent |-> <<h, n>>]}
        PROVE  JobOf(j, h, n)' /\ Ticks(h, n)'
    <3>1. JobOf(j, h, n)'
      BY <2>1, <2>2, <2>3, <2>8 DEF JobOf
    <3>2. Held(h)'
      BY <2>1, <2>6 DEF Held
    <3>3. Ticks(h, n)'
      BY <2>1, <2>2, <2>3, <2>4, <3>2 DEF Ticks, Inst
    <3> QED
      BY <3>1, <3>3
  <2>9. jobs' = IF <<u, n>> \in Scheduled THEN jobs \cup {[name |-> <<u, LabelOf[u][n]>>, agent |-> <<h, n>>]} ELSE jobs
    BY <1>8, <2>2, PlugPlugs
  <2>10. ASSUME NEW j \in jobs' PROVE \E i \in 1..made, k \in 1..K : JobOf(j, i, k)' /\ Ticks(i, k)'
    <3>1. CASE j \in jobs
      BY <2>7, <3>1
    <3>2. CASE j \notin jobs
      <4>1. <<u, n>> \in Scheduled /\ j \in {[name |-> <<u, LabelOf[u][n]>>, agent |-> <<h, n>>]}
        BY <2>9, <3>2
      <4> QED
        BY <2>8, <4>1
    <3> QED
      BY <3>1, <3>2
  <2> QED
    BY <2>3, <2>10 DEF JobsTick
<1>9. ASSUME NEW t \in Threads, Store(t) PROVE JobsTick'
  <2>1. jobs' \subseteq jobs /\ mixed \subseteq mixed' /\ made <= made' /\ \A i \in 1..made : uuidOf'[i] = uuidOf[i]
    BY <1>0, <1>9, StoreSteps DEF TypeOK
  <2> SUFFICES ASSUME NEW i \in 1..made, NEW k \in 1..K, uuidOf[i] \notin mixed, Ticks(i, k),
                      NEW j \in jobs', JobOf(j, i, k)
               PROVE  /\ closed'[i] < k /\ Held(i)'
                      /\ \A s \in Threads : thread'[s].pc = "close" /\ thread'[s].inst = i => thread'[s].k # k
    <3> HIDE DEF Quits, Only
    <3> QED
      BY <1>0, <2>1, JobsStay
  <2>2. closed[i] < k /\ Held(i) /\ \A s \in Threads : thread[s].pc = "close" /\ thread[s].inst = i => thread[s].k # k
    BY DEF Ticks, Inst
  <2>3. closed'[i] < k
    BY <1>0, <1>9, <2>2, StoreSteps
  <2>4. Held(i)'
    <3>1. /\ uuidOf' = uuidOf /\ registry' = [registry EXCEPT ![Uuid(t)] = Inst(t)]
          /\ \A s \in Clients \ {t} : Starts(s) => Starts(s)' /\ Inst(s)' = Inst(s)
      BY <1>0, <1>9, StoreSteps DEF Starts, StartSteps, Inst, Threads
    <3>2. Starts(t) /\ Uuid(t) = uuidOf[Inst(t)] /\ Uuid(t) \in Uuids /\ Inst(t) \in 1..made
      BY <1>0, <1>9, StoreSteps DEF Starts, StartSteps, Basics, StartsInOrder, AboutPipelines
    <3>3. CASE i = Inst(t)
      BY <1>0, <3>1, <3>2, <3>3 DEF Held, TypeOK
    <3>4. CASE i # Inst(t)
      <4>1. t \in Clients
        BY <3>2 DEF Starts, StartSteps, Basics, AboutPipelines, Threads, StopSteps
      <4>2. Held(Inst(t))
        BY <3>2, <4>1 DEF Held
      <4>3. uuidOf[i] # Uuid(t)
        BY <2>2, <3>2, <3>4, <4>2, HeldOnce
      <4>4. registry'[uuidOf[i]] = registry[uuidOf[i]]
        BY <1>0, <1>b, <3>1, <4>3 DEF TypeOK
      <4> QED
        BY <2>2, <3>1, <3>4, <4>4 DEF Held
    <3> QED
      BY <3>3, <3>4
  <2>5. \A s \in Threads : thread'[s].pc = "close" /\ thread'[s].inst = i => thread'[s].k # k
    BY <1>0, <1>9, <2>2, StoreSteps DEF Threads
  <2> QED
    BY <2>3, <2>4, <2>5
<1>10. ASSUME ShutdownNext PROVE JobsTick'
  <2>1. jobs' \subseteq jobs /\ mixed \subseteq mixed' /\ made <= made' /\ \A i \in 1..made : uuidOf'[i] = uuidOf[i]
    BY <1>0, <1>10, ShutdownSteps DEF TypeOK
  <2> SUFFICES ASSUME NEW i \in 1..made, NEW k \in 1..K, uuidOf[i] \notin mixed, Ticks(i, k),
                      NEW j \in jobs', JobOf(j, i, k)
               PROVE  /\ closed'[i] < k /\ Held(i)'
                      /\ \A s \in Threads : thread'[s].pc = "close" /\ thread'[s].inst = i => thread'[s].k # k
    <3> HIDE DEF Quits, Only
    <3> QED
      BY <1>0, <2>1, JobsStay
  <2>2. closed[i] < k /\ Held(i) /\ \A s \in Threads : thread[s].pc = "close" /\ thread[s].inst = i => thread[s].k # k
    BY DEF Ticks, Inst
  <2>3. closed'[i] < k
    BY <1>0, <1>10, <2>2, ShutdownSteps
  <2>4. Held(i)'
    <3>1. UNCHANGED <<registry, uuidOf>> /\ \A s \in Clients : Starts(s) => Starts(s)' /\ Inst(s)' = Inst(s)
      BY <1>0, <1>10, ShutdownSteps DEF Starts, StartSteps, Inst, Threads
    <3> QED
      BY <2>2, <3>1 DEF Held
  <2>5. \A s \in Threads : thread'[s].pc = "close" /\ thread'[s].inst = i => thread'[s].k # k
    BY <1>0, <1>10, <2>2, ShutdownSteps DEF Threads
  <2> QED
    BY <2>3, <2>4, <2>5
<1>11. CASE Interrupt \/ RangeVisit \/ UNCHANGED vars
  <2>1. UNCHANGED <<registry, made, uuidOf, closed, jobs, thread, mixed>>
    BY <1>11 DEF Interrupt, RangeVisit, vars
  <2> QED
    BY <2>1 DEF JobsTick, JobOf, Ticks, Held, Starts, Inst
<1> QED
  BY <1>1, <1>2, <1>3, <1>4, <1>5, <1>6, <1>7, <1>8, <1>9, <1>10, <1>11 DEF Next, Step, Done
-----------------------------------------------------------------------------
(***************************************************************************)
(* A pipeline nobody is about keeps its routes and its jobs: what another  *)
(* one unplugs, or plugs over, is not its own.                             *)
(***************************************************************************)
LEMMA PluggedInNext ==
  ASSUME NEW u,
         registry'[u] # None => \A k \in 1..K : PluggedBy(routes', jobs', u, registry'[u], k),
         \A s \in Clients : Starts(s)' /\ thread'[s].uuid = u =>
            \A k \in 1..K : k > thread'[s].k => PluggedBy(routes', jobs', u, thread'[s].inst, k)
  PROVE  PluggedIn(u)'
BY DEF PluggedIn, Plugged, Uuid, Inst

LEMMA StaysPluggedIn ==
  ASSUME StaysPlugged, UNCHANGED <<routes, jobs, registry>>, mixed \subseteq mixed', dead \in BOOLEAN, dead => dead',
         \A s \in Threads : Unplugs(s) => Unplugs(s)' /\ Uuid(s)' = Uuid(s),
         \A s \in Clients : Starts(s)' =>
            thread'[s].k = K \/ (Starts(s) /\ thread'[s].uuid = thread[s].uuid /\ thread'[s].inst = thread[s].inst
                                 /\ thread'[s].k = thread[s].k)
  PROVE  StaysPlugged'
<1> USE Constants
<1> SUFFICES ASSUME ~dead', NEW u \in Uuids \ mixed' PROVE Unplugging(u)' \/ PluggedIn(u)'
  BY DEF StaysPlugged
<1>1. Unplugging(u) \/ PluggedIn(u)
  BY DEF StaysPlugged
<1>2. Unplugging(u) => Unplugging(u)'
  BY DEF Unplugging
<1>3. ASSUME PluggedIn(u) PROVE PluggedIn(u)'
  <2>1. registry'[u] # None => \A k \in 1..K : PluggedBy(routes', jobs', u, registry'[u], k)
    BY <1>3 DEF PluggedIn, Plugged
  <2>2. ASSUME NEW s \in Clients, Starts(s)', thread'[s].uuid = u, NEW k \in 1..K, k > thread'[s].k
        PROVE  PluggedBy(routes', jobs', u, thread'[s].inst, k)
    <3>1. ~(thread'[s].k = K)
      BY <2>2
    <3> QED
      BY <1>3, <2>2, <3>1 DEF PluggedIn, Plugged, Uuid, Inst
  <2> QED
    BY <2>1, <2>2, PluggedInNext
<1> QED
  BY <1>1, <1>2, <1>3

LEMMA StaysPluggedKept ==
  HooksApart /\ LabelsApart /\ Basics /\ Unmixed /\ JobsTick /\ StaysPlugged /\ [Next]_vars => StaysPlugged'
<1> SUFFICES ASSUME HooksApart, LabelsApart, Basics, Unmixed, JobsTick, StaysPlugged, [Next]_vars PROVE StaysPlugged'
  OBVIOUS
<1>0. TypeOK /\ TypeOK' /\ dead \in BOOLEAN
  BY TypeKept DEF Basics, TypeOK
<1> USE Constants DEF None, Quits, Only, KeepsPipeline, KeepsInstance, instanceVars, plugVars
<1>1. ASSUME NEW t \in Clients, Request(t) PROVE StaysPlugged'
  <2>1. UNCHANGED <<routes, jobs, registry>> /\ mixed \subseteq mixed' /\ (dead => dead')
    BY <1>0, <1>1, RequestSteps
  <2>2. \A s \in Threads : Unplugs(s) => Unplugs(s)' /\ Uuid(s)' = Uuid(s)
    BY <1>0, <1>1, RequestSteps DEF Unplugs, GotOn, Uuid, Threads, Basics, StopsInOrder, Stops, StopSteps
  <2>3. \A s \in Clients : Starts(s)' =>
            thread'[s].k = K \/ (Starts(s) /\ thread'[s].uuid = thread[s].uuid /\ thread'[s].inst = thread[s].inst
                                 /\ thread'[s].k = thread[s].k)
    BY <1>0, <1>1, RequestSteps DEF Starts, StartSteps, Threads
  <2> HIDE DEF Quits, Only
  <2> QED
    BY <1>0, <2>1, <2>2, <2>3, StaysPluggedIn
<1>2. ASSUME NEW t \in Threads, Load(t) PROVE StaysPlugged'
  <2>1. UNCHANGED <<routes, jobs, registry>> /\ mixed \subseteq mixed' /\ (dead => dead')
    BY <1>0, <1>2, LoadSteps
  <2>2. \A s \in Threads : Unplugs(s) => Unplugs(s)' /\ Uuid(s)' = Uuid(s)
    BY <1>0, <1>2, LoadSteps DEF Unplugs, GotOn, Uuid, Threads, Basics, StopsInOrder, Stops, StopSteps
  <2>3. \A s \in Clients : Starts(s)' =>
            thread'[s].k = K \/ (Starts(s) /\ thread'[s].uuid = thread[s].uuid /\ thread'[s].inst = thread[s].inst
                                 /\ thread'[s].k = thread[s].k)
    BY <1>0, <1>2, LoadSteps DEF Starts, StartSteps, Threads
  <2> HIDE DEF Quits, Only
  <2> QED
    BY <1>0, <2>1, <2>2, <2>3, StaysPluggedIn
<1>3. ASSUME NEW t \in Threads, Unplug(t) PROVE StaysPlugged'
  <2>1. UNCHANGED <<registry, uuidOf, mixed, dead>> /\ Uuid(t)' = Uuid(t) /\ Unplugs(t)'
    BY <1>0, <1>3, UnplugSteps DEF Uuid, Unplugs
  <2>2. \A s \in Threads \ {t} : thread'[s] = thread[s]
    BY <1>0, <1>3, UnplugSteps
  <2>3. /\ uuidOf[Inst(t)] = Uuid(t) /\ Uuid(t) \in Uuids /\ ~Starts(t)' /\ ~Starts(t)
        /\ thread[t].k \in 1..K
    BY <1>0, <1>3, UnplugSteps DEF Basics, StopsInOrder, Stops, StopSteps, AboutPipelines, Starts, StartSteps
  <2> SUFFICES ASSUME ~dead, NEW v \in Uuids \ mixed PROVE Unplugging(v)' \/ PluggedIn(v)'
    BY <2>1 DEF StaysPlugged
  <2>4. CASE v = Uuid(t)
    BY <2>1, <2>4 DEF Unplugging
  <2>5. CASE v # Uuid(t)
    <3>1. Unplugging(v) => Unplugging(v)'
      BY <2>2, <2>5 DEF Unplugging, Unplugs, GotOn, Uuid
    <3>2. ASSUME NEW i, NEW k \in 1..K, Plugged(v, i, k), uuidOf[i] = v
          PROVE  PluggedBy(routes', jobs', v, i, k)
      <4>1. ASSUME HookOf[v][k] # NoHook PROVE Url(v, k) \notin Urls(t)
        <5>1. CASE HookOf[Uuid(t)][thread[t].k] = NoHook
          BY <5>1 DEF Urls
        <5>2. CASE HookOf[Uuid(t)][thread[t].k] # NoHook
          BY <2>3, <2>5, <4>1, <5>2 DEF Urls, HooksApart
        <5> QED
          BY <5>1, <5>2
      <4>2. HookOf[v][k] # NoHook => Url(v, k) \in DOMAIN routes' /\ routes'[Url(v, k)] = <<i, k>>
        BY <1>3, <3>2, <4>1, UnplugPlugs DEF Plugged, PluggedBy
      <4>3. ASSUME NEW j \in jobs, j.agent = <<i, k>> PROVE j \notin Named(t)
        <5>1. PICK h \in 1..made, n \in 1..K : JobOf(j, h, n)
          BY DEF JobsTick
        <5>2. h = i
          BY <4>3, <5>1 DEF JobOf
        <5>3. j.name = <<v, LabelOf[v][n]>>
          BY <3>2, <5>1, <5>2 DEF JobOf
        <5> QED
          BY <2>5, <5>3 DEF Named
      <4>4. <<v, k>> \in Scheduled => \E j \in jobs' : j.agent = <<i, k>>
        <5> SUFFICES ASSUME <<v, k>> \in Scheduled PROVE \E j \in jobs' : j.agent = <<i, k>>
          OBVIOUS
        <5>1. PICK j \in jobs : j.agent = <<i, k>>
          BY <3>2 DEF Plugged, PluggedBy
        <5>2. j \notin Named(t)
          BY <4>3, <5>1
        <5>3. j \in jobs'
          BY <1>3, <5>2, UnplugPlugs
        <5> QED
          BY <5>1, <5>3
      <4> QED
        BY <4>2, <4>4 DEF PluggedBy
    <3>3. ASSUME PluggedIn(v) PROVE PluggedIn(v)'
      <4>1. ASSUME registry[v] # None, NEW k \in 1..K PROVE PluggedBy(routes', jobs', v, registry[v], k)
        <5>1. uuidOf[registry[v]] = v /\ Plugged(v, registry[v], k)
          BY <3>3, <4>1 DEF PluggedIn, Basics, RegisteredRuns
        <5> QED
          BY <3>2, <5>1
      <4>2. ASSUME NEW s \in Clients, Starts(s)', thread'[s].uuid = v, NEW k \in 1..K, k > thread'[s].k
            PROVE  PluggedBy(routes', jobs', v, thread'[s].inst, k)
        <5>1. s # t /\ thread'[s] = thread[s] /\ s \in Threads
          BY <2>2, <2>3, <4>2 DEF Threads
        <5>2. Starts(s) /\ Uuid(s) = v /\ k > thread[s].k
          BY <4>2, <5>1 DEF Starts, Uuid
        <5>3. uuidOf[Inst(s)] = v /\ Plugged(v, Inst(s), k)
          BY <3>3, <5>1, <5>2 DEF PluggedIn, Basics, StartsInOrder
        <5>4. thread'[s].inst = Inst(s)
          BY <5>1 DEF Inst
        <5> QED
          BY <3>2, <5>3, <5>4
      <4> QED
        BY <2>1, <4>1, <4>2, PluggedInNext
    <3> QED
      BY <3>1, <3>3 DEF StaysPlugged
  <2> QED
    BY <2>4, <2>5
<1>4. ASSUME NEW t \in Threads, Close(t) PROVE StaysPlugged'
  <2>1. UNCHANGED <<routes, jobs, registry, mixed>> /\ (dead => dead')
    BY <1>0, <1>4, CloseSteps
  <2>2. CASE thread'[t].pc = "join" /\ KeepsInstance(t)
    <3>1. \A s \in Threads : Unplugs(s) => Unplugs(s)' /\ Uuid(s)' = Uuid(s)
      BY <1>0, <1>4, <2>2, CloseSteps DEF Unplugs, GotOn, Uuid
    <3>2. \A s \in Clients : Starts(s)' => Starts(s) /\ thread'[s].uuid = thread[s].uuid
                               /\ thread'[s].inst = thread[s].inst /\ thread'[s].k = thread[s].k
      BY <1>0, <1>4, <2>2, CloseSteps DEF Starts, StartSteps, Threads
    <3> HIDE DEF Quits, Only, KeepsInstance
    <3> QED
      BY <1>0, <2>1, <3>1, <3>2, StaysPluggedIn
  <2>3. CASE closed[Inst(t)] >= thread[t].k /\ Quits(t) /\ dead' = (t = Main)
    <3>1. \A s \in Threads \ {t} : thread'[s] = thread[s]
      BY <1>0, <1>4, CloseSteps
    <3>2. /\ Stops(t) /\ Uuid(t) \in Uuids /\ uuidOf[Inst(t)] = Uuid(t) /\ Inst(t) \in 1..made
          /\ closed[Inst(t)] > 0 /\ thread[t].k = 1 /\ thread[t].pc = "close"
      <4>1. /\ Stops(t) /\ Uuid(t) \in Uuids /\ uuidOf[Inst(t)] = Uuid(t) /\ Inst(t) \in 1..made /\ thread[t].pc = "close"
            /\ thread[t].k \in 1..K
            /\ closed[Inst(t)] = thread[t].k - 1 \/ (thread[t].k = 1 /\ closed[Inst(t)] > 0)
        BY <1>0, <1>4, CloseSteps DEF Basics, StopsInOrder, Stops, StopSteps, AboutPipelines
      <4>2. Inst(t) \in Instances
        BY <1>0, <4>1 DEF TypeOK, Instances
      <4>3. closed[Inst(t)] \in 0..K
        BY <1>0, <4>2 DEF TypeOK
      <4> QED
        BY <2>3, <4>1, <4>3
    <3> SUFFICES ASSUME ~dead', NEW v \in Uuids \ mixed PROVE Unplugging(v)' \/ PluggedIn(v)'
      BY <2>1 DEF StaysPlugged
    <3>3. t # Main /\ t \in Clients
      BY <2>3 DEF Threads
    <3>5. CASE v # Uuid(t)
      <4>1. Unplugging(v) \/ PluggedIn(v)
        BY <2>1, <1>0 DEF StaysPlugged
      <4>2. Unplugging(v) => Unplugging(v)'
        BY <3>1, <3>5 DEF Unplugging, Unplugs, GotOn, Uuid
      <4>3. ASSUME PluggedIn(v) PROVE PluggedIn(v)'
        <5>1. ASSUME NEW s \in Clients, Starts(s)', Uuid(s)' = v
              PROVE  thread'[s] = thread[s]
          BY <2>3, <3>1, <5>1 DEF Starts, StartSteps, Threads
        <5>2. ASSUME NEW s \in Clients, Starts(s)', thread'[s].uuid = v, NEW k \in 1..K, k > thread'[s].k
              PROVE  PluggedBy(routes', jobs', v, thread'[s].inst, k)
          <6>1. thread'[s] = thread[s]
            BY <5>1, <5>2 DEF Uuid
          <6> QED
            BY <2>1, <4>3, <5>2, <6>1 DEF PluggedIn, Plugged, Starts, Uuid, Inst
        <5>3. registry'[v] # None => \A k \in 1..K : PluggedBy(routes', jobs', v, registry'[v], k)
          BY <2>1, <4>3 DEF PluggedIn, Plugged
        <5> QED
          BY <5>2, <5>3, PluggedInNext
      <4> QED
        BY <4>1, <4>2, <4>3
    <3>6. CASE v = Uuid(t)
      <4>1. registry[v] \in {Inst(t), None}
        BY <3>2, <3>3, <3>6 DEF Unmixed, HeldIsRegistered
      <4>2. CASE registry[v] = Inst(t) /\ registry[v] # None
        <5>1. PICK s \in Threads : GotOn(s) /\ Inst(s) = Inst(t)
          BY <3>2, <4>2 DEF Basics, RegisteredRuns
        <5>2. s # t
          BY <3>2, <5>1 DEF GotOn
        <5>3. Uuid(s) = v
          BY <3>2, <3>6, <5>1 DEF Basics, StopsInOrder, GotOn, Stops, StopSteps
        <5> QED
          BY <3>1, <5>1, <5>2, <5>3 DEF Unplugging, Unplugs, GotOn, Uuid
      <4>3. CASE registry[v] = None
        <5>1. ASSUME NEW s \in Clients, Starts(s)', Uuid(s)' = v PROVE FALSE
          <6>1. s # t /\ thread'[s] = thread[s]
            BY <2>3, <3>1, <5>1 DEF Starts, StartSteps, Threads
          <6>2. s \in About(v) /\ t \in About(v)
            BY <3>2, <3>6, <5>1, <6>1 DEF About, Starts, StartSteps, Uuid, Threads
          <6> QED
            BY <3>3, <6>1, <6>2 DEF Unmixed, OneClient
        <5> QED
          BY <2>1, <4>3, <5>1 DEF PluggedIn, Uuid
      <4> QED
        BY <4>1, <4>2, <4>3
    <3> QED
      BY <3>5, <3>6
  <2> QED
    BY <1>0, <1>4, <2>2, <2>3, CloseSteps
<1>5. ASSUME NEW t \in Threads, Join(t) PROVE StaysPlugged'
  <2>1. UNCHANGED <<routes, jobs, registry>> /\ mixed \subseteq mixed' /\ (dead => dead')
    BY <1>0, <1>5, JoinSteps
  <2>2. \A s \in Threads : Unplugs(s) => Unplugs(s)' /\ Uuid(s)' = Uuid(s)
    BY <1>0, <1>5, JoinSteps DEF Unplugs, GotOn, Uuid, Threads, Basics, StopsInOrder, Stops, StopSteps
  <2>3. \A s \in Clients : Starts(s)' =>
            thread'[s].k = K \/ (Starts(s) /\ thread'[s].uuid = thread[s].uuid /\ thread'[s].inst = thread[s].inst
                                 /\ thread'[s].k = thread[s].k)
    BY <1>0, <1>5, JoinSteps DEF Starts, StartSteps, Threads
  <2> HIDE DEF Quits, Only
  <2> QED
    BY <1>0, <2>1, <2>2, <2>3, StaysPluggedIn
<1>6. ASSUME NEW t \in Threads, Delete(t) PROVE StaysPlugged'
  <2>1. UNCHANGED <<routes, jobs, mixed, dead>> /\ registry' = [registry EXCEPT ![Uuid(t)] = None]
    BY <1>0, <1>6, DeleteSteps
  <2>2. \A s \in Threads \ {t} : thread'[s] = thread[s]
    BY <1>0, <1>6, DeleteSteps
  <2>3. GotOn(t) /\ Uuid(t) \in Uuids /\ Inst(t) # 0 /\ ~Starts(t)' /\ ~Starts(t) /\ thread[t].pc # "idle"
    BY <1>0, <1>6, DeleteSteps DEF GotOn, Basics, StopsInOrder, Stops, StopSteps, AboutPipelines, Starts, StartSteps
  <2> SUFFICES ASSUME ~dead, NEW v \in Uuids \ mixed PROVE Unplugging(v)' \/ PluggedIn(v)'
    BY <2>1 DEF StaysPlugged
  <2>4. CASE v # Uuid(t)
    <3>1. Unplugging(v) => Unplugging(v)'
      BY <2>2, <2>4 DEF Unplugging, Unplugs, GotOn, Uuid
    <3>2. registry'[v] = registry[v]
      BY <1>0, <2>1, <2>4 DEF TypeOK
    <3>3. \A s \in Clients : Starts(s)' => thread'[s] = thread[s]
      BY <2>2, <2>3 DEF Threads
    <3>4. ASSUME PluggedIn(v) PROVE PluggedIn(v)'
      <4>1. registry'[v] # None => \A k \in 1..K : PluggedBy(routes', jobs', v, registry'[v], k)
        BY <2>1, <3>2, <3>4 DEF PluggedIn, Plugged
      <4>2. ASSUME NEW s \in Clients, Starts(s)', thread'[s].uuid = v, NEW k \in 1..K, k > thread'[s].k
            PROVE  PluggedBy(routes', jobs', v, thread'[s].inst, k)
        <5>1. thread'[s] = thread[s]
          BY <3>3, <4>2
        <5> QED
          BY <2>1, <3>4, <4>2, <5>1 DEF PluggedIn, Plugged, Starts, Uuid, Inst
      <4> QED
        BY <4>1, <4>2, PluggedInNext
    <3> QED
      BY <3>1, <3>4 DEF StaysPlugged
  <2>5. CASE v = Uuid(t)
    <3>1. registry'[v] = None
      BY <1>0, <2>1, <2>3, <2>5 DEF TypeOK
    <3>2. registry[v] = Inst(t)
      BY <2>3, <2>5 DEF Unmixed, HeldIsRegistered
    <3>3. ASSUME NEW s \in Clients, Starts(s)', Uuid(s)' = v PROVE FALSE
      <4>1. s \in Threads /\ Starts(s) /\ Uuid(s) = v
        BY <2>2, <2>3, <3>3 DEF Threads, Starts, Uuid
      <4> QED
        BY <2>3, <3>2, <4>1 DEF Unmixed, HeldIsRegistered
    <3> QED
      BY <3>1, <3>3 DEF PluggedIn
  <2> QED
    BY <2>4, <2>5
<1>7. ASSUME NEW t \in Threads, Check(t) PROVE StaysPlugged'
  <2>1. UNCHANGED <<routes, jobs, registry>> /\ mixed \subseteq mixed' /\ (dead => dead')
    BY <1>0, <1>7, CheckSteps
  <2>2. \A s \in Threads : Unplugs(s) => Unplugs(s)' /\ Uuid(s)' = Uuid(s)
    BY <1>0, <1>7, CheckSteps DEF Unplugs, GotOn, Uuid, Threads, Basics, StopsInOrder, Stops, StopSteps
  <2>3. \A s \in Clients : Starts(s)' =>
            thread'[s].k = K \/ (Starts(s) /\ thread'[s].uuid = thread[s].uuid /\ thread'[s].inst = thread[s].inst
                                 /\ thread'[s].k = thread[s].k)
    BY <1>0, <1>7, CheckSteps DEF Starts, StartSteps, Threads
  <2> HIDE DEF Quits, Only
  <2> QED
    BY <1>0, <2>1, <2>2, <2>3, StaysPluggedIn
<1>8. ASSUME NEW t \in Threads, Plug(t) PROVE StaysPlugged'
  <2>1. /\ Inst(t) \in 1..made /\ uuidOf[Inst(t)] = Uuid(t) /\ Starts(t) /\ thread[t].pc # "idle"
        /\ thread[t].k \in 1..K /\ Uuid(t) \in Uuids /\ t \in Clients
    BY <1>0, <1>8, PlugSteps DEF Basics, StartsInOrder, Starts, StartSteps, AboutPipelines, Threads, StopSteps
  <2>2. PICK h \in 1..made, n \in 1..K, u \in Uuids : h = Inst(t) /\ n = thread[t].k /\ u = Uuid(t)
    BY <2>1
  <2>3. UNCHANGED <<registry, mixed, dead>> /\ \A s \in Threads \ {t} : thread'[s] = thread[s]
    BY <1>0, <1>8, PlugSteps
  <2>4. thread'[t].k = n - 1 /\ thread'[t].inst = h /\ thread'[t].uuid = u
    BY <1>0, <1>8, <2>2, PlugSteps DEF Inst, Uuid
  <2>5. /\ HookOf[u][n] = NoHook => routes' = routes
        /\ HookOf[u][n] # NoHook =>
             /\ DOMAIN routes' = DOMAIN routes \cup {Url(u, n)} /\ routes'[Url(u, n)] = <<h, n>>
             /\ \A url \in DOMAIN routes \ {Url(u, n)} : routes'[url] = routes[url]
        /\ jobs' = IF <<u, n>> \in Scheduled
                   THEN jobs \cup {[name |-> <<u, LabelOf[u][n]>>, agent |-> <<h, n>>]} ELSE jobs
    BY <1>8, <2>2, PlugPlugs
  <2>6. ASSUME NEW v \in Uuids, NEW i, NEW k \in 1..K, Plugged(v, i, k), <<v, k>> # <<u, n>>
        PROVE  PluggedBy(routes', jobs', v, i, k)
    <3>1. HookOf[v][k] # NoHook /\ HookOf[u][n] # NoHook => Url(v, k) # Url(u, n)
      BY <2>6 DEF HooksApart
    <3>2. jobs \subseteq jobs'
      BY <2>5
    <3> QED
      BY <2>5, <2>6, <3>1, <3>2 DEF Plugged, PluggedBy
  <2>7. PluggedBy(routes', jobs', u, h, n)
    <3>1. ASSUME <<u, n>> \in Scheduled PROVE \E j \in jobs' : j.agent = <<h, n>>
      <4>1. [name |-> <<u, LabelOf[u][n]>>, agent |-> <<h, n>>] \in jobs'
        BY <2>5, <3>1
      <4> QED
        BY <4>1
    <3> QED
      BY <2>5, <3>1 DEF PluggedBy
  <2> SUFFICES ASSUME ~dead, NEW v \in Uuids \ mixed PROVE Unplugging(v)' \/ PluggedIn(v)'
    BY <2>3 DEF StaysPlugged
  <2>8. Unplugging(v) => Unplugging(v)'
    BY <2>1, <2>3 DEF Unplugging, Unplugs, GotOn, Uuid, Starts, StartSteps
  <2>9. ASSUME PluggedIn(v) PROVE PluggedIn(v)'
    <3>1. ASSUME registry[v] # None, NEW k \in 1..K PROVE PluggedBy(routes', jobs', v, registry[v], k)
      <4>1. v # u
        BY <2>1, <2>2, <3>1 DEF Unmixed, HeldIsRegistered, Threads
      <4> QED
        BY <2>6, <2>9, <3>1, <4>1 DEF PluggedIn
    <3>2. ASSUME NEW s \in Clients, Starts(s)', thread'[s].uuid = v, NEW k \in 1..K, k > thread'[s].k
          PROVE  PluggedBy(routes', jobs', v, thread'[s].inst, k)
      <4>1. CASE s # t
        <5>1. thread'[s] = thread[s] /\ s \in Threads
          BY <2>3, <4>1 DEF Threads
        <5>2. Starts(s) /\ Uuid(s) = v /\ k > thread[s].k /\ thread'[s].inst = Inst(s) /\ thread[s].pc # "idle"
          BY <3>2, <5>1 DEF Starts, StartSteps, Uuid, Inst
        <5>3. v # u
          BY <2>1, <2>2, <4>1, <5>1, <5>2 DEF Unmixed, OneClient, About, Uuid
        <5>4. Plugged(v, Inst(s), k)
          BY <2>9, <5>2 DEF PluggedIn
        <5> QED
          BY <2>6, <5>2, <5>3, <5>4
      <4>2. CASE s = t
        <5>1. v = u /\ thread'[s].inst = h /\ k > n - 1
          BY <2>4, <3>2, <4>2
        <5>2. CASE k = n
          BY <2>7, <5>1, <5>2
        <5>3. CASE k # n
          <6>1. k > thread[t].k
            BY <2>2, <5>1, <5>3
          <6>2. Plugged(v, h, k)
            BY <2>1, <2>2, <2>9, <5>1, <6>1 DEF PluggedIn
          <6> QED
            BY <2>6, <5>1, <5>3, <6>2
        <5> QED
          BY <5>2, <5>3
      <4> QED
        BY <4>1, <4>2
    <3> QED
      BY <2>3, <3>1, <3>2, PluggedInNext
  <2> QED
    BY <2>8, <2>9 DEF StaysPlugged
<1>9. ASSUME NEW t \in Threads, Store(t) PROVE StaysPlugged'
  <2>1. UNCHANGED <<routes, jobs, mixed, dead>> /\ registry' = [registry EXCEPT ![Uuid(t)] = Inst(t)]
    BY <1>0, <1>9, StoreSteps
  <2>2. \A s \in Threads \ {t} : thread'[s] = thread[s]
    BY <1>0, <1>9, StoreSteps
  <2>3. Starts(t) /\ thread[t].k = 0 /\ Uuid(t) \in Uuids /\ ~Starts(t)' /\ ~Unplugs(t) /\ t \in Clients
    BY <1>0, <1>9, StoreSteps DEF Basics, StartsInOrder, Starts, StartSteps, AboutPipelines, Unplugs, GotOn, Threads, StopSteps
  <2> SUFFICES ASSUME ~dead, NEW v \in Uuids \ mixed PROVE Unplugging(v)' \/ PluggedIn(v)'
    BY <2>1 DEF StaysPlugged
  <2>4. Unplugging(v) => Unplugging(v)'
    BY <2>2, <2>3 DEF Unplugging, Unplugs, GotOn, Uuid
  <2>5. ASSUME PluggedIn(v) PROVE PluggedIn(v)'
    <3>1. ASSUME registry'[v] # None, NEW k \in 1..K PROVE PluggedBy(routes', jobs', v, registry'[v], k)
      <4>1. CASE v = Uuid(t)
        <5>1. registry'[v] = Inst(t)
          BY <1>0, <2>1, <4>1 DEF TypeOK
        <5> QED
          BY <2>1, <2>3, <2>5, <4>1, <5>1 DEF PluggedIn, Plugged
      <4>2. CASE v # Uuid(t)
        <5>1. registry'[v] = registry[v]
          BY <1>0, <2>1, <4>2 DEF TypeOK
        <5> QED
          BY <2>1, <2>5, <3>1, <5>1 DEF PluggedIn, Plugged
      <4> QED
        BY <4>1, <4>2
    <3>2. \A s \in Clients : Starts(s)' => thread'[s] = thread[s]
      BY <2>2, <2>3 DEF Threads
    <3>3. ASSUME NEW s \in Clients, Starts(s)', thread'[s].uuid = v, NEW k \in 1..K, k > thread'[s].k
          PROVE  PluggedBy(routes', jobs', v, thread'[s].inst, k)
      <4>1. thread'[s] = thread[s]
        BY <3>2, <3>3
      <4> QED
        BY <2>1, <2>5, <3>3, <4>1 DEF PluggedIn, Plugged, Starts, Uuid, Inst
    <3> QED
      BY <3>1, <3>3, PluggedInNext
  <2> QED
    BY <2>4, <2>5 DEF StaysPlugged
<1>10. ASSUME ShutdownNext PROVE StaysPlugged'
  <2>1. UNCHANGED <<routes, jobs, registry>> /\ mixed \subseteq mixed' /\ (dead => dead')
    BY <1>0, <1>10, ShutdownSteps
  <2>2. \A s \in Threads : Unplugs(s) => Unplugs(s)' /\ Uuid(s)' = Uuid(s)
    BY <1>0, <1>10, ShutdownSteps DEF Unplugs, GotOn, Uuid, Threads, Basics, StopsInOrder, Stops, StopSteps
  <2>3. \A s \in Clients : Starts(s)' =>
            thread'[s].k = K \/ (Starts(s) /\ thread'[s].uuid = thread[s].uuid /\ thread'[s].inst = thread[s].inst
                                 /\ thread'[s].k = thread[s].k)
    BY <1>0, <1>10, ShutdownSteps DEF Starts, StartSteps, Threads
  <2> HIDE DEF Quits, Only
  <2> QED
    BY <1>0, <2>1, <2>2, <2>3, StaysPluggedIn
<1>11. CASE Interrupt \/ RangeVisit \/ UNCHANGED vars
  <2>1. UNCHANGED <<registry, routes, jobs, thread, mixed, dead>>
    BY <1>11 DEF Interrupt, RangeVisit, vars
  <2>2. \A s \in Threads : Unplugs(s) => Unplugs(s)' /\ Uuid(s)' = Uuid(s)
    BY <2>1 DEF Unplugs, GotOn, Uuid
  <2>3. \A s \in Clients : Starts(s)' =>
            thread'[s].k = K \/ (Starts(s) /\ thread'[s].uuid = thread[s].uuid /\ thread'[s].inst = thread[s].inst
                                 /\ thread'[s].k = thread[s].k)
    BY <2>1 DEF Starts
  <2> QED
    BY <1>0, <2>1, <2>2, <2>3, StaysPluggedIn
<1> QED
  BY <1>1, <1>2, <1>3, <1>4, <1>5, <1>6, <1>7, <1>8, <1>9, <1>10, <1>11 DEF Next, Step, Done
-----------------------------------------------------------------------------
(***************************************************************************)
(* The theorems.                                                           *)
(***************************************************************************)
THEOREM InvariantHolds == Spec => []IInv
<1>1. Init => IInv
  BY InitIInv
<1>2. IInv /\ [Next]_vars => IInv'
  BY BasicsKept, UnmixedKept, StopsKept, RoutesLeadKept, ShutdownGoesOnKept DEF IInv
<1> QED
  BY <1>1, <1>2, PTL DEF Spec

\* Every registry entry, instance, route, job and goroutine is of its kind.
THEOREM TypesHold == Spec => []TypeOK
<1>1. IInv => TypeOK
  BY DEF IInv, Basics
<1> QED
  BY <1>1, InvariantHolds, PTL

LEMMA LiveIsOne ==
  ASSUME IInv, NEW u \in Uuids \ mixed, NEW h \in LiveOf(u), NEW i \in LiveOf(u) PROVE h = i
<1> USE Constants
<1>1. ASSUME NEW l \in LiveOf(u) PROVE l \in 1..made /\ uuidOf[l] = u /\ Held(l)
  <2>1. l \in Instances /\ uuidOf[l] = u /\ Live(l) /\ l \in Nat /\ l # 0 /\ made \in Nat
    BY DEF LiveOf, IInv, Basics, TypeOK, Instances
  <2>2. l \in 1..made
    BY <2>1 DEF IInv, Basics, InstancesInOrder, Live
  <2> QED
    BY <2>1, <2>2 DEF IInv, Unmixed, LiveIsHeld, Held
<1> QED
  BY <1>1, HeldOnce DEF IInv

\* Of a pipeline no two requests were about at a time, at most one instance is
\* alive: Pipeline.Start's check for one with the same uuid suffices there.
THEOREM OneInstanceHolds == Spec => []OneInstanceUnlessMixed
<1>1. ASSUME IInv, NEW u \in Uuids \ mixed PROVE Cardinality(LiveOf(u)) <= 1
  <2>1. CASE LiveOf(u) = {}
    BY <2>1, FS_EmptySet
  <2>2. CASE LiveOf(u) # {}
    <3>1. PICK i \in LiveOf(u) : LiveOf(u) = {i}
      BY <1>1, <2>2, LiveIsOne
    <3> QED
      BY <3>1, FS_Singleton
  <2> QED
    BY <2>1, <2>2
<1>2. IInv => OneInstanceUnlessMixed
  BY <1>1 DEF OneInstanceUnlessMixed
<1> QED
  BY <1>2, InvariantHolds, PTL

LEMMA RegisteredIsLive ==
  ASSUME IInv, NEW u \in Uuids, About(u) = {}, registry[u] # None
  PROVE  registry[u] \in LiveOf(u) /\ closed[registry[u]] = 0
<1> USE Constants
<1> DEFINE i == registry[u]
<1>1. /\ i \in 1..made /\ uuidOf[i] = u /\ started[i] = K
      /\ closed[i] > 0 => \E t \in Threads : GotOn(t) /\ Inst(t) = i
  BY DEF IInv, Basics, RegisteredRuns
<1>2. \A t \in Threads : GotOn(t) /\ Inst(t) = i => t \in About(u)
  BY <1>1 DEF IInv, Basics, StopsInOrder, Stops, StopSteps, GotOn, About, Uuid, Inst
<1>3. i \in Instances
  BY <1>1 DEF IInv, Basics, TypeOK, Instances
<1>4. closed[i] \in 0..K /\ drained[i] \in 0..K /\ drained[i] <= closed[i]
  BY <1>3 DEF IInv, Basics, TypeOK, InstancesInOrder
<1>5. closed[i] = 0
  BY <1>1, <1>2, <1>4
<1> QED
  BY <1>1, <1>3, <1>4, <1>5 DEF LiveOf, Live

\* Of a pipeline no two requests were about at a time, the registry holds what
\* runs once no request is about it, and nothing else.
THEOREM RegistryTruthfulHolds == Spec => []RegistryTruthful
<1>1. ASSUME IInv, NEW u \in Uuids \ mixed, About(u) = {} PROVE LiveOf(u) = {registry[u]} \ {None}
  <2>1. ASSUME NEW i \in LiveOf(u) PROVE registry[u] = i /\ i # None
    <3>1. i \in Instances /\ uuidOf[i] = u /\ Live(i) /\ made \in Nat /\ i \in Nat /\ i # 0
      BY <1>1, Constants DEF LiveOf, IInv, Basics, TypeOK, Instances
    <3>2. i \in 1..made
      BY <1>1, <3>1 DEF IInv, Basics, InstancesInOrder, Live
    <3>3. \A t \in Clients : Starts(t) /\ Inst(t) = i => t \in About(u)
      BY <1>1, <3>1 DEF IInv, Basics, StartsInOrder, Starts, StartSteps, About, Uuid, Inst, Threads
    <3> QED
      BY <1>1, <3>1, <3>2, <3>3 DEF IInv, Unmixed, LiveIsHeld, None
  <2>2. registry[u] # None => registry[u] \in LiveOf(u)
    BY <1>1, RegisteredIsLive
  <2> QED
    BY <2>1, <2>2
<1>2. IInv => RegistryTruthful
  BY <1>1 DEF RegistryTruthful
<1> QED
  BY <1>2, InvariantHolds, PTL

\* However requests overlap, and whoever panics at a channel closed twice, no
\* stopped pipeline stays registered.
THEOREM NoDeadPipelineHolds == Spec => []NoDeadPipelineRegistered
<1>1. IInv => NoDeadPipelineRegistered
  BY RegisteredIsLive DEF NoDeadPipelineRegistered
<1> QED
  BY <1>1, InvariantHolds, PTL

\* When core.Stop returns, what was registered when it was called is drained,
\* whatever is started and stopped meanwhile and however it overlaps, but for the
\* pipelines of which a second start has replaced a registered instance.
THEOREM ShutdownHolds == Spec => []ShutdownIsComplete
<1>1. IInv => ShutdownIsComplete
  <2> SUFFICES ASSUME IInv, shutdown.phase = "done", NEW i \in shutdown.had, uuidOf[i] \notin doubled, drained[i] # K
               PROVE  FALSE
    BY DEF ShutdownIsComplete
  <2>1. /\ shutdown.seen = Uuids /\ shutdown.todo = {} /\ thread[Main].pc = "idle" /\ ~dead
        /\ i \in 1..made /\ (uuidOf[i] \in shutdown.seen => SeesTo(i))
    BY DEF IInv, ShutdownGoesOn
  <2>2. uuidOf[i] \in Uuids
    BY <2>1, Constants DEF IInv, Basics, InstancesInOrder, TypeOK, Instances
  <2> QED
    BY <2>1, <2>2 DEF SeesTo, Stops, StopSteps
<1> QED
  BY <1>1, InvariantHolds, PTL

\* However requests overlap and names collide, no url leads to the handler of
\* an agent whose channel is closed: Agent.stop deletes both urls first.
THEOREM RoutesLeadToTheRunning == Spec => [](\A url \in DOMAIN routes : closed[routes[url][1]] < routes[url][2])
<1>1. IInv => \A url \in DOMAIN routes : closed[routes[url][1]] < routes[url][2]
  BY DEF IInv, RoutesLead, RouteTo
<1> QED
  BY <1>1, InvariantHolds, PTL

\* With hooks and labels apart, a running pipeline has its routes and its jobs,
\* and what is closed has none, whatever starts and stops next to it.
THEOREM PluggedHolds == HooksApart /\ LabelsApart => (Spec => []PluggedWhileRunning)
<1> SUFFICES ASSUME HooksApart, LabelsApart PROVE Spec => []PluggedWhileRunning
  OBVIOUS
<1>1. Init => PlugInv
  BY InitIInv
<1>2. IInv /\ PlugInv /\ [Next]_vars => PlugInv'
  BY JobsTickKept, StaysPluggedKept DEF IInv, PlugInv
<1>3. IInv /\ PlugInv => PluggedWhileRunning
  <2> SUFFICES ASSUME IInv, PlugInv PROVE PluggedWhileRunning
    OBVIOUS
  <2>1. \A url \in DOMAIN routes : closed[routes[url][1]] < routes[url][2]
    BY DEF IInv, RoutesLead, RouteTo
  <2>2. ASSUME NEW j \in jobs, j.name[1] \notin mixed PROVE closed[j.agent[1]] < j.agent[2]
    <3>1. PICK i \in 1..made, k \in 1..K : JobOf(j, i, k) /\ Ticks(i, k)
      BY DEF PlugInv, JobsTick
    <3>2. j.name[1] = uuidOf[i] /\ j.agent[1] = i /\ j.agent[2] = k
      BY <3>1 DEF JobOf
    <3> QED
      BY <2>2, <3>1, <3>2 DEF Ticks
  <2>3. ASSUME ~dead, NEW u \in Uuids \ mixed, About(u) = {}, registry[u] # None, NEW k \in 1..K
        PROVE  PluggedBy(routes, jobs, u, registry[u], k)
    <3>1. ~Unplugging(u)
      BY <2>3 DEF Unplugging, Unplugs, GotOn, About, Uuid
    <3> QED
      BY <2>3, <3>1 DEF PlugInv, StaysPlugged, PluggedIn, Plugged
  <2>4. RunningIsPlugged
    BY <2>3 DEF RunningIsPlugged, PluggedBy
  <2> QED
    BY <2>1, <2>2, <2>4 DEF PluggedWhileRunning, StoppedIsUnplugged
<1> QED
  BY <1>1, <1>2, <1>3, InvariantHolds, PTL DEF Spec
=============================================================================
