---------------------------- MODULE AgentRuntime ----------------------------
(***************************************************************************)
(* The runtime of one pipeline: core/agent.go and core/pipeline.go.        *)
(*                                                                         *)
(* Every agent owns a buffered channel (packetChan).  Goroutines:          *)
(*   - Workers:  the listen loops of an agent (PoolSize of them);          *)
(*   - Joined:   a producer goroutine that Processor.Stop waits for (the   *)
(*               hand-shake of input-stdin);                               *)
(*   - Detached: a producer goroutine whose source Processor.Stop closes   *)
(*               without waiting for it (input-udp, -syslog, -twitter);    *)
(*   - Ticks:    the goroutines `go a.processor.Tick` of the scheduler;    *)
(*   - one supervisor per agent (wg.Wait, processor.Stop, close(Done));    *)
(*   - the caller of Pipeline.Start and, later, of Pipeline.stop.          *)
(* An event is the number of its emission; its fields are abstracted.      *)
(***************************************************************************)
EXTENDS Integers, Sequences

CONSTANTS
  Agents,      \* the agents of the pipeline
  Ports,       \* output port numbers
  Workers, Joined, Detached, Ticks,   \* the goroutines, by kind
  Owner,       \* the agent a goroutine belongs to
  Outputs,     \* Outputs[a][p]: a.outputs[p], the agents whose channel is wired
  Calls,       \* Calls[a]: the lists of ports one Receive (or read) may Send to
  Buffer,      \* conf.Buffer, the capacity of packetChan
  StartOrder, StopOrder,   \* Sort(agents, SortOutputsFirst / SortInputsFirst)
  BrokenInputs,\* Joined producers whose processor.Start fails
  MaxEvents    \* bound: events produced in a behaviour

Readers == Joined \cup Detached
Threads == Workers \cup Readers \cup Ticks
N == Len(StopOrder)

\* The agents that may receive an event from a: the union of a's port lists.
Downstream(a) ==
  {b \in Agents : \E p \in Ports : \E i \in DOMAIN Outputs[a][p] : Outputs[a][p][i] = b}

ThreadsAssumption ==
  /\ Workers \cap Readers = {} /\ Workers \cap Ticks = {} /\ Readers \cap Ticks = {}
  /\ Joined \cap Detached = {}
  /\ Owner \in [Threads -> Agents]
  /\ BrokenInputs \subseteq Joined

WiringAssumption ==
  /\ Outputs \in [Agents -> [Ports -> Seq(Agents)]]
  /\ \A a \in Agents : Calls[a] \subseteq Seq(Ports)
  /\ Buffer \in Nat \ {0} /\ MaxEvents \in Nat

\* Sort returns every agent once, sources before the agents they feed.
Before(a, b, order) ==
  \A i, j \in DOMAIN order : order[i] = a /\ order[j] = b => i < j
Enumerates(order) ==
  /\ order \in Seq(Agents)
  /\ \A a \in Agents : \E i \in DOMAIN order : order[i] = a
  /\ \A i, j \in DOMAIN order : order[i] = order[j] => i = j

OrderAssumption ==
  /\ Enumerates(StopOrder) /\ Enumerates(StartOrder)
  /\ Len(StartOrder) = Len(StopOrder)
  /\ \A a \in Agents : \A b \in Downstream(a) :
       Before(a, b, StopOrder) /\ Before(b, a, StartOrder)

ASSUME RuntimeAssumption == ThreadsAssumption /\ WiringAssumption /\ OrderAssumption

VARIABLES
  chan,       \* packetChan of every agent
  received,   \* events handed to processor.Receive, in order (history)
  pc,         \* where a goroutine is: "off", "idle", "busy" or "gone"
  calls,      \* ports of the Send calls a busy goroutine has yet to make
  out,        \* recipients left in the Send call it is making
  ev,         \* the event it holds
  sup,        \* supervisor of an agent: "off", "wait", "stop" or "done"
  nStarted,   \* agents started by Pipeline.Start, in StartOrder
  stopCalled, \* Pipeline.stop was called
  nClosed,    \* agents whose packetChan Pipeline.stop has closed
  nJoined,    \* agents whose Done it has waited for
  emitted,    \* number of events produced
  panicked    \* a send hit a closed channel: the process is dead

vars == <<chan, received, pc, calls, out, ev, sup, nStarted, stopCalled,
          nClosed, nJoined, emitted, panicked>>
threadVars == <<pc, calls, out, ev>>
stopVars   == <<stopCalled, nClosed, nJoined>>

Closed  == {StopOrder[i] : i \in 1..nClosed}
Started == {StartOrder[i] : i \in 1..nStarted}
WorkersOf(a) == {w \in Workers : Owner[w] = a}
JoinedOf(a)  == {r \in Joined : Owner[r] = a}

Init ==
  /\ chan = [a \in Agents |-> <<>>]
  /\ received = [a \in Agents |-> <<>>]
  /\ pc = [t \in Threads |-> "off"]
  /\ calls = [t \in Threads |-> <<>>]
  /\ out = [t \in Threads |-> <<>>]
  /\ ev = [t \in Threads |-> 0]
  /\ sup = [a \in Agents |-> "off"]
  /\ nStarted = 0
  /\ stopCalled = FALSE /\ nClosed = 0 /\ nJoined = 0
  /\ emitted = 0
  /\ panicked = FALSE

(***************************************************************************)
(* Pipeline.Start: the agents are started one by one, outputs first.  An   *)
(* error of processor.Start is only logged: the workers start anyway, but  *)
(* the producer goroutine was never launched.                              *)
(***************************************************************************)
StartNext(order) ==
  /\ ~panicked
  /\ nStarted < N
  /\ LET a == order[nStarted + 1] IN
       /\ pc' = [t \in Threads |->
                   IF Owner[t] = a /\ t \notin Ticks /\ t \notin BrokenInputs
                   THEN "idle" ELSE pc[t]]
       /\ sup' = [sup EXCEPT ![a] = "wait"]
  /\ nStarted' = nStarted + 1
  /\ UNCHANGED <<chan, received, calls, out, ev, stopVars, emitted, panicked>>

\* Mutant: Pipeline.Start walks the agents in the order Pipeline.stop uses.
StartAgent_InputsFirst == StartNext(StopOrder)
StartAgent == StartNext(StartOrder)

(***************************************************************************)
(* listen: take an event, Receive it, send what the processor emits.       *)
(***************************************************************************)
Take(w) ==
  LET a == Owner[w] IN
  /\ ~panicked
  /\ pc[w] = "idle" /\ chan[a] # <<>>
  /\ chan' = [chan EXCEPT ![a] = Tail(@)]
  /\ received' = [received EXCEPT ![a] = Append(@, Head(chan[a]))]
  /\ ev' = [ev EXCEPT ![w] = Head(chan[a])]
  /\ pc' = [pc EXCEPT ![w] = "busy"]
  /\ \E c \in Calls[a] : calls' = [calls EXCEPT ![w] = c]
  /\ UNCHANGED <<out, sup, nStarted, stopVars, emitted, panicked>>

\* The range loop ends once packetChan is closed and drained; wg.Done.
LeaveLoop(w) ==
  /\ ~panicked
  /\ pc[w] = "idle"
  /\ pc' = [pc EXCEPT ![w] = "gone"]
  /\ UNCHANGED <<chan, received, calls, out, ev, sup, nStarted, stopVars,
                 emitted, panicked>>

\* Mutant: a worker leaves without draining.
ExitWorker_Undrained(w) == Owner[w] \in Closed /\ LeaveLoop(w)
ExitWorker(w) == chan[Owner[w]] = <<>> /\ Owner[w] \in Closed /\ LeaveLoop(w)

(***************************************************************************)
(* Producers.  A reader that has something to read while its source is     *)
(* open, or a tick goroutine, builds a new event and calls Send.           *)
(***************************************************************************)
Emit(t) ==
  /\ ~panicked
  /\ t \in Readers \cup Ticks
  /\ pc[t] = "idle" /\ emitted < MaxEvents
  /\ emitted' = emitted + 1
  /\ ev' = [ev EXCEPT ![t] = emitted + 1]
  /\ pc' = [pc EXCEPT ![t] = "busy"]
  /\ \E c \in Calls[Owner[t]] : calls' = [calls EXCEPT ![t] = c]
  /\ UNCHANGED <<chan, received, out, sup, nStarted, stopVars, panicked>>

\* The cron job of a started agent spawns `go a.processor.Tick`, until
\* stop() removes the job.
SpawnTick(t) ==
  /\ ~panicked
  /\ t \in Ticks
  /\ pc[t] = "off" /\ Owner[t] \in Started \ Closed
  /\ pc' = [pc EXCEPT ![t] = "idle"]
  /\ UNCHANGED <<chan, received, calls, out, ev, sup, nStarted, stopVars,
                 emitted, panicked>>

(***************************************************************************)
(* Agent.send: one call serves one port; every recipient wired to it gets  *)
(* the event (the last reference itself or a Clone), in order, each by a   *)
(* blocking channel send.  A send on a closed channel panics.              *)
(***************************************************************************)
BeginSend(t) ==
  /\ ~panicked
  /\ pc[t] = "busy" /\ out[t] = <<>> /\ calls[t] # <<>>
  /\ out' = [out EXCEPT ![t] = Outputs[Owner[t]][Head(calls[t])]]
  /\ calls' = [calls EXCEPT ![t] = Tail(@)]
  /\ UNCHANGED <<chan, received, pc, ev, sup, nStarted, stopVars, emitted, panicked>>

\* The channel the next send of t goes to; newChan is what the send makes of it.
Target(t) == chan[Head(out[t])]
Deliver(t, newChan) ==
  /\ Head(out[t]) \notin Closed
  /\ chan' = [chan EXCEPT ![Head(out[t])] = newChan]
  /\ out' = [out EXCEPT ![t] = Tail(@)]
  /\ UNCHANGED panicked
SendOnClosed(t) ==
  /\ Head(out[t]) \in Closed
  /\ panicked' = TRUE
  /\ UNCHANGED <<chan, out>>
InSend(t) ==
  /\ ~panicked
  /\ pc[t] = "busy" /\ out[t] # <<>>
  /\ UNCHANGED <<received, pc, calls, ev, sup, nStarted, stopVars, emitted>>

\* Mutants: one goroutine per send, so that sends overtake each other; a send
\* that does not block when the channel is full.
Send_Async(t) ==
  /\ InSend(t) /\ Len(Target(t)) < Buffer
  /\ \E i \in 0..Len(Target(t)) :
       Deliver(t, SubSeq(Target(t), 1, i) \o <<ev[t]>> \o SubSeq(Target(t), i + 1, Len(Target(t))))
Send_DropWhenFull(t) ==
  InSend(t) /\ Deliver(t, IF Len(Target(t)) < Buffer THEN Append(Target(t), ev[t]) ELSE Target(t))

Send(t) ==
  /\ InSend(t)
  /\ \/ SendOnClosed(t)
     \/ Len(Target(t)) < Buffer /\ Deliver(t, Append(Target(t), ev[t]))

\* Receive (or the body of the reader's loop, or Tick) returns.  A reader
\* whose source was closed meanwhile leaves its loop; a tick is over.
Finish(t) ==
  /\ ~panicked
  /\ pc[t] = "busy" /\ out[t] = <<>> /\ calls[t] = <<>>
  /\ pc' = [pc EXCEPT ![t] =
              IF t \in Ticks \/ (t \in Detached /\ sup[Owner[t]] = "done")
              THEN "gone" ELSE "idle"]
  /\ ev' = [ev EXCEPT ![t] = 0]
  /\ UNCHANGED <<chan, received, calls, out, sup, nStarted, stopVars, emitted, panicked>>

(***************************************************************************)
(* Pipeline.stop: for every agent, sources first, remove its job, close    *)
(* its channel, wait for its Done.                                         *)
(***************************************************************************)
RequestStop ==
  /\ ~panicked
  /\ nStarted = N /\ ~stopCalled
  /\ stopCalled' = TRUE
  /\ UNCHANGED <<chan, received, threadVars, sup, nStarted, nClosed, nJoined,
                 emitted, panicked>>

CloseNext ==
  /\ ~panicked
  /\ stopCalled
  /\ nClosed' = nClosed + 1
  /\ UNCHANGED <<chan, received, threadVars, sup, nStarted, stopCalled, nJoined,
                 emitted, panicked>>

\* Mutants: the next channel is closed without waiting for Done; the loop
\* runs once too often.
CloseChan_NoWait  == nClosed < N /\ CloseNext
CloseChan_OneMore == nClosed = nJoined /\ nClosed <= N /\ CloseNext
CloseChan == nClosed = nJoined /\ nClosed < N /\ CloseNext

Join(a) ==
  /\ ~panicked
  /\ nJoined < nClosed
  /\ sup[a] = "done"
  /\ nJoined' = nClosed
  /\ UNCHANGED <<chan, received, threadVars, sup, nStarted, stopCalled, nClosed,
                 emitted, panicked>>

\* Mutant: waits for the Done of the last agent of the list.
JoinAgent_LastAgent == Join(StopOrder[N])
JoinAgent == Join(StopOrder[nClosed])

(***************************************************************************)
(* The supervisor goroutine of agent a: wg.Wait, processor.Stop, and       *)
(* close(Done).  Stop hands a quit token to every Joined producer, which   *)
(* takes it only between two events; it closes the source of the Detached  *)
(* ones and returns at once.                                               *)
(***************************************************************************)
CallStop(a) ==
  /\ ~panicked
  /\ sup[a] = "wait"
  /\ sup' = [sup EXCEPT ![a] = "stop"]
  /\ UNCHANGED <<chan, received, threadVars, nStarted, stopVars, emitted, panicked>>

\* Mutant: wg.Add(1) for a pool of several workers.
WorkersDone_First(a) == (\E w \in WorkersOf(a) : pc[w] = "gone") /\ CallStop(a)
WorkersDone(a) == (\A w \in WorkersOf(a) : pc[w] = "gone") /\ CallStop(a)

QuitReader(r) ==
  /\ ~panicked
  /\ r \in Joined /\ pc[r] = "idle" /\ sup[Owner[r]] = "stop"
  /\ pc' = [pc EXCEPT ![r] = "gone"]
  /\ UNCHANGED <<chan, received, calls, out, ev, sup, nStarted, stopVars,
                 emitted, panicked>>

ProcessorStopped(a) ==
  /\ ~panicked
  /\ sup[a] = "stop"
  /\ \A r \in JoinedOf(a) : pc[r] = "gone"
  /\ sup' = [sup EXCEPT ![a] = "done"]
  /\ pc' = [t \in Threads |->
              IF t \in Detached /\ Owner[t] = a /\ pc[t] = "idle" THEN "gone" ELSE pc[t]]
  /\ UNCHANGED <<chan, received, calls, out, ev, nStarted, stopVars, emitted, panicked>>

Stopped == nJoined = N
\* The system may rest once Pipeline.stop has returned, or once it is dead.
Rest == (Stopped \/ panicked) /\ UNCHANGED vars

ThreadStep(t) == Emit(t) \/ SpawnTick(t) \/ BeginSend(t) \/ Send(t) \/ Finish(t)
WorkerStep(w) == Take(w) \/ ExitWorker(w)
Supervise(a)  == WorkersDone(a) \/ ProcessorStopped(a)
StopStep      == CloseChan \/ JoinAgent

Next ==
  \/ StartAgent \/ RequestStop \/ StopStep
  \/ \E t \in Threads : ThreadStep(t)
  \/ \E w \in Workers : WorkerStep(w)
  \/ \E r \in Joined : QuitReader(r)
  \/ \E a \in Agents : Supervise(a)
  \/ Rest

Spec == Init /\ [][Next]_vars

(***************************************************************************)
(* Fairness.  Every goroutine that can run eventually runs (the Go         *)
(* scheduler is fair); a sender blocked on a full channel is served in     *)
(* FIFO order, and the select of a Joined producer picks the quit case     *)
(* with positive probability each time it is ready, whence SF for those    *)
(* two.  Producing events and asking for the stop are up to the            *)
(* environment and carry no fairness.                                      *)
(***************************************************************************)
Fairness ==
  /\ WF_vars(StartAgent) /\ WF_vars(StopStep)
  /\ \A t \in Threads : WF_vars(BeginSend(t)) /\ SF_vars(Send(t)) /\ WF_vars(Finish(t))
  /\ \A w \in Workers : WF_vars(WorkerStep(w))
  /\ \A r \in Joined : SF_vars(QuitReader(r))
  /\ \A a \in Agents : WF_vars(Supervise(a))

FairSpec == Spec /\ Fairness

-----------------------------------------------------------------------------
(***************************************************************************)
(* Properties                                                              *)
(***************************************************************************)
TypeOK ==
  /\ chan \in [Agents -> Seq(1..MaxEvents)]
  /\ received \in [Agents -> Seq(1..MaxEvents)]
  /\ pc \in [Threads -> {"off", "idle", "busy", "gone"}]
  /\ calls \in [Threads -> Seq(Ports)]
  /\ out \in [Threads -> Seq(Agents)]
  /\ ev \in [Threads -> 0..MaxEvents]
  /\ sup \in [Agents -> {"off", "wait", "stop", "done"}]
  /\ nStarted \in 0..N /\ nClosed \in 0..N /\ nJoined \in 0..N
  /\ stopCalled \in BOOLEAN /\ panicked \in BOOLEAN
  /\ emitted \in 0..MaxEvents

\* An event still on its way: in a channel, or with a goroutine that has not
\* finished with it.
InFlight(n) ==
  \/ \E a \in Agents : \E i \in DOMAIN chan[a] : chan[a][i] = n
  \/ \E t \in Threads : pc[t] = "busy" /\ ev[t] = n

\* The goroutines Agent.stop waits for: all but the ticks and the readers
\* whose Stop only closes their source.
Awaited == Workers \cup Joined

\* A worker or a joined producer never has a closed channel among the
\* channels it may send to, whatever the ticks and detached readers do:
\* that is what closing in SortInputsFirst order and waiting for Done buy.
AwaitedSendersSafe ==
  \A t \in Awaited : pc[t] = "busy" => Downstream(Owner[t]) \cap Closed = {}

\* No goroutine sends on a closed channel, which would kill the process
\* (Agent.send against close(a.packetChan) in Agent.stop).
NoSendOnClosed == ~panicked

\* When processor.Stop is called on an agent its channel is drained, and no
\* awaited goroutine upstream can still be sending to it ("stopping (no more
\* packets)", the supervisor in Agent.start).
StopsDrained ==
  \A a \in Agents : sup[a] \in {"stop", "done"} =>
    /\ chan[a] = <<>>
    /\ \A w \in WorkersOf(a) : pc[w] = "gone"
    /\ \A t \in Awaited : pc[t] = "busy" => a \notin Downstream(Owner[t])

\* A graceful stop loses nothing: once Pipeline.stop has returned, no event is
\* left in a channel or in a goroutine.
NothingLost == Stopped => \A n \in 1..emitted : ~InFlight(n)

\* Nobody hands an event to an agent whose processor was not started: a busy
\* goroutine's recipients are all started (SortOutputsFirst in Pipeline.Start).
StartedBeforeFed ==
  \A t \in Threads : pc[t] = "busy" => Downstream(Owner[t]) \subseteq Started

\* In a pipeline where one goroutine at most feeds each agent and one worker
\* serves it, every agent receives events in the order they were produced:
\* neither the channels nor `send` (which uses no goroutine) reorder them.
MayHoldEvents(t) == t \in Workers => \E a \in Agents : Owner[t] \in Downstream(a)
IsFeeder(t, a) == a \in Downstream(Owner[t]) /\ MayHoldEvents(t)
Serial ==
  \A a \in Agents :
    /\ \A t, u \in Threads : IsFeeder(t, a) /\ IsFeeder(u, a) => t = u
    /\ \E w \in Workers : WorkersOf(a) = {w}
OrderKept ==
  Serial => \A a \in Agents : \A i, j \in DOMAIN received[a] :
              i < j => received[a][i] <= received[a][j]

\* Once Pipeline.stop is called it returns.
StopReturns == stopCalled ~> Stopped

\* Every event that was produced leaves the pipeline.
EventsDrain == \A n \in 1..MaxEvents : InFlight(n) ~> ~InFlight(n)
=============================================================================
