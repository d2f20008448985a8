------------------------- MODULE AgentRuntimeProofs -------------------------
(***************************************************************************)
(* Theorems about AgentRuntime, for every pipeline graph that Sort orders, *)
(* every number of workers, every buffer size and every kind of producer.  *)
(***************************************************************************)
EXTENDS RuntimeDelivery, SequenceTheorems, TLAPS

(***************************************************************************)
(* The inductive invariant.                                                *)
(***************************************************************************)

\* Pipeline.stop handles the agents in turn: one channel at most is closed
\* whose Done has not been awaited, and nothing stops before all is started.
StopProgress ==
  /\ nJoined <= nClosed /\ nClosed <= nJoined + 1
  /\ nClosed > 0 => stopCalled
  /\ stopCalled => nStarted = N

\* Done is closed only after the workers and the joined producers are gone.
DoneMeansGone ==
  /\ \A i \in 1..nJoined : sup[StopOrder[i]] = "done"
  /\ \A w \in Workers : sup[Owner[w]] \in {"stop", "done"} => pc[w] = "gone"
  /\ \A r \in Joined : sup[Owner[r]] = "done" => pc[r] = "gone"

\* Only a busy goroutine has sends to make, and only along the wires.
SendsFollowWires ==
  \A t \in Threads :
    /\ pc[t] # "busy" => out[t] = <<>> /\ calls[t] = <<>>
    /\ out[t] \in Seq(Downstream(Owner[t]))
    /\ pc[t] = "busy" => ev[t] \in 1..MaxEvents

\* A worker leaves its loop only when the channel is closed and drained, and
\* a closed channel never fills again.
GoneMeansDrained ==
  \A w \in Workers : pc[w] = "gone" => Owner[w] \in Closed /\ chan[Owner[w]] = <<>>

\* A goroutine runs only once its agent is started.
RunsWhenStarted == \A t \in Threads : pc[t] # "off" => Owner[t] \in Started

\* Without unawaited senders there is no panic.
PanicFree == Ticks \cup Detached = {} => ~panicked

IInv == /\ TypeOK /\ StopProgress /\ DoneMeansGone /\ SendsFollowWires
        /\ GoneMeansDrained /\ RunsWhenStarted /\ PanicFree

-----------------------------------------------------------------------------
(***************************************************************************)
(* Consequences of the wiring.                                             *)
(***************************************************************************)

LEMMA OwnerType == \A t \in Threads : Owner[t] \in Agents
BY RuntimeAssumption DEF RuntimeAssumption, ThreadsAssumption

LEMMA OrderType ==
  /\ StopOrder \in Seq(Agents) /\ StartOrder \in Seq(Agents)
  /\ N \in Nat
  /\ \A i \in 1..N : StopOrder[i] \in Agents
BY RuntimeAssumption DEF RuntimeAssumption, OrderAssumption, Enumerates, N

\* Both orders enumerate the agents, so Pipeline.Start handles N of them.
LEMMA SameLength == \A i \in 0..(N - 1) : StartOrder[i + 1] \in Agents
BY RuntimeAssumption DEF RuntimeAssumption, OrderAssumption, Enumerates, N

\* Pipeline.Start starts an agent once.
LEMMA StartsOnce ==
  ASSUME TypeOK, nStarted < N
  PROVE  StartOrder[nStarted + 1] \notin Started
<1> SUFFICES ASSUME NEW j \in 1..nStarted, StartOrder[j] = StartOrder[nStarted + 1]
             PROVE  FALSE
  BY DEF Started
<1>1. StartOrder \in Seq(Agents) /\ Len(StartOrder) = N
  BY RuntimeAssumption DEF RuntimeAssumption, OrderAssumption, Enumerates, N
<1>2. j \in DOMAIN StartOrder /\ nStarted + 1 \in DOMAIN StartOrder /\ j # nStarted + 1
  BY <1>1 DEF TypeOK
<1> QED
  BY <1>2, RuntimeAssumption DEF RuntimeAssumption, OrderAssumption, Enumerates

\* What one Send call is about to serve lies downstream of its agent.
LEMMA WireTargets ==
  ASSUME NEW a \in Agents, NEW p \in Ports
  PROVE  Outputs[a][p] \in Seq(Downstream(a))
<1>1. Outputs[a][p] \in Seq(Agents)
  BY RuntimeAssumption DEF RuntimeAssumption, WiringAssumption
<1>2. \A i \in DOMAIN Outputs[a][p] : Outputs[a][p][i] \in Downstream(a)
  BY <1>1 DEF Downstream
<1> QED
  BY <1>1, <1>2

\* If the channel of a recipient of a is closed, a was closed before it, and
\* Pipeline.stop has waited for a's Done.
LEMMA UpstreamJoined ==
  ASSUME TypeOK, StopProgress,
         NEW a \in Agents, NEW b \in Downstream(a), b \in Closed
  PROVE  \E i \in 1..nJoined : StopOrder[i] = a
<1>1. PICK j \in 1..nClosed : StopOrder[j] = b
  BY DEF Closed
<1>2. PICK i \in DOMAIN StopOrder : StopOrder[i] = a
  BY RuntimeAssumption DEF RuntimeAssumption, OrderAssumption, Enumerates
<1>3. DOMAIN StopOrder = 1..N /\ N \in Nat /\ j \in 1..N
  BY OrderType DEF TypeOK, N
<1>4. i < j
  <2>1. Before(a, b, StopOrder)
    BY RuntimeAssumption DEF RuntimeAssumption, OrderAssumption
  <2> QED
    BY <1>1, <1>2, <1>3, <2>1 DEF Before
<1>5. i \in 1..nJoined
  BY <1>2, <1>3, <1>4 DEF TypeOK, StopProgress
<1> QED
  BY <1>2, <1>5

\* Hence no awaited goroutine is busy upstream of a closed channel.
LEMMA AwaitedSafe == IInv => AwaitedSendersSafe
<1> SUFFICES ASSUME IInv, NEW t \in Awaited, pc[t] = "busy",
                    NEW b \in Downstream(Owner[t]), b \in Closed
             PROVE  FALSE
  BY DEF AwaitedSendersSafe
<1>1. t \in Threads /\ Owner[t] \in Agents
  BY OwnerType DEF Awaited, Threads, Readers
<1>2. PICK i \in 1..nJoined : StopOrder[i] = Owner[t]
  BY <1>1, UpstreamJoined DEF IInv
<1>3. sup[Owner[t]] = "done"
  BY <1>2 DEF IInv, DoneMeansGone
<1>4. pc[t] = "gone"
  BY <1>3 DEF IInv, DoneMeansGone, Awaited
<1> QED
  BY <1>4

-----------------------------------------------------------------------------
(***************************************************************************)
(* The invariant is inductive.                                             *)
(***************************************************************************)

LEMMA InitIInv == Init => IInv
<1> SUFFICES ASSUME Init PROVE IInv
  OBVIOUS
<1> USE DEF Init
<1>1. TypeOK
  <2>1. <<>> \in Seq(1..MaxEvents) /\ <<>> \in Seq(Ports) /\ <<>> \in Seq(Agents)
    BY EmptySeq
  <2>2. MaxEvents \in Nat /\ N \in Nat
    BY OrderType, RuntimeAssumption DEF RuntimeAssumption, WiringAssumption
  <2>3. /\ 0 \in 0..N /\ 0 \in 0..MaxEvents
        /\ FALSE \in BOOLEAN
    BY <2>2
  <2> QED
    BY <2>1, <2>3 DEF TypeOK
<1>2. StopProgress /\ PanicFree
  BY OrderType DEF StopProgress, PanicFree
<1>3. DoneMeansGone
  BY OwnerType DEF DoneMeansGone, Threads, Readers
<1>4. SendsFollowWires
  BY OwnerType DEF SendsFollowWires
<1>5. GoneMeansDrained /\ RunsWhenStarted
  BY DEF GoneMeansDrained, RunsWhenStarted, Threads
<1> QED
  BY <1>1, <1>2, <1>3, <1>4, <1>5 DEF IInv

LEMMA TypeStep == IInv /\ [Next]_vars => TypeOK'
<1> SUFFICES ASSUME IInv, [Next]_vars PROVE TypeOK'
  OBVIOUS
<1> USE OwnerType, OrderType DEF IInv, TypeOK
<1> USE RuntimeAssumption DEF RuntimeAssumption, WiringAssumption
<1>1. CASE StartAgent
  <2>1. StartOrder[nStarted + 1] \in Agents
    BY <1>1, SameLength DEF StartAgent, StartNext
  <2>2. nStarted' \in 0..N
    BY <1>1 DEF StartAgent, StartNext
  <2>3. pc' \in [Threads -> {"off", "idle", "busy", "gone"}]
    BY <1>1 DEF StartAgent, StartNext
  <2>4. sup' \in [Agents -> {"off", "wait", "stop", "done"}]
    BY <1>1, <2>1 DEF StartAgent, StartNext
  <2> QED
    BY <1>1, <2>2, <2>3, <2>4 DEF StartAgent, StartNext, stopVars
<1>2. CASE RequestStop
  BY <1>2 DEF RequestStop, threadVars
<1>3. CASE CloseChan
  BY <1>3 DEF CloseChan, CloseNext, threadVars
<1>4. CASE JoinAgent
  BY <1>4 DEF JoinAgent, Join, threadVars
<1>5. ASSUME NEW t \in Threads, Emit(t) PROVE TypeOK'
  BY <1>5 DEF Emit, stopVars
<1>6. ASSUME NEW t \in Threads, SpawnTick(t) PROVE TypeOK'
  BY <1>6 DEF SpawnTick, stopVars
<1>7. ASSUME NEW t \in Threads, BeginSend(t) PROVE TypeOK'
  <2>1. Head(calls[t]) \in Ports /\ Tail(calls[t]) \in Seq(Ports)
    BY <1>7, HeadTailProperties DEF BeginSend
  <2>2. Outputs[Owner[t]][Head(calls[t])] \in Seq(Agents)
    BY <2>1
  <2> QED
    BY <1>7, <2>1, <2>2 DEF BeginSend, stopVars
<1>8. ASSUME NEW t \in Threads, Send(t) PROVE TypeOK'
  <2>1. ev[t] \in 1..MaxEvents
    BY <1>8 DEF Send, InSend, Deliver, SendOnClosed, Target, SendsFollowWires
  <2>2. Head(out[t]) \in Agents /\ Tail(out[t]) \in Seq(Agents)
    BY <1>8, HeadTailProperties DEF Send, InSend, Deliver, SendOnClosed, Target
  <2>3. Append(chan[Head(out[t])], ev[t]) \in Seq(1..MaxEvents)
    BY <2>1, <2>2, AppendProperties
  <2>4. chan' \in [Agents -> Seq(1..MaxEvents)]
    BY <1>8, <2>3 DEF Send, InSend, Deliver, SendOnClosed, Target
  <2>5. out' \in [Threads -> Seq(Agents)]
    BY <1>8, <2>2 DEF Send, InSend, Deliver, SendOnClosed, Target
  <2>6. panicked' \in BOOLEAN
    BY <1>8 DEF Send, InSend, Deliver, SendOnClosed, Target
  <2> QED
    BY <1>8, <2>4, <2>5, <2>6 DEF Send, InSend, Deliver, SendOnClosed, Target, stopVars
<1>9. ASSUME NEW t \in Threads, Finish(t) PROVE TypeOK'
  BY <1>9 DEF Finish, stopVars
<1>10. ASSUME NEW w \in Workers, Take(w) PROVE TypeOK'
  <2>1. w \in Threads /\ Owner[w] \in Agents
    BY DEF Threads
  <2>2. Head(chan[Owner[w]]) \in 1..MaxEvents /\ Tail(chan[Owner[w]]) \in Seq(1..MaxEvents)
    <3>1. chan[Owner[w]] \in Seq(1..MaxEvents) /\ chan[Owner[w]] # <<>>
      BY <1>10, <2>1 DEF Take
    <3> QED
      BY <3>1, HeadTailProperties
  <2>3. chan' \in [Agents -> Seq(1..MaxEvents)] /\ ev' \in [Threads -> 0..MaxEvents]
    <3>1. /\ chan' = [chan EXCEPT ![Owner[w]] = Tail(chan[Owner[w]])]
          /\ ev' = [ev EXCEPT ![w] = Head(chan[Owner[w]])]
      BY <1>10 DEF Take
    <3> QED
      BY <2>1, <2>2, <3>1
  <2>4. received' \in [Agents -> Seq(1..MaxEvents)]
    BY <1>10, <2>1, <2>2, AppendProperties DEF Take
  <2>5. pc' \in [Threads -> {"off", "idle", "busy", "gone"}] /\ calls' \in [Threads -> Seq(Ports)]
    BY <1>10, <2>1 DEF Take
  <2> QED
    BY <1>10, <2>3, <2>4, <2>5 DEF Take, stopVars
<1>11. ASSUME NEW w \in Workers, ExitWorker(w) PROVE TypeOK'
  BY <1>11 DEF ExitWorker, LeaveLoop, stopVars
<1>12. ASSUME NEW r \in Joined, QuitReader(r) PROVE TypeOK'
  BY <1>12 DEF QuitReader, stopVars
<1>13. ASSUME NEW a \in Agents, WorkersDone(a) PROVE TypeOK'
  BY <1>13 DEF WorkersDone, CallStop, stopVars, threadVars
<1>14. ASSUME NEW a \in Agents, ProcessorStopped(a) PROVE TypeOK'
  BY <1>14 DEF ProcessorStopped, stopVars
<1>15. CASE UNCHANGED vars
  BY <1>15 DEF vars
<1> QED
  BY <1>1, <1>2, <1>3, <1>4, <1>5, <1>6, <1>7, <1>8, <1>9, <1>10, <1>11,
     <1>12, <1>13, <1>14, <1>15
     DEF Next, StopStep, ThreadStep, WorkerStep, Supervise, Rest

LEMMA ProgressStep == IInv /\ [Next]_vars => StopProgress' /\ PanicFree'
<1> SUFFICES ASSUME IInv, [Next]_vars PROVE StopProgress' /\ PanicFree'
  OBVIOUS
<1> USE OrderType DEF IInv, TypeOK, StopProgress, PanicFree
<1>1. CASE StartAgent
  BY <1>1 DEF StartAgent, StartNext, stopVars
<1>2. CASE RequestStop
  BY <1>2 DEF RequestStop
<1>3. CASE CloseChan
  BY <1>3 DEF CloseChan, CloseNext
<1>4. CASE JoinAgent
  BY <1>4 DEF JoinAgent, Join
<1>5. ASSUME NEW t \in Threads, Emit(t) \/ SpawnTick(t) \/ BeginSend(t) \/ Finish(t)
      PROVE  StopProgress' /\ PanicFree'
  BY <1>5 DEF Emit, SpawnTick, BeginSend, Finish, stopVars
<1>6. ASSUME NEW t \in Threads, Send(t)
      PROVE  StopProgress' /\ PanicFree'
  <2>1. StopProgress'
    BY <1>6 DEF Send, InSend, Deliver, SendOnClosed, Target, stopVars
  <2>2. ASSUME Ticks \cup Detached = {} PROVE Head(out[t]) \notin Closed
    <3>1. t \in Awaited
      BY <2>2 DEF Threads, Readers, Awaited
    <3>2. Head(out[t]) \in Downstream(Owner[t])
      BY <1>6, HeadTailProperties DEF Send, InSend, Deliver, SendOnClosed, Target, SendsFollowWires
    <3> QED
      BY <1>6, <3>1, <3>2, AwaitedSafe DEF AwaitedSendersSafe, Send, InSend, Deliver, SendOnClosed, Target
  <2>3. PanicFree'
    BY <1>6, <2>2 DEF Send, InSend, Deliver, SendOnClosed, Target
  <2> QED
    BY <2>1, <2>3
<1>7. ASSUME NEW w \in Workers, WorkerStep(w)
      PROVE  StopProgress' /\ PanicFree'
  BY <1>7 DEF WorkerStep, Take, ExitWorker, LeaveLoop, stopVars
<1>8. ASSUME NEW r \in Joined, QuitReader(r)
      PROVE  StopProgress' /\ PanicFree'
  BY <1>8 DEF QuitReader, stopVars
<1>9. ASSUME NEW a \in Agents, Supervise(a)
      PROVE  StopProgress' /\ PanicFree'
  BY <1>9, SMTT(60) DEF Supervise, WorkersDone, CallStop, ProcessorStopped, stopVars
<1>10. CASE UNCHANGED vars
  BY <1>10 DEF vars
<1> QED
  BY <1>1, <1>2, <1>3, <1>4, <1>5, <1>6, <1>7, <1>8, <1>9, <1>10
     DEF Next, StopStep, ThreadStep, Rest

LEMMA DoneStep == IInv /\ [Next]_vars => DoneMeansGone'
<1> SUFFICES ASSUME IInv, [Next]_vars PROVE DoneMeansGone'
  OBVIOUS
<1> USE OrderType, OwnerType DEF IInv, TypeOK, DoneMeansGone, Threads, Readers
<1>1. CASE StartAgent
  <2>1. nJoined = 0
    BY <1>1 DEF StartAgent, StartNext, StopProgress
  <2>2. StartOrder[nStarted + 1] \in Agents
    BY <1>1, SameLength DEF StartAgent, StartNext
  <2> QED
    BY <1>1, <2>1, <2>2, SMTT(60) DEF StartAgent, StartNext, stopVars
<1>2. CASE RequestStop \/ CloseChan
  BY <1>2 DEF RequestStop, CloseChan, CloseNext, threadVars
<1>3. CASE JoinAgent
  <2>1. nClosed = nJoined + 1
    BY <1>3 DEF JoinAgent, Join, StopProgress
  <2> QED
    BY <1>3, <2>1 DEF JoinAgent, Join, threadVars
<1>4. ASSUME NEW t \in Threads, Emit(t) \/ SpawnTick(t) \/ Finish(t)
      PROVE  DoneMeansGone'
  BY <1>4, RuntimeAssumption
     DEF Emit, SpawnTick, Finish, stopVars, RuntimeAssumption, ThreadsAssumption
<1>5. ASSUME NEW t \in Threads, BeginSend(t) \/ Send(t)
      PROVE  DoneMeansGone'
  BY <1>5 DEF BeginSend, Send, InSend, Deliver, SendOnClosed, Target, stopVars
<1>6. ASSUME NEW w \in Workers, WorkerStep(w)
      PROVE  DoneMeansGone'
  BY <1>6, RuntimeAssumption
     DEF WorkerStep, Take, ExitWorker, LeaveLoop, stopVars, RuntimeAssumption, ThreadsAssumption
<1>7. ASSUME NEW r \in Joined, QuitReader(r)
      PROVE  DoneMeansGone'
  BY <1>7 DEF QuitReader, stopVars
<1>8. ASSUME NEW a \in Agents, WorkersDone(a)
      PROVE  DoneMeansGone'
  <2>1. \A w \in Workers : Owner[w] = a => pc[w] = "gone"
    BY <1>8 DEF WorkersDone, WorkersOf
  <2>2. sup[a] = "wait" /\ sup' = [sup EXCEPT ![a] = "stop"]
    BY <1>8 DEF WorkersDone, CallStop
  <2>3. UNCHANGED <<pc, nJoined>>
    BY <1>8 DEF WorkersDone, CallStop, stopVars, threadVars
  <2>4. \A i \in 1..nJoined : sup'[StopOrder[i]] = "done"
    BY <2>2
  <2> QED
    BY <2>1, <2>2, <2>3, <2>4
<1>9. ASSUME NEW a \in Agents, ProcessorStopped(a)
      PROVE  DoneMeansGone'
  BY <1>9 DEF ProcessorStopped, JoinedOf, stopVars
<1>10. CASE UNCHANGED vars
  BY <1>10 DEF vars
<1> QED
  BY <1>1, <1>2, <1>3, <1>4, <1>5, <1>6, <1>7, <1>8, <1>9, <1>10
     DEF Next, StopStep, ThreadStep, Supervise, Rest

LEMMA WiresStep == IInv /\ [Next]_vars => SendsFollowWires'
<1> SUFFICES ASSUME IInv, [Next]_vars PROVE SendsFollowWires'
  OBVIOUS
<1> USE OwnerType DEF IInv, TypeOK, SendsFollowWires
<1>1. CASE StartAgent
  <2>1. ASSUME NEW t \in Threads, pc[t] = "busy" PROVE pc'[t] = "busy"
    <3>1. Owner[t] # StartOrder[nStarted + 1]
      BY <1>1, <2>1, StartsOnce DEF StartAgent, StartNext, RunsWhenStarted, Started
    <3> QED
      BY <1>1, <2>1, <3>1 DEF StartAgent, StartNext
  <2> QED
    BY <1>1, <2>1 DEF StartAgent, StartNext
<1>2. CASE RequestStop \/ CloseChan \/ JoinAgent
  BY <1>2 DEF RequestStop, CloseChan, CloseNext, JoinAgent, Join, threadVars
<1>3. ASSUME NEW t \in Threads, Emit(t) PROVE SendsFollowWires'
  BY <1>3, RuntimeAssumption DEF Emit, RuntimeAssumption, WiringAssumption
<1>4. ASSUME NEW t \in Threads, SpawnTick(t) \/ Finish(t) PROVE SendsFollowWires'
  BY <1>4 DEF SpawnTick, Finish
<1>5. ASSUME NEW t \in Threads, BeginSend(t) PROVE SendsFollowWires'
  <2>1. Head(calls[t]) \in Ports
    BY <1>5, HeadTailProperties DEF BeginSend
  <2>2. Outputs[Owner[t]][Head(calls[t])] \in Seq(Downstream(Owner[t]))
    BY <2>1, WireTargets
  <2> QED
    BY <1>5, <2>2 DEF BeginSend
<1>6. ASSUME NEW t \in Threads, Send(t) PROVE SendsFollowWires'
  <2>1. Tail(out[t]) \in Seq(Downstream(Owner[t]))
    BY <1>6, HeadTailProperties DEF Send, InSend, Deliver, SendOnClosed, Target
  <2> QED
    BY <1>6, <2>1 DEF Send, InSend, Deliver, SendOnClosed, Target
<1>7. ASSUME NEW w \in Workers, Take(w) PROVE SendsFollowWires'
  <2>1. w \in Threads /\ Owner[w] \in Agents
    BY DEF Threads
  <2>2. Head(chan[Owner[w]]) \in 1..MaxEvents
    BY <1>7, <2>1, HeadTailProperties DEF Take
  <2> QED
    BY <1>7, <2>1, <2>2 DEF Take
<1>8. ASSUME NEW w \in Workers, ExitWorker(w) PROVE SendsFollowWires'
  BY <1>8 DEF ExitWorker, LeaveLoop
<1>9. ASSUME NEW r \in Joined, QuitReader(r) PROVE SendsFollowWires'
  BY <1>9 DEF QuitReader
<1>10. ASSUME NEW a \in Agents, Supervise(a) PROVE SendsFollowWires'
  BY <1>10 DEF Supervise, WorkersDone, CallStop, ProcessorStopped, threadVars
<1>11. CASE UNCHANGED vars
  BY <1>11 DEF vars
<1> QED
  BY <1>1, <1>2, <1>3, <1>4, <1>5, <1>6, <1>7, <1>8, <1>9, <1>10, <1>11
     DEF Next, StopStep, ThreadStep, WorkerStep, Rest

LEMMA DrainStep == IInv /\ [Next]_vars => GoneMeansDrained'
<1> SUFFICES ASSUME IInv, [Next]_vars PROVE GoneMeansDrained'
  OBVIOUS
<1> USE OwnerType DEF IInv, TypeOK, GoneMeansDrained, Threads
<1>1. CASE StartAgent
  BY <1>1 DEF StartAgent, StartNext, stopVars, Closed
<1>2. CASE RequestStop \/ CloseChan \/ JoinAgent
  BY <1>2 DEF RequestStop, CloseChan, CloseNext, JoinAgent, Join, threadVars, Closed
<1>3. ASSUME NEW t \in Threads, Emit(t) \/ SpawnTick(t) \/ BeginSend(t)
      PROVE  GoneMeansDrained'
  BY <1>3 DEF Emit, SpawnTick, BeginSend, stopVars, Closed
<1>4. ASSUME NEW t \in Threads, Finish(t) PROVE GoneMeansDrained'
  <2>1. t \in Workers => pc'[t] # "gone"
    BY <1>4, RuntimeAssumption
       DEF Finish, RuntimeAssumption, ThreadsAssumption, Readers
  <2> QED
    BY <1>4, <2>1 DEF Finish, stopVars, Closed
<1>5. ASSUME NEW t \in Threads, Send(t) PROVE GoneMeansDrained'
  <2>1. Head(out[t]) \in Agents
    BY <1>5, HeadTailProperties DEF Send, InSend, Deliver, SendOnClosed, Target
  <2>2. Closed' = Closed /\ pc' = pc
    BY <1>5 DEF Send, InSend, Deliver, SendOnClosed, Target, stopVars, Closed
  <2>3. \A a \in Agents : a \in Closed => chan'[a] = chan[a]
    BY <1>5, <2>1 DEF Send, InSend, Deliver, SendOnClosed, Target
  <2> QED
    BY <2>2, <2>3
<1>6. ASSUME NEW w \in Workers, Take(w) PROVE GoneMeansDrained'
  BY <1>6 DEF Take, stopVars, Closed
<1>7. ASSUME NEW w \in Workers, ExitWorker(w) PROVE GoneMeansDrained'
  BY <1>7 DEF ExitWorker, LeaveLoop, stopVars, Closed
<1>8. ASSUME NEW r \in Joined, QuitReader(r) PROVE GoneMeansDrained'
  <2>1. r \notin Workers
    BY RuntimeAssumption DEF RuntimeAssumption, ThreadsAssumption, Readers
  <2> QED
    BY <1>8, <2>1 DEF QuitReader, stopVars, Closed
<1>9. ASSUME NEW a \in Agents, Supervise(a) PROVE GoneMeansDrained'
  <2>1. Detached \cap Workers = {}
    BY RuntimeAssumption DEF RuntimeAssumption, ThreadsAssumption, Readers
  <2> QED
    BY <1>9, <2>1 DEF Supervise, WorkersDone, CallStop, ProcessorStopped, threadVars, stopVars, Closed
<1>10. CASE UNCHANGED vars
  BY <1>10 DEF vars, Closed
<1> QED
  BY <1>1, <1>2, <1>3, <1>4, <1>5, <1>6, <1>7, <1>8, <1>9, <1>10
     DEF Next, StopStep, ThreadStep, WorkerStep, Rest

LEMMA StartedStep == IInv /\ [Next]_vars => RunsWhenStarted'
<1> SUFFICES ASSUME IInv, [Next]_vars PROVE RunsWhenStarted'
  OBVIOUS
<1> USE OwnerType DEF IInv, TypeOK, RunsWhenStarted, Started
<1>1. CASE StartAgent
  BY <1>1, OrderType, SMTT(60) DEF StartAgent, StartNext
<1>2. CASE RequestStop \/ CloseChan \/ JoinAgent
  BY <1>2 DEF RequestStop, CloseChan, CloseNext, JoinAgent, Join, threadVars
<1>3. ASSUME NEW t \in Threads, ThreadStep(t) PROVE RunsWhenStarted'
  <2>1. CASE Emit(t)
    BY <2>1 DEF Emit
  <2>2. CASE SpawnTick(t)
    <3>1. Owner[t] \in Started
      BY <2>2 DEF SpawnTick
    <3> QED
      BY <2>2, <3>1 DEF SpawnTick
  <2>3. CASE BeginSend(t) \/ Send(t)
    BY <2>3 DEF BeginSend, Send, InSend, Deliver, SendOnClosed, Target
  <2>4. CASE Finish(t)
    BY <2>4 DEF Finish
  <2> QED
    BY <1>3, <2>1, <2>2, <2>3, <2>4 DEF ThreadStep
<1>4. ASSUME NEW w \in Workers, WorkerStep(w) PROVE RunsWhenStarted'
  BY <1>4 DEF WorkerStep, Take, ExitWorker, LeaveLoop
<1>5. ASSUME NEW r \in Joined, QuitReader(r) PROVE RunsWhenStarted'
  BY <1>5 DEF QuitReader
<1>6. ASSUME NEW a \in Agents, Supervise(a) PROVE RunsWhenStarted'
  BY <1>6 DEF Supervise, WorkersDone, CallStop, ProcessorStopped, threadVars
<1>7. CASE UNCHANGED vars
  BY <1>7 DEF vars
<1> QED
  BY <1>1, <1>2, <1>3, <1>4, <1>5, <1>6, <1>7 DEF Next, StopStep, Rest

-----------------------------------------------------------------------------
(***************************************************************************)
(* The order of events.  What an agent has received and what waits in its  *)
(* channel are one stream, which only a send makes longer.                 *)
(***************************************************************************)
Stream(a) == received[a] \o chan[a]
Newest(s) == s[Len(s)]
Nondecreasing(s) == \A i, j \in DOMAIN s : i < j => s[i] <= s[j]

\* Only an agent with sources is ever sent something.
OnlyFed == \A a \in Agents : Stream(a) # <<>> => \E b \in Agents : a \in Downstream(b)

\* Nothing is newer than what was last produced.
NotAhead ==
  /\ \A a \in Agents : \A i \in DOMAIN Stream(a) : Stream(a)[i] <= emitted
  /\ \A t \in Threads : pc[t] = "busy" => ev[t] <= emitted

\* A busy worker holds what its agent received last.
HoldsNewest ==
  \A w \in Workers : pc[w] = "busy" =>
    received[Owner[w]] # <<>> /\ ev[w] = Newest(received[Owner[w]])

\* What an agent was sent is no newer than what its feeder has: a worker the
\* last event its agent received, a producer the event in its hands.
BehindWorker ==
  \A w \in Workers : \A a \in Agents : IsFeeder(w, a) =>
    \A i \in DOMAIN Stream(a) :
      received[Owner[w]] # <<>> /\ Stream(a)[i] <= Newest(received[Owner[w]])
BehindProducer ==
  \A t \in Readers \cup Ticks : \A a \in Agents : IsFeeder(t, a) /\ pc[t] = "busy" =>
    \A i \in DOMAIN Stream(a) : Stream(a)[i] <= ev[t]

InOrder ==
  /\ OnlyFed /\ NotAhead
  /\ Serial => /\ \A a \in Agents : Nondecreasing(Stream(a))
               /\ HoldsNewest /\ BehindWorker /\ BehindProducer

\* Taking the head of a channel moves it within the stream.
LEMMA TakeKeepsStream ==
  ASSUME NEW S, NEW r \in Seq(S), NEW c \in Seq(S), c # <<>>
  PROVE  /\ Append(r, Head(c)) \o Tail(c) = r \o c
         /\ Newest(Append(r, Head(c))) = Head(c)
         /\ Append(r, Head(c)) # <<>>
         /\ Len(r) + 1 \in DOMAIN (r \o c) /\ (r \o c)[Len(r) + 1] = Head(c)
<1>1. Head(c) = c[1] /\ Tail(c) \in Seq(S) /\ Len(Tail(c)) = Len(c) - 1
      /\ (\A i \in 1..Len(Tail(c)) : Tail(c)[i] = c[i + 1]) /\ Head(c) \in S
      /\ Len(c) \in Nat \ {0} /\ Len(r) \in Nat
  BY HeadTailProperties, EmptySeq
<1> DEFINE q == Append(r, Head(c))
<1>2. q \in Seq(S) /\ Len(q) = Len(r) + 1 /\ q[Len(r) + 1] = Head(c)
      /\ (\A i \in 1..Len(r) : q[i] = r[i]) /\ q # <<>>
  BY <1>1, AppendProperties
<1>3. /\ q \o Tail(c) \in Seq(S) /\ r \o c \in Seq(S)
      /\ Len(q \o Tail(c)) = Len(r) + Len(c) /\ Len(r \o c) = Len(r) + Len(c)
      /\ \A i \in 1..(Len(r) + Len(c)) :
           (q \o Tail(c))[i] = IF i <= Len(r) + 1 THEN q[i] ELSE Tail(c)[i - (Len(r) + 1)]
      /\ \A i \in 1..(Len(r) + Len(c)) :
           (r \o c)[i] = IF i <= Len(r) THEN r[i] ELSE c[i - Len(r)]
  BY <1>1, <1>2, ConcatProperties
<1>4. ASSUME NEW i \in 1..(Len(r) + Len(c)) PROVE (q \o Tail(c))[i] = (r \o c)[i]
  <2>1. CASE i <= Len(r)
    BY <1>1, <1>2, <1>3, <2>1
  <2>2. CASE i = Len(r) + 1
    BY <1>1, <1>2, <1>3, <2>2
  <2>3. CASE i > Len(r) + 1
    <3>1. i - (Len(r) + 1) \in 1..Len(Tail(c)) /\ i - (Len(r) + 1) + 1 = i - Len(r)
      BY <1>1, <2>3
    <3> QED
      BY <1>1, <1>3, <2>3, <3>1
  <2> QED
    BY <1>1, <2>1, <2>2, <2>3
<1>5. q \o Tail(c) = r \o c
  BY <1>3, <1>4, SeqEqual
<1>6. Len(r) + 1 \in DOMAIN (r \o c) /\ (r \o c)[Len(r) + 1] = Head(c)
  BY <1>1, <1>3
<1> QED
  BY <1>1, <1>2, <1>5, <1>6 DEF Newest

\* A send makes the stream longer at its end.
LEMMA SendExtends ==
  ASSUME NEW S, NEW r \in Seq(S), NEW c \in Seq(S), NEW e \in S
  PROVE  r \o Append(c, e) = Append(r \o c, e)
<1>1. Append(c, e) \in Seq(S) /\ Len(Append(c, e)) = Len(c) + 1 /\ Append(c, e)[Len(c) + 1] = e
      /\ (\A i \in 1..Len(c) : Append(c, e)[i] = c[i]) /\ Len(c) \in Nat /\ Len(r) \in Nat
  BY AppendProperties
<1>2. /\ r \o c \in Seq(S) /\ Len(r \o c) = Len(r) + Len(c)
      /\ \A i \in 1..(Len(r) + Len(c)) : (r \o c)[i] = IF i <= Len(r) THEN r[i] ELSE c[i - Len(r)]
  BY ConcatProperties
<1>3. /\ r \o Append(c, e) \in Seq(S) /\ Len(r \o Append(c, e)) = Len(r) + Len(c) + 1
      /\ \A i \in 1..(Len(r) + Len(c) + 1) :
           (r \o Append(c, e))[i] = IF i <= Len(r) THEN r[i] ELSE Append(c, e)[i - Len(r)]
  BY <1>1, ConcatProperties
<1>4. /\ Append(r \o c, e) \in Seq(S) /\ Len(Append(r \o c, e)) = Len(r) + Len(c) + 1
      /\ Append(r \o c, e)[Len(r) + Len(c) + 1] = e
      /\ \A i \in 1..(Len(r) + Len(c)) : Append(r \o c, e)[i] = (r \o c)[i]
  BY <1>2, AppendProperties
<1>5. ASSUME NEW i \in 1..(Len(r) + Len(c) + 1)
      PROVE  (r \o Append(c, e))[i] = Append(r \o c, e)[i]
  <2>1. CASE i <= Len(r)
    BY <1>1, <1>2, <1>3, <1>4, <2>1
  <2>2. CASE i > Len(r) /\ i <= Len(r) + Len(c)
    <3>1. i - Len(r) \in 1..Len(c)
      BY <1>1, <2>2
    <3> QED
      BY <1>1, <1>2, <1>3, <1>4, <2>2, <3>1
  <2>3. CASE i = Len(r) + Len(c) + 1
    BY <1>1, <1>3, <1>4, <2>3
  <2> QED
    BY <1>1, <2>1, <2>2, <2>3
<1> QED
  BY <1>3, <1>4, <1>5, SeqEqual

\* The stream holds events; its prefix is what was received.
LEMMA StreamType ==
  ASSUME TypeOK, NEW a \in Agents
  PROVE  /\ Stream(a) \in Seq(1..MaxEvents)
         /\ DOMAIN Stream(a) = 1..(Len(received[a]) + Len(chan[a]))
         /\ received[a] \in Seq(1..MaxEvents) /\ chan[a] \in Seq(1..MaxEvents)
         /\ \A i \in DOMAIN Stream(a) : Stream(a)[i] \in Nat
         /\ \A i \in DOMAIN received[a] : /\ received[a][i] \in Nat
                                        /\ i \in DOMAIN Stream(a)
                                        /\ Stream(a)[i] = received[a][i]
<1>1. /\ Stream(a) \in Seq(1..MaxEvents)
      /\ DOMAIN Stream(a) = 1..(Len(received[a]) + Len(chan[a]))
      /\ received[a] \in Seq(1..MaxEvents) /\ chan[a] \in Seq(1..MaxEvents)
      /\ \A i \in DOMAIN received[a] : /\ i \in DOMAIN Stream(a)
                                     /\ Stream(a)[i] = received[a][i]
  BY ConcatProperties DEF TypeOK, Stream
<1>2. ASSUME NEW i \in DOMAIN Stream(a) PROVE Stream(a)[i] \in Nat
  <2> DEFINE S == 1..MaxEvents
  <2>1. Stream(a) \in Seq(S)
    BY <1>1
  <2> HIDE DEF S
  <2>2. i \in 1..Len(Stream(a))
    BY <2>1
  <2>3. Stream(a)[i] \in S
    BY <2>1, <2>2, ElementOfSeq
  <2> QED
    BY <2>3 DEF S
<1> QED
  BY <1>1, <1>2

\* Both for the stream of an agent.
LEMMA StreamOfTake ==
  ASSUME TypeOK, NEW a \in Agents, chan[a] # <<>>
  PROVE  /\ Append(received[a], Head(chan[a])) \o Tail(chan[a]) = Stream(a)
         /\ Newest(Append(received[a], Head(chan[a]))) = Head(chan[a])
         /\ Append(received[a], Head(chan[a])) # <<>>
         /\ Len(received[a]) + 1 \in DOMAIN Stream(a)
         /\ Stream(a)[Len(received[a]) + 1] = Head(chan[a])
<1> DEFINE S == 1..MaxEvents
           r == received[a]
           c == chan[a]
<1>1. r \in Seq(S) /\ c \in Seq(S) /\ c # <<>> /\ Stream(a) = r \o c
  BY StreamType DEF Stream
<1> HIDE DEF S, r, c
<1>2. /\ Append(r, Head(c)) \o Tail(c) = r \o c
      /\ Newest(Append(r, Head(c))) = Head(c)
      /\ Append(r, Head(c)) # <<>>
      /\ Len(r) + 1 \in DOMAIN (r \o c) /\ (r \o c)[Len(r) + 1] = Head(c)
  BY <1>1, TakeKeepsStream
<1> QED
  BY <1>1, <1>2 DEF r, c

LEMMA StreamOfSend ==
  ASSUME TypeOK, NEW a \in Agents, NEW e \in 1..MaxEvents
  PROVE  received[a] \o Append(chan[a], e) = Append(Stream(a), e)
<1> DEFINE S == 1..MaxEvents
           r == received[a]
           c == chan[a]
<1>1. r \in Seq(S) /\ c \in Seq(S) /\ e \in S /\ Stream(a) = r \o c
  BY StreamType DEF Stream
<1> HIDE DEF S, r, c
<1>2. r \o Append(c, e) = Append(r \o c, e)
  BY <1>1, SendExtends
<1> QED
  BY <1>1, <1>2 DEF r, c

\* With order in the streams there is order in what was received.
LEMMA OrderFollows == TypeOK /\ InOrder => OrderKept
<1> SUFFICES ASSUME TypeOK, InOrder, Serial, NEW a \in Agents,
                    NEW i \in DOMAIN received[a], NEW j \in DOMAIN received[a], i < j
             PROVE  received[a][i] <= received[a][j]
  BY DEF OrderKept
<1>1. Nondecreasing(Stream(a))
  BY DEF InOrder
<1> QED
  BY <1>1, StreamType DEF Nondecreasing

LEMMA InitInOrder == Init => InOrder
<1> SUFFICES ASSUME Init PROVE InOrder
  OBVIOUS
<1>1. \A a \in Agents : Stream(a) = <<>>
  <2>1. <<>> \o <<>> = <<>>
    BY EmptySeq, ConcatEmptySeq
  <2>2. \A a \in Agents : received[a] = <<>> /\ chan[a] = <<>>
    BY DEF Init
  <2> QED
    BY <2>1, <2>2 DEF Stream
<1>2. \A t \in Threads : pc[t] # "busy"
  BY DEF Init
<1> QED
  BY <1>1, <1>2 DEF InOrder, OnlyFed, NotAhead, Nondecreasing, HoldsNewest, BehindWorker,
     BehindProducer, Threads, Readers

\* A step that neither moves an event nor gives a goroutine one.
Quiet ==
  /\ chan' = chan /\ received' = received /\ emitted' = emitted
  /\ \A t \in Threads : pc'[t] = "busy" => pc[t] = "busy" /\ ev'[t] = ev[t]

LEMMA QuietKeepsOrder == InOrder /\ Quiet => InOrder'
<1> SUFFICES ASSUME InOrder, Quiet PROVE InOrder'
  OBVIOUS
<1> USE DEF InOrder, Quiet
<1>1. \A a : Stream(a)' = Stream(a)
  BY DEF Stream
<1>2. OnlyFed' /\ NotAhead'
  BY <1>1 DEF OnlyFed, NotAhead
<1>3. ASSUME Serial
      PROVE  /\ \A a \in Agents : Nondecreasing(Stream(a))'
             /\ HoldsNewest' /\ BehindWorker' /\ BehindProducer'
  BY <1>1, <1>3
     DEF Nondecreasing, HoldsNewest, BehindWorker, BehindProducer, Threads, Readers
<1> QED
  BY <1>2, <1>3 DEF Serial

LEMMA QuietSteps ==
  ASSUME IInv, [Next]_vars
  PROVE  \/ Quiet
         \/ \E t \in Threads : Emit(t)
         \/ \E t \in Threads : InSend(t) /\ Deliver(t, Append(Target(t), ev[t]))
         \/ \E w \in Workers : Take(w)
<1> USE DEF IInv, TypeOK, Quiet
<1>1. CASE StartAgent
  BY <1>1 DEF StartAgent, StartNext
<1>2. CASE RequestStop \/ CloseChan \/ JoinAgent
  BY <1>2 DEF RequestStop, CloseChan, CloseNext, JoinAgent, Join, threadVars
<1>3. ASSUME NEW t \in Threads, SpawnTick(t) \/ BeginSend(t) \/ Finish(t) PROVE Quiet
  BY <1>3 DEF SpawnTick, BeginSend, Finish
<1>4. ASSUME NEW t \in Threads, Send(t)
      PROVE  Quiet \/ (InSend(t) /\ Deliver(t, Append(Target(t), ev[t])))
  <2>1. InSend(t) /\ (SendOnClosed(t) \/ Deliver(t, Append(Target(t), ev[t])))
    BY <1>4 DEF Send
  <2>2. CASE SendOnClosed(t)
    <3>1. chan' = chan
      BY <2>2 DEF SendOnClosed
    <3>2. received' = received /\ pc' = pc /\ ev' = ev /\ emitted' = emitted
      BY <2>1 DEF InSend
    <3> QED
      BY <3>1, <3>2
  <2> QED
    BY <2>1, <2>2
<1>5. ASSUME NEW w \in Workers, ExitWorker(w) PROVE Quiet
  BY <1>5 DEF ExitWorker, LeaveLoop
<1>6. ASSUME NEW r \in Joined, QuitReader(r) PROVE Quiet
  BY <1>6 DEF QuitReader
<1>7. ASSUME NEW a \in Agents, Supervise(a) PROVE Quiet
  BY <1>7 DEF Supervise, WorkersDone, CallStop, ProcessorStopped, threadVars
<1>8. CASE UNCHANGED vars
  BY <1>8 DEF vars
<1> QED
  BY <1>1, <1>2, <1>3, <1>4, <1>5, <1>6, <1>7, <1>8
     DEF Next, StopStep, ThreadStep, WorkerStep, Rest

\* A new event is newer than all that were sent.
LEMMA EmitKeepsOrder ==
  ASSUME IInv, InOrder, NEW t \in Threads, Emit(t)
  PROVE  InOrder'
<1> USE DEF InOrder, IInv, TypeOK
<1>1. /\ t \in Readers \cup Ticks /\ t \notin Workers
      /\ emitted' = emitted + 1 /\ emitted \in Nat
      /\ ev' = [ev EXCEPT ![t] = emitted + 1]
      /\ pc' = [pc EXCEPT ![t] = "busy"]
      /\ chan' = chan /\ received' = received
  BY RuntimeAssumption
     DEF Emit, RuntimeAssumption, ThreadsAssumption, WiringAssumption, Readers
<1>2. \A a : Stream(a)' = Stream(a)
  BY <1>1 DEF Stream
<1>4. \A a \in Agents : \A i \in DOMAIN Stream(a) : Stream(a)[i] \in Nat
  BY StreamType
<1>5. OnlyFed' /\ NotAhead'
  <2>1. \A a \in Agents : \A i \in DOMAIN Stream(a)' : Stream(a)'[i] <= emitted'
    BY <1>1, <1>2, <1>4 DEF NotAhead
  <2>2. \A u \in Threads : pc'[u] = "busy" => ev'[u] <= emitted'
    BY <1>1 DEF NotAhead
  <2> QED
    BY <1>2, <2>1, <2>2 DEF OnlyFed, NotAhead
<1>6. ASSUME Serial
      PROVE  /\ \A a \in Agents : Nondecreasing(Stream(a))'
             /\ HoldsNewest' /\ BehindWorker' /\ BehindProducer'
  <2>1. \A a \in Agents : Nondecreasing(Stream(a))'
    BY <1>2, <1>6 DEF Nondecreasing
  <2>2. HoldsNewest'
    BY <1>1, <1>6 DEF HoldsNewest, Threads
  <2>3. BehindWorker'
    BY <1>1, <1>2, <1>6 DEF BehindWorker
  <2>4. BehindProducer'
    <3> SUFFICES ASSUME NEW u \in Readers \cup Ticks, NEW a \in Agents,
                        IsFeeder(u, a), pc'[u] = "busy", NEW i \in DOMAIN Stream(a)
                 PROVE  Stream(a)[i] <= ev'[u]
      BY <1>2 DEF BehindProducer, IsFeeder, MayHoldEvents
    <3>1. u \in Threads
      BY DEF Threads
    <3>2. CASE u = t
      BY <1>1, <1>4, <3>1, <3>2 DEF NotAhead
    <3>3. CASE u # t
      BY <1>1, <1>6, <3>1, <3>3 DEF BehindProducer
    <3> QED
      BY <3>2, <3>3
  <2> QED
    BY <2>1, <2>2, <2>3, <2>4
<1> QED
  BY <1>5, <1>6 DEF Serial, IsFeeder, MayHoldEvents

\* An event goes from the channel to what was received: the stream stays, and
\* the worker, alone at its agent, has the newest of what was received.
LEMMA TakeKeepsOrder ==
  ASSUME IInv, InOrder, NEW w \in Workers, Take(w)
  PROVE  InOrder'
<1> USE DEF InOrder, IInv, TypeOK
<1> DEFINE o == Owner[w]
           e == Head(chan[o])
           k == Len(received[o]) + 1
<1>1. /\ w \in Threads /\ o \in Agents /\ w \notin Readers \cup Ticks
      /\ chan[o] # <<>> /\ chan[o] \in Seq(1..MaxEvents) /\ received[o] \in Seq(1..MaxEvents)
  BY OwnerType, RuntimeAssumption
     DEF Take, Threads, RuntimeAssumption, ThreadsAssumption
<1>2. /\ chan' = [chan EXCEPT ![o] = Tail(@)]
      /\ received' = [received EXCEPT ![o] = Append(@, e)]
      /\ ev' = [ev EXCEPT ![w] = e] /\ pc' = [pc EXCEPT ![w] = "busy"]
      /\ emitted' = emitted
  BY DEF Take
<1>3. /\ Append(received[o], e) \o Tail(chan[o]) = Stream(o)
      /\ Newest(Append(received[o], e)) = e /\ Append(received[o], e) # <<>>
      /\ k \in DOMAIN Stream(o) /\ Stream(o)[k] = e
  BY <1>1, StreamOfTake
<1>4. \A a \in Agents : Stream(a)' = Stream(a)
  <2> SUFFICES ASSUME NEW a \in Agents PROVE received'[a] \o chan'[a] = Stream(a)
    BY DEF Stream
  <2>1. CASE a = o
    <3>1. received'[o] = Append(received[o], e) /\ chan'[o] = Tail(chan[o])
      BY <1>1, <1>2
    <3> QED
      BY <1>3, <2>1, <3>1
  <2>2. CASE a # o
    <3>1. received'[a] = received[a] /\ chan'[a] = chan[a]
      BY <1>2, <2>2
    <3> QED
      BY <3>1 DEF Stream
  <2> QED
    BY <2>1, <2>2
<1>5. \A a \in Agents : \A i \in DOMAIN Stream(a) : Stream(a)[i] \in Nat
  BY StreamType
<1>6. received'[o] # <<>> /\ Newest(received'[o]) = e /\ ev'[w] = e /\ e \in Nat
  BY <1>1, <1>2, <1>3, <1>5, SMTT(60)
<1>7. OnlyFed' /\ NotAhead'
  <2>1. \A u \in Threads : pc'[u] = "busy" => ev'[u] <= emitted'
    BY <1>1, <1>2, <1>3 DEF NotAhead
  <2> QED
    BY <1>2, <1>4, <2>1 DEF OnlyFed, NotAhead
<1>8. ASSUME Serial
      PROVE  /\ \A a \in Agents : Nondecreasing(Stream(a))'
             /\ HoldsNewest' /\ BehindWorker' /\ BehindProducer'
  <2>1. \A a \in Agents : Nondecreasing(Stream(a))'
    BY <1>4, <1>8 DEF Nondecreasing
  <2>2. \A v \in Workers : Owner[v] = o => v = w
    BY <1>1, <1>8 DEF Serial, WorkersOf
  <2>3. HoldsNewest'
    <3> SUFFICES ASSUME NEW v \in Workers, pc'[v] = "busy"
                 PROVE  received'[Owner[v]] # <<>> /\ ev'[v] = Newest(received'[Owner[v]])
      BY DEF HoldsNewest, Newest
    <3>1. CASE v = w
      BY <1>6, <3>1
    <3>2. CASE v # w
      BY <1>2, <1>8, <2>2, <3>2 DEF HoldsNewest, Threads
    <3> QED
      BY <3>1, <3>2
  <2>4. BehindWorker'
    <3> SUFFICES ASSUME NEW v \in Workers, NEW a \in Agents, IsFeeder(v, a),
                        NEW i \in DOMAIN Stream(a)
                 PROVE  received'[Owner[v]] # <<>> /\ Stream(a)[i] <= Newest(received'[Owner[v]])
      BY <1>4 DEF BehindWorker, IsFeeder, MayHoldEvents, Newest
    <3>1. /\ received[Owner[v]] # <<>>
          /\ Stream(a)[i] <= Newest(received[Owner[v]])
      BY <1>8 DEF BehindWorker
    <3>2. CASE v # w
      BY <1>2, <2>2, <3>1, <3>2
    <3>3. CASE v = w
      <4>1. Len(received[o]) \in DOMAIN received[o] /\ Len(received[o]) < k
        BY <1>1, <3>1, <3>3, EmptySeq
      <4>2. Newest(received[o]) <= e
        <5>1. /\ Len(received[o]) \in DOMAIN Stream(o)
              /\ Stream(o)[Len(received[o])] = received[o][Len(received[o])]
          BY <1>1, <4>1, StreamType
        <5> QED
          BY <1>1, <1>3, <1>8, <4>1, <5>1 DEF Nondecreasing, Newest
      <4>3. Newest(received[o]) \in Nat
        BY <1>1, <4>1, StreamType DEF Newest
      <4> QED
        BY <1>5, <1>6, <3>1, <3>3, <4>2, <4>3
    <3> QED
      BY <3>2, <3>3
  <2>5. BehindProducer'
    BY <1>1, <1>2, <1>4, <1>8 DEF BehindProducer, Threads
  <2> QED
    BY <2>1, <2>3, <2>4, <2>5
<1> QED
  BY <1>7, <1>8 DEF Serial, IsFeeder, MayHoldEvents

\* What is sent comes from the only feeder of its target, which has sent it
\* nothing newer.
LEMMA SendKeepsOrder ==
  ASSUME IInv, InOrder, NEW t \in Threads, InSend(t), Deliver(t, Append(Target(t), ev[t]))
  PROVE  InOrder'
<1> USE DEF InOrder, IInv, TypeOK
<1> DEFINE b == Head(out[t])
           e == ev[t]
<1>1. /\ b \in Agents /\ b \in Downstream(Owner[t]) /\ Owner[t] \in Agents
      /\ pc[t] = "busy" /\ e \in 1..MaxEvents
  BY HeadTailProperties, OwnerType DEF InSend, SendsFollowWires
<1>2. /\ chan' = [chan EXCEPT ![b] = Append(@, e)]
      /\ received' = received /\ pc' = pc /\ ev' = ev /\ emitted' = emitted
  BY DEF Deliver, InSend, Target
<1>3. \A a \in Agents : Stream(a)' = IF a = b THEN Append(Stream(b), e) ELSE Stream(a)
  <2>1. received[b] \o Append(chan[b], e) = Append(Stream(b), e)
    BY <1>1, StreamOfSend
  <2> QED
    BY <1>1, <1>2, <2>1 DEF Stream
<1> DEFINE n == Len(Stream(b)) + 1
<1>4. /\ Stream(b) \in Seq(1..MaxEvents) /\ n \in Nat
      /\ DOMAIN Append(Stream(b), e) = 1..n /\ DOMAIN Stream(b) = 1..(n - 1)
      /\ Append(Stream(b), e)[n] = e
      /\ \A i \in 1..(n - 1) : Append(Stream(b), e)[i] = Stream(b)[i]
  <2> DEFINE S == 1..MaxEvents
  <2>1. Stream(b) \in Seq(S) /\ e \in S
    BY <1>1, StreamType
  <2> HIDE DEF S
  <2>2. /\ Append(Stream(b), e) \in Seq(S) /\ Len(Append(Stream(b), e)) = n
        /\ Append(Stream(b), e)[n] = e
        /\ \A i \in 1..Len(Stream(b)) : Append(Stream(b), e)[i] = Stream(b)[i]
    BY <2>1, AppendProperties
  <2>3. Len(Stream(b)) \in Nat /\ DOMAIN Stream(b) = 1..Len(Stream(b))
        /\ DOMAIN Append(Stream(b), e) = 1..n
    BY <2>1, <2>2
  <2>4. n \in Nat /\ Len(Stream(b)) = n - 1
    BY <2>3
  <2>5. \A i \in 1..(n - 1) : Append(Stream(b), e)[i] = Stream(b)[i]
    BY <2>2, <2>4
  <2>6. DOMAIN Stream(b) = 1..(n - 1)
    BY <2>3, <2>4
  <2> QED
    BY <2>1, <2>2, <2>3, <2>4, <2>5, <2>6 DEF S
<1> HIDE DEF n
<1>5. \A a \in Agents : \A i \in DOMAIN Stream(a)' :
        \/ i \in DOMAIN Stream(a) /\ Stream(a)'[i] = Stream(a)[i]
        \/ a = b /\ i = n /\ Stream(a)'[i] = e
  <2> SUFFICES ASSUME NEW a \in Agents, NEW i \in DOMAIN Stream(a)'
               PROVE  \/ i \in DOMAIN Stream(a) /\ Stream(a)'[i] = Stream(a)[i]
                      \/ a = b /\ i = n /\ Stream(a)'[i] = e
    OBVIOUS
  <2>1. CASE a # b
    BY <1>3, <2>1
  <2>2. CASE a = b
    <3>1. i \in 1..n /\ Stream(a)' = Append(Stream(b), e)
      BY <1>1, <1>3, <1>4, <2>2
    <3>2. i \in 1..(n - 1) \/ i = n
      BY <1>4, <3>1
    <3> QED
      BY <1>4, <2>2, <3>1, <3>2
  <2> QED
    BY <2>1, <2>2
<1>6. OnlyFed' /\ NotAhead'
  <2>1. OnlyFed'
    <3> SUFFICES ASSUME NEW a \in Agents, Stream(a)' # <<>>
                 PROVE  \E c \in Agents : a \in Downstream(c)
      BY DEF OnlyFed, Downstream
    <3> QED
      BY <1>1, <1>3 DEF OnlyFed
  <2>2. NotAhead'
    BY <1>1, <1>2, <1>5 DEF NotAhead
  <2> QED
    BY <2>1, <2>2
<1>7. ASSUME Serial
      PROVE  /\ \A a \in Agents : Nondecreasing(Stream(a))'
             /\ HoldsNewest' /\ BehindWorker' /\ BehindProducer'
  <2>1. t \in Workers => received[Owner[t]] # <<>> /\ e = Newest(received[Owner[t]])
    BY <1>1, <1>7 DEF HoldsNewest
  <2>2. IsFeeder(t, b)
    <3>1. ASSUME t \in Workers PROVE \E c \in Agents : Owner[t] \in Downstream(c)
      <4>1. Stream(Owner[t]) # <<>>
        <5>1. 1 \in DOMAIN received[Owner[t]]
          BY <1>1, <2>1, <3>1, EmptySeq
        <5>2. 1 \in DOMAIN Stream(Owner[t])
          BY <1>1, <5>1, StreamType
        <5> QED
          BY <1>1, <5>2, EmptySeq
      <4> QED
        BY <1>1, <4>1 DEF OnlyFed
    <3> QED
      BY <1>1, <3>1 DEF IsFeeder, MayHoldEvents
  <2>3. \A i \in DOMAIN Stream(b) : Stream(b)[i] <= e
    <3>1. CASE t \in Workers
      BY <1>1, <1>7, <2>1, <2>2, <3>1 DEF BehindWorker
    <3>2. CASE t \in Readers \cup Ticks
      BY <1>1, <1>7, <2>2, <3>2 DEF BehindProducer
    <3> QED
      BY <3>1, <3>2 DEF Threads
  <2>4. \A a \in Agents : Nondecreasing(Stream(a))'
    <3> SUFFICES ASSUME NEW a \in Agents, NEW i \in DOMAIN Stream(a)',
                        NEW j \in DOMAIN Stream(a)', i < j
                 PROVE  Stream(a)'[i] <= Stream(a)'[j]
      BY DEF Nondecreasing
    <3>1. Nondecreasing(Stream(a))
      BY <1>7
    <3>2. CASE i \in DOMAIN Stream(a) /\ Stream(a)'[i] = Stream(a)[i]
      <4>1. CASE j \in DOMAIN Stream(a) /\ Stream(a)'[j] = Stream(a)[j]
        BY <3>1, <3>2, <4>1 DEF Nondecreasing
      <4>2. CASE a = b /\ Stream(a)'[j] = e
        BY <2>3, <3>2, <4>2
      <4> QED
        BY <1>5, <4>1, <4>2
    <3>3. CASE a = b /\ i = n
      <4>1. j \in 1..n
        BY <1>1, <1>3, <1>4, <3>3
      <4> QED
        BY <1>4, <3>3, <4>1
    <3> QED
      BY <1>5, <3>2, <3>3
  <2>5. HoldsNewest'
    BY <1>2, <1>7 DEF HoldsNewest
  <2>6. ASSUME NEW u \in Threads, IsFeeder(u, b) PROVE u = t
    BY <1>1, <1>7, <2>2, <2>6 DEF Serial
  <2>7. BehindWorker'
    <3> SUFFICES ASSUME NEW v \in Workers, NEW a \in Agents, IsFeeder(v, a),
                        NEW i \in DOMAIN Stream(a)'
                 PROVE  received[Owner[v]] # <<>> /\ Stream(a)'[i] <= Newest(received[Owner[v]])
      BY <1>2 DEF BehindWorker, IsFeeder, MayHoldEvents, Newest
    <3>1. CASE i \in DOMAIN Stream(a) /\ Stream(a)'[i] = Stream(a)[i]
      BY <1>7, <3>1 DEF BehindWorker
    <3>2. CASE a = b /\ Stream(a)'[i] = e
      <4>1. v = t
        BY <2>6, <3>2 DEF Threads
      <4>2. Newest(received[Owner[v]]) = e
        BY <2>1, <4>1
      <4> QED
        BY <1>1, <2>1, <3>2, <4>1, <4>2
    <3> QED
      BY <1>5, <3>1, <3>2
  <2>8. BehindProducer'
    <3> SUFFICES ASSUME NEW u \in Readers \cup Ticks, NEW a \in Agents, IsFeeder(u, a),
                        pc[u] = "busy", NEW i \in DOMAIN Stream(a)'
                 PROVE  Stream(a)'[i] <= ev[u]
      BY <1>2 DEF BehindProducer, IsFeeder, MayHoldEvents
    <3>1. CASE i \in DOMAIN Stream(a) /\ Stream(a)'[i] = Stream(a)[i]
      BY <1>7, <3>1 DEF BehindProducer
    <3>2. CASE a = b /\ Stream(a)'[i] = e
      <4>1. u = t
        BY <2>6, <3>2 DEF Threads
      <4> QED
        BY <1>1, <3>2, <4>1
    <3> QED
      BY <1>5, <3>1, <3>2
  <2> QED
    BY <2>4, <2>5, <2>7, <2>8
<1> QED
  BY <1>6, <1>7 DEF Serial, IsFeeder, MayHoldEvents

LEMMA OrderStep == IInv /\ InOrder /\ [Next]_vars => InOrder'
BY QuietSteps, QuietKeepsOrder, EmitKeepsOrder, TakeKeepsOrder, SendKeepsOrder

-----------------------------------------------------------------------------
(***************************************************************************)
(* The runtime implements Delivery, if every agent has a worker and the    *)
(* producers are joined: first what the goroutines owe, then the steps.    *)
(***************************************************************************)
owedNow    == [t \in Threads |-> Owes(t)]
waitingNow == [a \in Agents |-> Len(chan[a])]
retiredNow == {a \in Agents : sup[a] = "done"}

Served == (\A a \in Agents : WorkersOf(a) # {}) /\ Ticks \cup Detached = {}

LEMMA NothingCalled ==
  /\ \A k : CallOwes(<<>>, k) = {}
  /\ \A a : CallsOwe(a, <<>>) = {}
BY DEF CallOwes, CallsOwe

\* Beginning a Send call takes its deliveries out of what is yet to be called.
LEMMA CallBegins ==
  ASSUME NEW a \in Agents, NEW c \in Seq(Ports), c # <<>>
  PROVE  CallsOwe(a, c) = CallOwes(Outputs[a][Head(c)], Len(Tail(c))) \cup CallsOwe(a, Tail(c))
<1> DEFINE F(s, i) == CallOwes(Outputs[a][s[i]], Len(s) - i)
<1>1. /\ Head(c) = c[1] /\ Len(Tail(c)) = Len(c) - 1 /\ Len(c) \in Nat \ {0}
      /\ DOMAIN c = 1..Len(c) /\ DOMAIN Tail(c) = 1..(Len(c) - 1)
      /\ \A i \in 1..(Len(c) - 1) : Tail(c)[i] = c[i + 1]
  BY HeadTailProperties, EmptySeq
<1>2. F(c, 1) = CallOwes(Outputs[a][Head(c)], Len(Tail(c)))
  BY <1>1
<1>3. ASSUME NEW i \in DOMAIN Tail(c) PROVE F(Tail(c), i) = F(c, i + 1) /\ i + 1 \in DOMAIN c
  <2>1. Tail(c)[i] = c[i + 1] /\ Len(Tail(c)) - i = Len(c) - (i + 1) /\ i + 1 \in 1..Len(c)
    BY <1>1
  <2> QED
    BY <1>1, <2>1
<1>4. ASSUME NEW i \in DOMAIN c, i # 1 PROVE i - 1 \in DOMAIN Tail(c) /\ F(Tail(c), i - 1) = F(c, i)
  <2>1. i - 1 \in 1..(Len(c) - 1) /\ (i - 1) + 1 = i
    BY <1>1, <1>4
  <2> QED
    BY <1>1, <1>3, <2>1
<1>5. 1 \in DOMAIN c
  BY <1>1
<1> HIDE DEF F
<1>6. UNION {F(c, i) : i \in DOMAIN c} = F(c, 1) \cup UNION {F(Tail(c), i) : i \in DOMAIN Tail(c)}
  <2>1. ASSUME NEW d \in UNION {F(c, i) : i \in DOMAIN c}
        PROVE  d \in F(c, 1) \cup UNION {F(Tail(c), i) : i \in DOMAIN Tail(c)}
    <3>1. PICK i \in DOMAIN c : d \in F(c, i)
      OBVIOUS
    <3> QED
      BY <1>4, <3>1
  <2>2. ASSUME NEW d \in F(c, 1) \cup UNION {F(Tail(c), i) : i \in DOMAIN Tail(c)}
        PROVE  d \in UNION {F(c, i) : i \in DOMAIN c}
    BY <1>3, <1>5
  <2> QED
    BY <2>1, <2>2
<1> QED
  BY <1>2, <1>6 DEF CallsOwe, F

\* A send pays the first delivery of the call, which is no other's slot.
LEMMA SendPays ==
  ASSUME NEW s \in Seq(Agents), s # <<>>, NEW a \in Agents, NEW c \in Seq(Ports),
         NEW d, d = [slot |-> <<Len(c), Len(s) - 1>>, to |-> Head(s)]
  PROVE  /\ d \in CallOwes(s, Len(c)) \cup CallsOwe(a, c)
         /\ CallOwes(Tail(s), Len(c)) \cup CallsOwe(a, c)
              = (CallOwes(s, Len(c)) \cup CallsOwe(a, c)) \ {d}
<1> DEFINE k == Len(c)
           G(q, j) == [slot |-> <<k, Len(q) - j>>, to |-> q[j]]
<1>1. /\ Head(s) = s[1] /\ Len(Tail(s)) = Len(s) - 1 /\ Len(s) \in Nat \ {0}
      /\ DOMAIN s = 1..Len(s) /\ DOMAIN Tail(s) = 1..(Len(s) - 1)
      /\ \A i \in 1..(Len(s) - 1) : Tail(s)[i] = s[i + 1]
  BY HeadTailProperties, EmptySeq
<1>2. k \in Nat /\ DOMAIN c = 1..k
  OBVIOUS
<1>3. d = G(s, 1) /\ 1 \in DOMAIN s
  BY <1>1
<1>4. ASSUME NEW j \in DOMAIN Tail(s) PROVE G(Tail(s), j) = G(s, j + 1) /\ j + 1 \in DOMAIN s
  <2>1. Tail(s)[j] = s[j + 1] /\ Len(Tail(s)) - j = Len(s) - (j + 1) /\ j + 1 \in 1..Len(s)
    BY <1>1
  <2> QED
    BY <1>1, <2>1
<1>5. ASSUME NEW j \in DOMAIN s, j # 1
      PROVE  j - 1 \in DOMAIN Tail(s) /\ G(Tail(s), j - 1) = G(s, j) /\ G(s, j) # d
  <2>1. j - 1 \in 1..(Len(s) - 1) /\ (j - 1) + 1 = j
    BY <1>1, <1>5
  <2>2. G(s, j).slot # d.slot
    BY <1>1, <1>3, <1>5
  <2> QED
    BY <1>1, <1>4, <2>1, <2>2
<1>6. ASSUME NEW e \in CallsOwe(a, c) PROVE e # d
  <2>1. PICK i \in DOMAIN c : e \in CallOwes(Outputs[a][c[i]], k - i)
    BY DEF CallsOwe
  <2>2. e.slot[1] = k - i
    BY <2>1 DEF CallOwes
  <2>3. k - i # k
    BY <1>2
  <2> QED
    BY <1>3, <2>2, <2>3
<1>7. CallOwes(s, k) = {G(s, j) : j \in DOMAIN s}
      /\ CallOwes(Tail(s), k) = {G(Tail(s), j) : j \in DOMAIN Tail(s)}
  BY DEF CallOwes
<1> HIDE DEF G, k
<1>8. d \in CallOwes(s, k)
  BY <1>3, <1>7
<1>9. CallOwes(Tail(s), k) = CallOwes(s, k) \ {d}
  <2>1. ASSUME NEW e \in CallOwes(Tail(s), k) PROVE e \in CallOwes(s, k) \ {d}
    <3>1. PICK j \in DOMAIN Tail(s) : e = G(Tail(s), j)
      BY <1>7
    <3>2. j + 1 \in DOMAIN s /\ e = G(s, j + 1) /\ j + 1 # 1
      BY <1>1, <1>4, <3>1
    <3> QED
      BY <1>5, <1>7, <3>2
  <2>2. ASSUME NEW e \in CallOwes(s, k), e # d PROVE e \in CallOwes(Tail(s), k)
    BY <1>3, <1>5, <1>7, <2>2
  <2> QED
    BY <2>1, <2>2
<1> QED
  BY <1>6, <1>8, <1>9 DEF k

\* What is owed goes to agents downstream, and only a busy goroutine owes.
LEMMA OwedDownstream ==
  ASSUME IInv, NEW t \in Threads
  PROVE  /\ \A d \in Owes(t) : d.to \in Downstream(Owner[t])
         /\ pc[t] # "busy" => Owes(t) = {}
<1>1. Owner[t] \in Agents /\ calls[t] \in Seq(Ports) /\ out[t] \in Seq(Downstream(Owner[t]))
  BY OwnerType DEF IInv, TypeOK, SendsFollowWires
<1>2. ASSUME NEW s \in Seq(Downstream(Owner[t])), NEW k, NEW d \in CallOwes(s, k)
      PROVE  d.to \in Downstream(Owner[t])
  BY DEF CallOwes
<1>3. ASSUME NEW d \in CallsOwe(Owner[t], calls[t]) PROVE d.to \in Downstream(Owner[t])
  <2>1. PICK i \in DOMAIN calls[t] : d \in CallOwes(Outputs[Owner[t]][calls[t][i]], Len(calls[t]) - i)
    BY DEF CallsOwe
  <2>2. Outputs[Owner[t]][calls[t][i]] \in Seq(Downstream(Owner[t]))
    BY <1>1, WireTargets
  <2> QED
    BY <1>2, <2>1, <2>2
<1>4. pc[t] # "busy" => Owes(t) = {}
  BY NothingCalled DEF IInv, SendsFollowWires, Owes
<1> QED
  BY <1>1, <1>2, <1>3, <1>4 DEF Owes

\* An agent whose processor is stopped is closed, drained and left, and so is
\* every agent before it; nobody owes it anything.
LEMMA StoppedIsRetirable ==
  ASSUME IInv, Served, NEW a \in Agents, sup[a] \in {"stop", "done"}
  PROVE  /\ a \in Closed /\ chan[a] = <<>> /\ a \in Started
         /\ \A u \in Agents : a \in Downstream(u) => sup[u] = "done"
         /\ \A t \in Threads : \A d \in Owes(t) : d.to # a
<1>1. PICK w \in Workers : Owner[w] = a
  BY DEF Served, WorkersOf
<1>2. pc[w] = "gone" /\ w \in Threads
  BY <1>1 DEF IInv, DoneMeansGone, Threads
<1>3. a \in Closed /\ chan[a] = <<>> /\ a \in Started
  BY <1>1, <1>2 DEF IInv, GoneMeansDrained, RunsWhenStarted
<1>4. ASSUME NEW u \in Agents, a \in Downstream(u) PROVE sup[u] = "done"
  <2>1. PICK i \in 1..nJoined : StopOrder[i] = u
    BY <1>3, <1>4, UpstreamJoined DEF IInv
  <2> QED
    BY <2>1 DEF IInv, DoneMeansGone
<1>5. ASSUME NEW t \in Threads, NEW d \in Owes(t) PROVE d.to # a
  <2>1. t \in Workers \cup Joined /\ Owner[t] \in Agents
    BY OwnerType DEF Served, Threads, Readers
  <2>2. pc[t] = "busy" /\ d.to \in Downstream(Owner[t])
    BY OwedDownstream
  <2>3. sup[Owner[t]] # "done"
    BY <2>1, <2>2 DEF IInv, DoneMeansGone
  <2> QED
    BY <1>4, <2>1, <2>2, <2>3
<1> QED
  BY <1>3, <1>4, <1>5

\* A goroutine at work belongs to an agent that is not retired.
LEMMA AtWork ==
  ASSUME IInv, Served, NEW t \in Threads, pc[t] # "gone"
  PROVE  Owner[t] \notin retiredNow
BY DEF IInv, DoneMeansGone, Served, Threads, Readers, retiredNow

AbstractStep == D!Next \/ UNCHANGED <<owedNow, waitingNow, retiredNow>>

\* A step that makes, moves and ends nothing changes nothing in Delivery.
LEMMA StutterStep ==
  ASSUME chan' = chan, calls' = calls, out' = out,
         \A a \in Agents : sup'[a] = "done" <=> sup[a] = "done"
  PROVE  UNCHANGED <<owedNow, waitingNow, retiredNow>>
<1>1. \A t \in Threads : Owes(t)' = Owes(t)
  BY DEF Owes
<1> QED
  BY <1>1 DEF owedNow, waitingNow, retiredNow

LEMMA BeginsWith ==
  ASSUME IInv, Served, NEW t \in Threads, pc[t] = "idle", NEW c \in Calls[Owner[t]],
         calls' = [calls EXCEPT ![t] = c], out' = out, sup' = sup
  PROVE  D!Begin(t)
<1> USE DEF IInv, TypeOK
<1>1. Owner[t] \in Agents /\ Owner[t] \notin retiredNow
  BY OwnerType, AtWork
<1>2. out[t] = <<>> /\ Owes(t) = {}
  BY OwedDownstream DEF SendsFollowWires
<1>3. Owes(t)' = CallsOwe(Owner[t], c)
  BY <1>2, NothingCalled DEF Owes
<1>4. \A u \in Threads : u # t => Owes(u)' = Owes(u)
  BY DEF Owes
<1>5. owedNow' = [owedNow EXCEPT ![t] = CallsOwe(Owner[t], c)]
  BY <1>3, <1>4 DEF owedNow
<1>6. owedNow[t] = {} /\ retiredNow' = retiredNow
  BY <1>2 DEF owedNow, retiredNow
<1>7. CallsOwe(Owner[t], c) \in [a \in Agents |-> {CallsOwe(a, q) : q \in Calls[a]}][Owner[t]]
  BY <1>1
<1> QED
  BY <1>1, <1>5, <1>6, <1>7 DEF D!Begin, owedNow, retiredNow

LEMMA EmitImplements ==
  ASSUME IInv, Served, NEW t \in Threads, Emit(t)
  PROVE  AbstractStep
<1>1. PICK c \in Calls[Owner[t]] : calls' = [calls EXCEPT ![t] = c]
  BY DEF Emit
<1>2. t \in Readers \cup Ticks /\ pc[t] = "idle" /\ chan' = chan /\ out' = out /\ sup' = sup
  BY DEF Emit
<1>3. D!Begin(t)
  BY <1>1, <1>2, BeginsWith
<1>4. D!Accept(t)
  BY <1>2, <1>3 DEF D!Accept
<1> QED
  BY <1>4 DEF AbstractStep, D!Next

LEMMA TakeImplements ==
  ASSUME IInv, Served, NEW w \in Workers, Take(w)
  PROVE  AbstractStep
<1>1. PICK c \in Calls[Owner[w]] : calls' = [calls EXCEPT ![w] = c]
  BY DEF Take
<1>2. /\ w \in Threads /\ w \notin Readers \cup Ticks /\ Owner[w] \in Agents
      /\ pc[w] = "idle" /\ chan[Owner[w]] # <<>> /\ out' = out /\ sup' = sup
      /\ chan' = [chan EXCEPT ![Owner[w]] = Tail(@)]
  BY OwnerType, RuntimeAssumption
     DEF Take, Threads, RuntimeAssumption, ThreadsAssumption
<1>3. D!Begin(w)
  BY <1>1, <1>2, BeginsWith
<1>4. /\ Len(chan[Owner[w]]) \in Nat \ {0}
      /\ Len(Tail(chan[Owner[w]])) = Len(chan[Owner[w]]) - 1
  BY <1>2, HeadTailProperties, EmptySeq DEF IInv, TypeOK
<1>5. \A a \in Agents : chan'[a] = IF a = Owner[w] THEN Tail(chan[a]) ELSE chan[a]
  BY <1>2 DEF IInv, TypeOK
<1>6. waitingNow' = [waitingNow EXCEPT ![Owner[w]] = @ - 1]
  <2>1. \A a \in Agents : Len(chan'[a]) = IF a = Owner[w] THEN Len(chan[a]) - 1 ELSE Len(chan[a])
    BY <1>4, <1>5
  <2> QED
    BY <2>1 DEF waitingNow
<1>7. waitingNow[Owner[w]] > 0
  BY <1>2, <1>4 DEF waitingNow
<1>8. D!Process(w)
  BY <1>2, <1>3, <1>6, <1>7 DEF D!Process, waitingNow
<1> QED
  BY <1>2, <1>8 DEF AbstractStep, D!Next

LEMMA BeginSendImplements ==
  ASSUME IInv, Served, NEW t \in Threads, BeginSend(t)
  PROVE  AbstractStep
<1>1. /\ Owner[t] \in Agents /\ calls[t] \in Seq(Ports) /\ calls[t] # <<>> /\ out[t] = <<>>
      /\ out' = [out EXCEPT ![t] = Outputs[Owner[t]][Head(calls[t])]]
      /\ calls' = [calls EXCEPT ![t] = Tail(@)]
      /\ chan' = chan /\ sup' = sup
  BY OwnerType DEF BeginSend, IInv, TypeOK
<1>2. Owes(t)' = Owes(t)
  <2>1. Owes(t) = CallsOwe(Owner[t], calls[t])
    BY <1>1, NothingCalled DEF Owes
  <2>2. Owes(t)' = CallOwes(Outputs[Owner[t]][Head(calls[t])], Len(Tail(calls[t])))
                     \cup CallsOwe(Owner[t], Tail(calls[t]))
    BY <1>1 DEF Owes, IInv, TypeOK
  <2> QED
    BY <1>1, <2>1, <2>2, CallBegins
<1>3. \A u \in Threads : u # t => Owes(u)' = Owes(u)
  BY <1>1 DEF Owes, IInv, TypeOK
<1>4. owedNow' = owedNow
  BY <1>2, <1>3 DEF owedNow
<1>5. waitingNow' = waitingNow /\ retiredNow' = retiredNow
  BY <1>1 DEF waitingNow, retiredNow
<1> QED
  BY <1>4, <1>5 DEF AbstractStep

LEMMA SendImplements ==
  ASSUME IInv, Served, NEW t \in Threads, Send(t)
  PROVE  AbstractStep
<1>1. InSend(t) /\ (SendOnClosed(t) \/ Deliver(t, Append(Target(t), ev[t])))
  BY DEF Send
<1>2. calls' = calls /\ sup' = sup /\ out[t] # <<>> /\ pc[t] = "busy"
  BY <1>1 DEF InSend
<1>3. CASE SendOnClosed(t)
  BY <1>2, <1>3, StutterStep DEF SendOnClosed, AbstractStep
<1>4. CASE Deliver(t, Append(Target(t), ev[t]))
  <2> DEFINE b == Head(out[t])
             d == [slot |-> <<Len(calls[t]), Len(out[t]) - 1>>, to |-> b]
  <2>1. /\ b \notin Closed
        /\ chan' = [chan EXCEPT ![b] = Append(chan[b], ev[t])]
        /\ out' = [out EXCEPT ![t] = Tail(@)]
    BY <1>4 DEF Deliver, Target
  <2>2. /\ out[t] \in Seq(Agents) /\ calls[t] \in Seq(Ports) /\ Owner[t] \in Agents
        /\ b \in Agents /\ chan[b] \in Seq(1..MaxEvents) /\ ev[t] \in 1..MaxEvents
    BY <1>2, OwnerType, HeadTailProperties DEF IInv, TypeOK, SendsFollowWires
  <2>3. d \in Owes(t) /\ CallOwes(Tail(out[t]), Len(calls[t])) \cup CallsOwe(Owner[t], calls[t])
                           = Owes(t) \ {d}
    BY <1>2, <2>2, SendPays DEF Owes
  <2>4. Owes(t)' = Owes(t) \ {d}
    BY <1>2, <2>1, <2>3 DEF Owes, IInv, TypeOK
  <2>5. \A u \in Threads : u # t => Owes(u)' = Owes(u)
    BY <1>2, <2>1 DEF Owes, IInv, TypeOK
  <2>6. owedNow' = [owedNow EXCEPT ![t] = @ \ {d}] /\ d \in owedNow[t]
    BY <2>3, <2>4, <2>5 DEF owedNow
  <2>7. Len(Append(chan[b], ev[t])) = Len(chan[b]) + 1
    BY <2>2, AppendProperties
  <2>8. \A a \in Agents : chan'[a] = IF a = b THEN Append(chan[b], ev[t]) ELSE chan[a]
    BY <2>1 DEF IInv, TypeOK
  <2>9. waitingNow' = [waitingNow EXCEPT ![b] = @ + 1]
    BY <2>2, <2>7, <2>8 DEF waitingNow
  <2>10. b \notin retiredNow /\ retiredNow' = retiredNow
    BY <1>2, <2>1, <2>2, StoppedIsRetirable DEF retiredNow
  <2>11. D!HandOver(t)
    <3>1. d.to = b
      OBVIOUS
    <3> HIDE DEF d, b
    <3> QED
      BY <2>6, <2>9, <2>10, <3>1 DEF D!HandOver, owedNow, waitingNow, retiredNow
  <2> QED
    BY <2>11 DEF AbstractStep, D!Next
<1> QED
  BY <1>1, <1>3, <1>4

LEMMA RetireImplements ==
  ASSUME IInv, Served, NEW a \in Agents, ProcessorStopped(a)
  PROVE  AbstractStep
<1>1. /\ sup[a] = "stop" /\ sup' = [sup EXCEPT ![a] = "done"]
      /\ chan' = chan /\ calls' = calls /\ out' = out
  BY DEF ProcessorStopped
<1>2. \A t \in Threads : Owes(t)' = Owes(t)
  BY <1>1 DEF Owes
<1>3. owedNow' = owedNow /\ waitingNow' = waitingNow
  BY <1>1, <1>2 DEF owedNow, waitingNow
<1>4. retiredNow' = retiredNow \cup {a} /\ a \notin retiredNow
  BY <1>1 DEF retiredNow, IInv, TypeOK
<1>5. /\ chan[a] = <<>>
      /\ \A u \in Agents : a \in Downstream(u) => u \in retiredNow
      /\ \A t \in Threads : \A d \in Owes(t) : d.to # a
  BY <1>1, StoppedIsRetirable DEF retiredNow
<1>6. waitingNow[a] = 0
  BY <1>5, EmptySeq DEF waitingNow
<1>7. \A u \in Agents : a \in [c \in Agents |-> Downstream(c)][u] => u \in retiredNow
  BY <1>5
<1>8. \A t \in Threads : \A d \in owedNow[t] : d.to # a
  BY <1>5 DEF owedNow
<1>9. D!Retire(a)
  BY <1>3, <1>4, <1>6, <1>7, <1>8 DEF D!Retire, owedNow, waitingNow, retiredNow
<1> QED
  BY <1>9 DEF AbstractStep, D!Next

LEMMA StepImplements ==
  ASSUME IInv, Served, [Next]_vars
  PROVE  AbstractStep
<1>1. CASE StartAgent
  <2> DEFINE a == StartOrder[nStarted + 1]
  <2>1. /\ nStarted < N /\ sup' = [sup EXCEPT ![a] = "wait"]
        /\ chan' = chan /\ calls' = calls /\ out' = out
    BY <1>1 DEF StartAgent, StartNext
  <2>2. nStarted \in 0..(N - 1)
    BY <2>1, OrderType DEF IInv, TypeOK
  <2>3. a \in Agents /\ a \notin Started
    BY <2>1, <2>2, SameLength, StartsOnce DEF IInv
  <2>4. sup[a] # "done"
    BY <2>3, StoppedIsRetirable
  <2> HIDE DEF a
  <2> QED
    BY <2>1, <2>4, <2>3, StutterStep DEF AbstractStep, IInv, TypeOK
<1>2. CASE RequestStop \/ CloseChan \/ JoinAgent
  BY <1>2, StutterStep
     DEF AbstractStep, RequestStop, CloseChan, CloseNext, JoinAgent, Join, threadVars
<1>3. ASSUME NEW t \in Threads, ThreadStep(t) PROVE AbstractStep
  <2>1. CASE Emit(t)
    BY <2>1, EmitImplements
  <2>2. CASE BeginSend(t)
    BY <2>2, BeginSendImplements
  <2>3. CASE Send(t)
    BY <2>3, SendImplements
  <2>4. CASE SpawnTick(t) \/ Finish(t)
    BY <2>4, StutterStep DEF AbstractStep, SpawnTick, Finish
  <2> QED
    BY <1>3, <2>1, <2>2, <2>3, <2>4 DEF ThreadStep
<1>4. ASSUME NEW w \in Workers, WorkerStep(w) PROVE AbstractStep
  <2>1. CASE Take(w)
    BY <2>1, TakeImplements
  <2>2. CASE ExitWorker(w)
    BY <2>2, StutterStep DEF AbstractStep, ExitWorker, LeaveLoop
  <2> QED
    BY <1>4, <2>1, <2>2 DEF WorkerStep
<1>5. ASSUME NEW r \in Joined, QuitReader(r) PROVE AbstractStep
  BY <1>5, StutterStep DEF AbstractStep, QuitReader
<1>6. ASSUME NEW a \in Agents, Supervise(a) PROVE AbstractStep
  <2>1. CASE WorkersDone(a)
    <3>1. sup' = [sup EXCEPT ![a] = "stop"] /\ sup[a] = "wait"
          /\ chan' = chan /\ calls' = calls /\ out' = out
      BY <2>1 DEF WorkersDone, CallStop, threadVars
    <3> QED
      BY <3>1, StutterStep DEF AbstractStep, IInv, TypeOK
  <2>2. CASE ProcessorStopped(a)
    BY <2>2, RetireImplements
  <2> QED
    BY <1>6, <2>1, <2>2 DEF Supervise
<1>7. CASE UNCHANGED vars
  BY <1>7, StutterStep DEF AbstractStep, vars
<1> QED
  BY <1>1, <1>2, <1>3, <1>4, <1>5, <1>6, <1>7 DEF Next, StopStep, Rest

-----------------------------------------------------------------------------
(***************************************************************************)
(* The theorems.                                                           *)
(***************************************************************************)

\* IInv holds in every reachable state of every pipeline.
THEOREM Invariance == Spec => []IInv
<1>1. IInv /\ [Next]_vars => IInv'
  BY TypeStep, ProgressStep, DoneStep, WiresStep, DrainStep, StartedStep DEF IInv
<1> QED
  BY InitIInv, <1>1, PTL DEF Spec

\* The variables keep their types, whatever the pipeline.
THEOREM TypeCorrect == Spec => []TypeOK
<1>1. IInv => TypeOK
  BY DEF IInv
<1> QED
  BY Invariance, <1>1, PTL

\* In any pipeline that Sort orders, a goroutine that Agent.stop waits for
\* never has a closed channel among those it may send to, even while ticks
\* and detached readers are still running.
THEOREM AwaitedNeverSendOnClosed == Spec => []AwaitedSendersSafe
BY Invariance, AwaitedSafe, PTL

\* Without ticks and detached readers, no send ever hits a closed channel.
THEOREM NoPanic ==
  ASSUME Ticks \cup Detached = {}
  PROVE  Spec => []NoSendOnClosed
<1>1. IInv => NoSendOnClosed
  BY DEF IInv, PanicFree, NoSendOnClosed
<1> QED
  BY Invariance, <1>1, PTL

\* If every agent has a worker, processor.Stop is called only on an agent
\* that is drained and that no awaited goroutine can feed any more.
THEOREM StopIsDrained ==
  ASSUME \A a \in Agents : WorkersOf(a) # {}
  PROVE  Spec => []StopsDrained
<1>1. ASSUME IInv PROVE StopsDrained
  <2> SUFFICES ASSUME NEW a \in Agents, sup[a] \in {"stop", "done"}
               PROVE  /\ chan[a] = <<>>
                      /\ \A w \in WorkersOf(a) : pc[w] = "gone"
                      /\ \A t \in Awaited : pc[t] = "busy" => a \notin Downstream(Owner[t])
    BY DEF StopsDrained
  <2>1. \A w \in WorkersOf(a) : pc[w] = "gone"
    BY <1>1 DEF IInv, DoneMeansGone, WorkersOf
  <2>2. chan[a] = <<>> /\ a \in Closed
    BY <1>1, <2>1 DEF IInv, GoneMeansDrained, WorkersOf
  <2>3. AwaitedSendersSafe
    BY <1>1, AwaitedSafe
  <2> QED
    BY <2>1, <2>2, <2>3 DEF AwaitedSendersSafe
<1> QED
  BY Invariance, <1>1, PTL

\* A graceful stop loses nothing: if every agent has a worker and there is no
\* tick nor detached reader, no event is left once Pipeline.stop returns.
THEOREM StopLosesNothing ==
  ASSUME \A a \in Agents : WorkersOf(a) # {},
         Ticks \cup Detached = {}
  PROVE  Spec => []NothingLost
<1>1. ASSUME IInv PROVE NothingLost
  <2> SUFFICES ASSUME Stopped, NEW n \in 1..emitted PROVE ~InFlight(n)
    BY DEF NothingLost
  <2>1. \A a \in Agents : sup[a] = "done"
    <3> SUFFICES ASSUME NEW a \in Agents PROVE sup[a] = "done"
      OBVIOUS
    <3>1. PICK i \in DOMAIN StopOrder : StopOrder[i] = a
      BY RuntimeAssumption DEF RuntimeAssumption, OrderAssumption, Enumerates
    <3>2. i \in 1..nJoined
      <4>1. DOMAIN StopOrder = 1..N
        BY OrderType DEF N
      <4> QED
        BY <3>1, <4>1 DEF Stopped
    <3> QED
      BY <1>1, <3>1, <3>2 DEF IInv, DoneMeansGone
  <2>2. \A a \in Agents : chan[a] = <<>>
    <3> SUFFICES ASSUME NEW a \in Agents PROVE chan[a] = <<>>
      OBVIOUS
    <3>1. PICK w \in Workers : Owner[w] = a
      BY DEF WorkersOf
    <3>2. pc[w] = "gone"
      BY <1>1, <2>1, <3>1 DEF IInv, DoneMeansGone
    <3> QED
      BY <1>1, <3>1, <3>2 DEF IInv, GoneMeansDrained
  <2>3. \A t \in Threads : pc[t] = "gone"
    BY <1>1, <2>1, OwnerType, SMTT(60) DEF IInv, DoneMeansGone, Threads, Readers
  <2> QED
    BY <2>2, <2>3 DEF InFlight
<1> QED
  BY Invariance, <1>1, PTL

\* Every agent an event can be sent to is started before anybody can send.
THEOREM FedAfterStart == Spec => []StartedBeforeFed
<1>1. ASSUME IInv PROVE StartedBeforeFed
  <2> SUFFICES ASSUME NEW t \in Threads, pc[t] = "busy", NEW b \in Downstream(Owner[t])
               PROVE  b \in Started
    BY DEF StartedBeforeFed
  <2>1. PICK i \in 1..nStarted : StartOrder[i] = Owner[t]
    BY <1>1 DEF IInv, RunsWhenStarted, Started
  <2>2. PICK j \in DOMAIN StartOrder : StartOrder[j] = b
    BY RuntimeAssumption
       DEF RuntimeAssumption, OrderAssumption, Enumerates, Downstream
  <2>3. StartOrder \in Seq(Agents) /\ Len(StartOrder) = N
    BY RuntimeAssumption DEF RuntimeAssumption, OrderAssumption, Enumerates, N
  <2>4. nStarted \in 0..N /\ N \in Nat
    BY <1>1, OrderType DEF IInv, TypeOK
  <2>5. Before(b, Owner[t], StartOrder)
    BY OwnerType, RuntimeAssumption DEF RuntimeAssumption, OrderAssumption
  <2>6. j < i
    BY <2>1, <2>2, <2>3, <2>4, <2>5 DEF Before
  <2> QED
    BY <2>1, <2>2, <2>3, <2>4, <2>6 DEF Started
<1> QED
  BY Invariance, <1>1, PTL

\* Where one goroutine feeds an agent and one worker serves it, an agent
\* receives events in the order they were produced, whatever the wires, the
\* buffer and the other goroutines.
THEOREM OrderHolds == Spec => []OrderKept
<1>1. Init => InOrder
  BY InitInOrder
<1>2. IInv /\ InOrder /\ [Next]_vars => InOrder'
  BY OrderStep
<1>3. IInv /\ InOrder => OrderKept
  BY OrderFollows DEF IInv
<1> QED
  BY Invariance, <1>1, <1>2, <1>3, PTL DEF Spec

\* If every agent has a worker and there is no tick nor detached reader, the
\* runtime delivers every event exactly once along every wire it is sent on,
\* and retires an agent only when nothing can be owed to it any more.
THEOREM RuntimeImplementsDelivery ==
  ASSUME \A a \in Agents : WorkersOf(a) # {},
         Ticks \cup Detached = {}
  PROVE  Spec => ImplementsDelivery
<1>1. Init => D!Init
  <2> SUFFICES ASSUME Init PROVE D!Init
    OBVIOUS
  <2>1. \A t \in Threads : Owes(t) = {}
    BY NothingCalled DEF Init, Owes
  <2>2. \A a \in Agents : Len(chan[a]) = 0 /\ sup[a] # "done"
    BY EmptySeq DEF Init
  <2> QED
    BY <2>1, <2>2 DEF D!Init
<1>2. Served
  BY DEF Served
<1>3. IInv /\ [Next]_vars
        => [D!Next]_<<[t \in Threads |-> Owes(t)], [a \in Agents |-> Len(chan[a])],
                      {a \in Agents : sup[a] = "done"}>>
  BY <1>2, StepImplements DEF AbstractStep, owedNow, waitingNow, retiredNow
<1> QED
  BY Invariance, <1>1, <1>3, PTL DEF Spec, ImplementsDelivery, D!Spec
=============================================================================
