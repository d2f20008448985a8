------------------------------ MODULE Delivery ------------------------------
(***************************************************************************)
(* What a pipeline promises about events, without channels, buffers, the   *)
(* calls of a Receive or the steps of a stop.  A task (a goroutine) that   *)
(* has an event owes deliveries, each at a slot of its own; a delivery it  *)
(* hands over waits at its recipient until a task there takes it.  Every   *)
(* delivery is made exactly once, a task has one event at a time, and an   *)
(* agent is retired (processor stopped, Done closed) only when nothing     *)
(* waits for it, nobody owes it anything, and every agent that could send  *)
(* it more is retired already.                                             *)
(***************************************************************************)
EXTENDS Naturals

CONSTANTS
  Agents,
  Tasks, Producers,  \* all tasks; those whose events come from outside
  Home,        \* Home[t]: the agent a task works for
  Emissions,   \* Emissions[a]: the sets of deliveries one event may cause
  Feeds        \* Feeds[a]: the agents a may send to

VARIABLES
  owed,        \* owed[t]: the deliveries, [slot, to], task t has yet to hand over
  waiting,     \* waiting[a]: how many deliveries wait at agent a
  retired

Init ==
  /\ owed = [t \in Tasks |-> {}]
  /\ waiting = [a \in Agents |-> 0]
  /\ retired = {}

\* A task with nothing left to do begins with an event.
Begin(t) ==
  /\ Home[t] \notin retired
  /\ owed[t] = {}
  /\ \E m \in Emissions[Home[t]] : owed' = [owed EXCEPT ![t] = m]
  /\ UNCHANGED retired

Accept(t) == t \in Producers /\ Begin(t) /\ UNCHANGED waiting

Process(t) ==
  /\ t \notin Producers /\ Begin(t)
  /\ waiting[Home[t]] > 0
  /\ waiting' = [waiting EXCEPT ![Home[t]] = @ - 1]

HandOver(t) ==
  \E d \in owed[t] :
    /\ d.to \notin retired
    /\ owed' = [owed EXCEPT ![t] = @ \ {d}]
    /\ waiting' = [waiting EXCEPT ![d.to] = @ + 1]
    /\ UNCHANGED retired

Retire(a) ==
  /\ a \notin retired
  /\ waiting[a] = 0
  /\ \A t \in Tasks : \A d \in owed[t] : d.to # a
  /\ \A u \in Agents : a \in Feeds[u] => u \in retired
  /\ retired' = retired \cup {a}
  /\ UNCHANGED <<owed, waiting>>

Next ==
  \/ \E t \in Tasks : Accept(t) \/ Process(t) \/ HandOver(t)
  \/ \E a \in Agents : Retire(a)

Spec == Init /\ [][Next]_<<owed, waiting, retired>>
=============================================================================
