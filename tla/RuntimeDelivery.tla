-------------------------- MODULE RuntimeDelivery ---------------------------
(***************************************************************************)
(* AgentRuntime implements Delivery: a goroutine owes what is left of the  *)
(* Send call it is in and what its further calls will send; what waits at  *)
(* an agent is in its channel.  A slot is counted from the end: how many   *)
(* calls come after it, and how many recipients after this one.            *)
(***************************************************************************)
EXTENDS AgentRuntime

\* The deliveries of a Send call to recipients s, when k calls come after it.
CallOwes(s, k) == {[slot |-> <<k, Len(s) - j>>, to |-> s[j]] : j \in DOMAIN s}

\* The deliveries of the calls agent a makes on the ports of list c.
CallsOwe(a, c) == UNION {CallOwes(Outputs[a][c[i]], Len(c) - i) : i \in DOMAIN c}

Owes(t) == CallOwes(out[t], Len(calls[t])) \cup CallsOwe(Owner[t], calls[t])

D == INSTANCE Delivery WITH
       Tasks <- Threads,
       Producers <- Readers \cup Ticks,
       Home <- Owner,
       Emissions <- [a \in Agents |-> {CallsOwe(a, c) : c \in Calls[a]}],
       Feeds <- [a \in Agents |-> Downstream(a)],
       owed <- [t \in Threads |-> Owes(t)],
       waiting <- [a \in Agents |-> Len(chan[a])],
       retired <- {a \in Agents : sup[a] = "done"}

\* The runtime delivers every event exactly once along every wire it is sent
\* on, and retires an agent only when nothing can be owed to it any more.
ImplementsDelivery == D!Spec
=============================================================================
