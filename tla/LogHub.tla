-------------------------------- MODULE LogHub ------------------------------
(***************************************************************************)
(* The log stream of the API (api/logs.go, api/logHook.go): every log      *)
(* entry is handed to the hub by a goroutine of its own and kept in a ring *)
(* of the last entries, the welcome of new clients.  Entries are numbered  *)
(* from 1; what a client says is message 0, and goes to all clients.       *)
(***************************************************************************)
EXTENDS Hub

CONSTANTS
  Size,        \* of the ring
  MaxEntries,  \* bound: log entries
  MaxTalk      \* bound: messages of clients

VARIABLE
  hook  \* fired: entries so far; sliced: how many of them are in the ring, or were;
        \* pending: those whose goroutine waits for the hub; talks
lhVars == <<hub, cl, hook>>

LHInit == HubInit /\ hook = [fired |-> 0, sliced |-> 0, pending |-> {}, talks |-> 0]

\* Fire starts the goroutine, then appends to the ring.
Fire ==
  /\ hook.fired = hook.sliced /\ hook.fired < MaxEntries
  /\ hook' = [hook EXCEPT !.fired = @ + 1, !.pending = @ \cup {hook.fired + 1}]
  /\ UNCHANGED hubVars
Slice ==
  /\ hook.sliced < hook.fired
  /\ hook' = [hook EXCEPT !.sliced = @ + 1]
  /\ UNCHANGED hubVars

\* Mutant: the ring is cut before the append.
Oldest_OffByOne == IF hook.sliced > Size - 1 THEN hook.sliced - Size + 2 ELSE 1
Oldest == IF hook.sliced > Size THEN hook.sliced - Size + 1 ELSE 1
Ring == [i \in 1..(hook.sliced - Oldest + 1) |-> Oldest + i - 1]

LHRegister(c) == Register(c, hook.fired) /\ UNCHANGED hook
LHWelcome(c) ==
  /\ Welcome(c, Ring, {e \in 1..hook.sliced : e > hook.sliced - Size})
  /\ UNCHANGED hook

\* A message is given to the clients still left, one by one.
Broadcasting(m, clients, left) ==
  IF left = {} THEN Served(clients)
               ELSE [at |-> "broadcast", clients |-> clients, who |-> 0, msg |-> m, left |-> left]

\* The hub takes a message: of an entry's goroutine, or of a reader.
TakeEntry ==
  /\ Serving
  /\ \E e \in hook.pending :
       /\ hub' = Broadcasting(e, hub.clients, hub.clients)
       /\ hook' = [hook EXCEPT !.pending = @ \ {e}]
  /\ UNCHANGED cl
Talk(c) ==
  /\ Serving /\ cl[c].reader /\ cl[c].conn /\ hook.talks < MaxTalk
  /\ hub' = Broadcasting(0, hub.clients, hub.clients)
  /\ hook' = [hook EXCEPT !.talks = @ + 1]
  /\ UNCHANGED cl

\* Mutant: the hub waits for a client whose channel is full.
BroadcastTo_Waits(c) ==
  /\ c \in hub.left /\ Room(c)
  /\ hub' = Broadcasting(hub.msg, hub.clients, hub.left \ {c})
  /\ Set(c, [cl[c] EXCEPT !.queue = Append(@, hub.msg)])
  /\ UNCHANGED hook
\* A client with a full channel is dropped.
BroadcastTo(c) ==
  /\ c \in hub.left
  /\ \/ /\ cl[c].open /\ Room(c)
        /\ hub' = Broadcasting(hub.msg, hub.clients, hub.left \ {c})
        /\ Set(c, [cl[c] EXCEPT !.queue = Append(@, hub.msg)])
     \/ /\ cl[c].open /\ ~Room(c)
        /\ hub' = Broadcasting(hub.msg, hub.clients \ {c}, hub.left \ {c})
        /\ Set(c, [cl[c] EXCEPT !.open = FALSE])
     \/ ~cl[c].open /\ hub' = [hub EXCEPT !.at = "panic"] /\ UNCHANGED cl
  /\ UNCHANGED hook

LHShared(c) == (Pumps(c) \/ Leave(c) \/ ReaderUnregisters(c)) /\ UNCHANGED hook
LHHub == TakeEntry \/ (\E c \in Clients : BroadcastTo(c)) \/ (HubUnregister /\ UNCHANGED hook)
LHNext ==
  \/ Fire \/ Slice \/ LHHub
  \/ \E c \in Clients : LHRegister(c) \/ LHWelcome(c) \/ Talk(c) \/ LHShared(c)
LHSpec == LHInit /\ [][LHNext]_lhVars
LHClient(c) == LHWelcome(c) \/ ((Pumps(c) \/ ReaderUnregisters(c)) /\ UNCHANGED hook)
LHFair == WF_lhVars(LHHub) /\ \A c \in Clients : WF_lhVars(LHClient(c))
LHFairSpec == LHSpec /\ LHFair
-----------------------------------------------------------------------------
LHTypeOK ==
  /\ HubTypeOK
  /\ hook.fired \in 0..MaxEntries /\ hook.sliced \in 0..hook.fired
  /\ hook.pending \subseteq 1..hook.fired /\ hook.talks \in 0..MaxTalk

\* A client that was not dropped is given every entry logged after it was
\* registered and the last Size before its welcome: the ring is read after the
\* registration, so nothing falls between the two.  (It may get one twice.)
EntriesReachClients ==
  \A c \in hub.clients :
    cl[c].handler \in {"welcome", "done"} =>
      \A e \in cl[c].owed \cup {n \in 1..hook.fired : n > cl[c].since} :
        \/ e \in InHand(c) \cup hook.pending
        \/ hub.msg = e /\ c \in hub.left

\* No client can hold the log up: every entry is taken by the hub.
EntriesAreTaken == \A e \in 1..MaxEntries : (e \in hook.pending) ~> (e \notin hook.pending)

\* A client whose connection failed is forgotten, once its pumps are started (a
\* handler that waits for room is only freed by the next entry).
LeaversForgotten == \A c \in Clients : (cl[c].reader /\ ~cl[c].conn) ~> c \notin hub.clients
=============================================================================
