--------------------------------- MODULE Hub --------------------------------
(***************************************************************************)
(* Hub and Client, the design processors/websocket/websocket.go and        *)
(* api/logs.go share: a handler per connection registers a client and      *)
(* sends it what is already known, then a readPump and a writePump serve   *)
(* it; the hub's goroutine owns the set of clients and closes the channel  *)
(* of a client it removes.                                                 *)
(***************************************************************************)
EXTENDS Integers, Sequences

CONSTANTS
  Clients,
  Cap        \* capacity of a client's send channel (256)

VARIABLES
  hub,  \* at: where its goroutine is; clients: the map; who, msg, left: what it works on
  cl    \* client -> see Unborn

hubVars == <<hub, cl>>
Unborn ==
  [handler |-> "new",   \* "new", "registered", "welcome", "done" or "panic" (the server recovers)
   welcome |-> <<>>,    \* still to be sent by the handler
   queue |-> <<>>,      \* in the channel send
   open |-> TRUE,       \* the channel is not closed
   conn |-> TRUE,       \* the connection is not closed
   reader |-> FALSE,    \* readPump lives, and has not yet unregistered
   writer |-> FALSE,    \* writePump lives
   got |-> {},          \* history: messages taken from the channel by writePump
   since |-> 0,         \* history: messages there had been when it was registered
   owed |-> {}]         \* history: what the welcome must hold

\* The hub is at its select, with these clients.
Served(clients) == [at |-> "select", clients |-> clients, who |-> 0, msg |-> 0, left |-> {}]
HubInit ==
  /\ hub = Served({})
  /\ cl = [c \in Clients |-> Unborn]

Set(c, r) == cl' = [cl EXCEPT ![c] = r]
Room(c) == Len(cl[c].queue) < Cap
Serving == hub.at = "select"
-----------------------------------------------------------------------------
(* HttpHandler / wshandler. *)
Register(c, count) ==
  /\ Serving /\ cl[c].handler = "new"
  /\ hub' = [hub EXCEPT !.clients = @ \cup {c}]
  /\ Set(c, [cl[c] EXCEPT !.handler = "registered", !.since = count])

\* The handler has msgs left to send; after the last one the pumps are started.
Welcoming(r, msgs) ==
  IF msgs = <<>> THEN [r EXCEPT !.handler = "done", !.welcome = msgs, !.reader = TRUE, !.writer = TRUE]
                 ELSE [r EXCEPT !.handler = "welcome", !.welcome = msgs]

\* What Wellcome returns, msgs, is read after the registration.
Welcome(c, msgs, owed) ==
  /\ cl[c].handler = "registered"
  /\ Set(c, Welcoming([cl[c] EXCEPT !.owed = owed], msgs))
  /\ UNCHANGED hub

\* A send of the handler: it waits for room, and panics if the hub has closed
\* the channel, also while it waits.
SendWelcome(c) ==
  /\ cl[c].handler = "welcome"
  /\ \/ ~cl[c].open /\ Set(c, [cl[c] EXCEPT !.handler = "panic"])
     \/ /\ cl[c].open /\ Room(c)
        /\ Set(c, Welcoming([cl[c] EXCEPT !.queue = Append(@, Head(cl[c].welcome))], Tail(cl[c].welcome)))
  /\ UNCHANGED hub
-----------------------------------------------------------------------------
\* The peer goes away, or is too slow for the deadlines.
Leave(c) ==
  /\ cl[c].handler # "new" /\ cl[c].conn
  /\ Set(c, [cl[c] EXCEPT !.conn = FALSE])
  /\ UNCHANGED hub

\* writePump: a message, lost if the write fails, or the channel's end.
Write(c) ==
  /\ cl[c].writer
  /\ \/ /\ cl[c].queue # <<>>
        /\ Set(c, [cl[c] EXCEPT !.queue = Tail(@), !.got = @ \cup {Head(cl[c].queue)}, !.writer = cl[c].conn])
     \/ /\ cl[c].queue = <<>> /\ (~cl[c].open \/ ~cl[c].conn)
        /\ Set(c, [cl[c] EXCEPT !.writer = FALSE, !.conn = FALSE])
  /\ UNCHANGED hub

\* A rendezvous on h.unregister: the hub has c in its hands.
Unregistering(c) == Serving /\ hub' = [hub EXCEPT !.at = "unregister", !.who = c]
\* readPump: ReadMessage fails, then the deferred unregister.
ReaderUnregisters(c) ==
  /\ cl[c].reader /\ ~cl[c].conn
  /\ Unregistering(c)
  /\ Set(c, [cl[c] EXCEPT !.reader = FALSE])

\* Mutant: the channel is closed whoever unregisters.
HubUnregister_Always ==
  /\ hub.at = "unregister"
  /\ hub' = IF cl[hub.who].open THEN Served(hub.clients \ {hub.who})
                                ELSE [hub EXCEPT !.at = "panic"]
  /\ Set(hub.who, [cl[hub.who] EXCEPT !.open = FALSE])
\* Mutant: the channel is closed, the client stays in the map.
HubUnregister_Keeps ==
  /\ hub.at = "unregister"
  /\ hub' = Served(hub.clients)
  /\ Set(hub.who, [cl[hub.who] EXCEPT !.open = FALSE])
\* Its channel is closed and the client deleted, if the hub knows it.  Closing
\* a closed channel panics, and nobody recovers in the hub's goroutine.
HubUnregister ==
  /\ hub.at = "unregister"
  /\ IF hub.who \in hub.clients
       THEN /\ hub' = IF cl[hub.who].open THEN Served(hub.clients \ {hub.who})
                                          ELSE [hub EXCEPT !.at = "panic"]
            /\ Set(hub.who, [cl[hub.who] EXCEPT !.open = FALSE])
       ELSE hub' = Served(hub.clients) /\ UNCHANGED cl

Pumps(c) == SendWelcome(c) \/ Write(c)
-----------------------------------------------------------------------------
HubTypeOK ==
  /\ hub.at \in {"select", "unregister", "broadcast", "gone", "panic"}
  /\ hub.clients \cup hub.left \subseteq Clients
  /\ \A c \in Clients :
       /\ cl[c].handler \in {"new", "registered", "welcome", "done", "panic"}
       /\ {cl[c].reader, cl[c].writer, cl[c].open, cl[c].conn} \subseteq BOOLEAN
       /\ Len(cl[c].queue) <= Cap

\* The hub's goroutine neither closes a closed channel nor sends on one: a
\* client is in the map exactly while its channel is open, however its handler,
\* pumps, the broadcasts and the unregistrations interleave.
HubSurvives == hub.at # "panic" /\ \A c \in hub.clients : cl[c].open

\* What a client is to be given is on its way to it, or was.
InHand(c) == cl[c].got \cup {cl[c].queue[i] : i \in 1..Len(cl[c].queue)}
             \cup {cl[c].welcome[i] : i \in 1..Len(cl[c].welcome)}
=============================================================================
