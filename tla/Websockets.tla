----------------------------- MODULE Websockets -----------------------------
(***************************************************************************)
(* The websocket processors: the output, whose worker uses the hub of Hub  *)
(* beside the hub's goroutine, and the input, with a hub of its own kind.  *)
(***************************************************************************)
EXTENDS Hub

(***************************************************************************)
(* The websocket output (processors/websocket/websocket.go): Receive, in   *)
(* the agent's worker, gives each event to every client in the hub's map   *)
(* itself, beside the hub's goroutine that changes the map and closes the  *)
(* channels; Stop unregisters them one by one.  Events are numbered.       *)
(***************************************************************************)

CONSTANT MaxReceived  \* bound: events

VARIABLES
  out,     \* the worker: at "idle", "range", "send", "stopping", "closing" or "stopped";
           \* the clients its loop must still reach and those it had; the one it is at;
           \* events received; Memory's last
  crashed  \* the process ended: "no", by a "send" on a closed channel, by a "map" race
woVars == <<hub, cl, out, crashed>>

WOInit ==
  /\ HubInit /\ crashed = "no"
  /\ out = [at |-> "idle", must |-> {}, had |-> {}, to |-> 0, received |-> 0, last |-> 0]

\* A loop over h.clients begins.  Go skips a client deleted meanwhile, and may
\* or may not produce one that was added.
Ranging(at) == [out EXCEPT !.at = at, !.must = hub.clients, !.had = {}]
Producible(c) == c \in hub.clients \ out.had
RangeEnds == out.must \cap hub.clients \subseteq out.had

\* Mutant: the event is remembered after the loop.
Remember_Late == out.received
\* Memory.Set("last", ...), before the loop.
Remember == out.received + 1
WOReceive ==
  /\ out.at = "idle" /\ out.received < MaxReceived
  /\ out' = [Ranging("range") EXCEPT !.received = @ + 1, !.last = Remember]
  /\ UNCHANGED <<hub, cl, crashed>>
WOPick ==
  /\ out.at = "range"
  /\ \/ \E c \in Clients :
          Producible(c) /\ out' = [out EXCEPT !.at = "send", !.to = c, !.had = @ \cup {c}]
     \/ RangeEnds /\ out' = [out EXCEPT !.at = "idle", !.must = {}, !.had = {}]
  /\ UNCHANGED <<hub, cl, crashed>>

\* The send waits for room; the hub may have closed the channel since.
WOSend ==
  /\ out.at = "send"
  /\ \/ /\ cl[out.to].open /\ Room(out.to)
        /\ Set(out.to, [cl[out.to] EXCEPT !.queue = Append(@, out.received)])
        /\ out' = [out EXCEPT !.at = "range", !.to = 0] /\ UNCHANGED crashed
     \/ ~cl[out.to].open /\ crashed' = "send" /\ UNCHANGED <<cl, out>>
  /\ UNCHANGED hub

\* Stop, after the last Receive: unregister and disconnect all, then close(done).
WOStop ==
  /\ out.at = "idle"
  /\ out' = Ranging("stopping")
  /\ UNCHANGED <<hub, cl, crashed>>
WOUnregister ==
  /\ out.at = "stopping"
  /\ \E c \in Clients :
       /\ Producible(c) /\ Unregistering(c)
       /\ out' = [out EXCEPT !.at = "disconnect", !.to = c, !.had = @ \cup {c}]
  /\ UNCHANGED <<cl, crashed>>
WODisconnect ==
  /\ out.at = "disconnect"
  /\ Set(out.to, [cl[out.to] EXCEPT !.conn = FALSE])
  /\ out' = [out EXCEPT !.at = "stopping", !.to = 0]
  /\ UNCHANGED <<hub, crashed>>
\* Mutant: done is closed before the clients are unregistered.
WOStopped_First ==
  /\ out.at = "stopping"
  /\ out' = [out EXCEPT !.at = "stopped"]
  /\ UNCHANGED <<hub, cl, crashed>>
WOStopped ==
  /\ out.at = "stopping" /\ RangeEnds
  /\ out' = [out EXCEPT !.at = "stopped"]
  /\ UNCHANGED <<hub, cl, crashed>>
\* Mutant: Stop closes done before it unregisters.
HubDone_Early ==
  /\ Serving /\ out.at \in {"stopping", "stopped"}
  /\ hub' = [hub EXCEPT !.at = "gone"]
  /\ UNCHANGED <<cl, out, crashed>>
\* case <-h.done
HubDone ==
  /\ Serving /\ out.at = "stopped"
  /\ hub' = [hub EXCEPT !.at = "gone"]
  /\ UNCHANGED <<cl, out, crashed>>

\* The loop and the hub use the map together: the runtime may notice.
MapRace ==
  /\ out.at \in {"range", "stopping"}
  /\ hub.at = "unregister" \/ (Serving /\ \E c \in Clients : cl[c].handler = "new")
  /\ crashed' = "map"
  /\ UNCHANGED <<hub, cl, out>>

WORegister(c) == Register(c, out.received) /\ UNCHANGED <<out, crashed>>
WOWelcome(c) ==
  /\ Welcome(c, IF out.last = 0 THEN <<>> ELSE <<out.last>>, {})
  /\ UNCHANGED <<out, crashed>>
WOShared(c) == (Pumps(c) \/ ReaderUnregisters(c)) /\ UNCHANGED <<out, crashed>>
WOLeave(c) == Leave(c) /\ UNCHANGED <<out, crashed>>
WOHub == (HubUnregister /\ UNCHANGED <<out, crashed>>) \/ HubDone
WOWorker == WOPick \/ WOSend \/ WOUnregister \/ WODisconnect \/ WOStopped
WONext ==
  /\ crashed = "no"
  /\ \/ WOReceive \/ WOWorker \/ WOStop \/ WOHub \/ MapRace
     \/ \E c \in Clients : WORegister(c) \/ WOWelcome(c) \/ WOShared(c) \/ WOLeave(c)
WOSpec == WOInit /\ [][WONext]_woVars
WOFairSpec ==
  /\ WOSpec /\ WF_woVars(crashed = "no" /\ WOHub) /\ WF_woVars(crashed = "no" /\ WOWorker)
  /\ \A c \in Clients : WF_woVars(crashed = "no" /\ (WOWelcome(c) \/ WOShared(c)))
-----------------------------------------------------------------------------
WOTypeOK ==
  /\ HubTypeOK
  /\ out.at \in {"idle", "range", "send", "stopping", "disconnect", "stopped"}
  /\ out.must \cup out.had \subseteq Clients
  /\ out.last \in 0..out.received /\ out.received \in 0..MaxReceived
  /\ crashed \in {"no", "send", "map"}

\* Between two events every client in the map has been given the last one, by
\* Receive or by its welcome: one that registers during the loop reads Memory
\* after Receive has written it.
LatestReachesAll ==
  (out.at = "idle" /\ out.received > 0) =>
    \A c \in hub.clients : cl[c].handler \in {"welcome", "done"} => out.received \in InHand(c)

\* A stop takes every client that was in the map when it began out of it.
StopEmptiesMap == out.at = "stopped" => \A c \in out.must : c \notin hub.clients \/ hub.who = c

\* Stop returns although clients come and go and the hub is busy with them.
WebsocketStops == out.at = "stopping" ~> out.at = "stopped" \/ crashed # "no"
-----------------------------------------------------------------------------
(***************************************************************************)
(* The websocket input (processors/input-websocket/websocket.go).  The     *)
(* pumps of a connection end each other by closing the connection and the  *)
(* client's channel done, which the hub makes after it took the client:    *)
(* until then it is nil, and nothing orders that with the pumps.           *)
(***************************************************************************)

CONSTANTS
  Peers,
  MaxMessages  \* bound: messages of the peers

VARIABLES
  room,  \* the hub: at, who it has in hand, clients
  peer,  \* the clients, see NoPeer
  quit,  \* Hub.stop: at "no", "ranging", "closed" (done); the clients it must reach and
         \* those it had; the pipeline's next channels are closed afterwards
  fault  \* the process ended: "no", "close of nil", "send on closed"
wiVars == <<room, peer, quit, fault>>

NoPeer ==
  [handler |-> "new",   \* "new", "sent" to the hub, "done"
   done |-> "nil",      \* c.done: "nil", "open", "closed"
   conn |-> TRUE,       \* the connection is open
   reader |-> "none",   \* "none", "read", "send", "closing", "unregister", "gone"
   writer |-> "none"]   \* "none", "loop", "wait", "wait nil", "gone"

WIInit ==
  /\ room = [at |-> "select", who |-> 0, clients |-> {}]
  /\ peer = [c \in Peers |-> NoPeer]
  /\ quit = [at |-> "no", must |-> {}, had |-> {}, messages |-> 0, closed |-> FALSE]
  /\ fault = "no"

Put(c, r) == peer' = [peer EXCEPT ![c] = r]
Selecting == room.at = "select"

\* HttpHandler: the hub has the client, but has not looked at it yet.
WIRegister(c) ==
  /\ Selecting /\ peer[c].handler = "new"
  /\ room' = [room EXCEPT !.at = "register", !.who = c]
  /\ Put(c, [peer[c] EXCEPT !.handler = "sent"])
  /\ UNCHANGED <<quit, fault>>
WIPumps(c) ==
  /\ peer[c].handler = "sent"
  /\ Put(c, [peer[c] EXCEPT !.handler = "done", !.reader = "read", !.writer = "loop"])
  /\ UNCHANGED <<room, quit, fault>>

HubRegister ==
  /\ room.at = "register"
  /\ Put(room.who, [peer[room.who] EXCEPT !.done = "open"])
  /\ room' = [at |-> "select", who |-> 0, clients |-> room.clients \cup {room.who}]
  /\ UNCHANGED <<quit, fault>>
\* Mutant: the connection is left to the reader.
WIHubUnregister_KeepsConn ==
  /\ room.at = "unregister"
  /\ room' = [at |-> "select", who |-> 0, clients |-> room.clients \ {room.who}]
  /\ UNCHANGED <<peer, quit, fault>>
WIHubUnregister ==
  /\ room.at = "unregister"
  /\ IF room.who \in room.clients THEN Put(room.who, [peer[room.who] EXCEPT !.conn = FALSE])
                                  ELSE UNCHANGED peer
  /\ room' = [at |-> "select", who |-> 0, clients |-> room.clients \ {room.who}]
  /\ UNCHANGED <<quit, fault>>
WIHubDone ==
  /\ Selecting /\ quit.at = "closed"
  /\ room' = [room EXCEPT !.at = "gone"]
  /\ UNCHANGED <<peer, quit, fault>>
-----------------------------------------------------------------------------
WILeave(c) ==
  /\ peer[c].handler # "new" /\ peer[c].conn
  /\ Put(c, [peer[c] EXCEPT !.conn = FALSE])
  /\ UNCHANGED <<room, quit, fault>>

\* readPump: a message becomes events, which are sent to the next agent.
WIMessage(c) ==
  /\ peer[c].reader = "read" /\ peer[c].conn /\ quit.messages < MaxMessages
  /\ Put(c, [peer[c] EXCEPT !.reader = "send"])
  /\ quit' = [quit EXCEPT !.messages = @ + 1]
  /\ UNCHANGED <<room, fault>>
WISend(c) ==
  /\ peer[c].reader = "send"
  /\ IF quit.closed THEN fault' = "send on closed" /\ UNCHANGED peer
                    ELSE Put(c, [peer[c] EXCEPT !.reader = "read"]) /\ UNCHANGED fault
  /\ UNCHANGED <<room, quit>>
\* It ends with the connection: conn.Close, close(c.done), unregister.
WIReadFails(c) ==
  /\ peer[c].reader = "read" /\ ~peer[c].conn
  /\ Put(c, [peer[c] EXCEPT !.reader = "closing"])
  /\ UNCHANGED <<room, quit, fault>>
CloseDone(c) ==
  /\ peer[c].reader = "closing"
  /\ IF peer[c].done = "nil" THEN fault' = "close of nil" /\ UNCHANGED peer
     ELSE Put(c, [peer[c] EXCEPT !.reader = "unregister", !.done = "closed"]) /\ UNCHANGED fault
  /\ UNCHANGED <<room, quit>>
WIUnregister(c) ==
  /\ Selecting /\ peer[c].reader = "unregister"
  /\ room' = [room EXCEPT !.at = "unregister", !.who = c]
  /\ Put(c, [peer[c] EXCEPT !.reader = "gone"])
  /\ UNCHANGED <<quit, fault>>

\* Mutant: a ping that fails does not end the writer.
WIPing_Ignores(c) ==
  /\ peer[c].writer \in {"wait", "wait nil"}
  /\ Put(c, [peer[c] EXCEPT !.writer = "loop"])
  /\ UNCHANGED <<room, quit, fault>>
\* writePump: the select takes c.done as it is when the loop comes round, so a
\* nil one only delays it until the next ping; a ping fails without connection.
WILoop(c) ==
  /\ peer[c].writer = "loop"
  /\ Put(c, [peer[c] EXCEPT !.writer = IF peer[c].done = "nil" THEN "wait nil" ELSE "wait"])
  /\ UNCHANGED <<room, quit, fault>>
WIPing(c) ==
  /\ peer[c].writer \in {"wait", "wait nil"}
  /\ Put(c, IF peer[c].conn THEN [peer[c] EXCEPT !.writer = "loop"] ELSE [peer[c] EXCEPT !.writer = "gone"])
  /\ UNCHANGED <<room, quit, fault>>
WIWriterDone(c) ==
  /\ peer[c].writer = "wait" /\ peer[c].done = "closed"
  /\ Put(c, [peer[c] EXCEPT !.writer = "gone", !.conn = FALSE])
  /\ UNCHANGED <<room, quit, fault>>
-----------------------------------------------------------------------------
\* Hub.stop: every client of the map is unregistered, then done is closed; the
\* runtime closes the next agents' channels some time after Stop.
WIStop ==
  /\ quit.at = "no"
  /\ quit' = [quit EXCEPT !.at = "ranging", !.must = room.clients]
  /\ UNCHANGED <<room, peer, fault>>
WIStopOne ==
  /\ quit.at = "ranging" /\ Selecting
  /\ \E c \in room.clients \ quit.had :
       /\ room' = [room EXCEPT !.at = "unregister", !.who = c]
       /\ quit' = [quit EXCEPT !.had = @ \cup {c}]
  /\ UNCHANGED <<peer, fault>>
WIStopped ==
  /\ quit.at = "ranging" /\ quit.must \cap room.clients \subseteq quit.had
  /\ quit' = [quit EXCEPT !.at = "closed"]
  /\ UNCHANGED <<room, peer, fault>>
CloseNext ==
  /\ quit.at = "closed" /\ ~quit.closed
  /\ quit' = [quit EXCEPT !.closed = TRUE]
  /\ UNCHANGED <<room, peer, fault>>

WIHub == HubRegister \/ WIHubUnregister \/ WIHubDone
WIPeer(c) == WIPumps(c) \/ WISend(c) \/ WIReadFails(c) \/ CloseDone(c) \/ WIUnregister(c)
WIWriter(c) == WILoop(c) \/ WIPing(c) \/ WIWriterDone(c)
WINext ==
  /\ fault = "no"
  /\ \/ WIHub \/ WIStop \/ WIStopOne \/ WIStopped \/ CloseNext
     \/ \E c \in Peers : WIRegister(c) \/ WIPeer(c) \/ WIWriter(c) \/ WIMessage(c) \/ WILeave(c)
WISpec == WIInit /\ [][WINext]_wiVars
WIFairSpec ==
  /\ WISpec /\ WF_wiVars(fault = "no" /\ WIHub) /\ WF_wiVars(fault = "no" /\ (WIStopOne \/ WIStopped))
  /\ \A c \in Peers : /\ WF_wiVars(fault = "no" /\ WIPeer(c))
                      /\ WF_wiVars(fault = "no" /\ WILoop(c))
                      /\ WF_wiVars(fault = "no" /\ (WIPing(c) \/ WIWriterDone(c)))
-----------------------------------------------------------------------------
WITypeOK ==
  /\ room.at \in {"select", "register", "unregister", "gone"} /\ room.clients \subseteq Peers
  /\ quit.at \in {"no", "ranging", "closed"} /\ quit.messages \in 0..MaxMessages
  /\ \A c \in Peers :
       /\ peer[c].handler \in {"new", "sent", "done"} /\ peer[c].done \in {"nil", "open", "closed"}
       /\ peer[c].reader \in {"none", "read", "send", "closing", "unregister", "gone"}
       /\ peer[c].writer \in {"none", "loop", "wait", "wait nil", "gone"}
  /\ fault \in {"no", "close of nil", "send on closed"}

\* When the hub is gone, every client its stop found is disconnected.
StopDisconnects == room.at = "gone" => \A c \in quit.must : ~peer[c].conn

\* The end of a reader ends the writer, also one that began to wait on the nil
\* channel; the end of a writer brings the reader to unregister.
PumpsEndTogether ==
  \A c \in Peers :
    /\ peer[c].reader = "gone" ~> peer[c].writer = "gone" \/ fault # "no"
    /\ peer[c].writer = "gone" ~> peer[c].reader \in {"unregister", "gone"} \/ fault # "no"
=============================================================================
