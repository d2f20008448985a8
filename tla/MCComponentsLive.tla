-------------------------- MODULE MCComponentsLive --------------------------
(***************************************************************************)
(* The components with liveness properties, on instances small enough for  *)
(* them, under the fairness of their goroutines.                           *)
(***************************************************************************)
EXTENDS Integers, FiniteSets, Sequences

CONSTANTS c1

VARIABLES
  at_work,  \* the component of this behaviour
  logHub, logClients, hook, hub, cl, out, crashed, room, peer, quit, fault, fan, req, dead,
  given, muster, firing, fate, halt, acks, broker, channel, consuming, stage, taken, drops,
  stdin, command, stdout, reading, worker, results, tick, loop, input

LH == INSTANCE LogHub WITH Clients <- {c1}, Cap <- 1, Size <- 1, MaxEntries <- 3,
      MaxTalk <- 1, hub <- logHub, cl <- logClients
WS == INSTANCE Websockets WITH Clients <- {c1}, Cap <- 2, MaxReceived <- 3, Peers <-
      {c1}, MaxMessages <- 2
WF == INSTANCE Webfan WITH Requests <- {c1}, Depth <- 1, MaxRecords <- 2
HO == INSTANCE Outputs WITH BatchSize <- 2, PoolMax <- 1, MaxGiven <- 3, MaxLogged <-
      0, Publishers <- {}, MaxConns <- 0, MaxPublished <- 0, Senders <- {}, MaxDials <- 0,
      MaxTroubles <- 0, MaxOut <- 0, buffer <- given, flush <- given, outFile <- given,
      logged <- given, raced <- given, conns <- given, conn <- given, ch <- given, pub <-
      given, stopping <- given, mingled <- given, tcpConn <- given, net <- given, sender <-
      given, phase <- given, tally <- given, tangled <- given
RI == INSTANCE ServerInputs WITH AckBatch <- 2, Prefetch <- 2, Messages <- 4, MaxDrops
      <- 1, ChannelSize <- 1, Shippers <- {}, BatchLen <- 1, MaxBatches <- 0, MaxResets <-
      0, Posts <- {}, Bodies <- {}, Inlets <- {}, MaxItems <- 0, Count <- 1, ship <- broker,
      serving <- broker, backlog <- broker, drain <- broker, server <- broker, log <-
      broker, resets <- broker, post <- broker, answer <- broker, emitted <- broker, input
      <- broker, inlet <- broker, going <- broker, items <- broker, forwarded <- broker,
      overdue <- broker
CM == INSTANCE Commands WITH Stream <- TRUE, Pipe <- 1, MaxEvents <- 2, Ticks <- {c1},
      Plain <- FALSE, MaxLines <- 2

\* The variables of the components that are not at work stay aside.
OthersAside ==
  /\ IF at_work = "log hub" THEN TRUE ELSE UNCHANGED <<logHub, logClients, hook>>
  /\ IF at_work = "websocket out" THEN TRUE ELSE UNCHANGED <<hub, cl, out, crashed>>
  /\ IF at_work = "websocket in" THEN TRUE ELSE UNCHANGED <<room, peer, quit, fault>>
  /\ IF at_work = "webfan" THEN TRUE ELSE UNCHANGED <<fan, req, dead>>
  /\ IF at_work = "http output" THEN TRUE ELSE
       UNCHANGED <<given, muster, firing, fate, halt>>
  /\ IF at_work = "rabbit input" THEN TRUE ELSE
       UNCHANGED <<acks, broker, channel, consuming, stage, taken, drops>>
  /\ IF at_work = "stream" THEN TRUE ELSE
       UNCHANGED <<stdin, command, stdout, reading, worker, results>>
  /\ IF at_work = "exec" THEN TRUE ELSE UNCHANGED <<tick, loop, input>>

Init ==
  /\ at_work \in {"log hub", "websocket out", "websocket in", "webfan", "http output", "rabbit input", "stream", "exec"}
  /\ LH!LHInit /\ WS!WOInit /\ WS!WIInit /\ WF!WFInit /\ HO!HOInit /\ RI!RIInit /\ CM!SPInit /\ CM!EXInit

Next ==
  /\ \/ at_work = "log hub" /\ LH!LHNext
     \/ at_work = "websocket out" /\ WS!WONext
     \/ at_work = "websocket in" /\ WS!WINext
     \/ at_work = "webfan" /\ WF!WFNext
     \/ at_work = "http output" /\ HO!HONext
     \/ at_work = "rabbit input" /\ RI!RINext
     \/ at_work = "stream" /\ CM!SPNext
     \/ at_work = "exec" /\ CM!EXNext
  /\ OthersAside /\ UNCHANGED at_work

vars == <<at_work, logHub, logClients, hook, hub, cl, out, crashed, room, peer, quit,
          fault, fan, req, dead, given, muster, firing, fate, halt, acks, broker, channel,
          consuming, stage, taken, drops, stdin, command, stdout, reading, worker, results,
          tick, loop, input>>

Goes(who, A) == at_work = who /\ A /\ OthersAside /\ UNCHANGED at_work

\* Every goroutine that can go on does, at last.  at_work never changes: a
\* conjunct is about one goroutine of each component, that of the one at work.
Fair ==
  /\ WF_vars(\/ Goes("log hub", LH!LHHub)
             \/ Goes("websocket out", crashed = "no" /\ WS!WOHub)
             \/ Goes("websocket in", fault = "no" /\ WS!WIHub)
             \/ Goes("webfan", ~dead /\ WF!FanStop)
             \/ Goes("http output", halt # "crash" /\ HO!Muster)
             \/ Goes("rabbit input", stage # "crash" /\ RI!Deliver)
             \/ Goes("stream", CM!Command)
             \/ Goes("exec", input # "crash" /\ CM!Ticking(c1)))
  /\ WF_vars(\/ Goes("log hub", LH!LHClient(c1))
             \/ Goes("websocket out", crashed = "no" /\ WS!WOWorker)
             \/ Goes("websocket in", fault = "no" /\ (WS!WIStopOne \/ WS!WIStopped))
             \/ Goes("webfan", ~dead /\ WF!Handling(c1))
             \/ Goes("http output", halt # "crash" /\ (HO!HOClose \/ HO!HOReturn))
             \/ Goes("rabbit input", stage # "crash" /\ RI!Consuming)
             \/ Goes("stream", CM!Reader)
             \/ Goes("exec", input # "crash" /\ CM!Looping(c1)))
  /\ WF_vars(\/ Goes("websocket out", crashed = "no" /\ (WS!WOWelcome(c1) \/ WS!WOShared(c1)))
             \/ Goes("websocket in", fault = "no" /\ WS!WIPeer(c1))
             \/ Goes("webfan", ~dead /\ WF!Answering(c1))
             \/ Goes("http output", halt # "crash" /\ HO!Attempt)
             \/ Goes("stream", CM!SPWait))
  /\ WF_vars(Goes("websocket in", fault = "no" /\ WS!WILoop(c1)))
  /\ WF_vars(Goes("websocket in", fault = "no" /\ (WS!WIPing(c1) \/ WS!WIWriterDone(c1))))
  /\ SF_vars(Goes("http output", halt # "crash" /\ \E b \in firing : HO!GiveUp(b)))
Spec == Init /\ [][Next]_vars /\ Fair
-----------------------------------------------------------------------------
(* The properties of the modules, each for its component. *)

\* Log entries are taken from the hub at last and clients that left forgotten
\* by it; the messages of a broker are taken, also when acknowledged in
\* batches; what a command printed is sent, unless a decoding failed or Stop
\* came.
EventsFlow ==
  /\ at_work = "log hub" => LH!EntriesAreTaken /\ LH!LeaversForgotten
  /\ at_work = "rabbit input" => RI!MessagesTaken
  /\ at_work = "exec" => CM!PrintedIsSent

\* Stop returns: of the websocket output with clients that read no more, of
\* the http output with batches that cannot be sent, of an external command
\* with full pipes unless a decoding failed.
StopsReturn ==
  /\ at_work = "websocket out" => WS!WebsocketStops
  /\ at_work = "http output" => HO!HttpStops
  /\ at_work = "stream" => CM!StreamStops

\* When a websocket's reader ends, its writer ends too, and the hub forgets
\* the client; every request of webfan is answered, also when Stop comes in
\* between; unless the program crashed.
ConnectionsEnd ==
  /\ at_work = "websocket in" => WS!PumpsEndTogether
  /\ at_work = "webfan" => WF!RequestsEnd
=============================================================================
