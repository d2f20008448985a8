------------------------------ MODULE Components -----------------------------
(***************************************************************************)
(* Components that have their variables to themselves, side by side: those *)
(* that serve clients (the log hub, the websocket output and input,        *)
(* webfan), the inputs of the network and of a growing file, the filters   *)
(* that remember, and the outputs that gather events or share a            *)
(* connection.  In one process they share nothing, so that a behaviour is  *)
(* of one of them, and the others rest.                                    *)
(***************************************************************************)
EXTENDS LogHub, Websockets, Webfan, TailInput, ServerInputs, StatefulFilters, Outputs

VARIABLE at_work  \* the component of this behaviour
-----------------------------------------------------------------------------
(* Those that serve clients. *)
ASSUME ClientBounds ==
  /\ Cap \in Nat /\ Size \in Nat /\ MaxEntries \in Nat /\ MaxTalk \in Nat
  /\ MaxReceived \in Nat /\ MaxMessages \in Nat /\ Depth \in Nat /\ MaxRecords \in Nat

clientVars == <<hub, cl, hook, out, crashed, room, peer, quit, fault, fan, req, dead>>
clientParts == {"log hub", "websocket out", "websocket in", "webfan"}

ClientsInit == LHInit /\ WOInit /\ WIInit /\ WFInit
ClientsNext ==
  \/ at_work = "log hub" /\ LHNext /\ UNCHANGED <<out, crashed, wiVars, fanVars>>
  \/ at_work = "websocket out" /\ WONext /\ UNCHANGED <<hook, wiVars, fanVars>>
  \/ at_work = "websocket in" /\ WINext /\ UNCHANGED <<hub, cl, hook, out, crashed, fanVars>>
  \/ at_work = "webfan" /\ WFNext /\ UNCHANGED <<hub, cl, hook, out, crashed, wiVars>>
ClientsSpec ==
  /\ at_work \in clientParts /\ ClientsInit
  /\ [][ClientsNext /\ UNCHANGED at_work]_<<at_work, clientVars>>

ClientsTypeOK ==
  /\ at_work = "log hub" => LHTypeOK
  /\ at_work = "websocket out" => WOTypeOK
  /\ at_work = "websocket in" => WITypeOK
  /\ at_work = "webfan" => WFTypeOK

\* No hub closes a client's channel twice or sends on a closed one; the
\* clients that stay get every entry, or the latest event; Stop leaves none of
\* the output's clients in the map, and disconnects those that the input's hub
\* knew when it began.  The answer to a request of webfan has all that its
\* pipeline made of it, and Stop waits for the requests in flight.
ClientsSound ==
  /\ at_work = "log hub" => HubSurvives /\ EntriesReachClients
  /\ at_work = "websocket out" => HubSurvives /\ LatestReachesAll /\ StopEmptiesMap
  /\ at_work = "websocket in" => StopDisconnects
  /\ at_work = "webfan" => AnswerComplete /\ StopAwaitsRequests
-----------------------------------------------------------------------------
(* The inputs.  A variable of one that is not at work is 0. *)
ASSUME InputBounds ==
  /\ MaxLines \in Nat /\ MaxLives \in Nat \ {0} /\ Messages \in Nat /\ MaxDrops \in Nat
  /\ AckBatch \in Nat \ {0} /\ Prefetch \in Nat /\ BatchLen \in Nat \ {0} /\ ChannelSize \in Nat
  /\ MaxBatches \in Nat /\ MaxResets \in Nat /\ MaxItems \in Nat /\ Count \in Nat \ {0}
  /\ FromBeginning \in BOOLEAN /\ CodecFails \in BOOLEAN /\ DryRun \in BOOLEAN
  /\ Bodies \subseteq Seq({"good", "end", "bad", "odd"})

inputVars == <<tailVars, riVars, biVars, hsVars, siVars>>
inputParts == {"tail", "rabbit input", "beats", "http server", "sockets"}

TailRests ==
  lines = 0 /\ run = 0 /\ tail = 0 /\ past = 0 /\ offsets = 0 /\ stored = 0 /\ saver = 0 /\ looping = 0
RabbitRests ==
  acks = 0 /\ broker = 0 /\ channel = 0 /\ consuming = 0 /\ stage = 0 /\ taken = 0 /\ drops = 0
BeatsRests ==
  ship = 0 /\ serving = 0 /\ backlog = 0 /\ drain = 0 /\ server = 0 /\ log = 0 /\ resets = 0
HttpRests == post = 0 /\ answer = 0 /\ emitted = 0 /\ input = 0
SocketsRest == inlet = 0 /\ going = 0 /\ items = 0 /\ forwarded = 0 /\ overdue = 0

InputsInit ==
  /\ IF at_work = "tail" THEN TLInit ELSE TailRests
  /\ IF at_work = "rabbit input" THEN RIInit ELSE RabbitRests
  /\ IF at_work = "beats" THEN BIInit ELSE BeatsRests
  /\ IF at_work = "http server" THEN HSInit ELSE HttpRests
  /\ IF at_work = "sockets" THEN SIInit ELSE SocketsRest
InputsNext ==
  \/ at_work = "tail" /\ TLNext /\ UNCHANGED <<riVars, biVars, hsVars, siVars>>
  \/ at_work = "rabbit input" /\ RINext /\ UNCHANGED <<tailVars, biVars, hsVars, siVars>>
  \/ at_work = "beats" /\ BINext /\ UNCHANGED <<tailVars, riVars, hsVars, siVars>>
  \/ at_work = "http server" /\ HSNext /\ UNCHANGED <<tailVars, riVars, biVars, siVars>>
  \/ at_work = "sockets" /\ SINext /\ UNCHANGED <<tailVars, riVars, biVars, hsVars>>
InputsSpec ==
  /\ at_work \in inputParts /\ InputsInit
  /\ [][InputsNext /\ UNCHANGED at_work]_<<at_work, inputVars>>

InputsTypeOK ==
  /\ at_work = "tail" => TLTypeOK
  /\ at_work = "rabbit input" => RITypeOK
  /\ at_work = "beats" => BITypeOK
  /\ at_work = "http server" => HSTypeOK

\* tail sends the lines of a file without gap while the process lives, its mark
\* at most two lines ahead of them; what exits and restarts leave out is the two
\* lines before a mark, or what is skipped to the end of the file after a mark of
\* 0.  rabbitmq acknowledges only what was sent, whatever connections are lost;
\* beats gives each acknowledged batch to Send before Stop returns; httpserver
\* accepts a post only if all its records were sent, refuses it after those
\* before a bad record (all, if there is no encoder), and outlives Stop by one.
\* What unix, udp, syslog, twitter, elasticsearch and event read or make is sent
\* in order, and they end the program in the ways known only.
InputsSound ==
  /\ at_work = "tail" => NoGap /\ AheadByTwo /\ LinesAccounted
  /\ at_work = "rabbit input" => AckedWasSent
  /\ at_work = "beats" => AckedIsSent /\ StopDrains
  /\ at_work = "http server" => AnswerIsHonest /\ LateByOne
  /\ at_work = "sockets" => ReadIsSent /\ OutlivesOnlySo

\* What the SinceDB has stored of a tailed file never goes back while the
\* processor runs, though the looper saves a value that may be old.
StoredGrows == [][at_work = "tail" => StoredGrowsStep]_<<at_work, inputVars>>
-----------------------------------------------------------------------------
(* The filters. *)
ASSUME FilterBounds ==
  /\ "none" \notin Terms /\ Configured \subseteq Terms /\ IgnoreMissing \in BOOLEAN /\ MaxSeen \in Nat
  /\ "none" \notin Texts /\ Timeframe \in BOOLEAN /\ SkipMissing \in BOOLEAN /\ MaxChanges \in Nat
  /\ \A o \in GeoOptions : o.web \in BOOLEAN
  /\ NoValue \notin Addresses /\ CacheSize \in Nat /\ MaxReleases \in Nat /\ MaxLocated \in Nat
  /\ "worker" \notin Tickers /\ DigestSettings \subseteq [interval : BOOLEAN, count : Nat]
  /\ MaxDigested \in Nat /\ MaxDigests \in Nat

filterVars == <<ntVars, cfVars, giVars, digestVars>>
filterParts == {"newterm", "change", "geoip", "digest"}

NewTermRests == terms = 0 /\ filtering = 0 /\ passed = 0 /\ seen = 0
ChangeRests ==
  doing = 0 /\ mu = 0 /\ lastValue = 0 /\ first = 0 /\ hop = 0 /\ was = 0 /\ value = 0 /\ timer = 0
    /\ heard = 0 /\ verdict = 0 /\ changes = 0
GeoRests == geo = 0 /\ locating = 0 /\ cached = 0 /\ located = 0
DigestRests ==
  digestOpt = 0 /\ packets = 0 /\ maps = 0 /\ ticking = 0 /\ loaded = 0 /\ digests = 0 /\ lost = 0
    /\ digested = 0 /\ overlapped = 0 /\ fatal = 0

FiltersInit ==
  /\ IF at_work = "newterm" THEN NTInit ELSE NewTermRests
  /\ IF at_work = "change" THEN CFInit ELSE ChangeRests
  /\ IF at_work = "geoip" THEN GIInit ELSE GeoRests
  /\ IF at_work = "digest" THEN DGInit ELSE DigestRests
FiltersNext ==
  \/ at_work = "newterm" /\ NTNext /\ UNCHANGED <<cfVars, giVars, digestVars>>
  \/ at_work = "change" /\ CFNext /\ UNCHANGED <<ntVars, giVars, digestVars>>
  \/ at_work = "geoip" /\ GINext /\ UNCHANGED <<ntVars, cfVars, digestVars>>
  \/ at_work = "digest" /\ DGNext /\ UNCHANGED <<ntVars, cfVars, giVars>>
FiltersSpec ==
  /\ at_work \in filterParts /\ FiltersInit
  /\ [][FiltersNext /\ UNCHANGED at_work]_<<at_work, filterVars>>

FiltersTypeOK ==
  /\ at_work = "newterm" => NTTypeOK
  /\ at_work = "change" => CFTypeOK
  /\ at_work = "digest" => DGTypeOK

\* newterm judges a term new once per worker at most, and drops no new one;
\* change passes exactly the changes and leaves no timer when it stopped;
\* geoip holds the database its etag names unless a download broke, answers
\* from no older one than before unless two workers look an address up at a
\* time, and keeps its cache; digest neither drops an event nor counts one
\* in two digests, unless two ticks overlap.
FiltersSound ==
  /\ at_work = "newterm" => OncePerWorker /\ NewTermPasses
  /\ at_work = "change" => PassesExactlyChanges /\ StoppedHasNoTimer
  /\ at_work = "geoip" => EtagNamesDatabase /\ GeoNeverOlder /\ CacheWithin
  /\ at_work = "digest" => NoEventDropped /\ DigestedOnce
-----------------------------------------------------------------------------
(* The outputs. *)
ASSUME OutputBounds ==
  /\ BatchSize \in Nat /\ PoolMax \in Nat /\ MaxGiven \in Nat /\ MaxLogged \in Nat
  /\ "start" \notin Publishers /\ MaxConns \in Nat /\ MaxPublished \in Nat
  /\ IsFiniteSet(Senders) /\ MaxDials \in Nat /\ MaxTroubles \in Nat /\ MaxOut \in Nat

outputVars == <<hoVars, foVars, roVars, tcpVars>>
outputParts == {"http output", "file output", "rabbit output", "tcp output"}

HttpOutRests == given = 0 /\ muster = 0 /\ firing = 0 /\ fate = 0 /\ halt = 0
FileOutRests == buffer = 0 /\ flush = 0 /\ outFile = 0 /\ logged = 0 /\ raced = 0
RabbitOutRests == conns = 0 /\ conn = 0 /\ ch = 0 /\ pub = 0 /\ stopping = 0 /\ mingled = 0
TcpOutRests == tcpConn = 0 /\ net = 0 /\ sender = 0 /\ phase = 0 /\ tally = 0 /\ tangled = 0

OutputsInit ==
  /\ IF at_work = "http output" THEN HOInit ELSE HttpOutRests
  /\ IF at_work = "file output" THEN FOInit ELSE FileOutRests
  /\ IF at_work = "rabbit output" THEN ROInit ELSE RabbitOutRests
  /\ IF at_work = "tcp output" THEN TOInit ELSE TcpOutRests
OutputsNext ==
  \/ at_work = "http output" /\ HONext /\ UNCHANGED <<foVars, roVars, tcpVars>>
  \/ at_work = "file output" /\ FONext /\ UNCHANGED <<hoVars, roVars, tcpVars>>
  \/ at_work = "rabbit output" /\ RONext /\ UNCHANGED <<hoVars, foVars, tcpVars>>
  \/ at_work = "tcp output" /\ TONext /\ UNCHANGED <<hoVars, foVars, roVars>>
OutputsSpec ==
  /\ at_work \in outputParts /\ OutputsInit
  /\ [][OutputsNext /\ UNCHANGED at_work]_<<at_work, outputVars>>

OutputsTypeOK ==
  /\ at_work = "http output" => HOTypeOK
  /\ at_work = "file output" => FOTypeOK
  /\ at_work = "rabbit output" => ROTypeOK
  /\ at_work = "tcp output" => TOTypeOK

\* The http output sends, refuses or gives up every event it took, in order
\* while one batch is sent at a time; the file output's file holds what it
\* received in order, unless a write failed or two flushed at a time; rabbitmq
\* holds one connection unless two workers set one up at a time; so does tcp,
\* which loses an event per trouble at most, and only a failed dial ends it.
OutputsSound ==
  /\ at_work = "http output" => BatchesAccounted /\ SentInOrder
  /\ at_work = "file output" => FileIsTrue
  /\ at_work = "rabbit output" => OneConnection
  /\ at_work = "tcp output" => TcpSound
=============================================================================
