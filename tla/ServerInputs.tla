---------------------------- MODULE ServerInputs ----------------------------
(***************************************************************************)
(* The inputs of the network: that which consumes from a broker, those that*)
(* serve others (beats, http), and those whose goroutine reads from        *)
(* elsewhere and sends.                                                    *)
(***************************************************************************)
EXTENDS Integers, FiniteSets, SequencesExt

(***************************************************************************)
(* The rabbitmq input (processors/input-rabbitmq/rabbitmq.go) and, outside *)
(* the program, its broker and the AMQP library.  Configure starts the     *)
(* goroutine that consumes: it runs before the pipeline wires the agent's  *)
(* outputs, and after Stop.  Messages are numbered as they are queued; the *)
(* i-th delivery of a channel has the tag i.                               *)
(***************************************************************************)
CONSTANTS
  AckBatch, Prefetch,
  Messages,   \* bound: messages in the queue
  MaxDrops    \* bound: connections lost or refused

VARIABLES
  acks,      \* the option ack
  broker,     \* the broker's: messages ready; gone, which it has forgotten
  channel,   \* it is up; its deliveries by tag; the tags acked; p.conn and p.ch are set
  consuming, \* the goroutine: at "connect", "range", "send", "ack" or "sleep"; last tag taken
  stage,     \* the agent: "configured", "wired", "stopped", its outputs "closed"; "crash"
  taken,     \* history: messages sent to the outputs; sent when there were none
  drops      \* connections lost or refused
riVars == <<acks, broker, channel, consuming, stage, taken, drops>>

RIInit ==
  /\ acks \in BOOLEAN /\ broker = [ready |-> 1..Messages, gone |-> {}]
  /\ channel = [up |-> FALSE, dlv |-> <<>>, acked |-> {}, set |-> FALSE]
  /\ consuming = [at |-> "connect", tag |-> 0]
  /\ stage = "configured" /\ drops = 0
  /\ taken = [passed |-> {}, early |-> {}]
-----------------------------------------------------------------------------
Tags == DOMAIN channel.dlv
Unacked == {t \in Tags \ channel.acked : channel.dlv[t] \notin broker.gone}
Delivered(tags) == {channel.dlv[t] : t \in tags}
\* Deliver: the first that is ready.  The broker keeps Prefetch deliveries
\* unacknowledged, or forgets what it delivers.
Deliver ==
  /\ channel.up /\ (acks => Cardinality(Unacked) < Prefetch)
  /\ \E m \in broker.ready :
       /\ \A n \in broker.ready : m <= n
       /\ channel' = [channel EXCEPT !.dlv = Append(@, m)]
       /\ broker' = [ready |-> broker.ready \ {m}, gone |-> broker.gone \cup (IF acks THEN {} ELSE {m})]
  /\ UNCHANGED <<acks, consuming, stage, taken, drops>>
\* A channel that ends gives back what it has not acknowledged, to its old place.
Requeued ==
  IF channel.up THEN [broker EXCEPT !.ready = @ \cup Delivered(Unacked)] ELSE broker
DropChannel ==
  /\ channel.up /\ drops < MaxDrops /\ drops' = drops + 1
  /\ channel' = [channel EXCEPT !.up = FALSE] /\ broker' = Requeued
  /\ UNCHANGED <<acks, consuming, stage, taken>>

Goto(at) == consuming' = [consuming EXCEPT !.at = at]
\* consume and setup.
Connect ==
  /\ consuming.at = "connect"
  /\ channel' = [up |-> TRUE, dlv |-> <<>>, acked |-> {}, set |-> TRUE]
  /\ consuming' = [at |-> "range", tag |-> 0]
  /\ UNCHANGED <<acks, broker, stage, taken, drops>>
\* The dial fails, or something after it.
ConnectFails ==
  /\ consuming.at = "connect" /\ drops < MaxDrops /\ drops' = drops + 1
  /\ \E s \in BOOLEAN : channel' = [channel EXCEPT !.set = s]
  /\ Goto("sleep") /\ UNCHANGED <<acks, broker, stage, taken>>
RITake ==
  /\ consuming.at = "range" /\ consuming.tag < Len(channel.dlv)
  /\ consuming' = [at |-> "send", tag |-> consuming.tag + 1]
  /\ UNCHANGED <<acks, broker, channel, stage, taken, drops>>
\* The library hands out all it has received before it ends the range.
RIRangeEnds ==
  /\ consuming.at = "range" /\ consuming.tag = Len(channel.dlv) /\ ~channel.up
  /\ Goto("sleep") /\ UNCHANGED <<acks, broker, channel, stage, taken, drops>>
AfterRISend == IF acks /\ consuming.tag % AckBatch = 0 THEN "ack" ELSE "range"
RISend ==
  LET m == channel.dlv[consuming.tag] IN
  /\ consuming.at = "send" /\ stage # "closed"
  /\ taken' = IF stage = "configured" THEN [taken EXCEPT !.early = @ \cup {m}]
                                      ELSE [taken EXCEPT !.passed = @ \cup {m}]
  /\ Goto(AfterRISend) /\ UNCHANGED <<acks, broker, channel, stage, drops>>
SendOnClosed ==
  /\ consuming.at = "send" /\ stage = "closed"
  /\ stage' = "crash" /\ broker' = Requeued /\ channel' = [channel EXCEPT !.up = FALSE]
  /\ UNCHANGED <<acks, consuming, taken, drops>>
Acknowledge(tags) ==
  /\ consuming.at = "ack" /\ Goto("range")
  /\ IF channel.up THEN /\ channel' = [channel EXCEPT !.acked = @ \cup tags]
                        /\ broker' = [broker EXCEPT !.gone = @ \cup Delivered(tags)]
     ELSE UNCHANGED <<channel, broker>>
  /\ UNCHANGED <<acks, stage, taken, drops>>
\* Mutants: all that was delivered is acknowledged; only the last of a batch is.
RIAck_All == Acknowledge(Tags)
RIAck_Single == Acknowledge({consuming.tag})
RIAck == Acknowledge(1..consuming.tag)
RISleep == consuming.at = "sleep" /\ Goto("connect") /\ UNCHANGED <<acks, broker, channel, stage, taken, drops>>

\* Pipeline.Start adds the outputs to the map that send may be reading, which
\* the Go runtime may detect, or never when another agent cannot be built.
Wire ==
  /\ stage = "configured"
  /\ stage' \in {"wired"} \cup (IF consuming.at = "send" THEN {"crash"} ELSE {})
  /\ IF stage' = "crash" THEN broker' = Requeued /\ channel' = [channel EXCEPT !.up = FALSE] ELSE UNCHANGED <<broker, channel>>
  /\ UNCHANGED <<acks, consuming, taken, drops>>
\* Stop closes what is nil when the last dial failed.
RIStop ==
  /\ stage = "wired" /\ stage' = IF channel.set THEN "stopped" ELSE "crash"
  /\ channel' = [channel EXCEPT !.up = FALSE] /\ broker' = Requeued
  /\ UNCHANGED <<acks, consuming, taken, drops>>
OutputsClose == stage = "stopped" /\ stage' = "closed" /\ UNCHANGED <<acks, broker, channel, consuming, taken, drops>>

Consuming == Connect \/ ConnectFails \/ RITake \/ RIRangeEnds \/ RISend \/ SendOnClosed \/ RIAck \/ RISleep
RINext ==
  /\ stage # "crash"
  /\ Deliver \/ DropChannel \/ Consuming \/ Wire \/ RIStop \/ OutputsClose
RISpec == RIInit /\ [][RINext]_riVars
RIFair == WF_riVars(stage # "crash" /\ Deliver) /\ WF_riVars(stage # "crash" /\ Consuming)
RIFairSpec == RISpec /\ RIFair
-----------------------------------------------------------------------------
RITypeOK ==
  /\ consuming.at \in {"connect", "range", "send", "ack", "sleep"} /\ consuming.tag \in 0..Len(channel.dlv)
  /\ stage \in {"configured", "wired", "stopped", "closed", "crash"} /\ channel.acked \subseteq Tags

\* The broker forgets a message only when Send returned for it (in automatic
\* mode: or its delivery is still to be taken), whatever connections are lost,
\* and however the program ends; every other message is still with the broker.
Reached == taken.early \cup taken.passed
ToBeTaken == {t \in Tags : t > consuming.tag \/ (t = consuming.tag /\ consuming.at = "send")}
AckedWasSent ==
  /\ broker.gone \subseteq Reached \cup (IF acks THEN {} ELSE Delivered(ToBeTaken))
  /\ 1..Messages = broker.gone \cup broker.ready \cup (IF channel.up THEN Delivered(Unacked) ELSE {})

\* A batch of acknowledgements no longer than the prefetch never stalls: all
\* messages are taken, unless the agent is stopped.
MessagesTaken == <>(1..Messages \subseteq Reached \/ stage \in {"stopped", "closed", "crash"})
-----------------------------------------------------------------------------
(***************************************************************************)
(* The beats input (processors/input-beats/beats.go): the goroutine that   *)
(* Start begins acknowledges each batch it takes from the lumberjack       *)
(* server, then sends its events; Stop closes the server and waits until   *)
(* what it had received is drained.  The server (elastic/go-lumber) and    *)
(* the shippers are outside the program.  A batch is <<shipper, number>>,  *)
(* its events are <<shipper, number, index>>.                              *)
(***************************************************************************)
CONSTANTS
  Shippers,
  BatchLen,    \* events of a batch
  ChannelSize,       \* of the server's channel
  MaxBatches,  \* bound: batches of a shipper
  MaxResets    \* bound: connections lost

VARIABLES
  ship,     \* a shipper: at "idle", "sent"; the batch it is at; batches it knows are acked
  serving,  \* its connection: "off", "read", "push", "queued" or "acked" (the ack is on its
            \* way); the how-manieth it is
  backlog,  \* the server's channel: batches and the connections they came with
  drain,    \* the goroutine: at "range", "send" or "done"; its batch; events of it sent
  server,   \* "up", "closing", "closed", "stopped"
  log,      \* events given to Send
  resets
biVars == <<ship, serving, backlog, drain, server, log, resets>>

BIInit ==
  /\ ship = [s \in Shippers |-> [at |-> "idle", batch |-> 1, acked |-> 0]]
  /\ serving = [s \in Shippers |-> [at |-> "read", conn |-> 1]]
  /\ backlog = <<>> /\ drain = [at |-> "range", batch |-> <<>>, sent |-> 0]
  /\ server = "up" /\ log = <<>> /\ resets = 0
-----------------------------------------------------------------------------
Serves(s, at) == serving' = [serving EXCEPT ![s].at = at]
Ship(s) ==
  /\ ship[s].at = "idle" /\ ship[s].batch <= MaxBatches /\ serving[s].at = "read"
  /\ ship' = [ship EXCEPT ![s].at = "sent"]
  /\ Serves(s, "push")
  /\ UNCHANGED <<backlog, drain, server, log, resets>>
\* OnEvents; when the server closes, the batch may be dropped.
BIQueue(s) ==
  /\ serving[s].at = "push" /\ Len(backlog) < ChannelSize
  /\ backlog' = Append(backlog, [batch |-> <<s, ship[s].batch>>, conn |-> serving[s].conn])
  /\ Serves(s, "queued")
  /\ UNCHANGED <<ship, drain, server, log, resets>>
\* The connection is lost, or closed by the server; the shipper sends the batch
\* again on another.
Disconnect(s) ==
  /\ \/ server = "closing" /\ Serves(s, "off") /\ UNCHANGED resets
     \/ server = "up" /\ resets < MaxResets /\ resets' = resets + 1 /\ serving' = [serving EXCEPT ![s] = [at |-> "read", conn |-> @.conn + 1]]
  /\ serving[s].at # "off" /\ ship' = [ship EXCEPT ![s].at = "idle"]
  /\ UNCHANGED <<backlog, drain, server, log>>
AckArrives(s) ==
  /\ serving[s].at = "acked" /\ Serves(s, "read")
  /\ ship' = [ship EXCEPT ![s] = [at |-> "idle", batch |-> @.batch + 1, acked |-> @.batch]]
  /\ UNCHANGED <<backlog, drain, server, log, resets>>

\* batch.ACK: what waits for the answer is the connection the batch came with,
\* if it is still there.
TakeBatch ==
  /\ drain.at = "range" /\ backlog # <<>>
  /\ drain' = [at |-> "send", batch |-> Head(backlog).batch, sent |-> 0]
  /\ backlog' = Tail(backlog)
  /\ LET s == Head(backlog).batch[1] IN
     IF serving[s].at = "queued" /\ serving[s].conn = Head(backlog).conn THEN Serves(s, "acked") ELSE UNCHANGED serving
  /\ UNCHANGED <<ship, server, log, resets>>
BISend ==
  /\ drain.at = "send"
  /\ log' = Append(log, <<drain.batch[1], drain.batch[2], drain.sent + 1>>)
  /\ drain' = IF drain.sent + 1 = BatchLen THEN [at |-> "range", batch |-> <<>>, sent |-> 0]
                                           ELSE [drain EXCEPT !.sent = @ + 1]
  /\ UNCHANGED <<ship, serving, backlog, server, resets>>
BIDrained ==
  /\ drain.at = "range" /\ backlog = <<>> /\ server = "closed"
  /\ drain' = [drain EXCEPT !.at = "done"]
  /\ UNCHANGED <<ship, serving, backlog, server, log, resets>>

\* Stop: the listener, then the connections, then the channel are closed.
BIStop == server = "up" /\ server' = "closing" /\ UNCHANGED <<ship, serving, backlog, drain, log, resets>>
BIClosed ==
  /\ server = "closing" /\ \A s \in Shippers : serving[s].at = "off"
  /\ server' = "closed" /\ UNCHANGED <<ship, serving, backlog, drain, log, resets>>
\* Mutant: Stop does not wait for q.
BIStopped_AtOnce == server = "closed" /\ server' = "stopped" /\ UNCHANGED <<ship, serving, backlog, drain, log, resets>>
BIStopped ==
  /\ server = "closed" /\ drain.at = "done"
  /\ server' = "stopped" /\ UNCHANGED <<ship, serving, backlog, drain, log, resets>>

Draining == TakeBatch \/ BISend \/ BIDrained
BINext ==
  \/ \E s \in Shippers : Ship(s) \/ BIQueue(s) \/ Disconnect(s) \/ AckArrives(s)
  \/ Draining \/ BIStop \/ BIClosed \/ BIStopped
BISpec == BIInit /\ [][BINext]_biVars
-----------------------------------------------------------------------------
BITypeOK ==
  /\ \A s \in Shippers : ship[s].at \in {"idle", "sent"} /\ ship[s].acked \in 0..MaxBatches
  /\ \A s \in Shippers : serving[s].at \in {"off", "read", "push", "queued", "acked"}
  /\ Len(backlog) <= ChannelSize /\ drain.sent \in 0..BatchLen - 1 /\ resets \in 0..MaxResets
  /\ drain.at \in {"range", "send", "done"} /\ server \in {"up", "closing", "closed", "stopped"}

EventsOf(b) == {<<b[1], b[2], i>> : i \in 1..BatchLen}
\* A shipper counts a batch as delivered before its events are sent, so that a
\* crash loses them; but never more than the one batch being sent.
AckedIsSent ==
  \A s \in Shippers : \A n \in 1..ship[s].acked :
    LET b == <<s, n>> IN EventsOf(b) \subseteq ToSet(log) \/ (drain.batch = b /\ drain.at = "send")

\* When Stop returns, the goroutine is gone and all that the server had received
\* was sent, batch by batch, each whole and in order, and no batch twice unless a
\* connection was lost ("received events acked and drained").
StopDrains ==
  /\ server = "stopped" => backlog = <<>> /\ drain.at = "done"
  /\ \A i \in DOMAIN log :
       \/ log[i][3] = 1 /\ (i = 1 \/ log[i-1][3] = BatchLen)
       \/ i > 1 /\ log[i] = [log[i-1] EXCEPT ![3] = @ + 1]
  /\ resets = 0 => IsInjective(log)
-----------------------------------------------------------------------------
(***************************************************************************)
(* The http server input (processors/input-httpserver/httpserver.go):      *)
(* HttpHandler, called by the server for each request in a goroutine of    *)
(* its own, decodes the records of the body and sends them one by one, and *)
(* answers at the end.  Stop only closes q: a request may outlive it.      *)
(***************************************************************************)
CONSTANTS
  Posts,   \* requests
  Bodies   \* their bodies: sequences of records, "good" ones, "end" (EOF for a record),
           \* "bad" (not decoded) or "odd" (neither object, list nor text)

VARIABLES
  post,    \* a request: at "idle", "more", "send", "check", "respond" or "over"; its body;
           \* records decoded; err, of the last decoding; how its decoder and its encoder
           \* are built, see Builds
  answer,  \* "none", "accepted", "error", "recovered" (of a panic), or "implicit": what the
           \* library answers when the handler wrote nothing
  emitted, \* records sent by a request; and after Stop
  input    \* "up", "stopped"; the outputs "closed"
hsVars == <<post, answer, emitted, input>>

\* NewDecoder and NewEncoder of the configured codecs: built, an error (a codec that
\* has no encoder), or a panic (a charset that is not known).
Builds == {"ok", "fails", "panics"}
HSInit ==
  /\ \E dec \in Builds, enc \in Builds :
       post \in [Posts -> {[at |-> "idle", body |-> b, read |-> 0, err |-> "none", dec |-> dec, enc |-> enc] : b \in Bodies}]
  /\ answer = [r \in Posts |-> "none"] /\ input = "up"
  /\ emitted = [r \in Posts |-> [records |-> <<>>, late |-> 0]]
-----------------------------------------------------------------------------
Answers(r, a) == answer' = [answer EXCEPT ![r] = a]
\* The router found the handler when the input was up; it may be called later.
\* Without a decoder the handler returns at once and has written nothing.
HSRequest(r) ==
  /\ post[r].at = "idle" /\ input # "closed" /\ UNCHANGED <<emitted, input>>
  /\ CASE post[r].dec = "ok" -> post' = [post EXCEPT ![r].at = "more"] /\ UNCHANGED answer
       [] post[r].dec = "fails" -> post' = [post EXCEPT ![r].at = "over"] /\ Answers(r, "implicit")
       [] post[r].dec = "panics" -> post' = [post EXCEPT ![r].at = "over"] /\ Answers(r, "recovered")
Record(r) == post[r].body[post[r].read + 1]
More(r) == post[r].read < Len(post[r].body)
HSGoto(r, at, err) == post' = [post EXCEPT ![r].at = at, ![r].read = @ + 1, ![r].err = err]
\* Mutant: a record that cannot be decoded is passed over.
HSDecode_Skips(r) ==
  /\ post[r].at = "more" /\ More(r) /\ UNCHANGED <<emitted, input, answer>>
  /\ CASE Record(r) \in {"good", "odd"} -> HSGoto(r, "send", "none")
       [] Record(r) = "end" -> HSGoto(r, "send", "EOF")
       [] Record(r) = "bad" -> HSGoto(r, "more", "none")
\* A bad record ends the loop; the event of an odd one is nil, which panics.
HSDecode(r) ==
  /\ post[r].at = "more" /\ More(r) /\ UNCHANGED <<emitted, input>>
  /\ CASE Record(r) = "good" -> HSGoto(r, "send", "none") /\ UNCHANGED answer
       [] Record(r) = "end" -> HSGoto(r, "send", "EOF") /\ UNCHANGED answer
       [] Record(r) = "bad" -> HSGoto(r, "respond", "decoding") /\ UNCHANGED answer
       [] Record(r) = "odd" -> HSGoto(r, "over", "none") /\ Answers(r, "recovered")
HSRead(r) ==
  /\ post[r].at = "more" /\ ~More(r)
  /\ post' = [post EXCEPT ![r].at = "respond"] /\ UNCHANGED <<answer, emitted, input>>
HSSend(r) ==
  /\ post[r].at = "send" /\ input # "closed"
  /\ emitted' = [emitted EXCEPT ![r] = [records |-> Append(@.records, post[r].read),
                                        late |-> @.late + IF input = "up" THEN 0 ELSE 1]]
  /\ post' = [post EXCEPT ![r].at = "check"] /\ UNCHANGED <<answer, input>>
\* The channel of the next agent is closed.
HSSendPanics(r) ==
  /\ post[r].at = "send" /\ input = "closed"
  /\ post' = [post EXCEPT ![r].at = "over"] /\ Answers(r, "recovered") /\ UNCHANGED <<emitted, input>>
\* q is looked at after a record only.
HSCheck(r) ==
  /\ post[r].at = "check"
  /\ IF input = "up" THEN post' = [post EXCEPT ![r].at = "more"] /\ UNCHANGED answer
                     ELSE post' = [post EXCEPT ![r].at = "over"] /\ Answers(r, "implicit")
  /\ UNCHANGED <<emitted, input>>
\* The encoder is built once all records were sent; without one the answer is 500.
Encoded(enc) == CASE enc = "ok" -> "accepted" [] enc = "fails" -> "error" [] enc = "panics" -> "recovered"
HSRespond(r) ==
  /\ post[r].at = "respond" /\ post' = [post EXCEPT ![r].at = "over"]
  /\ Answers(r, IF post[r].err \in {"none", "EOF"} THEN Encoded(post[r].enc) ELSE "error")
  /\ UNCHANGED <<emitted, input>>

HSStop == input = "up" /\ input' = "stopped" /\ UNCHANGED <<post, answer, emitted>>
HSClose == input = "stopped" /\ input' = "closed" /\ UNCHANGED <<post, answer, emitted>>
HSNext ==
  \/ \E r \in Posts : HSRequest(r) \/ HSDecode(r) \/ HSRead(r) \/ HSSend(r) \/ HSSendPanics(r) \/ HSCheck(r) \/ HSRespond(r)
  \/ HSStop \/ HSClose
HSSpec == HSInit /\ [][HSNext]_hsVars
-----------------------------------------------------------------------------
HSTypeOK ==
  /\ \A r \in Posts : post[r].at \in {"idle", "more", "send", "check", "respond", "over"}
  /\ answer \in [Posts -> {"none", "accepted", "error", "recovered", "implicit"}]
  /\ input \in {"up", "stopped", "closed"}

\* 202 tells that every record of the body was sent, once and in order; an error
\* that those before the bad record were, or all of them where there is no encoder
\* for the answer (a client that tries again sends them twice); an answer of the
\* library's (200, though records are unread) has only a request that Stop met, or
\* one that found no decoder.
AnswerIsHonest ==
  \A r \in Posts :
    LET n == Len(emitted[r].records) IN
    /\ emitted[r].records = [i \in 1..n |-> i]
    /\ answer[r] = "accepted" => n = Len(post[r].body)
    /\ answer[r] = "error" => IF n < Len(post[r].body) THEN post[r].body[n + 1] = "bad" ELSE post[r].enc = "fails"
    /\ answer[r] = "implicit" => (input # "up" /\ emitted[r].late <= 1) \/ (n = 0 /\ post[r].dec = "fails")

\* A request outlives Stop by one record.
LateByOne == \A r \in Posts : emitted[r].late <= 1
-----------------------------------------------------------------------------
(***************************************************************************)
(* The inputs whose Start begins a goroutine that reads from elsewhere and *)
(* sends: unix, udp, syslog, twitter, elasticsearch, imap, event, stop.    *)
(* Most have no way to end it but to close what it reads; the outputs are  *)
(* closed by the pipeline after Stop.  What is read is numbered.           *)
(***************************************************************************)
CONSTANTS
  Inlets,   \* inputs: the plugin and its options
  MaxItems, \* bound: what is read, ticks
  Count     \* events of a tick; hits of a page of a scroll

VARIABLES
  inlet,    \* the input; at "start", "up", "hangs", "stopped", "closed" (its
            \* outputs), "crash" or "exit"; why; goroutines not counted when Stop returned
  going,    \* goroutine -> where it is, its item
  items,    \* how many items came
  forwarded, \* history: goroutine and item of the events sent
  overdue      \* history: those sent after Stop returned
siVars == <<inlet, going, items, forwarded, overdue>>

SIInit ==
  /\ inlet \in {[of |-> i, at |-> "start", why |-> "", unseen |-> {}] : i \in Inlets}
  /\ going = <<>> /\ items = 0 /\ forwarded = <<>> /\ overdue = {}
Plugin(p) == inlet.of.plugin = p /\ inlet.at \notin {"crash", "exit"}
Stands(g, at) == g \in DOMAIN going /\ going[g].at = at
GoesOn(g, at, item) == going' = [h \in DOMAIN going \cup {g} |-> IF h = g THEN [at |-> at, item |-> item] ELSE going[h]]
Turns(at) == inlet' = [inlet EXCEPT !.at = at]
Crash(why) == inlet' = [inlet EXCEPT !.at = "crash", !.why = why] /\ UNCHANGED <<going, items, forwarded, overdue>>
Starts(p) == Plugin(p) /\ inlet.at = "start" /\ UNCHANGED <<items, forwarded, overdue>>
\* A Start that fails is logged, and the agent goes on without the goroutine.
BeginsAt(at) == Turns("up") /\ (GoesOn(0, at, 0) \/ UNCHANGED going)
Arrives(g, at) == items < MaxItems /\ items' = items + 1 /\ GoesOn(g, at, items + 1) /\ UNCHANGED <<inlet, forwarded, overdue>>
Moves(g, at) == GoesOn(g, at, going[g].item) /\ UNCHANGED <<inlet, items, forwarded, overdue>>
-----------------------------------------------------------------------------
\* Where a goroutine goes on from when it has sent an event.
AfterSend(g) ==
  LET item == going[g].item IN
  CASE Plugin("unix") -> IF g = 0 THEN GoesOn(0, "dial", 0) ELSE GoesOn(g, "done", item)
    [] Plugin("event") -> IF item < Count THEN GoesOn(g, "send", item + 1) ELSE GoesOn(g, "finish", item)
    [] Plugin("elasticsearch") -> IF item < items THEN GoesOn(g, "send", item + 1) ELSE GoesOn(g, "next", item)
    [] Plugin("stop") -> GoesOn(g, "fatal", item)
    [] OTHER -> GoesOn(g, "read", item)
\* Send, on the channel of an agent that is stopped.
SendCloses(g) == inlet.at = "closed" /\ Stands(g, "send") /\ Crash("closed")
SendItem(g) ==
  /\ inlet.at \in {"up", "hangs", "stopped"} /\ Stands(g, "send")
  /\ forwarded' = Append(forwarded, <<g, going[g].item>>)
  /\ overdue' = overdue \cup (IF inlet.at = "stopped" THEN {<<g, going[g].item>>} ELSE {})
  /\ AfterSend(g) /\ UNCHANGED <<inlet, items>>
OutletsClose ==
  /\ inlet.at = "stopped" /\ Turns("closed") /\ UNCHANGED <<going, items, forwarded, overdue>>
StopsAtOnce(plugins) ==
  /\ inlet.of.plugin \in plugins /\ inlet.at = "up" /\ Turns("stopped") /\ UNCHANGED <<going, items, forwarded, overdue>>

\* unix, as a server: a goroutine for each connection, of which one event is made.
UnixStart ==
  /\ Starts("unix")
  /\ CASE inlet.of.mode = "server" -> BeginsAt("accept")
       [] inlet.of.mode = "client" -> Turns("up") /\ GoesOn(0, "dial", 0)
       [] OTHER -> Turns("up") /\ UNCHANGED going
UnixAccept ==
  /\ Plugin("unix") /\ inlet.at = "up" /\ Stands(0, "accept") /\ items < MaxItems
  /\ items' = items + 1 /\ GoesOn(items + 1, "read", items + 1) /\ UNCHANGED <<inlet, forwarded, overdue>>
\* When the listener is closed the loop goes on, with a connection that is nil: a read
\* deadline panics, a read fails, and what is read of it is sent.
UnixAcceptFails ==
  /\ Plugin("unix") /\ inlet.at \in {"stopped", "closed"} /\ Stands(0, "accept") /\ items < MaxItems
  /\ IF inlet.of.timeout THEN Crash("no connection")
     ELSE items' = items + 1 /\ GoesOn(items + 1, "read", 0) /\ UNCHANGED <<inlet, forwarded, overdue>>
\* As a client, it dials for ever.
UnixDial == Plugin("unix") /\ inlet.at # "start" /\ Stands(0, "dial") /\ Arrives(0, "read")
\* Mutant: what cannot be read is not sent, and the rest of the connection is.
UnixRead_Again(g) == Plugin("unix") /\ Stands(g, "read") /\ \E at \in {"send", "done"} : Moves(g, at)
UnixRead(g) == Plugin("unix") /\ Stands(g, "read") /\ Moves(g, "send")

\* udp reads until the socket is closed.
UdpStart == Starts("udp") /\ BeginsAt("read")
UdpRead == Plugin("udp") /\ inlet.at = "up" /\ Stands(0, "read") /\ Arrives(0, "send")
\* Mutant: a read that fails is tried again.
UdpEnds_Again == Plugin("udp") /\ inlet.at \in {"stopped", "closed"} /\ Stands(0, "read") /\ Arrives(0, "send")
UdpEnds == Plugin("udp") /\ inlet.at \in {"stopped", "closed"} /\ Stands(0, "read") /\ Moves(0, "done")

\* syslog's server may still hold datagrams when it is killed; nothing closes the
\* channel they come by.
SyslogStart == Starts("syslog") /\ BeginsAt("read")
SyslogTake == Plugin("syslog") /\ inlet.at # "start" /\ Stands(0, "read") /\ Arrives(0, "send")

\* The tweets that the options want; the library closes the stream after Stop, when it
\* comes to look, which may be after one more tweet.
TwitterStart == Starts("twitter") /\ Turns("up") /\ GoesOn(0, "read", 0)
TakeTweet ==
  /\ Plugin("twitter") /\ inlet.at # "start" /\ Stands(0, "read")
  /\ \E at \in {"send"} \cup (IF inlet.of.ignores THEN {"read"} ELSE {}) :
       Arrives(0, IF inlet.at = "up" THEN at ELSE IF at = "send" THEN "last" ELSE "done")
SendLast ==
  /\ Plugin("twitter") /\ Stands(0, "last")
  /\ IF inlet.at = "closed" THEN Crash("closed")
     ELSE /\ forwarded' = Append(forwarded, <<0, going[0].item>>) /\ overdue' = overdue \cup {<<0, going[0].item>>}
          /\ GoesOn(0, "done", going[0].item) /\ UNCHANGED <<inlet, items>>
TwitterEnds == Plugin("twitter") /\ inlet.at \in {"stopped", "closed"} /\ Stands(0, "read") /\ Moves(0, "done")

\* elasticsearch scrolls to the end, if there is a first page and none fails.
Page == items + Count <= MaxItems /\ items' = items + Count /\ GoesOn(0, "send", items + 1) /\ UNCHANGED <<inlet, forwarded, overdue>>
ScrollStart ==
  Starts("elasticsearch") /\ (Crash("no client") \/ (Turns("up") /\ GoesOn(0, "first", 0)))
ScrollFirst ==
  Plugin("elasticsearch") /\ Stands(0, "first") /\ (Page \/ Crash("no first page"))
ScrollNext ==
  Plugin("elasticsearch") /\ Stands(0, "next") /\ (Page \/ Moves(0, "done") \/ Crash("scroll"))
\* It waits for an answer of a goroutine that was never started.
ScrollStop == Plugin("elasticsearch") /\ inlet.at = "up" /\ Turns("hangs") /\ UNCHANGED <<going, items, forwarded, overdue>>

\* imap takes neither a logger nor the functions to make and send events.
ImapStart == Starts("imap") /\ Turns("up") /\ GoesOn(0, "watch", 0)
ImapDeliver == Plugin("imap") /\ Stands(0, "watch") /\ Crash("not configured")
ImapStop == Plugin("imap") /\ inlet.at = "up" /\ Crash("not configured")

\* event: a tick at Start, or those of the schedule until the agent is stopped.
EventStart ==
  /\ Starts("event") /\ Turns("up") /\ IF inlet.of.interval THEN UNCHANGED going ELSE GoesOn(1, "add", 0)
EventTick ==
  /\ Plugin("event") /\ inlet.of.interval /\ inlet.at = "up" /\ items < MaxItems
  /\ items' = items + 1 /\ GoesOn(items + 1, "add", 0) /\ UNCHANGED <<inlet, forwarded, overdue>>
\* The WaitGroup counts a tick once it runs.
TickAdd(g) == Plugin("event") /\ Stands(g, "add") /\ GoesOn(g, "send", 1) /\ UNCHANGED <<inlet, items, forwarded, overdue>>
TickDone(g) == Plugin("event") /\ Stands(g, "finish") /\ Moves(g, "done")
InWaitGroup == {g \in DOMAIN going : going[g].at \in {"send", "finish"}}
\* Mutant: Stop does not wait.
EventStop_AtOnce ==
  /\ Plugin("event") /\ inlet.at = "up"
  /\ inlet' = [inlet EXCEPT !.at = "stopped", !.unseen = {g \in DOMAIN going : going[g].at = "add"}]
  /\ UNCHANGED <<going, items, forwarded, overdue>>
EventStop ==
  /\ Plugin("event") /\ inlet.at = "up" /\ InWaitGroup = {}
  /\ inlet' = [inlet EXCEPT !.at = "stopped", !.unseen = {g \in DOMAIN going : going[g].at = "add"}]
  /\ UNCHANGED <<going, items, forwarded, overdue>>

\* stop sends one event and ends the program.
StopStart == Starts("stop") /\ Turns("up") /\ GoesOn(0, "send", 1)
StopFatal ==
  /\ Plugin("stop") /\ Stands(0, "fatal") /\ Turns("exit") /\ UNCHANGED <<going, items, forwarded, overdue>>

SIStart == UnixStart \/ UdpStart \/ SyslogStart \/ TwitterStart \/ ScrollStart \/ ImapStart \/ EventStart \/ StopStart
SIStop == StopsAtOnce({"unix", "udp", "syslog", "twitter", "stop"}) \/ ScrollStop \/ ImapStop \/ EventStop
SINext ==
  \/ SIStart \/ SIStop \/ OutletsClose \/ \E g \in DOMAIN going : SendItem(g) \/ SendCloses(g)
  \/ UnixAccept \/ UnixAcceptFails \/ UnixDial \/ (\E g \in DOMAIN going : UnixRead(g))
  \/ UdpRead \/ UdpEnds \/ SyslogTake \/ TakeTweet \/ SendLast \/ TwitterEnds \/ ScrollFirst \/ ScrollNext \/ ImapDeliver
  \/ EventTick \/ (\E g \in DOMAIN going : TickAdd(g) \/ TickDone(g)) \/ StopFatal

\* What is read is sent once and in its order: every datagram, message and hit until the
\* one at hand, each event of a tick, one event of a connection, whatever is in it.
ReadIsSent ==
  /\ \A i, j \in DOMAIN forwarded :
       i < j /\ forwarded[i][1] = forwarded[j][1] => forwarded[i][2] < forwarded[j][2]
  /\ inlet.of.plugin = "unix" => \A g \in DOMAIN going : going[g].at = "done" =>
       \E i \in DOMAIN forwarded : \A j \in DOMAIN forwarded : forwarded[j][1] = g <=> j = i
  /\ inlet.of.plugin \in {"udp", "syslog", "elasticsearch"} /\ 0 \in DOMAIN going =>
       \A i \in 1..going[0].item : <<0, i>> \in ToSet(forwarded) \/ (i = going[0].item /\ Stands(0, "send"))
\* After Stop, udp sends what it has at hand and no more, twitter one tweet after it, and
\* event the ticks that did not run yet when it stopped waiting; the program ends only in
\* the ways known of an input: all but elasticsearch and imap because they outlive their
\* outputs, unix also of the connection it did not get, elasticsearch of a scroll that
\* finds nothing.
OutlivesOnlySo ==
  /\ inlet.of.plugin = "udp" => overdue \subseteq {<<0, items>>}
  /\ inlet.of.plugin = "twitter" => overdue \subseteq {<<0, items - 1>>, <<0, items>>}
  /\ inlet.of.plugin = "event" => overdue \subseteq inlet.unseen \X (1..Count)
  /\ inlet.of.plugin = "event" /\ inlet.at \in {"stopped", "closed"} => InWaitGroup \subseteq inlet.unseen
  /\ inlet.at = "crash" =>
       \/ inlet.why = "closed" /\ inlet.of.plugin \notin {"elasticsearch", "imap"}
       \/ inlet.why = "no connection" /\ inlet.of.timeout
       \/ inlet.of.plugin \in {"elasticsearch", "imap"}
=============================================================================
