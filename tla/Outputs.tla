------------------------------ MODULE Outputs ------------------------------
(***************************************************************************)
(* The outputs that gather events before they hand them on: http, file;    *)
(* and those whose workers share a connection: rabbitmq, tcp.              *)
(***************************************************************************)
EXTENDS Integers, FiniteSets, SequencesExt

(***************************************************************************)
(* The http output (processors/output-http/httpoutput.go).  Receive gives  *)
(* an event to the batching library (facebookgo/muster, external), whose   *)
(* worker fires a batch when it is full, when its first event has waited   *)
(* for BatchInterval, or at the end; each fired batch is sent by a         *)
(* goroutine of its own, again and again while the server asks for it.     *)
(* Events are numbered in the order they are received.                     *)
(***************************************************************************)
CONSTANTS
  BatchSize,
  PoolMax,    \* batches being sent at a time
  MaxGiven   \* bound: events

VARIABLES
  given,   \* Receive: events so far; waits, the last is not taken yet
  muster,  \* its worker: at "select", "slot", "last slot" or "gone"; the batch; its timer
           \* runs; a tick is in the timer's channel
  firing,  \* the fired batches: their events, at "send" or "retry"
  fate,    \* events the server has got, in the order it first did; refused; given up at
           \* the stop
  halt     \* Stop: "no", "shutdown", "closed" (Work), "returned"; or "crash"
hoVars == <<given, muster, firing, fate, halt>>

HOInit ==
  /\ given = [count |-> 0, waits |-> FALSE]
  /\ muster = [at |-> "select", items |-> <<>>, timer |-> FALSE, tick |-> FALSE]
  /\ firing = {} /\ halt = "no"
  /\ fate = [sent |-> <<>>, refused |-> {}, dropped |-> {}]
-----------------------------------------------------------------------------
\* Work is unbuffered.
HOReceive ==
  /\ halt = "no" /\ ~given.waits /\ given.count < MaxGiven
  /\ given' = [count |-> given.count + 1, waits |-> TRUE]
  /\ UNCHANGED <<muster, firing, fate, halt>>

\* A full batch is to be fired; the first event of another starts a new timer,
\* whose channel takes the place of the old one.  No batch is full if BatchSize
\* is 0.
Collected(m) ==
  IF BatchSize # 0 /\ Len(m.items) >= BatchSize THEN [m EXCEPT !.at = "slot"]
  ELSE IF Len(m.items) = 1 THEN [m EXCEPT !.timer = TRUE, !.tick = FALSE] ELSE m
MusterTake ==
  /\ muster.at = "select" /\ given.waits
  /\ muster' = Collected([muster EXCEPT !.items = Append(@, given.count)])
  /\ given' = [given EXCEPT !.waits = FALSE]
  /\ UNCHANGED <<firing, fate, halt>>
TimerExpires ==
  /\ muster.timer
  /\ muster' = [muster EXCEPT !.timer = FALSE, !.tick = TRUE]
  /\ UNCHANGED <<given, firing, fate, halt>>
\* The tick may be one of a batch that was full meanwhile.
MusterTimeout ==
  /\ muster.at = "select" /\ muster.tick
  /\ muster' = [muster EXCEPT !.at = "slot", !.tick = FALSE]
  /\ UNCHANGED <<given, firing, fate, halt>>
\* Mutant: what was collected is forgotten when Work is closed.
MusterEnds_Empty ==
  /\ muster.at = "select" /\ halt = "closed"
  /\ muster' = [muster EXCEPT !.at = "gone", !.items = <<>>]
  /\ UNCHANGED <<given, firing, fate, halt>>
MusterEnds ==
  /\ muster.at = "select" /\ halt = "closed"
  /\ muster' = [muster EXCEPT !.at = IF muster.items = <<>> THEN "gone" ELSE "last slot"]
  /\ UNCHANGED <<given, firing, fate, halt>>

\* Mutant: the worker's own slot is counted as one for a batch.
HasSlot_Worker == Cardinality(firing) < PoolMax + 1
\* limitgroup: PoolMax and one for the worker; 0 is no limit.
HasSlot == PoolMax = 0 \/ Cardinality(firing) < PoolMax
Launch ==
  /\ muster.at \in {"slot", "last slot"} /\ HasSlot
  /\ firing' = firing \cup {[items |-> muster.items, at |-> "send"]}
  /\ muster' = [muster EXCEPT !.at = IF @ = "slot" THEN "select" ELSE "gone", !.items = <<>>, !.timer = FALSE]
  /\ UNCHANGED <<given, fate, halt>>
-----------------------------------------------------------------------------
Leaves(b, f) == firing' = firing \ {b} /\ fate' = f /\ UNCHANGED <<given, muster, halt>>
Again(b, f) == firing' = (firing \ {b}) \cup {[b EXCEPT !.at = "retry"]} /\ fate' = f /\ UNCHANGED <<given, muster, halt>>
\* What the server gets again it has already.
ServerHas == ToSet(fate.sent)
ServerGets(b) == IF ToSet(b.items) \subseteq ServerHas THEN fate ELSE [fate EXCEPT !.sent = @ \o b.items]

\* send: the server has the batch, and the answer arrives or not; it has not
\* and is asked again; it refuses, or the codec did.  The url of a batch
\* without events is nil.
SendBatch(b) ==
  /\ b.at = "send"
  /\ IF b.items = <<>> THEN halt' = "crash" /\ UNCHANGED <<given, muster, firing, fate>>
     ELSE \/ Leaves(b, ServerGets(b)) \/ Again(b, ServerGets(b)) \/ Again(b, fate)
          \/ Leaves(b, [fate EXCEPT !.refused = @ \cup ToSet(b.items)])
RetryTimer(b) ==
  /\ b.at = "retry"
  /\ firing' = (firing \ {b}) \cup {[b EXCEPT !.at = "send"]}
  /\ UNCHANGED <<given, muster, fate, halt>>
\* Mutant: a batch in its retries does not look at shutdown.
GiveUp_Never(b) == FALSE /\ b.at = "retry" /\ UNCHANGED hoVars
GiveUp(b) ==
  /\ b.at = "retry" /\ halt # "no"
  /\ Leaves(b, [fate EXCEPT !.dropped = @ \cup ToSet(b.items)])

\* Stop, after the last Receive.
HOStop == halt = "no" /\ ~given.waits /\ halt' = "shutdown" /\ UNCHANGED <<given, muster, firing, fate>>
HOClose == halt = "shutdown" /\ halt' = "closed" /\ UNCHANGED <<given, muster, firing, fate>>
HOReturn ==
  /\ halt = "closed" /\ muster.at = "gone" /\ firing = {}
  /\ halt' = "returned" /\ UNCHANGED <<given, muster, firing, fate>>

Muster == MusterTake \/ MusterTimeout \/ MusterEnds \/ Launch
Attempt == \E b \in firing : SendBatch(b) \/ RetryTimer(b)
HONext ==
  /\ halt # "crash"
  /\ \/ HOReceive \/ Muster \/ TimerExpires \/ HOStop \/ HOClose \/ HOReturn
     \/ Attempt \/ \E b \in firing : GiveUp(b)
HOSpec == HOInit /\ [][HONext]_hoVars
\* The choice of a select between shutdown and the timer is made at random.
HOFair ==
  /\ WF_hoVars(halt # "crash" /\ Muster) /\ WF_hoVars(halt # "crash" /\ (HOClose \/ HOReturn))
  /\ WF_hoVars(halt # "crash" /\ Attempt) /\ SF_hoVars(halt # "crash" /\ \E b \in firing : GiveUp(b))
HOFairSpec == HOSpec /\ HOFair
-----------------------------------------------------------------------------
HOTypeOK ==
  /\ given.count \in 0..MaxGiven /\ given.waits \in BOOLEAN
  /\ muster.at \in {"select", "slot", "last slot", "gone"} /\ {muster.timer, muster.tick} \subseteq BOOLEAN
  /\ PoolMax = 0 \/ Cardinality(firing) <= PoolMax
  /\ halt \in {"no", "shutdown", "closed", "returned", "crash"}
  /\ \A b \in firing : (BatchSize = 0 \/ Len(b.items) <= BatchSize) /\ b.at \in {"send", "retry"}

\* What the library has not taken yet.
Offered == IF given.waits THEN {given.count} ELSE {}
Fired == UNION {ToSet(b.items) : b \in firing}
Settled == ServerHas \cup fate.refused \cup fate.dropped

\* Every event that was received is on its way, or the server has it, or refused
\* it; only a stop gives events up, and when it returns nothing is on its way.
BatchesAccounted ==
  /\ 1..given.count = Offered \cup ToSet(muster.items) \cup Fired \cup Settled
  /\ fate.dropped # {} => halt # "no"
  /\ halt = "returned" => 1..given.count = Settled

\* With one connection (the default) retries do not change the order: when the
\* server first gets an event, all before it have been settled.
SentInOrder ==
  PoolMax = 1 => \A i \in DOMAIN fate.sent : \A e \in 1..fate.sent[i] - 1 :
                   e \in {fate.sent[j] : j \in 1..i-1} \cup fate.refused \cup fate.dropped

\* Stop returns although the server asks for retries for ever.
HttpStops == halt = "shutdown" ~> halt \in {"returned", "crash"}
-----------------------------------------------------------------------------
(***************************************************************************)
(* The file output (processors/output-file/file-output.go): Receive writes *)
(* events to a buffer, a ticker's goroutine that nothing ends, and at last *)
(* Stop, move it to the file.  No lock orders the three.  Events are       *)
(* numbered; a call on the buffer is one step.                             *)
(***************************************************************************)
CONSTANT MaxLogged  \* bound: events

VARIABLES
  buffer,   \* the bytes.Buffer: events not yet read from it
  flush,    \* the two that flush: at "idle", "bytes", "read", "write" or "done", and the
            \* slice of the buffer's memory they hold
  outFile,  \* p.file is "nil", "open" or "closed"; what was written; events of a write
            \* that failed
  logged,   \* events received; phase of the worker, "run", "flush", "close", "stopped"
  raced     \* history: a slice was overwritten, or two flushed at a time
foVars == <<buffer, flush, outFile, logged, raced>>

Flushers == {"ticker", "stop"}
FOInit ==
  /\ buffer = <<>> /\ raced = FALSE
  /\ flush = [f \in Flushers |-> [at |-> "idle", slice |-> <<>>]]
  /\ outFile = [is |-> "nil", written |-> <<>>, failed |-> {}]
  /\ logged = [count |-> 0, phase |-> "run"]
-----------------------------------------------------------------------------
\* The buffer, full and with its events read, begins anew at the start of its
\* memory, where a slice may still be waiting to be written.
Overwritten(slice, b) == [i \in 1..Len(slice) |-> IF i <= Len(b) THEN b[i] ELSE slice[i]]
Reading == {f \in Flushers : flush[f].at = "write"}
FOReceive ==
  /\ logged.phase = "run" /\ logged.count < MaxLogged
  /\ logged' = [logged EXCEPT !.count = @ + 1]
  /\ buffer' = Append(buffer, logged.count + 1)
  /\ \/ UNCHANGED <<flush, raced>>
     \/ /\ Reading # {} /\ raced' = TRUE
        /\ flush' = [f \in Flushers |-> IF f \in Reading THEN [flush[f] EXCEPT !.slice = Overwritten(@, buffer')]
                                                         ELSE flush[f]]
  /\ UNCHANGED outFile

\* The ticker ticks on after the stop.
Flushing(f) == IF f = "ticker" THEN TRUE ELSE logged.phase = "flush"
FlushDone(f) == IF f = "ticker" THEN "idle" ELSE "done"
FlushGoes(f, at, slice) == flush' = [flush EXCEPT ![f] = [at |-> at, slice |-> slice]]
Overlaps(f) == \E g \in Flushers \ {f} : flush[g].at \notin {"idle", "done"}

FlushEmpty(f) ==
  /\ Flushing(f) /\ flush[f].at = "idle" /\ buffer = <<>>
  /\ FlushGoes(f, FlushDone(f), <<>>) /\ UNCHANGED <<buffer, outFile, logged, raced>>
\* Mutant: the buffer is emptied when the file cannot be opened.
FlushOpenFails_Resets(f) ==
  /\ Flushing(f) /\ flush[f].at = "idle" /\ buffer # <<>>
  /\ outFile' = [outFile EXCEPT !.is = "nil"] /\ buffer' = <<>>
  /\ FlushGoes(f, FlushDone(f), <<>>) /\ UNCHANGED <<logged, raced>>
\* The directory cannot be made (the file stays as it is) or the file not opened.
FlushOpenFails(f) ==
  /\ Flushing(f) /\ flush[f].at = "idle" /\ buffer # <<>>
  /\ outFile' \in {outFile, [outFile EXCEPT !.is = "nil"]}
  /\ FlushGoes(f, FlushDone(f), <<>>) /\ UNCHANGED <<buffer, logged, raced>>
\* The file is opened the first time, and when its name is another now or it was
\* deleted; a file that is open, or was closed by Stop, is taken as it is.
FlushBegin(f) ==
  /\ Flushing(f) /\ flush[f].at = "idle" /\ buffer # <<>>
  /\ outFile' \in {[outFile EXCEPT !.is = "open"]} \cup (IF outFile.is = "nil" THEN {} ELSE {outFile})
  /\ FlushGoes(f, "bytes", <<>>) /\ raced' = (raced \/ Overlaps(f))
  /\ UNCHANGED <<buffer, logged>>
TakeBytes(f) ==
  /\ flush[f].at = "bytes" /\ FlushGoes(f, "read", buffer)
  /\ UNCHANGED <<buffer, outFile, logged, raced>>
\* Read copies what is unread into the slice, which is that same memory.
ReadBuffer(f) ==
  LET slice == flush[f].slice
      n == IF Len(buffer) < Len(slice) THEN Len(buffer) ELSE Len(slice)
  IN /\ flush[f].at = "read"
     /\ FlushGoes(f, "write", SubSeq(buffer, 1, n) \o SubSeq(slice, n + 1, Len(slice)))
     /\ buffer' = SubSeq(buffer, n + 1, Len(buffer))
     /\ UNCHANGED <<outFile, logged, raced>>
WriteFile(f) ==
  /\ flush[f].at = "write" /\ FlushGoes(f, FlushDone(f), <<>>)
  /\ \/ outFile.is = "open" /\ outFile' = [outFile EXCEPT !.written = @ \o flush[f].slice]
     \/ outFile' = [outFile EXCEPT !.failed = @ \cup ToSet(flush[f].slice)]
  /\ UNCHANGED <<buffer, logged, raced>>

FOStop ==
  /\ logged.phase = "run" /\ logged' = [logged EXCEPT !.phase = "flush"]
  /\ UNCHANGED <<buffer, flush, outFile, raced>>
\* Close of a nil file is an error that Stop drops.
FOClose ==
  /\ logged.phase = "flush" /\ flush["stop"].at = "done"
  /\ logged' = [logged EXCEPT !.phase = "stopped"]
  /\ outFile' = [outFile EXCEPT !.is = IF @ = "nil" THEN "nil" ELSE "closed"]
  /\ UNCHANGED <<buffer, flush, raced>>

FlushStep(f) == FlushEmpty(f) \/ FlushOpenFails(f) \/ FlushBegin(f) \/ TakeBytes(f) \/ ReadBuffer(f) \/ WriteFile(f)
FONext == FOReceive \/ FOStop \/ FOClose \/ \E f \in Flushers : FlushStep(f)
FOSpec == FOInit /\ [][FONext]_foVars
-----------------------------------------------------------------------------
FOTypeOK ==
  /\ logged.count \in 0..MaxLogged /\ logged.phase \in {"run", "flush", "stopped"}
  /\ outFile.is \in {"nil", "open", "closed"} /\ raced \in BOOLEAN
  /\ \A f \in Flushers : flush[f].at \in {"idle", "bytes", "read", "write", "done"}

ToWrite(f) == IF flush[f].at = "write" THEN flush[f].slice ELSE <<>>
\* Unless the flushes raced with Receive or each other, the file holds the
\* events in order and once each, and none is missing from file, flush and
\* buffer but those of a write that failed: a file that cannot be opened, or
\* that Stop closed before the ticker's turn, loses nothing by itself.
FileIsTrue ==
  ~raced =>
    LET all == outFile.written \o ToWrite("ticker") \o ToWrite("stop") \o buffer
    IN /\ \A i, j \in 1..Len(all) : i < j => all[i] < all[j]
       /\ ToSet(all) \cup outFile.failed = 1..logged.count
-----------------------------------------------------------------------------
(***************************************************************************)
(* The rabbitmq output (processors/output-rabbitmq/rabbitmq.go): Receive   *)
(* publishes an event until the library takes it, and connects anew in     *)
(* between.  The workers of the agent share p.conn and p.ch, and each may  *)
(* be in setup.  Connections are numbered.                                 *)
(***************************************************************************)
CONSTANTS
  Publishers,  \* the workers
  MaxConns,    \* bound: connections dialed
  MaxPublished    \* bound: events of a worker

VARIABLES
  conns,    \* dialed so far; open, those neither closed nor lost
  conn, ch, \* p.conn and p.ch: a connection, or 0 for nil
  pub,      \* a worker: at "idle", "publish", "sleep", "close", "dial", "channel"; its events
  stopping, \* "starting" (the setup of Start), "run", "returned", "crash"
  mingled   \* history: two setups overlapped
roVars == <<conns, conn, ch, pub, stopping, mingled>>

Workers == Publishers \cup {"start"}
ROInit ==
  /\ conns = [dialed |-> 0, open |-> {}] /\ conn = 0 /\ ch = 0
  /\ pub = [w \in Workers |-> [at |-> IF w = "start" THEN "close" ELSE "idle", events |-> 0]]
  /\ stopping = "starting" /\ mingled = FALSE
-----------------------------------------------------------------------------
\* The setup of Start ends it, whatever comes of it; that of Receive is followed
\* by another attempt to publish.
Setups == {"close", "dial", "channel"}
ROGoto(w, at) == pub' = [pub EXCEPT ![w].at = at]
SetupEnds(w) ==
  IF w = "start" THEN ROGoto(w, "idle") /\ stopping' = "run" ELSE ROGoto(w, "publish") /\ UNCHANGED stopping
\* Mutant: the connection that is replaced is not closed.
ROClose_Keeps(w) ==
  /\ pub[w].at = "close" /\ ROGoto(w, "dial")
  /\ mingled' = (mingled \/ \E v \in Workers \ {w} : pub[v].at \in Setups)
  /\ UNCHANGED <<conns, conn, ch, stopping>>
ROClose(w) ==
  /\ pub[w].at = "close" /\ ROGoto(w, "dial")
  /\ conns' = [conns EXCEPT !.open = @ \ {conn}]
  /\ mingled' = (mingled \/ \E v \in Workers \ {w} : pub[v].at \in Setups)
  /\ UNCHANGED <<conn, ch, stopping>>
RODial(w) ==
  /\ pub[w].at = "dial" /\ conns.dialed < MaxConns /\ ROGoto(w, "channel")
  /\ conns' = [dialed |-> conns.dialed + 1, open |-> conns.open \cup {conns.dialed + 1}]
  /\ conn' = conns.dialed + 1
  /\ UNCHANGED <<ch, stopping, mingled>>
RODialFails(w) ==
  /\ pub[w].at = "dial" /\ conn' = 0 /\ SetupEnds(w)
  /\ UNCHANGED <<conns, ch, mingled>>
\* The channel is of the connection p.conn is by now, or of none; what fails
\* after it leaves it as it is.  A nil connection panics.
ROChannel(w) ==
  /\ pub[w].at = "channel"
  /\ IF conn = 0 THEN stopping' = "crash" /\ UNCHANGED <<ch, pub>>
     ELSE SetupEnds(w) /\ ch' \in {0} \cup (conns.open \cap {conn})
  /\ UNCHANGED <<conns, conn, mingled>>

ROReceive(w) ==
  /\ stopping = "run" /\ pub[w].at = "idle" /\ pub[w].events < MaxPublished
  /\ pub' = [pub EXCEPT ![w] = [at |-> "publish", events |-> @.events + 1]]
  /\ UNCHANGED <<conns, conn, ch, stopping, mingled>>
\* The library takes the event of an open connection, which does not mean that
\* the broker gets it.  A nil channel panics.
Publish(w) ==
  /\ pub[w].at = "publish" /\ ch \in conns.open
  /\ ROGoto(w, "idle")
  /\ UNCHANGED <<conns, conn, ch, stopping, mingled>>
PublishFails(w) ==
  /\ pub[w].at = "publish" /\ IF ch = 0 THEN stopping' = "crash" /\ UNCHANGED pub ELSE ROGoto(w, "sleep") /\ UNCHANGED stopping
  /\ UNCHANGED <<conns, conn, ch, mingled>>
RORetry(w) ==
  /\ pub[w].at = "sleep" /\ ROGoto(w, "close")
  /\ UNCHANGED <<conns, conn, ch, stopping, mingled>>
Lose ==
  /\ \E c \in conns.open : conns' = [conns EXCEPT !.open = @ \ {c}]
  /\ UNCHANGED <<conn, ch, pub, stopping, mingled>>
\* Stop, when every worker is done.
ROStop ==
  /\ stopping = "run" /\ \A w \in Workers : pub[w].at = "idle"
  /\ stopping' = IF conn = 0 THEN "crash" ELSE "returned"
  /\ conns' = [conns EXCEPT !.open = @ \ {conn}]
  /\ UNCHANGED <<conn, ch, pub, mingled>>

Publishing(w) == ROReceive(w) \/ Publish(w) \/ PublishFails(w) \/ RORetry(w)
Connecting(w) == ROClose(w) \/ RODial(w) \/ RODialFails(w) \/ ROChannel(w)
RONext ==
  /\ stopping \notin {"crash", "returned"}
  /\ (\E w \in Publishers : Publishing(w)) \/ (\E w \in Workers : Connecting(w)) \/ Lose \/ ROStop
ROSpec == ROInit /\ [][RONext]_roVars
-----------------------------------------------------------------------------
ROTypeOK ==
  /\ conns.dialed \in 0..MaxConns /\ conns.open \subseteq 1..conns.dialed
  /\ conn \in 0..conns.dialed /\ ch \in 0..conns.dialed
  /\ \A w \in Workers : pub[w].at \in {"idle", "publish", "sleep"} \cup Setups

\* Unless two workers were in setup at a time, at most one connection is open,
\* p.conn, whatever is lost and dialed again, and none after Stop.
OneConnection ==
  /\ ~mingled => conns.open \subseteq {conn}
  /\ ~mingled /\ stopping = "returned" => conns.open = {}
-----------------------------------------------------------------------------
(***************************************************************************)
(* The tcp output (processors/output-tcp/tcpoutput.go): the workers of the *)
(* agent share p.conn without a lock.  A dial that fails stores the nil    *)
(* *net.TCPConn in the interface p.conn, which is not nil then: no worker  *)
(* dials again, and the first call on it ends the program.  Connections    *)
(* are numbered.                                                           *)
(***************************************************************************)
CONSTANTS
  Senders,   \* the workers
  MaxDials,  \* bound: connections made
  MaxTroubles, \* bound: dials that failed and connections lost
  MaxOut     \* bound: events of a worker

NoConn == 0     \* p.conn is nil
NilConn == -1 \* p.conn holds a nil *net.TCPConn

VARIABLES
  tcpConn,     \* p.conn
  net,      \* dialed so far; open: neither closed here nor lost; troubles
  sender,   \* a worker: at "idle", "dial", "options", "deadline", "write", "close",
            \* "forget"; its events so far
  phase,    \* "starting", "run", "stopped", "crash"
  tally,    \* history: events received, events written
  tangled   \* history: a worker connected or gave up while another was sending
tcpVars == <<tcpConn, net, sender, phase, tally, tangled>>

TOInit ==
  /\ tcpConn = NoConn /\ net = [dialed |-> 0, open |-> {}, troubles |-> 0]
  /\ sender = [w \in Senders |-> [at |-> "idle", events |-> 0]]
  /\ phase = "starting" /\ tally = [received |-> 0, written |-> 0] /\ tangled = FALSE
-----------------------------------------------------------------------------
TOGoto(w, at) == sender' = [sender EXCEPT ![w].at = at]
Sending(w) == \E v \in Senders \ {w} : sender[v].at # "idle"
TOCrash == phase' = "crash" /\ UNCHANGED <<tcpConn, net, sender, tally, tangled>>
Usable == tcpConn \notin {NoConn, NilConn}

\* connect, by Start and by Receive.
Dialed ==
  /\ net.dialed < MaxDials
  /\ net' = [net EXCEPT !.dialed = @ + 1, !.open = @ \cup {net.dialed + 1}]
  /\ tcpConn' = net.dialed + 1
\* The address cannot be resolved, or not be dialed.
DialFailed ==
  /\ net.troubles < MaxTroubles /\ net' = [net EXCEPT !.troubles = @ + 1]
  /\ tcpConn' \in {tcpConn, NilConn}
TOStart ==
  /\ phase = "starting" /\ phase' = "run" /\ (Dialed \/ DialFailed)
  /\ UNCHANGED <<sender, tally, tangled>>
TOReceive(w) ==
  /\ phase = "run" /\ sender[w].at = "idle" /\ sender[w].events < MaxOut
  /\ sender' = [sender EXCEPT ![w].at = IF tcpConn = NoConn THEN "dial" ELSE "deadline", ![w].events = @ + 1]
  /\ tally' = [tally EXCEPT !.received = @ + 1] /\ UNCHANGED <<tcpConn, net, phase, tangled>>
Dial(w) ==
  /\ sender[w].at = "dial" /\ tangled' = (tangled \/ Sending(w))
  /\ \/ Dialed /\ TOGoto(w, "options")
     \/ DialFailed /\ TOGoto(w, "idle")
  /\ UNCHANGED <<phase, tally>>

\* SetNoDelay and SetDeadline go through p.conn again.
SetOptions(w) ==
  /\ sender[w].at \in {"options", "deadline"}
  /\ IF Usable THEN TOGoto(w, IF sender[w].at = "options" THEN "deadline" ELSE "write")
                    /\ UNCHANGED <<tcpConn, net, phase, tally, tangled>>
     ELSE TOCrash

\* Write succeeds on an open connection, and may on a lost one.
TOWrite(w) ==
  /\ sender[w].at = "write"
  /\ IF ~Usable THEN TOCrash
     ELSE TOGoto(w, "idle") /\ tally' = [tally EXCEPT !.written = @ + 1] /\ UNCHANGED <<tcpConn, net, phase, tangled>>
WriteFails(w) ==
  /\ sender[w].at = "write" /\ Usable /\ tcpConn \notin net.open
  /\ TOGoto(w, "close")
  /\ UNCHANGED <<tcpConn, net, phase, tally, tangled>>
CloseConn(w) ==
  /\ sender[w].at = "close"
  /\ IF ~Usable THEN TOCrash
     ELSE /\ net' = [net EXCEPT !.open = @ \ {tcpConn}] /\ TOGoto(w, "forget")
          /\ tangled' = (tangled \/ Sending(w)) /\ UNCHANGED <<tcpConn, phase, tally>>
\* Mutant: a connection that failed stays p.conn.
ForgetConn_Keeps(w) ==
  sender[w].at = "forget" /\ TOGoto(w, "idle") /\ UNCHANGED <<tcpConn, net, phase, tally, tangled>>
ForgetConn(w) ==
  /\ sender[w].at = "forget" /\ TOGoto(w, "idle") /\ tcpConn' = NoConn
  /\ tangled' = (tangled \/ Sending(w)) /\ UNCHANGED <<net, phase, tally>>

LoseConn ==
  /\ net.troubles < MaxTroubles
  /\ \E c \in net.open : net' = [net EXCEPT !.open = @ \ {c}, !.troubles = @ + 1]
  /\ UNCHANGED <<tcpConn, sender, phase, tally, tangled>>
TOStop ==
  /\ phase = "run" /\ \A w \in Senders : sender[w].at = "idle"
  /\ IF tcpConn = NilConn THEN TOCrash
     ELSE phase' = "stopped" /\ net' = [net EXCEPT !.open = @ \ {tcpConn}] /\ UNCHANGED <<tcpConn, sender, tally, tangled>>

TONext ==
  /\ phase # "crash"
  /\ \/ TOStart \/ LoseConn \/ TOStop
     \/ \E w \in Senders : TOReceive(w) \/ Dial(w) \/ SetOptions(w) \/ TOWrite(w) \/ WriteFails(w) \/ CloseConn(w) \/ ForgetConn(w)
TOSpec == TOInit /\ [][TONext]_tcpVars
-----------------------------------------------------------------------------
TOTypeOK ==
  /\ tcpConn \in NilConn..MaxDials /\ net.dialed \in 0..MaxDials /\ net.open \subseteq 1..net.dialed /\ net.troubles \in 0..MaxTroubles
  /\ \A w \in Senders : sender[w].at \in {"idle", "dial", "options", "deadline", "write", "close", "forget"}
  /\ phase \in {"starting", "run", "stopped", "crash"} /\ tangled \in BOOLEAN /\ tally \in [received : Nat, written : Nat]

\* Unless a worker connected or gave up a connection while another was sending,
\* there is one connection at a time, which Stop closes; only a dial that failed
\* can end the program; and no more events are missing than dials failed and
\* connections were lost: the worker that meets the failure makes the next dial.
TcpSound ==
  ~tangled =>
    /\ Cardinality(net.open) <= 1
    /\ phase = "stopped" => net.open = {}
    /\ phase = "crash" => tcpConn = NilConn
    /\ (\A w \in Senders : sender[w].at = "idle") => tally.received - tally.written <= net.troubles
=============================================================================
