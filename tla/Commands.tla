------------------------------ MODULE Commands ------------------------------
(***************************************************************************)
(* The programs that are started for events, xprocessors, and for ticks,   *)
(* the exec input.                                                         *)
(***************************************************************************)
EXTENDS Integers, SequencesExt

(***************************************************************************)
(* The external processors (processors/xprocessor): with stream, a command *)
(* is started once (stream.go), Receive writes events to its standard      *)
(* input and a goroutine sends the records of its standard output; Stop    *)
(* closes the input and waits for the command, not for the goroutine.      *)
(* Without (nostream.go), Receive starts the command for one event and     *)
(* reads until its output ends.  The command, which may not start, answers *)
(* each event with a record, or dies.  Events are numbered.                *)
(***************************************************************************)
CONSTANTS
  Stream,     \* the option
  Pipe,       \* what a pipe holds
  MaxEvents   \* bound: events

VARIABLES
  stdin,    \* events the command has not read; the input is open
  command,  \* "none", "runs", "exited"; the event it has read, or 0
  stdout,   \* records not read yet; the program's end is open
  reading,  \* readAndSendEventsFromProcess: at "decode", "send" or "done"; records in the
            \* decoder's memory, the one to be sent first; a decoding failed
  worker,   \* "run", "write" (the event is received), "wait", "stop", "stopped"; events so far
  results   \* records sent; sent after Stop; events and records lost: what was written to a
            \* command that was gone, or not decoded
spVars == <<stdin, command, stdout, reading, worker, results>>

Pipes(open) == [queue |-> <<>>, open |-> open]
Running == [is |-> "runs", has |-> 0]
Gone == [is |-> "exited", has |-> 0]
\* startCommand; a command that does not start leaves the pipes closed.
Starts(c, in, out) ==
  \/ c = Running /\ in = Pipes(TRUE) /\ out = Pipes(TRUE)
  \/ c = Gone /\ in = Pipes(FALSE) /\ out = Pipes(FALSE)
SPInit ==
  /\ command \in {Running, Gone, [is |-> "none", has |-> 0]}
  /\ stdin \in {Pipes(TRUE), Pipes(FALSE)} /\ stdout \in {Pipes(TRUE), Pipes(FALSE)}
  /\ IF Stream THEN Starts(command, stdin, stdout)
               ELSE command.is = "none" /\ stdin = Pipes(FALSE) /\ stdout = Pipes(FALSE)
  /\ reading = [at |-> IF Stream THEN "decode" ELSE "done", records |-> <<>>, failed |-> FALSE]
  /\ worker = [at |-> "run", count |-> 0]
  /\ results = [sent |-> <<>>, late |-> 0, lost |-> {}]
-----------------------------------------------------------------------------
WorkerAt(at) == worker' = [worker EXCEPT !.at = at]
\* Receive; without stream it starts the command.
SPReceive ==
  /\ worker.at = "run" /\ worker.count < MaxEvents
  /\ worker' = [at |-> "write", count |-> worker.count + 1]
  /\ IF Stream THEN UNCHANGED <<stdin, command, stdout>>
     ELSE \E c \in {Running, Gone}, o \in BOOLEAN :
            Starts(c, Pipes(o), Pipes(o)) /\ command' = c /\ stdin' = Pipes(o) /\ stdout' = Pipes(o)
  /\ UNCHANGED <<reading, results>>
\* An error of the encoder is dropped.
SPWrite ==
  /\ worker.at = "write"
  /\ \/ /\ command.is = "runs" /\ Len(stdin.queue) < Pipe
        /\ stdin' = [queue |-> Append(stdin.queue, worker.count), open |-> Stream] /\ UNCHANGED results
     \/ /\ command.is = "exited" /\ results' = [results EXCEPT !.lost = @ \cup {worker.count}]
        /\ stdin' = [stdin EXCEPT !.open = Stream]
  /\ IF Stream THEN WorkerAt("run") /\ UNCHANGED reading
               ELSE WorkerAt("wait") /\ reading' = [at |-> "decode", records |-> <<>>, failed |-> FALSE]
  /\ UNCHANGED <<command, stdout>>

CommandReads ==
  /\ command.is = "runs" /\ command.has = 0 /\ stdin.queue # <<>>
  /\ command' = [command EXCEPT !.has = Head(stdin.queue)] /\ stdin' = [stdin EXCEPT !.queue = Tail(@)]
  /\ UNCHANGED <<stdout, reading, worker, results>>
CommandWrites ==
  /\ command.is = "runs" /\ command.has # 0 /\ Len(stdout.queue) < Pipe
  /\ stdout' = [stdout EXCEPT !.queue = Append(@, command.has)] /\ command' = Running
  /\ UNCHANGED <<stdin, reading, worker, results>>
Exits(lost) ==
  /\ command' = Gone /\ stdin' = [stdin EXCEPT !.queue = <<>>]
  /\ results' = [results EXCEPT !.lost = @ \cup lost]
  /\ UNCHANGED <<stdout, reading, worker>>
CommandEnds == command = Running /\ ~stdin.open /\ stdin.queue = <<>> /\ Exits({})
CommandDies == command.is = "runs" /\ Exits(ToSet(stdin.queue) \cup ({command.has} \ {0}))

\* The decoder reads what there is, and decodes that before it reads again; to
\* read fails on an output that was closed under it.
DecoderReads ==
  /\ reading.at = "decode" /\ reading.records = <<>> /\ stdout.queue # <<>>
  /\ reading' = [reading EXCEPT !.records = stdout.queue] /\ stdout' = [stdout EXCEPT !.queue = <<>>]
  /\ UNCHANGED <<stdin, command, worker, results>>
Decodes ==
  /\ reading.at = "decode" /\ reading.records # <<>>
  /\ reading' = [reading EXCEPT !.at = "send"]
  /\ UNCHANGED <<stdin, command, stdout, worker, results>>
\* A record that cannot be decoded ends the reading.
DecodeFails ==
  /\ reading.at = "decode" /\ reading.records # <<>>
  /\ reading' = [at |-> "done", records |-> <<>>, failed |-> TRUE]
  /\ results' = [results EXCEPT !.lost = @ \cup ToSet(reading.records)]
  /\ UNCHANGED <<stdin, command, stdout, worker>>
OutputEnds ==
  /\ reading.at = "decode" /\ reading.records = <<>>
  /\ ~stdout.open \/ (command.is = "exited" /\ stdout.queue = <<>>)
  /\ reading' = [reading EXCEPT !.at = "done"]
  /\ UNCHANGED <<stdin, command, stdout, worker, results>>
SPSend ==
  /\ reading.at = "send" /\ reading' = [reading EXCEPT !.at = "decode", !.records = Tail(@)]
  /\ results' = [results EXCEPT !.sent = Append(@, Head(reading.records)),
                                !.late = @ + IF worker.at = "stopped" THEN 1 ELSE 0]
  /\ UNCHANGED <<stdin, command, stdout, worker>>

\* Wait closes the program's ends of the pipes once the command has exited.
Waited(next) ==
  /\ command.is = "exited" /\ WorkerAt(next)
  /\ stdout' = Pipes(FALSE)
  /\ results' = [results EXCEPT !.lost = @ \cup ToSet(stdout.queue)]
  /\ UNCHANGED <<stdin, command, reading>>
\* Mutant: without stream too, the command is waited for before its output ends.
WaitOne_AtOnce == worker.at = "wait" /\ ~Stream /\ Waited("run")
WaitOne == worker.at = "wait" /\ reading.at = "done" /\ Waited("run")
\* Mutant: Stop does not close the command's input.
SPStop_KeepsInput ==
  /\ worker.at = "run" /\ WorkerAt(IF Stream THEN "stop" ELSE "stopped")
  /\ UNCHANGED <<stdin, command, stdout, reading, results>>
SPStop ==
  /\ worker.at = "run" /\ WorkerAt(IF Stream THEN "stop" ELSE "stopped")
  /\ stdin' = [stdin EXCEPT !.open = FALSE]
  /\ UNCHANGED <<command, stdout, reading, results>>
SPWait == worker.at = "stop" /\ Waited("stopped")

Command == CommandReads \/ CommandWrites \/ CommandEnds
Reader == DecoderReads \/ Decodes \/ OutputEnds \/ SPSend
SPNext == SPReceive \/ SPWrite \/ Command \/ CommandDies \/ Reader \/ DecodeFails \/ WaitOne \/ SPStop \/ SPWait
SPSpec == SPInit /\ [][SPNext]_spVars
\* The command ends when its input does.
SPFair == WF_spVars(Command) /\ WF_spVars(Reader) /\ WF_spVars(SPWait)
SPFairSpec == SPSpec /\ SPFair
-----------------------------------------------------------------------------
SPTypeOK ==
  /\ Len(stdin.queue) <= Pipe /\ Len(stdout.queue) <= Pipe
  /\ command.is \in {"none", "runs", "exited"} /\ reading.at \in {"decode", "send", "done"}
  /\ worker.at \in {"run", "write", "wait", "stop", "stopped"} /\ worker.count \in 0..MaxEvents

Sent == ToSet(results.sent)
InFlight == ToSet(stdin.queue) \cup ToSet(stdout.queue) \cup ToSet(reading.records) \cup ({command.has} \ {0})
            \cup (IF worker.at = "write" THEN {worker.count} ELSE {})
\* Every event comes back once and in order, unless the command died of itself,
\* the decoding failed or, with stream, its last records were in the pipe when
\* Stop waited for it; without, nothing is left to be sent when Receive returns.
EventsReturn ==
  /\ 1..worker.count = Sent \cup InFlight \cup results.lost /\ Sent \cap results.lost = {}
  /\ \A i \in 2..Len(results.sent) : results.sent[i-1] < results.sent[i]
  /\ ~Stream /\ worker.at = "run" => InFlight = {}

\* What the decoder holds when Stop returns is sent after it, no more: nothing
\* without stream.
SentLate == results.late <= IF Stream THEN Pipe ELSE 0

\* Stop returns, also with full pipes, unless the decoding failed: the command
\* may then wait for ever until its output is read.
StreamStops == worker.at = "stop" ~> worker.at = "stopped" \/ reading.failed
-----------------------------------------------------------------------------
(***************************************************************************)
(* The exec input, processors/input-exec: every tick of the scheduler runs *)
(* the command in a goroutine of its own and decodes what it prints in     *)
(* another.  Between the two is an io.Pipe, which hands over and keeps     *)
(* nothing: the command ends only when all it printed was read, and the    *)
(* pipe is closed at its reading end, after the command.  A command prints *)
(* `lines` records of the codec; with the plain codec they are one, which  *)
(* is complete at the end of the input only.                               *)
(***************************************************************************)
CONSTANTS Ticks,    \* the ticks of the behaviour
          Plain,    \* the default codec, or one that gives a record a line
          MaxLines  \* bound: lines of one command

VARIABLES
  tick,   \* tick[t]: where Tick is; lines printed, lines not handed over yet
  loop,   \* loop[t]: the decoding goroutine, the lines in its buffer, those sent
  input   \* "up", "stopped": q is closed; "closed": so are the next agents; "crash"

exVars == <<tick, loop, input>>

EXInit ==
  /\ tick = [t \in Ticks |-> [at |-> "none", lines |-> 0, left |-> 0]]
  /\ loop = [t \in Ticks |-> [at |-> "none", buffer |-> 0, sent |-> 0, why |-> "going"]]
  /\ input = "up"
-----------------------------------------------------------------------------
(* Tick. *)

\* The scheduler spawns Tick while the job is there; the goroutine may be late.
Spawn(t) ==
  /\ input = "up" /\ tick[t].at = "none"
  /\ tick' = [tick EXCEPT ![t].at = "spawned"]
  /\ UNCHANGED <<loop, input>>

\* cmd.Start and the goroutine; a command that cannot start prints nothing.
EXStart(t) ==
  /\ tick[t].at = "spawned"
  /\ \E n \in 0..MaxLines : tick' = [tick EXCEPT ![t] = [at |-> "wait", lines |-> n, left |-> n]]
  /\ loop' = [loop EXCEPT ![t].at = "decode"]
  /\ UNCHANGED input

\* The pipe takes a write when the decoder reads: some lines, up to its buffer.
HandOver(t) ==
  /\ loop[t].at = "read" /\ tick[t].left > 0
  /\ \E n \in 1..tick[t].left :
       /\ tick' = [tick EXCEPT ![t].left = @ - n]
       /\ loop' = [loop EXCEPT ![t].buffer = @ + n, ![t].at = IF Plain THEN "read" ELSE "decode"]
  /\ UNCHANGED input

\* Mutant: Wait does not wait for what was printed.
CommandDone_Exit(t) == tick[t].at = "wait"
CommandDone(t) == tick[t].at = "wait" /\ tick[t].left = 0
\* cmd.Wait returns, the deferred function closes the pipe.
EXReturn(t) ==
  /\ CommandDone(t)
  /\ tick' = [tick EXCEPT ![t].at = "returned"]
  /\ UNCHANGED <<loop, input>>
-----------------------------------------------------------------------------
(* The decoding goroutine. *)

LoopEnds(t, why) == loop' = [loop EXCEPT ![t].at = "ended", ![t].why = why]

EXDecode(t) ==
  /\ loop[t].at = "decode"
  /\ loop' = [loop EXCEPT ![t].at = IF loop[t].buffer = 0 THEN "read" ELSE "send",
                          ![t].buffer = IF @ = 0 THEN 0 ELSE @ - 1]
  /\ UNCHANGED <<tick, input>>

\* A record that cannot be decoded ends the goroutine.
EXDecodeFails(t) ==
  /\ loop[t].at = "decode" /\ loop[t].buffer > 0
  /\ LoopEnds(t, "failed")
  /\ UNCHANGED <<tick, input>>

\* A closed pipe: io.ErrClosedPipe, which the plain codec returns for its record.
EXReadEnds(t) ==
  /\ loop[t].at = "read" /\ tick[t].at = "returned"
  /\ LoopEnds(t, IF Plain THEN "failed" ELSE "end")
  /\ UNCHANGED <<tick, input>>

EXSend(t) ==
  /\ loop[t].at = "send"
  /\ IF input = "closed" THEN input' = "crash" /\ UNCHANGED loop
     ELSE loop' = [loop EXCEPT ![t].sent = @ + 1, ![t].at = "check"] /\ UNCHANGED input
  /\ UNCHANGED tick

EXCheck(t) ==
  /\ loop[t].at = "check"
  /\ IF input = "up" THEN loop' = [loop EXCEPT ![t].at = "decode"] ELSE LoopEnds(t, "stopped")
  /\ UNCHANGED <<tick, input>>
-----------------------------------------------------------------------------
EXStop == input = "up" /\ input' = "stopped" /\ UNCHANGED <<tick, loop>>
EXClose == input = "stopped" /\ input' = "closed" /\ UNCHANGED <<tick, loop>>

Ticking(t) == EXStart(t) \/ HandOver(t) \/ EXReturn(t)
Looping(t) == EXDecode(t) \/ EXReadEnds(t) \/ EXSend(t) \/ EXCheck(t)
EXNext ==
  /\ input # "crash"
  /\ EXStop \/ EXClose \/ \E t \in Ticks : Spawn(t) \/ Ticking(t) \/ Looping(t) \/ EXDecodeFails(t)
EXSpec == EXInit /\ [][EXNext]_exVars
-----------------------------------------------------------------------------
EXTypeOK ==
  /\ tick \in [Ticks -> [at : {"none", "spawned", "wait", "returned"}, lines : 0..MaxLines, left : 0..MaxLines]]
  /\ loop \in [Ticks -> [at : {"none", "decode", "read", "send", "check", "ended"}, buffer : 0..MaxLines,
                         sent : 0..MaxLines, why : {"going", "failed", "end", "stopped"}]]
  /\ input \in {"up", "stopped", "closed", "crash"}

\* All that a command printed is sent, though Tick returns before it is: a line
\* is on its way or sent, unless a decoding failed or Stop came; then the lines
\* that nobody reads keep the command, and its Tick, for ever.  The one record
\* of the plain codec ends with its input, which has no end: it is never sent.
OutputCaptured ==
  \A t \in Ticks :
    LET way == tick[t].left + loop[t].buffer + (IF loop[t].at = "send" THEN 1 ELSE 0) + loop[t].sent IN
    /\ way <= tick[t].lines
    /\ loop[t].why = "going" => way = tick[t].lines
    /\ loop[t].why = "end" => loop[t].sent = tick[t].lines
    /\ tick[t].at = "wait" /\ loop[t].at = "ended" => loop[t].why \in {"failed", "stopped"}
    /\ Plain => loop[t].sent = 0

\* A command that was started ends, and all it printed is sent, unless a
\* decoding failed, Stop came or the program crashed.
PrintedIsSent ==
  \A t \in Ticks :
    tick[t].at = "spawned" ~> \/ tick[t].at = "returned" /\ loop[t].why = "end" /\ loop[t].sent = tick[t].lines
                             \/ loop[t].why \in {"failed", "stopped"} \/ input = "crash"
=============================================================================
