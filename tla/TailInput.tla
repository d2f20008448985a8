------------------------------- MODULE TailInput ----------------------------
(***************************************************************************)
(* The tail input (processors/input-tail/tail.go) on one file that grows.  *)
(* A line goes from the tailer (hpcloud/tail, external) over the unbuffered*)
(* channel Lines to tailFile, from there over a pipe to the decoder, which *)
(* sends it and records what Tell says: how far the tailer has read.       *)
(* Positions are counted in lines.                                         *)
(***************************************************************************)
EXTENDS SinceDB, Integers

CONSTANTS
  Path,            \* the file
  FromBeginning,   \* start_position is "beginning"
  CodecFails,      \* the codec may fail on a record
  MaxLines,        \* bound: lines of the file
  MaxLives         \* bound: processes, one after the other

VARIABLES
  lines,  \* lines in the file
  run,    \* the processor: life ("running", "stopping" once q is closed, "closing" the
          \* sincedb, "stopped"), which life, the discoverer, is the file in watchFiles
  tail,   \* the goroutines of the file and what they hold, see Untouched
  past    \* history over all processes: sent, the lines sent; marks, where one resumed;
          \* jumps, <<from, to>> of one that began at the end after a line from

tailVars == <<lines, run, tail, past, sinceVars>>

Untouched ==
  [main |-> "none",     \* tailFile: "none", "start", "range", "write", "done"
   tailer |-> "none",   \* "none", "seek", "read", "send", "check", "ending", "gone"
   decoder |-> "none",  \* "none", "read", "send", "tell", "set", "gone"
   dying |-> FALSE,     \* t.Stop was called
   from |-> 0,          \* RessourceOffset when tailFile asked
   pos |-> 0,           \* lines the tailer has read
   line |-> 0,          \* the line main has
   record |-> 0,        \* the line the decoder has
   told |-> 0,          \* what Tell said
   last |-> 0]          \* the last line sent, or where the reading began; until a new
                        \* process begins to read, that of the one before it

TLInit ==
  /\ lines \in 0..1 /\ stored = <<>> /\ NewSinceDB
  /\ run = [life |-> "running", nr |-> 1, discoverer |-> "scan", watched |-> FALSE]
  /\ tail = Untouched
  /\ past = [sent |-> {}, marks |-> {}, jumps |-> {}]

\* A line is written to the file.
Grow == lines < MaxLines /\ lines' = lines + 1 /\ UNCHANGED <<run, tail, past, sinceVars>>
-----------------------------------------------------------------------------
\* discoverFilesToRead: the path is found or not yet; one tail per path.
TLDiscover ==
  /\ run.discoverer = "scan"
  /\ \/ /\ ~run.watched /\ tail' = [tail EXCEPT !.main = "start"]
        /\ run' = [run EXCEPT !.discoverer = "wait", !.watched = TRUE]
     \/ run' = [run EXCEPT !.discoverer = "wait"] /\ UNCHANGED tail
  /\ UNCHANGED <<lines, past, sinceVars>>

\* The select: a tick, also when q is closed as well, or q.
TLTick ==
  /\ run.discoverer = "wait" /\ run' = [run EXCEPT !.discoverer = "scan"]
  /\ UNCHANGED <<lines, tail, past, sinceVars>>
TLQuit ==
  /\ run.discoverer = "wait" /\ run.life # "running"
  /\ run' = [run EXCEPT !.discoverer = "gone"]
  /\ UNCHANGED <<lines, tail, past, sinceVars>>

\* tailFile begins: RessourceOffset, TailFile and the decoder's goroutine.
Open ==
  /\ tail.main = "start"
  /\ tail' = [tail EXCEPT !.main = "range", !.tailer = "seek", !.decoder = "read",
                          !.from = IF InMap(Path) THEN offsets[Path] ELSE OffsetStored(Path)]
  /\ UNCHANGED <<lines, run, past, sinceVars>>

\* Offset 0 is taken for a file that was never seen.
SeekTo == CASE tail.from # 0 -> tail.from [] tail.from = 0 /\ FromBeginning -> 0 [] OTHER -> lines
Seek ==
  /\ tail.tailer = "seek"
  /\ tail' = [tail EXCEPT !.tailer = "read", !.pos = SeekTo, !.last = SeekTo]
  /\ past' = [past EXCEPT
                !.marks = IF tail.from # 0 THEN @ \cup {tail.from} ELSE @,
                !.jumps = IF tail.from = 0 /\ ~FromBeginning THEN @ \cup {<<tail.last, lines>>} ELSE @]
  /\ UNCHANGED <<lines, run, sinceVars>>

\* readLine; at the end of the file only t.Stop ends the wait.
ReadLine ==
  /\ tail.tailer = "read"
  /\ \/ tail.pos < lines /\ tail' = [tail EXCEPT !.pos = @ + 1, !.tailer = "send"]
     \/ tail.pos = lines /\ tail.dying /\ tail' = [tail EXCEPT !.tailer = "ending"]
  /\ UNCHANGED <<lines, run, past, sinceVars>>

\* Mutant: the tailer does not wait for a busy tailFile.
HandOver_NoWait ==
  /\ tail.tailer = "send"
  /\ tail' = IF tail.main = "range" THEN [tail EXCEPT !.tailer = "check", !.main = "write", !.line = tail.pos]
                                     ELSE [tail EXCEPT !.tailer = "check"]
  /\ UNCHANGED <<lines, run, past, sinceVars>>
\* Lines is unbuffered: the line goes from hand to hand.
HandOver ==
  /\ tail.tailer = "send" /\ tail.main = "range"
  /\ tail' = [tail EXCEPT !.tailer = "check", !.main = "write", !.line = tail.pos]
  /\ UNCHANGED <<lines, run, past, sinceVars>>
CheckDying ==
  /\ tail.tailer = "check"
  /\ tail' = [tail EXCEPT !.tailer = IF tail.dying THEN "ending" ELSE "read"]
  /\ UNCHANGED <<lines, run, past, sinceVars>>
\* Lines is closed; now the file, and from here on Tell says 0.
CloseFile ==
  /\ tail.tailer = "ending" /\ tail' = [tail EXCEPT !.tailer = "gone"]
  /\ UNCHANGED <<lines, run, past, sinceVars>>

\* The goroutine that waits for q.
TailStop ==
  /\ run.life # "running" /\ tail.main \notin {"none", "start"} /\ ~tail.dying
  /\ tail' = [tail EXCEPT !.dying = TRUE]
  /\ UNCHANGED <<lines, run, past, sinceVars>>

\* The loop over Lines ends: both ends of the pipe are closed, wg.Done.
MainEnds ==
  /\ tail.main = "range" /\ tail.tailer \in {"ending", "gone"}
  /\ tail' = [tail EXCEPT !.main = "done"]
  /\ UNCHANGED <<lines, run, past, sinceVars>>
-----------------------------------------------------------------------------
\* The line main writes to the pipe is read; a codec that fails ends the
\* decoder, and main's next write has no reader.
Decode ==
  /\ tail.decoder = "read"
  /\ \/ tail.main = "write" /\ tail' = [tail EXCEPT !.main = "range", !.decoder = "send", !.record = tail.line]
     \/ CodecFails /\ tail.main = "write" /\ tail' = [tail EXCEPT !.main = "range", !.decoder = "gone"]
     \/ tail.main = "done" /\ tail' = [tail EXCEPT !.decoder = "gone"]
  /\ UNCHANGED <<lines, run, past, sinceVars>>

DecoderSend ==
  /\ tail.decoder = "send"
  /\ tail' = [tail EXCEPT !.decoder = "tell", !.last = tail.record]
  /\ past' = [past EXCEPT !.sent = @ \cup {tail.record}]
  /\ UNCHANGED <<lines, run, sinceVars>>

\* Mutant: the position is what the file holds.
Tell_Size == IF tail.tailer = "gone" THEN 0 ELSE lines
\* Mutant: the position is counted from where the reading began.
Tell_Relative == IF tail.tailer = "gone" THEN 0 ELSE tail.pos - tail.from
Tell == IF tail.tailer = "gone" THEN 0 ELSE tail.pos
DecoderTell ==
  /\ tail.decoder = "tell"
  /\ tail' = [tail EXCEPT !.decoder = "set", !.told = Tell]
  /\ UNCHANGED <<lines, run, past, sinceVars>>
DecoderSet ==
  /\ tail.decoder = "set"
  /\ tail' = [tail EXCEPT !.decoder = "read"]
  /\ SetRessourceOffset(Path, tail.told)
  /\ UNCHANGED <<lines, run, past, stored, saver, looping>>
-----------------------------------------------------------------------------
\* Stop: close(q), wg.Wait, Close.  A file found after the wait is not waited for.
TLStop ==
  /\ run.life = "running" /\ run' = [run EXCEPT !.life = "stopping"]
  /\ UNCHANGED <<lines, tail, past, sinceVars>>
TLClose ==
  /\ run.life = "stopping" /\ tail.main \in {"none", "done"}
  /\ run' = [run EXCEPT !.life = "closing"]
  /\ Close /\ UNCHANGED <<lines, tail, past>>
TLStopped ==
  /\ run.life = "closing" /\ saver["closer"].pc = "done"
  /\ run' = [run EXCEPT !.life = "stopped"]
  /\ UNCHANGED <<lines, tail, past, sinceVars>>

\* An exit at any point, or after the stop, and the next process.
TLRestart ==
  /\ run.nr < MaxLives
  /\ run' = [life |-> "running", nr |-> run.nr + 1, discoverer |-> "scan", watched |-> FALSE]
  /\ tail' = [Untouched EXCEPT !.last = tail.last]
  /\ offsets' = <<>> /\ saver' = [s \in Savers |-> Idle] /\ looping' = ~DryRun
  /\ UNCHANGED <<lines, past, stored>>

TLSaver == (\E s \in Savers : SaveStep(s)) \/ LooperTick \/ LooperQuit
TLGoroutine ==
  \/ Open \/ Seek \/ ReadLine \/ HandOver \/ CheckDying \/ CloseFile \/ TailStop \/ MainEnds
  \/ Decode \/ DecoderSend \/ DecoderTell \/ DecoderSet \/ TLClose \/ TLStopped
TLNext ==
  \/ TLGoroutine \/ Grow \/ TLDiscover \/ TLTick \/ TLQuit \/ TLStop \/ TLRestart
  \/ TLSaver /\ UNCHANGED <<lines, run, tail, past>>
TLSpec == TLInit /\ [][TLNext]_tailVars
-----------------------------------------------------------------------------
TLTypeOK ==
  /\ lines \in 0..MaxLines /\ run.nr \in 1..MaxLives
  /\ run.life \in {"running", "stopping", "closing", "stopped"}
  /\ run.discoverer \in {"scan", "wait", "gone"}
  /\ tail.main \in {"none", "start", "range", "write", "done"}
  /\ tail.tailer \in {"none", "seek", "read", "send", "check", "ending", "gone"}
  /\ tail.decoder \in {"none", "read", "send", "tell", "set", "gone"}
  /\ {tail.from, tail.pos, tail.line, tail.record, tail.told, tail.last} \subseteq 0..MaxLines
  /\ DOMAIN offsets \subseteq {Path} /\ DOMAIN stored \subseteq {Path}

\* What one process sends of a file, from where its reading began, has neither gap
\* nor repetition: the decoder's line is the one after the last it sent.
NoGap == tail.decoder = "send" => tail.record = tail.last + 1

\* Over all processes, every line up to the last is sent, or is one of the two before
\* a mark that some process resumed at, or lies in what a process skipped that found
\* the mark 0 and began at the end of the file, as at the first contact.
LinesAccounted ==
  \A l \in 1..tail.last :
    \/ l \in past.sent
    \/ \E m \in past.marks : m - 2 < l /\ l <= m
    \/ \E jump \in past.jumps : jump[1] < l /\ l <= jump[2]

\* Whatever is or may yet be recorded is at most two lines ahead of the last line
\* sent (one in tailFile's hands, one in the tailer's).
Recorded == {offsets[r] : r \in DOMAIN offsets} \cup {stored[r] : r \in DOMAIN stored}
            \cup {saver[s].value : s \in Savers} \cup {tail.told}
AheadByTwo == \A o \in Recorded : o <= tail.last + 2

\* While the processor is not stopped, the stored position never goes back,
\* although the saver works on a value that may be old.
StoredGrowsStep == run.life = "running" /\ run'.life = "running" =>
                     OffsetStored(Path)' >= OffsetStored(Path)

\* "If a file has already been seen before, this option has no effect and the
\* position recorded in the sincedb file will be used" (tail.go:106-107).  The last
\* record of a stop may find the file closed: Tell says 0, and the next process
\* takes the file for a new one and begins at its end.
SeenFileResumes == tail.tailer = "seek" /\ Path \in DOMAIN stored => SeekTo = stored[Path]
=============================================================================
