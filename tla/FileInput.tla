------------------------------ MODULE FileInput -----------------------------
(***************************************************************************)
(* The file input (processors/input-file/file.go): a discoverer that looks *)
(* for files every interval, a Receive that does so for every event, one   *)
(* reader, and Stop, over the offsets of SinceDB.  A file is read whole;   *)
(* its size is recorded when it was, and it is not read again.  The        *)
(* process may exit at any point and start again on the same storage.      *)
(***************************************************************************)
EXTENDS SinceDB, Integers, Sequences

CONSTANTS
  N,          \* files, numbered in the order of the glob
  Size,       \* Size[f]: bytes of a file
  Records,    \* Records[f]: what the codec makes of it
  EofOnly,    \* files whose codec finds their end by io.EOF (line, csv, ...)
  Faulty,     \* files that cannot always be opened or decoded
  Capacity,   \* MaxOpenFiles, the capacity of filestoWatch
  MaxRuns     \* bound: how often the process runs

ASSUME FileAssumption ==
  /\ N \in Nat /\ Resources = 1..N
  /\ Size \in [1..N -> Nat] /\ Records \in [1..N -> Nat]
  /\ EofOnly \cup Faulty \subseteq 1..N
  /\ Capacity \in Nat \ {0} /\ MaxRuns \in Nat

Files == 1..N

VARIABLES
  scanner,   \* the two callers of Receive; `knew` is history: the file whose
             \* offset was not in the map had been marked by then
  queue,     \* filestoWatch
  reader,    \* pc, file and records sent of the reader goroutine
  q,         \* q is closed
  stopping,  \* phase of Stop; q2 is closed from "closing" on
  complete,  \* history: files whose records were all sent in one reading
  marked,    \* history: files this process knows, or knew, to be read
  runs

inputVars == <<scanner, queue, reader, q, stopping, complete, marked, runs>>
vars == <<sinceVars, inputVars>>
Scanners == {"discover", "receive"}
At(s, pc) == scanner[s].pc = pc
q2 == stopping # "no"

Resting(pc) == [pc |-> pc, at |-> 1, found |-> {}, knew |-> FALSE]
\* Start, with an interval; without one the discoverer never gets going, which
\* is among the behaviours the safety properties see.
Fresh == [s \in Scanners |-> Resting("idle")]
Selecting == [pc |-> "select", file |-> 0, n |-> 0]
Init ==
  /\ NewSinceDB /\ stored = <<>>
  /\ scanner = Fresh
  /\ queue = <<>> /\ reader = Selecting
  /\ q = FALSE /\ stopping = "no" /\ complete = {} /\ marked = {} /\ runs = 1
-----------------------------------------------------------------------------
(* Receive and filesToRead *)

\* The agent hands over an event until its channel is closed.
Scan(s) ==
  /\ At(s, "idle") /\ s = "receive" => stopping = "no"
  /\ scanner' = [scanner EXCEPT ![s] = Resting("map")]
  /\ UNCHANGED <<sinceVars, queue, reader, q, stopping, complete, marked, runs>>

Judged(s, offset) ==
  scanner' = [scanner EXCEPT ![s] =
    [pc |-> "map", at |-> @.at + 1, knew |-> FALSE,
     found |-> IF offset = 0 THEN @.found \cup {@.at} ELSE @.found]]
LookInMap(s) ==
  /\ At(s, "map") /\ scanner[s].at <= N
  /\ IF InMap(scanner[s].at) THEN Judged(s, offsets[scanner[s].at])
     ELSE scanner' = [scanner EXCEPT ![s].pc = "storage", ![s].knew = scanner[s].at \in marked]
  /\ UNCHANGED <<sinceVars, queue, reader, q, stopping, complete, marked, runs>>
LookInStorage(s) ==
  /\ At(s, "storage")
  /\ Judged(s, OffsetStored(scanner[s].at))
  /\ UNCHANGED <<sinceVars, queue, reader, q, stopping, complete, marked, runs>>

\* Files that were modified too recently, or that cannot be stated, wait.
Keep(s) ==
  /\ At(s, "map") /\ scanner[s].at > N
  /\ \E old \in SUBSET scanner[s].found :
       scanner' = [scanner EXCEPT ![s] = [Resting("push") EXCEPT !.found = old]]
  /\ UNCHANGED <<sinceVars, queue, reader, q, stopping, complete, marked, runs>>

\* filestoWatch <- name, which blocks when the channel is full.
PushUpTo(s, capacity) ==
  /\ At(s, "push") /\ Len(queue) < capacity
  /\ \E f \in scanner[s].found :
       /\ \A g \in scanner[s].found : f <= g
       /\ queue' = Append(queue, f)
       /\ scanner' = [scanner EXCEPT ![s].found = @ \ {f}]
  /\ UNCHANGED <<sinceVars, reader, q, stopping, complete, marked, runs>>
Push(s) == PushUpTo(s, Capacity)
EndPush(s) ==
  /\ At(s, "push") /\ scanner[s].found = {}
  /\ scanner' = [scanner EXCEPT ![s] = Resting(IF s = "discover" THEN "wait" ELSE "idle")]
  /\ UNCHANGED <<sinceVars, queue, reader, q, stopping, complete, marked, runs>>

\* discoverFilesToRead: the ticker or q2, whichever Go picks.
DiscoverWakes(pc) ==
  /\ At("discover", "wait")
  /\ scanner' = [scanner EXCEPT !["discover"].pc = pc]
  /\ UNCHANGED <<sinceVars, queue, reader, q, stopping, complete, marked, runs>>
DiscoverTick == DiscoverWakes("idle")
DiscoverQuit == q2 /\ DiscoverWakes("gone")
-----------------------------------------------------------------------------
(* The reader *)

Take ==
  /\ reader.pc = "select" /\ queue # <<>>
  /\ reader' = [pc |-> "read", file |-> Head(queue), n |-> 0]
  /\ queue' = Tail(queue)
  /\ UNCHANGED <<sinceVars, scanner, q, stopping, complete, marked, runs>>

\* Mutant: q is not closed.
Quit_Silently ==
  /\ reader.pc = "select" /\ q2
  /\ reader' = [reader EXCEPT !.pc = "gone"]
  /\ UNCHANGED <<sinceVars, scanner, queue, q, stopping, complete, marked, runs>>
Quit ==
  /\ reader.pc = "select" /\ q2
  /\ reader' = [reader EXCEPT !.pc = "gone"] /\ q' = TRUE
  /\ UNCHANGED <<sinceVars, scanner, queue, stopping, complete, marked, runs>>

\* readfile returns with an error.
Fail ==
  /\ reader.pc = "read" /\ reader.file \in Faulty
  /\ reader' = Selecting
  /\ UNCHANGED <<sinceVars, scanner, queue, q, stopping, complete, marked, runs>>

Mark(f) ==
  /\ SetRessourceOffset(f, Size[f])
  /\ marked' = IF Size[f] = 0 THEN marked ELSE marked \cup {f}
  /\ UNCHANGED <<stored, saver, looping>>

\* Mutant: an interrupted file is marked like a finished one.
SendRecord_MarkAnyway ==
  /\ reader.pc = "read" /\ reader.n < Records[reader.file]
  /\ reader' = IF q2 THEN Selecting ELSE [reader EXCEPT !.n = @ + 1]
  /\ complete' = IF reader.n + 1 = Records[reader.file] THEN complete \cup {reader.file} ELSE complete
  /\ IF q2 THEN Mark(reader.file) ELSE UNCHANGED <<sinceVars, marked>>
  /\ UNCHANGED <<scanner, queue, q, stopping, runs>>

\* A record is decoded and sent; if q2 is closed by then, readfile returns and
\* leaves the file unmarked.
SendRecord ==
  /\ reader.pc = "read" /\ reader.n < Records[reader.file]
  /\ reader' = IF q2 THEN Selecting ELSE [reader EXCEPT !.n = @ + 1]
  /\ complete' = IF reader.n + 1 = Records[reader.file] THEN complete \cup {reader.file} ELSE complete
  /\ UNCHANGED <<sinceVars, scanner, queue, q, stopping, marked, runs>>

\* The end: io.EOF from Decode returns from readfile, as any error does; a
\* codec that knows the end beforehand leaves the loop, and the file is marked.
EndOfFile ==
  /\ reader.pc = "read" /\ reader.n = Records[reader.file]
  /\ reader' = Selecting
  /\ complete' = complete \cup {reader.file}
  /\ IF reader.file \in EofOnly THEN UNCHANGED <<sinceVars, marked>> ELSE Mark(reader.file)
  /\ UNCHANGED <<scanner, queue, q, stopping, runs>>
-----------------------------------------------------------------------------
(* Stop, which the agent calls when its workers are gone. *)
Stop ==
  /\ stopping = "no" /\ At("receive", "idle")
  /\ stopping' = "closing"
  /\ UNCHANGED <<sinceVars, scanner, queue, reader, q, complete, marked, runs>>
\* Mutant: the reader is not waited for.
CloseDB_AtOnce ==
  /\ stopping = "closing" /\ Close /\ stopping' = "saving"
  /\ UNCHANGED <<scanner, queue, reader, q, complete, marked, runs>>
CloseDB ==
  /\ stopping = "closing" /\ q
  /\ Close
  /\ stopping' = "saving"
  /\ UNCHANGED <<scanner, queue, reader, q, complete, marked, runs>>
StopReturn ==
  /\ stopping = "saving" /\ saver["closer"].pc = "done"
  /\ stopping' = "done"
  /\ UNCHANGED <<sinceVars, scanner, queue, reader, q, complete, marked, runs>>

\* The process exits, stopped or not, and is started again.
Restart ==
  /\ runs < MaxRuns
  /\ runs' = runs + 1
  /\ offsets' = <<>> /\ saver' = [s \in Savers |-> Idle] /\ looping' = ~DryRun
  /\ scanner' = Fresh
  /\ queue' = <<>> /\ reader' = Selecting
  /\ q' = FALSE /\ stopping' = "no"
  /\ marked' = {f \in Files : OffsetStored(f) # 0}
  /\ UNCHANGED <<stored, complete>>

ScanStep(s) ==
  Scan(s) \/ LookInMap(s) \/ LookInStorage(s) \/ Keep(s) \/ Push(s) \/ EndPush(s)
ReadStep == Take \/ Fail \/ SendRecord \/ EndOfFile
SinceDBStep ==
  (LooperTick \/ LooperQuit \/ \E s \in Savers : SaveStep(s)) /\ UNCHANGED inputVars
StopStep == CloseDB \/ StopReturn
Next ==
  \/ \E s \in Scanners : ScanStep(s)
  \/ DiscoverTick \/ DiscoverQuit \/ ReadStep \/ Quit
  \/ SinceDBStep \/ Stop \/ StopStep \/ Restart
Spec == Init /\ [][Next]_vars

\* A goroutine that can go on does; where a select has two ready cases, each
\* is picked at some time.
FairSpec ==
  /\ Spec
  /\ \A s \in Scanners : WF_vars(ScanStep(s))
  /\ WF_vars(ReadStep) /\ SF_vars(Quit) /\ SF_vars(DiscoverQuit)
  /\ \A s \in Savers : WF_vars(SaveStep(s) /\ UNCHANGED inputVars)
  /\ WF_vars(StopStep)
-----------------------------------------------------------------------------
ScannerType == [pc : {"idle", "map", "storage", "push", "wait", "gone"},
                at : 1..(N + 1), found : SUBSET Files, knew : BOOLEAN]
SaverType == [pc : {"idle", "visit", "set", "delete", "done"}, todo : SUBSET Files,
              key : 0..N, value : Nat]
TypeOK ==
  /\ DOMAIN offsets \subseteq Files /\ DOMAIN stored \subseteq Files
  /\ \A f \in DOMAIN offsets : offsets[f] = Size[f]
  /\ \A f \in DOMAIN stored : stored[f] = Size[f]
  /\ saver \in [Savers -> SaverType]
  /\ looping \in BOOLEAN
  /\ scanner \in [Scanners -> ScannerType]
  /\ queue \in Seq(Files) /\ Len(queue) <= Capacity
  /\ reader \in [pc : {"select", "read", "gone"}, file : 0..N, n : Nat]
  /\ reader.pc = "read" => reader.file \in Files
  /\ q \in BOOLEAN /\ stopping \in {"no", "closing", "saving", "done"}
  /\ complete \subseteq Files /\ marked \subseteq Files /\ runs \in Nat

Known(f) == (InMap(f) /\ offsets[f] # 0) \/ OffsetStored(f) # 0

\* A file counts as read, now or after any later start, only if all its records
\* were sent: reading is at least once.
KnownIsComplete == \A f \in Files : Known(f) => f \in complete

\* A file this process marked is never taken for unread again, although its
\* offset wanders from the map to the storage while a scan looks in the one,
\* then in the other.
MarkedIsKnown ==
  /\ \A f \in marked : Known(f)
  /\ \A s \in Scanners :
       At(s, "storage") /\ scanner[s].knew => OffsetStored(scanner[s].at) # 0

\* When Stop returns, what was marked is in the storage, though the looper may
\* be saving as well.
StoppedIsSaved ==
  stopping = "done" /\ ~DryRun => \A f \in marked : OffsetStored(f) # 0

\* Stop closes the database, and returns, only when the reader sends no more.
QuietAfterStop == stopping \in {"saving", "done"} => reader.pc = "gone"

\* Stop returns, wherever the reader and the discoverer are.
StopReturns == stopping = "closing" ~> stopping = "done" \/ (stopping = "no" /\ runs > 1)

\* "The sincedb database keeps track": a file that was read to its end without
\* a fault is known to be read.
ReadIsKnown ==
  \A f \in complete :
    stopping = "no" /\ runs = 1 /\ reader.pc = "select" => Known(f)
=============================================================================
