--------------------------- MODULE FileInputProofs --------------------------
(***************************************************************************)
(* The safety properties of the file input, for any number of files, any   *)
(* codec and any capacity.  The inductive invariant follows an offset on   *)
(* its way from the map over the hands of a saver into the storage.        *)
(***************************************************************************)
EXTENDS FileInput, TLAPS

\* What a saver holds is a true offset, and in the storage before it is deleted
\* from the map.
Holds(s) == saver[s].pc \in {"set", "delete"}
SaverSound ==
  \A s \in Savers :
    /\ Holds(s) =>
         /\ saver[s].key \in Files /\ saver[s].value = Size[saver[s].key]
         /\ Size[saver[s].key] # 0 => saver[s].key \in complete
    /\ saver[s].pc = "delete" => saver[s].key \in DOMAIN stored

MarkedNotEmpty == \A f \in marked : Size[f] # 0

\* A scanner asks the storage for a file only.
StorageAt == \A s \in Scanners : At(s, "storage") => scanner[s].at \in Files

\* Stop, the reader and Close go hand in hand.
Phases ==
  /\ q => reader.pc = "gone"
  /\ saver["closer"].pc # "idle" <=> stopping \in {"saving", "done"}
  /\ stopping = "done" => saver["closer"].pc = "done"
  /\ saver["looper"].pc # "done"
  /\ saver["closer"].pc = "done" => DryRun \/ saver["closer"].todo = {}

\* From Close on, an offset that is not stored is still ahead of the closer, or
\* in its hands.
Covered ==
  stopping \in {"saving", "done"} /\ ~DryRun =>
    \A f \in marked :
      \/ f \in DOMAIN stored
      \/ f \in saver["closer"].todo
      \/ saver["closer"].pc = "set" /\ saver["closer"].key = f

Sound == SaverSound /\ KnownIsComplete
Kept == StorageAt /\ MarkedNotEmpty /\ MarkedIsKnown
Stopped == Phases /\ QuietAfterStop /\ Covered
IInv == TypeOK /\ Sound /\ Kept /\ Stopped

\* The steps that only move the scanners and the queue.
Scanning ==
  \/ \E s \in Scanners : ScanStep(s)
  \/ DiscoverTick \/ DiscoverQuit
-----------------------------------------------------------------------------
\* The first state of a process.
LEMMA InitHolds == ASSUME Init PROVE IInv
<1> USE FileAssumption DEF Init, NewSinceDB, Fresh, Selecting, Resting, Savers, Scanners, Idle, Files
<1>1. TypeOK
  <2>1. /\ scanner \in [Scanners -> ScannerType] /\ saver \in [Savers -> SaverType]
    BY DEF ScannerType, SaverType
  <2>2. queue \in Seq(Files) /\ Len(queue) <= Capacity OBVIOUS
  <2>3. looping \in BOOLEAN /\ q \in BOOLEAN OBVIOUS
  <2>4. reader \in [pc : {"select", "read", "gone"}, file : 0..N, n : Nat] OBVIOUS
  <2>5. DOMAIN offsets = {} /\ DOMAIN stored = {} OBVIOUS
  <2>6. QED BY <2>1, <2>2, <2>3, <2>4, <2>5 DEF TypeOK
<1>2. Sound BY DEF Sound, SaverSound, Holds, KnownIsComplete, Known, InMap, OffsetStored
<1>3. Kept BY DEF Kept, StorageAt, MarkedNotEmpty, MarkedIsKnown, Known, At
<1>4. Stopped BY DEF Stopped, Phases, QuietAfterStop, Covered
<1>5. QED BY <1>1, <1>2, <1>3, <1>4 DEF IInv
-----------------------------------------------------------------------------
\* The scanners and the queue keep their types.
LEMMA ScanTypes ==
  ASSUME IInv, Scanning
  PROVE  TypeOK'
<1> USE FileAssumption DEF Files
<1> DEFINE Typed == /\ scanner' \in [Scanners -> ScannerType]
                    /\ queue' \in Seq(Files) /\ Len(queue') <= Capacity
<1>0. /\ scanner \in [Scanners -> ScannerType]
      /\ queue \in Seq(Files) /\ Len(queue) <= Capacity
      /\ marked \subseteq Files
  BY DEF IInv, TypeOK
<1>1. ASSUME NEW s \in Scanners, NEW r \in ScannerType
      PROVE  [scanner EXCEPT ![s] = r] \in [Scanners -> ScannerType]
  BY <1>0
<1>2. ASSUME NEW pc \in {"idle", "map", "wait", "push"} PROVE Resting(pc) \in ScannerType
  BY DEF Resting, ScannerType
<1>3. ASSUME NEW s \in Scanners
      PROVE  /\ scanner[s] \in ScannerType
             /\ scanner[s].at \in 1..(N + 1) /\ scanner[s].found \subseteq Files
  BY <1>0 DEF ScannerType
<1>4. ASSUME NEW s \in Scanners, NEW offset, scanner[s].at \in Files, Judged(s, offset)
      PROVE  scanner' \in [Scanners -> ScannerType]
  <2> DEFINE r == [pc |-> "map", at |-> scanner[s].at + 1, knew |-> FALSE,
                   found |-> IF offset = 0 THEN scanner[s].found \cup {scanner[s].at}
                             ELSE scanner[s].found]
  <2>1. r \in ScannerType BY <1>4, <1>3 DEF ScannerType
  <2>2. scanner' = [scanner EXCEPT ![s] = r] BY <1>4 DEF Judged
  <2>3. QED BY <2>1, <2>2, <1>1
<1>5. ASSUME NEW s \in Scanners, Scan(s) PROVE Typed
  BY <1>5, <1>0, <1>1, <1>2 DEF Scan
<1>6. ASSUME NEW s \in Scanners, LookInMap(s) PROVE Typed
  <2>1. scanner[s].at \in Files BY <1>6, <1>3 DEF LookInMap
  <2>2. CASE InMap(scanner[s].at)
    BY <2>1, <2>2, <1>6, <1>4, <1>0 DEF LookInMap
  <2>3. CASE ~InMap(scanner[s].at)
    <3> DEFINE r == [scanner[s] EXCEPT !.pc = "storage", !.knew = scanner[s].at \in marked]
    <3>1. (scanner[s].at \in marked) \in BOOLEAN OBVIOUS
    <3>2. r \in ScannerType BY <3>1, <1>3, Zenon DEF ScannerType
    <3>3. scanner' = [scanner EXCEPT ![s] = r] BY <2>3, <1>6 DEF LookInMap
    <3>4. QED BY <3>2, <3>3, <1>1, <1>6, <1>0 DEF LookInMap
  <2>4. QED BY <2>2, <2>3
<1>7. ASSUME NEW s \in Scanners, LookInStorage(s) PROVE Typed
  <2>1. scanner[s].at \in Files BY <1>7 DEF LookInStorage, IInv, Kept, StorageAt
  <2>2. QED BY <2>1, <1>4, <1>7, <1>0 DEF LookInStorage
<1>8. ASSUME NEW s \in Scanners, Keep(s) PROVE Typed
  <2>1. PICK old \in SUBSET scanner[s].found :
          scanner' = [scanner EXCEPT ![s] = [Resting("push") EXCEPT !.found = old]]
    BY <1>8 DEF Keep
  <2>2. [Resting("push") EXCEPT !.found = old] \in ScannerType
    <3>1. old \in SUBSET Files BY <1>3
    <3>2. Resting("push") \in ScannerType BY <1>2
    <3>3. QED BY <3>1, <3>2 DEF ScannerType
  <2>3. QED BY <2>1, <2>2, <1>1, <1>8, <1>0 DEF Keep
<1>9. ASSUME NEW s \in Scanners, Push(s) PROVE Typed
  <2>1. PICK f \in scanner[s].found :
          /\ queue' = Append(queue, f)
          /\ scanner' = [scanner EXCEPT ![s].found = @ \ {f}]
    BY <1>9 DEF Push, PushUpTo
  <2>2. f \in Files BY <1>3
  <2>3. queue' \in Seq(Files) /\ Len(queue') <= Capacity
    <3>1. Append(queue, f) \in Seq(Files) /\ Len(Append(queue, f)) = Len(queue) + 1
      BY <2>2, <1>0
    <3>2. Len(queue) \in Nat /\ Len(queue) < Capacity
      BY <1>0, <1>9 DEF Push, PushUpTo
    <3>3. QED BY <3>1, <3>2, <2>1
  <2>4. [scanner[s] EXCEPT !.found = scanner[s].found \ {f}] \in ScannerType
    BY <1>3 DEF ScannerType
  <2>5. scanner' = [scanner EXCEPT ![s] = [scanner[s] EXCEPT !.found = scanner[s].found \ {f}]]
    BY <2>1
  <2>6. QED BY <2>3, <2>4, <2>5, <1>1
<1>10. ASSUME NEW s \in Scanners, EndPush(s) PROVE Typed
  BY <1>10, <1>0, <1>1, <1>2 DEF EndPush
<1>11. ASSUME NEW pc \in {"idle", "gone"}, DiscoverWakes(pc) PROVE Typed
  <2>1. [scanner["discover"] EXCEPT !.pc = pc] \in ScannerType
    BY <1>3 DEF ScannerType, Scanners
  <2>2. QED BY <2>1, <1>1, <1>11, <1>0 DEF DiscoverWakes, Scanners
<1>12. UNCHANGED <<sinceVars, reader, q, stopping, complete, marked, runs>>
  BY DEF Scanning, ScanStep, Scan, LookInMap, LookInStorage, Keep, Push, PushUpTo, EndPush,
         DiscoverTick, DiscoverQuit, DiscoverWakes
<1>13. Typed
  BY <1>5, <1>6, <1>7, <1>8, <1>9, <1>10, <1>11
  DEF Scanning, ScanStep, DiscoverTick, DiscoverQuit
<1>14. QED BY <1>12, <1>13 DEF IInv, TypeOK, sinceVars
-----------------------------------------------------------------------------
\* The steps of SinceDB, of the reader and of Stop keep the types.
LEMMA OtherTypes ==
  ASSUME IInv, ReadStep \/ Quit \/ SinceDBStep \/ Stop \/ StopStep \/ Restart
  PROVE  TypeOK'
<1> USE FileAssumption DEF Files
<1>0. /\ saver \in [Savers -> SaverType]
      /\ DOMAIN offsets \subseteq Files /\ DOMAIN stored \subseteq Files
      /\ \A f \in DOMAIN offsets : offsets[f] = Size[f]
      /\ \A f \in Files : Size[f] \in Nat
  BY DEF IInv, TypeOK
<1>1. ASSUME NEW s \in Savers, NEW r \in SaverType
      PROVE  [saver EXCEPT ![s] = r] \in [Savers -> SaverType]
  BY <1>0
<1>2. ASSUME NEW rs \in SUBSET Files PROVE Visiting(rs) \in SaverType
  BY DEF Visiting, SaverType
<1>3. ASSUME NEW rs \in SUBSET Files, NEW r \in DOMAIN offsets PROVE Holding(rs, r) \in SaverType
  <2>1. r \in 0..N /\ offsets[r] \in Nat BY <1>0
  <2>2. QED BY <2>1 DEF Holding, SaverType
<1>4. Idle \in SaverType /\ [Idle EXCEPT !.pc = "done"] \in SaverType
  BY DEF Idle, SaverType
<1>5. ASSUME NEW s \in Savers
      PROVE  saver[s] \in SaverType /\ saver[s].todo \in SUBSET Files
  BY <1>0 DEF SaverType
<1>6. ASSUME NEW s \in Savers, SaveStep(s), UNCHANGED inputVars PROVE TypeOK'
  <2>1. CASE Visit(s)
    <3>1. saver' \in [Savers -> SaverType]
      <4>1. PICK r \in saver[s].todo : LET rest == saver[s].todo \ {r} IN
              saver' = [saver EXCEPT ![s] = IF InMap(r) THEN Holding(rest, r) ELSE Visiting(rest)]
        BY <2>1 DEF Visit
      <4>2. saver[s].todo \ {r} \in SUBSET Files BY <1>5
      <4>3. QED BY <4>1, <4>2, <1>1, <1>2, <1>3 DEF InMap
    <3>2. QED BY <3>1, <2>1, <1>6 DEF Visit, IInv, TypeOK, inputVars
  <2>2. CASE SetStorage(s)
    <3>1. saver[s].key \in Files /\ saver[s].value = Size[saver[s].key]
      BY <2>2 DEF SetStorage, IInv, Sound, SaverSound, Holds
    <3>2. DOMAIN stored' \subseteq Files /\ \A f \in DOMAIN stored' : stored'[f] = Size[f]
      BY <3>1, <2>2 DEF SetStorage, With, IInv, TypeOK
    <3>3. [saver[s] EXCEPT !.pc = "delete"] \in SaverType BY <1>5 DEF SaverType
    <3>4. saver' = [saver EXCEPT ![s] = [saver[s] EXCEPT !.pc = "delete"]]
      BY <2>2 DEF SetStorage
    <3>5. QED BY <3>2, <3>3, <3>4, <1>1, <2>2, <1>6 DEF SetStorage, IInv, TypeOK, inputVars
  <2>3. CASE DeleteOffset(s)
    <3>1. DOMAIN offsets' \subseteq Files /\ \A f \in DOMAIN offsets' : offsets'[f] = Size[f]
      BY <1>0, <2>3 DEF DeleteOffset, Without
    <3>2. saver' \in [Savers -> SaverType] BY <2>3, <1>1, <1>2, <1>5 DEF DeleteOffset
    <3>3. QED BY <3>1, <3>2, <2>3, <1>6 DEF DeleteOffset, IInv, TypeOK, inputVars
  <2>4. CASE EndSave(s)
    <3>1. saver' \in [Savers -> SaverType] BY <2>4, <1>1, <1>4 DEF EndSave
    <3>2. QED BY <3>1, <2>4, <1>6 DEF EndSave, IInv, TypeOK, inputVars
  <2>5. QED BY <2>1, <2>2, <2>3, <2>4, <1>6 DEF SaveStep
<1>7. CASE SinceDBStep
  <2>1. CASE LooperTick /\ UNCHANGED inputVars
    <3>1. saver' \in [Savers -> SaverType]
      BY <2>1, <1>0, <1>1, <1>2 DEF LooperTick, BeginSave, Savers
    <3>2. QED BY <3>1, <2>1 DEF LooperTick, IInv, TypeOK, inputVars
  <2>2. CASE LooperQuit /\ UNCHANGED inputVars
    BY <2>2 DEF LooperQuit, IInv, TypeOK, inputVars
  <2>3. QED BY <2>1, <2>2, <1>6, <1>7 DEF SinceDBStep
<1>8. ASSUME NEW f \in Files, Mark(f), complete' \in SUBSET Files,
             reader' \in [pc : {"select", "read", "gone"}, file : 0..N, n : Nat],
             reader'.pc = "read" => reader'.file \in Files,
             UNCHANGED <<scanner, queue, q, stopping, runs>>
      PROVE  TypeOK'
  <2>1. DOMAIN offsets' \subseteq Files /\ \A g \in DOMAIN offsets' : offsets'[g] = Size[g]
    BY <1>8, <1>0 DEF Mark, SetRessourceOffset, With
  <2>2. marked' \subseteq Files BY <1>8 DEF Mark, IInv, TypeOK
  <2>3. QED BY <2>1, <2>2, <1>8 DEF Mark, IInv, TypeOK
<1>9. CASE ReadStep \/ Quit
  <2>0. /\ reader \in [pc : {"select", "read", "gone"}, file : 0..N, n : Nat]
        /\ reader.pc = "read" => reader.file \in Files
        /\ complete \subseteq Files
        /\ queue \in Seq(Files) /\ Len(queue) <= Capacity
    BY DEF IInv, TypeOK
  <2>1. CASE Take
    <3>1. Head(queue) \in Files /\ Tail(queue) \in Seq(Files) /\ Len(Tail(queue)) <= Capacity
      <4>1. queue # <<>> BY <2>1 DEF Take
      <4>2. Head(queue) \in Files /\ Tail(queue) \in Seq(Files) /\ Len(Tail(queue)) = Len(queue) - 1
        BY <4>1, <2>0
      <4>3. QED BY <4>2, <2>0
    <3>2. /\ reader' \in [pc : {"select", "read", "gone"}, file : 0..N, n : Nat]
          /\ reader'.file \in Files
      BY <3>1, <2>1 DEF Take
    <3>3. QED BY <3>1, <3>2, <2>1 DEF Take, IInv, TypeOK, sinceVars
  <2>2. CASE Fail
    <3>1. reader'.pc = "select" /\ reader' \in [pc : {"select", "read", "gone"}, file : 0..N, n : Nat]
      BY <2>2, FileAssumption DEF Fail, Selecting
    <3>2. QED BY <3>1, <2>2 DEF Fail, IInv, TypeOK, sinceVars
  <2>3. CASE SendRecord
    <3>1. /\ reader' \in [pc : {"select", "read", "gone"}, file : 0..N, n : Nat]
          /\ reader'.pc = "read" => reader'.file \in Files
      <4>1. reader' = IF q2 THEN Selecting ELSE [reader EXCEPT !.n = reader.n + 1]
        BY <2>3 DEF SendRecord
      <4>2. [reader EXCEPT !.n = reader.n + 1] \in [pc : {"select", "read", "gone"}, file : 0..N, n : Nat]
        <5>1. reader.n \in Nat BY <2>0
        <5>2. reader.n + 1 \in Nat BY <5>1
        <5>3. QED BY <2>0, <5>2
      <4>3. reader.file \in Files BY <2>0, <2>3 DEF SendRecord
      <4>4. QED BY <4>1, <4>2, <4>3, <2>0, FileAssumption DEF Selecting
    <3>2. complete' \subseteq Files BY <2>0, <2>3 DEF SendRecord
    <3>3. QED BY <3>1, <3>2, <2>3 DEF SendRecord, IInv, TypeOK, sinceVars
  <2>4. CASE EndOfFile
    <3>1. reader'.pc = "select" /\ reader' \in [pc : {"select", "read", "gone"}, file : 0..N, n : Nat]
      BY <2>0, <2>4, FileAssumption DEF EndOfFile, Selecting
    <3>2. complete' \in SUBSET Files BY <2>0, <2>4 DEF EndOfFile
    <3>3. CASE reader.file \in EofOnly
      BY <3>1, <3>2, <3>3, <2>4 DEF EndOfFile, IInv, TypeOK, sinceVars
    <3>4. CASE reader.file \notin EofOnly
      BY <3>1, <3>2, <3>4, <2>0, <2>4, <1>8 DEF EndOfFile
    <3>5. QED BY <3>3, <3>4
  <2>5. CASE Quit BY <2>0, <2>5 DEF Quit, IInv, TypeOK, sinceVars
  <2>6. QED BY <2>1, <2>2, <2>3, <2>4, <2>5, <1>9 DEF ReadStep
<1>10. CASE Stop BY <1>10 DEF Stop, IInv, TypeOK, sinceVars
<1>11. CASE StopStep
  <2>1. CASE CloseDB
    <3>1. CASE DryRun
      <4>1. [saver["closer"] EXCEPT !.pc = "done"] \in SaverType
        BY <1>5 DEF SaverType, Savers
      <4>2. saver' \in [Savers -> SaverType]
        BY <4>1, <3>1, <2>1, <1>1 DEF CloseDB, Close, Savers
      <4>3. QED BY <4>2, <2>1 DEF CloseDB, Close, IInv, TypeOK
    <3>2. CASE ~DryRun
      <4>1. saver' \in [Savers -> SaverType]
        BY <3>2, <2>1, <1>0, <1>1, <1>2 DEF CloseDB, Close, BeginSave, Savers
      <4>2. QED BY <4>1, <2>1 DEF CloseDB, Close, IInv, TypeOK
    <3>3. QED BY <3>1, <3>2
  <2>2. CASE StopReturn BY <2>2 DEF StopReturn, IInv, TypeOK, sinceVars
  <2>3. QED BY <2>1, <2>2, <1>11 DEF StopStep
<1>12. CASE Restart
  <2>1. saver' \in [Savers -> SaverType] /\ scanner' \in [Scanners -> ScannerType]
    BY <1>12, <1>4 DEF Restart, Fresh, Resting, ScannerType
  <2>2. /\ DOMAIN offsets' = {}
        /\ queue' \in Seq(Files) /\ Len(queue') <= Capacity
        /\ reader' \in [pc : {"select", "read", "gone"}, file : 0..N, n : Nat]
        /\ reader'.pc = "select" /\ q' \in BOOLEAN /\ looping' \in BOOLEAN
    <3>1. looping' \in BOOLEAN /\ q' \in BOOLEAN
      BY <1>12 DEF Restart
    <3>2. DOMAIN offsets' = {} BY <1>12 DEF Restart
    <3>3. queue' \in Seq(Files) /\ Len(queue') <= Capacity BY <1>12 DEF Restart
    <3>4. QED BY <3>1, <3>2, <3>3, <1>12, FileAssumption DEF Restart, Selecting
  <2>3. marked' \subseteq Files /\ runs' \in Nat BY <1>12 DEF Restart, IInv, TypeOK
  <2>4. QED BY <2>1, <2>2, <2>3, <1>12 DEF Restart, IInv, TypeOK
<1>13. QED BY <1>7, <1>9, <1>10, <1>11, <1>12
-----------------------------------------------------------------------------
\* Every step keeps the types.
LEMMA TypesStep == ASSUME IInv, Next PROVE TypeOK'
<1>1. CASE Scanning BY <1>1, ScanTypes
<1>2. CASE ReadStep \/ Quit \/ SinceDBStep \/ Stop \/ StopStep \/ Restart
  BY <1>2, OtherTypes
<1>3. QED BY <1>1, <1>2 DEF Next, Scanning

\* What the scanners do not touch.
LEMMA ScanFrame ==
  ASSUME Scanning
  PROVE  UNCHANGED <<sinceVars, reader, q, stopping, complete, marked, runs>>
BY DEF Scanning, ScanStep, Scan, LookInMap, LookInStorage, Keep, Push, PushUpTo, EndPush,
       DiscoverTick, DiscoverQuit, DiscoverWakes

\* No step lets an unfinished file be known, or held by a saver.
LEMMA SoundStep == ASSUME IInv, TypeOK', Next PROVE Sound'
<1> DEFINE K(f) == Size[f] # 0 /\ (f \in DOMAIN offsets \/ f \in DOMAIN stored)
<1>1. /\ \A f \in Files : Known(f) <=> K(f)
      /\ \A f \in Files : Known(f)' <=> K(f)'
  BY DEF IInv, TypeOK, Known, InMap, OffsetStored
<1>2. /\ \A f \in Files : K(f) => f \in complete
      /\ SaverSound
      /\ saver \in [Savers -> SaverType]
      /\ \A f \in DOMAIN offsets : f \in Files /\ offsets[f] = Size[f]
  BY <1>1 DEF IInv, Sound, KnownIsComplete, TypeOK
<1> DEFINE KC == \A f \in Files : K(f) => f \in complete
<1>3. KC' => KnownIsComplete' BY <1>1 DEF KnownIsComplete
<1> HIDE DEF K
<1>4. CASE Scanning
  BY <1>4, <1>2, <1>3, ScanFrame DEF SaverSound, Holds, Sound, sinceVars, K
<1>5. ASSUME NEW s \in Savers, SaveStep(s), UNCHANGED inputVars PROVE KC' /\ SaverSound'
  <2>1. CASE Visit(s)
    <3>1. UNCHANGED <<offsets, stored, complete>> BY <2>1, <1>5 DEF Visit, inputVars
    <3>2. SaverSound'
      <4>1. PICK r \in saver[s].todo : LET rest == saver[s].todo \ {r} IN
              saver' = [saver EXCEPT ![s] = IF InMap(r) THEN Holding(rest, r) ELSE Visiting(rest)]
        BY <2>1 DEF Visit
      <4>2. CASE InMap(r)
        <5>1. r \in Files /\ offsets[r] = Size[r] /\ (Size[r] # 0 => r \in complete)
          BY <4>2, <1>2 DEF InMap, K
        <5>2. QED BY <5>1, <4>1, <4>2, <3>1, <1>2 DEF SaverSound, Holds, Holding
      <4>3. CASE ~InMap(r)
        BY <4>1, <4>3, <3>1, <1>2 DEF SaverSound, Holds, Visiting
      <4>4. QED BY <4>2, <4>3
    <3>3. QED BY <3>1, <3>2, <1>2 DEF K
  <2>2. CASE SetStorage(s)
    <3>1. saver[s].key \in Files /\ (Size[saver[s].key] # 0 => saver[s].key \in complete)
      BY <2>2, <1>2 DEF SetStorage, SaverSound, Holds
    <3>2. DOMAIN stored' = DOMAIN stored \cup {saver[s].key} BY <2>2 DEF SetStorage, With
    <3>3. KC' BY <3>1, <3>2, <2>2, <1>2, <1>5 DEF SetStorage, inputVars, K
    <3>4. SaverSound'
      BY <3>2, <2>2, <1>2, <1>5 DEF SetStorage, SaverSound, Holds, SaverType, inputVars
    <3>5. QED BY <3>3, <3>4
  <2>3. CASE DeleteOffset(s)
    <3>1. DOMAIN offsets' \subseteq DOMAIN offsets BY <2>3 DEF DeleteOffset, Without
    <3>2. KC' BY <3>1, <2>3, <1>2, <1>5 DEF DeleteOffset, inputVars, K
    <3>3. SaverSound'
      BY <2>3, <1>2, <1>5 DEF DeleteOffset, SaverSound, Holds, Visiting, inputVars
    <3>4. QED BY <3>2, <3>3
  <2>4. CASE EndSave(s)
    BY <2>4, <1>2, <1>5 DEF EndSave, SaverSound, Holds, Idle, inputVars, K
  <2>5. QED BY <2>1, <2>2, <2>3, <2>4, <1>5 DEF SaveStep
<1>6. CASE SinceDBStep
  <2>1. CASE LooperTick /\ UNCHANGED inputVars
    BY <2>1, <1>2, <1>3 DEF LooperTick, BeginSave, Visiting, SaverSound, Holds, Sound, Savers, inputVars, K
  <2>2. CASE LooperQuit /\ UNCHANGED inputVars
    BY <2>2, <1>2, <1>3 DEF LooperQuit, SaverSound, Holds, Sound, inputVars, K
  <2>3. QED BY <2>1, <2>2, <1>3, <1>5, <1>6 DEF SinceDBStep, Sound
<1>7. CASE ReadStep \/ Quit
  <2>0. reader.pc = "read" => reader.file \in Files BY DEF IInv, TypeOK
  <2>1. complete \subseteq complete' /\ UNCHANGED <<saver, stored>>
    BY <1>7 DEF ReadStep, Take, Fail, SendRecord, EndOfFile, Mark, Quit, sinceVars
  <2>2. SaverSound' BY <2>1, <1>2 DEF SaverSound, Holds
  <2>3. KC'
    <3>1. CASE EndOfFile /\ reader.file \notin EofOnly
      <4>1. DOMAIN offsets' = DOMAIN offsets \cup {reader.file} /\ reader.file \in complete'
        BY <3>1 DEF EndOfFile, Mark, SetRessourceOffset, With
      <4>2. QED BY <4>1, <2>1, <1>2 DEF K
    <3>2. CASE ~(EndOfFile /\ reader.file \notin EofOnly)
      <4>1. UNCHANGED offsets
        BY <3>2, <1>7 DEF ReadStep, Take, Fail, SendRecord, EndOfFile, Quit, sinceVars
      <4>2. QED BY <4>1, <2>1, <1>2 DEF K
    <3>3. QED BY <3>1, <3>2
  <2>4. QED BY <2>2, <2>3, <1>3 DEF Sound
<1>8. CASE Stop
  BY <1>8, <1>2, <1>3 DEF Stop, SaverSound, Holds, Sound, sinceVars, K
<1>9. CASE StopStep
  <2>1. CASE CloseDB
    <3>1. UNCHANGED <<offsets, stored, complete>> BY <2>1 DEF CloseDB, Close
    <3>2. SaverSound'
      <4>1. CASE DryRun
        BY <4>1, <3>1, <2>1, <1>2
        DEF CloseDB, Close, SaverSound, Holds, Savers, SaverType
      <4>2. CASE ~DryRun
        BY <4>2, <3>1, <2>1, <1>2
        DEF CloseDB, Close, BeginSave, Visiting, SaverSound, Holds, Savers
      <4>3. QED BY <4>1, <4>2
    <3>3. QED BY <3>1, <3>2, <1>2, <1>3 DEF K, Sound
  <2>2. CASE StopReturn
    BY <2>2, <1>2, <1>3 DEF StopReturn, SaverSound, Holds, Sound, sinceVars, K
  <2>3. QED BY <2>1, <2>2, <1>9 DEF StopStep
<1>10. CASE Restart
  BY <1>10, <1>2, <1>3 DEF Restart, Idle, SaverSound, Holds, Sound, K
<1>11. QED BY <1>4, <1>6, <1>7, <1>8, <1>9, <1>10 DEF Next, Scanning
-----------------------------------------------------------------------------
\* An offset leaves the map only when it is in the storage, and never leaves the
\* storage.
LEMMA OffsetsStay ==
  ASSUME IInv, TypeOK', Next, ~Restart
  PROVE  /\ DOMAIN stored \subseteq DOMAIN stored'
         /\ DOMAIN offsets \subseteq DOMAIN offsets' \cup DOMAIN stored'
<1>1. CASE Scanning BY <1>1, ScanFrame DEF sinceVars
<1>2. ASSUME NEW s \in Savers, SaveStep(s)
      PROVE  /\ DOMAIN stored \subseteq DOMAIN stored'
             /\ DOMAIN offsets \subseteq DOMAIN offsets' \cup DOMAIN stored'
  <2>1. CASE Visit(s) BY <2>1 DEF Visit
  <2>2. CASE SetStorage(s) BY <2>2 DEF SetStorage, With
  <2>3. CASE DeleteOffset(s)
    <3>1. saver[s].key \in DOMAIN stored
      BY <2>3 DEF DeleteOffset, IInv, Sound, SaverSound
    <3>2. QED BY <3>1, <2>3 DEF DeleteOffset, Without
  <2>4. CASE EndSave(s) BY <2>4 DEF EndSave
  <2>5. QED BY <2>1, <2>2, <2>3, <2>4, <1>2 DEF SaveStep
<1>3. CASE SinceDBStep BY <1>2, <1>3 DEF SinceDBStep, LooperTick, LooperQuit
<1>4. CASE ReadStep \/ Quit
  BY <1>4 DEF ReadStep, Take, Fail, SendRecord, EndOfFile, Mark, SetRessourceOffset, With, Quit, sinceVars
<1>5. CASE Stop \/ StopStep
  BY <1>5 DEF Stop, StopStep, CloseDB, Close, StopReturn, sinceVars
<1>6. QED BY <1>1, <1>3, <1>4, <1>5 DEF Next, Scanning

\* A marked file stays known, also to a scan between its two lookups.
LEMMA KeptStep == ASSUME IInv, TypeOK', Next PROVE Kept'
<1> DEFINE Have(f) == f \in DOMAIN offsets \/ f \in DOMAIN stored
           MarkedHere == \A f \in marked : f \in Files /\ Size[f] # 0 /\ Have(f)
           KnewStored == \A s \in Scanners : At(s, "storage") =>
             /\ scanner[s].at \in Files
             /\ scanner[s].knew => scanner[s].at \in DOMAIN stored /\ Size[scanner[s].at] # 0
<1>1. MarkedHere /\ KnewStored
  BY DEF IInv, Kept, StorageAt, MarkedNotEmpty, MarkedIsKnown, TypeOK, Known, InMap, OffsetStored
<1>2. MarkedHere' /\ KnewStored' => Kept'
  BY DEF Kept, StorageAt, MarkedNotEmpty, MarkedIsKnown, TypeOK, Known, InMap, OffsetStored
<1>3. CASE Scanning
  <2>1. MarkedHere' BY <1>3, <1>1, ScanFrame DEF sinceVars
  <2>2. KnewStored'
    <3>0. /\ UNCHANGED stored
          /\ scanner \in [Scanners -> ScannerType]
          /\ N \in Nat
      BY <1>3, ScanFrame, FileAssumption DEF sinceVars, IInv, TypeOK
    <3>1. ASSUME NEW s \in Scanners, LookInMap(s) PROVE KnewStored'
      <4>1. CASE InMap(scanner[s].at)
        BY <4>1, <3>0, <3>1, <1>1 DEF LookInMap, Judged, At
      <4>2. CASE ~InMap(scanner[s].at)
        <5>1. scanner' = [scanner EXCEPT ![s] =
                [scanner[s] EXCEPT !.pc = "storage", !.knew = scanner[s].at \in marked]]
          BY <4>2, <3>1 DEF LookInMap
        <5>2. scanner[s] \in ScannerType BY <3>0
        <5>3. /\ scanner'[s].at = scanner[s].at
              /\ scanner'[s].knew = (scanner[s].at \in marked)
          BY <5>1, <5>2, <3>0 DEF ScannerType
        <5>4. scanner[s].at \in Files BY <5>2, <3>0, <3>1 DEF ScannerType, LookInMap, Files
        <5>5. scanner'[s].knew => scanner[s].at \in DOMAIN stored /\ Size[scanner[s].at] # 0
          BY <5>3, <4>2, <1>1 DEF InMap
        <5>6. \A t \in Scanners \ {s} : scanner'[t] = scanner[t] BY <5>1, <3>0
        <5>7. QED BY <5>3, <5>4, <5>5, <5>6, <3>0, <1>1 DEF At
      <4>3. QED BY <4>1, <4>2
    <3>2. ASSUME NEW s \in Scanners, LookInStorage(s) PROVE KnewStored'
      BY <3>0, <3>2, <1>1 DEF LookInStorage, Judged, At
    <3>3. ASSUME NEW s \in Scanners, Scan(s) \/ Keep(s) \/ EndPush(s) PROVE KnewStored'
      BY <3>0, <3>3, <1>1 DEF Scan, Keep, EndPush, Resting, At
    <3>4. ASSUME NEW s \in Scanners, Push(s) PROVE KnewStored'
      BY <3>0, <3>4, <1>1 DEF Push, PushUpTo, At, ScannerType
    <3>5. CASE DiscoverTick \/ DiscoverQuit
      <4>1. PICK pc \in {"idle", "gone"} :
              scanner' = [scanner EXCEPT !["discover"].pc = pc]
        BY <3>5 DEF DiscoverTick, DiscoverQuit, DiscoverWakes
      <4>2. \A s \in Scanners : scanner'[s] = scanner[s] \/ scanner'[s].pc \in {"idle", "gone"}
        BY <4>1, <3>0 DEF ScannerType, Scanners
      <4>3. QED BY <4>2, <3>0, <1>1 DEF At
    <3>6. QED BY <3>1, <3>2, <3>3, <3>4, <3>5, <1>3 DEF Scanning, ScanStep
  <2>3. QED BY <2>1, <2>2, <1>2
<1>4. CASE Restart
  <2>1. MarkedHere'
    BY <1>4 DEF Restart, OffsetStored, IInv, TypeOK
  <2>2. KnewStored' BY <1>4 DEF Restart, Fresh, Resting, At
  <2>3. QED BY <2>1, <2>2, <1>2
<1>5. CASE EndOfFile /\ reader.file \notin EofOnly
  <2>1. /\ DOMAIN offsets' = DOMAIN offsets \cup {reader.file}
        /\ UNCHANGED <<stored, scanner>> /\ reader.file \in Files
        /\ marked' = IF Size[reader.file] = 0 THEN marked ELSE marked \cup {reader.file}
    BY <1>5 DEF EndOfFile, Mark, SetRessourceOffset, With, IInv, TypeOK
  <2>2. QED BY <2>1, <1>1, <1>2 DEF At
<1> DEFINE Other == \/ Quit \/ SinceDBStep \/ Stop \/ StopStep
                    \/ Take \/ Fail \/ SendRecord
                    \/ (EndOfFile /\ reader.file \in EofOnly)
<1>6. CASE Other /\ ~Restart
  <2>1. UNCHANGED <<marked, scanner>>
    BY <1>6 DEF Quit, SinceDBStep, inputVars, Stop, StopStep, CloseDB, StopReturn, Take, Fail,
                SendRecord, EndOfFile
  <2>2. /\ DOMAIN stored \subseteq DOMAIN stored'
        /\ DOMAIN offsets \subseteq DOMAIN offsets' \cup DOMAIN stored'
    BY <1>6, OffsetsStay
  <2>3. QED BY <2>1, <2>2, <1>1, <1>2 DEF At
<1>7. QED BY <1>3, <1>4, <1>5, <1>6 DEF Next, Scanning, ReadStep
-----------------------------------------------------------------------------
\* From Close on no file is marked, and the closer passes by every offset.
LEMMA StoppedStep == ASSUME IInv, TypeOK', Next PROVE Stopped'
<1>0. /\ Phases /\ QuietAfterStop /\ Covered
      /\ saver \in [Savers -> SaverType] /\ reader.pc \in {"select", "read", "gone"}
      /\ "closer" \in Savers /\ "looper" \in Savers
      /\ stopping \in {"no", "closing", "saving", "done"}
  BY DEF IInv, Stopped, TypeOK, Savers
<1>1. ASSUME UNCHANGED <<q, stopping, stored, saver, marked>>, reader.pc # "gone" \/ UNCHANGED reader,
             reader'.pc = "gone" => UNCHANGED reader
      PROVE  Stopped'
  BY <1>0, <1>1 DEF Stopped, Phases, QuietAfterStop, Covered
<1>2. CASE Scanning
  BY <1>2, <1>0, <1>1, ScanFrame DEF sinceVars
<1>3. ASSUME NEW s \in Savers, SaveStep(s), UNCHANGED inputVars PROVE Stopped'
  <2>0. UNCHANGED <<reader, q, stopping, marked>> BY <1>3 DEF inputVars
  <2>1. CASE Visit(s)
    <3>1. PICK r \in saver[s].todo : LET rest == saver[s].todo \ {r} IN
            saver' = [saver EXCEPT ![s] = IF InMap(r) THEN Holding(rest, r) ELSE Visiting(rest)]
      BY <2>1 DEF Visit
    <3>2. Phases' /\ QuietAfterStop'
      BY <1>0, <2>0, <2>1, <3>1 DEF Visit, Holding, Visiting, Phases, QuietAfterStop, Savers
    <3>3. Covered'
      <4>1. SUFFICES ASSUME stopping \in {"saving", "done"}, ~DryRun, NEW f \in marked
                     PROVE  \/ f \in DOMAIN stored
                            \/ f \in saver'["closer"].todo
                            \/ saver'["closer"].pc = "set" /\ saver'["closer"].key = f
        BY <2>0, <2>1 DEF Covered, Visit
      <4>2. CASE s = "looper"
        BY <4>1, <4>2, <1>0, <3>1 DEF Covered
      <4>3. CASE s = "closer" /\ f = r
        <5>1. InMap(f) \/ f \in DOMAIN stored
          BY <4>1 DEF IInv, Kept, MarkedIsKnown, Known, OffsetStored
        <5>2. QED BY <5>1, <4>3, <1>0, <3>1 DEF Holding
      <4>4. CASE s = "closer" /\ f # r
        <5>1. f \in DOMAIN stored \/ f \in saver["closer"].todo
          BY <4>1, <4>4, <2>1, <1>0 DEF Covered, Visit
        <5>2. QED BY <5>1, <4>4, <1>0, <3>1 DEF Holding, Visiting
      <4>5. QED BY <4>2, <4>3, <4>4 DEF Savers
    <3>4. QED BY <3>2, <3>3 DEF Stopped
  <2>2. CASE SetStorage(s)
    <3>1. DOMAIN stored' = DOMAIN stored \cup {saver[s].key}
      BY <2>2 DEF SetStorage, With
    <3>2. saver' = [saver EXCEPT ![s] = [saver[s] EXCEPT !.pc = "delete"]] /\ saver[s].pc = "set"
      BY <2>2 DEF SetStorage
    <3>3. Phases' /\ QuietAfterStop'
      BY <1>0, <2>0, <3>2 DEF Phases, QuietAfterStop, Savers, SaverType
    <3>4. Covered'
      BY <1>0, <2>0, <3>1, <3>2 DEF Covered, Savers, SaverType
    <3>5. QED BY <3>3, <3>4 DEF Stopped
  <2>3. CASE DeleteOffset(s)
    <3>1. /\ UNCHANGED stored /\ saver[s].pc = "delete"
          /\ saver' = [saver EXCEPT ![s] = Visiting(saver[s].todo)]
      BY <2>3 DEF DeleteOffset
    <3>2. Phases' /\ QuietAfterStop'
      BY <1>0, <2>0, <3>1 DEF Phases, QuietAfterStop, Visiting, Savers
    <3>3. Covered'
      BY <1>0, <2>0, <3>1 DEF Covered, Visiting, Savers
    <3>4. QED BY <3>2, <3>3 DEF Stopped
  <2>4. CASE EndSave(s)
    <3>1. /\ UNCHANGED stored /\ saver[s].pc = "visit" /\ saver[s].todo = {}
          /\ saver' = [saver EXCEPT ![s] = IF s = "closer" THEN [Idle EXCEPT !.pc = "done"] ELSE Idle]
      BY <2>4 DEF EndSave
    <3>2. Phases' /\ QuietAfterStop'
      BY <1>0, <2>0, <3>1 DEF Phases, QuietAfterStop, Idle, Savers
    <3>3. Covered'
      BY <1>0, <2>0, <3>1 DEF Covered, Idle, Savers
    <3>4. QED BY <3>2, <3>3 DEF Stopped
  <2>5. QED BY <2>1, <2>2, <2>3, <2>4, <1>3 DEF SaveStep
<1>4. CASE SinceDBStep
  <2>1. CASE LooperTick /\ UNCHANGED inputVars
    BY <2>1, <1>0 DEF LooperTick, BeginSave, Visiting, inputVars, Stopped, Phases, QuietAfterStop,
                      Covered, Savers
  <2>2. CASE LooperQuit /\ UNCHANGED inputVars
    BY <2>2, <1>0 DEF LooperQuit, inputVars, Stopped, Phases, QuietAfterStop, Covered
  <2>3. QED BY <2>1, <2>2, <1>3, <1>4 DEF SinceDBStep
<1>5. CASE ReadStep
  <2>1. /\ reader.pc # "gone" /\ reader'.pc # "gone"
        /\ UNCHANGED <<q, stopping, saver, stored>>
    <3>1. UNCHANGED <<q, stopping, saver, stored>>
      BY <1>5 DEF ReadStep, Take, Fail, SendRecord, EndOfFile, Mark, sinceVars
    <3>2. reader.pc # "gone" BY <1>5 DEF ReadStep, Take, Fail, SendRecord, EndOfFile
    <3>3. reader \in [pc : {"select", "read", "gone"}, file : 0..N, n : Nat] BY DEF IInv, TypeOK
    <3>4. CASE Take BY <3>1, <3>2, <3>4 DEF Take
    <3>5. CASE Fail \/ SendRecord \/ EndOfFile
      <4>1. reader'.pc \in {"select", "read"}
        BY <3>3, <3>5 DEF Fail, SendRecord, EndOfFile, Selecting
      <4>2. QED BY <4>1, <3>1, <3>2
    <3>6. QED BY <3>1, <3>2, <3>4, <3>5, <1>5 DEF ReadStep
  <2>2. stopping \notin {"saving", "done"} BY <2>1, <1>0 DEF QuietAfterStop
  <2>3. QED BY <2>1, <2>2, <1>0 DEF Stopped, Phases, QuietAfterStop, Covered
<1>6. CASE Quit
  <2>1. reader'.pc = "gone" /\ UNCHANGED <<stopping, saver, stored, marked>>
    BY <1>6 DEF Quit, sinceVars, IInv, TypeOK
  <2>2. QED BY <2>1, <1>0 DEF Stopped, Phases, QuietAfterStop, Covered
<1>7. CASE Stop
  BY <1>7, <1>0 DEF Stop, Stopped, Phases, QuietAfterStop, Covered, sinceVars
<1>8. CASE CloseDB
  <2>0. /\ stopping' = "saving" /\ stopping = "closing" /\ q /\ reader.pc = "gone"
        /\ UNCHANGED <<reader, q, marked, stored>>
    BY <1>8, <1>0 DEF CloseDB, Close, Phases
  <2>1. CASE DryRun
    BY <2>0, <2>1, <1>8, <1>0
    DEF CloseDB, Close, Stopped, Phases, QuietAfterStop, Covered, Savers, SaverType
  <2>2. CASE ~DryRun
    <3>1. saver' = [saver EXCEPT !["closer"] = Visiting(DOMAIN offsets)]
      BY <2>2, <1>8 DEF CloseDB, Close, BeginSave
    <3>2. \A f \in marked : f \in DOMAIN offsets \/ f \in DOMAIN stored
      BY DEF IInv, Kept, MarkedIsKnown, Known, InMap, OffsetStored
    <3>3. QED
      BY <2>0, <3>1, <3>2, <1>0 DEF Visiting, Stopped, Phases, QuietAfterStop, Covered, Savers
  <2>3. QED BY <2>1, <2>2
<1>9. CASE StopReturn
  BY <1>9, <1>0 DEF StopReturn, Stopped, Phases, QuietAfterStop, Covered, sinceVars
<1>10. CASE Restart
  BY <1>10 DEF Restart, Idle, Stopped, Phases, QuietAfterStop, Covered, Savers
<1>11. QED
  BY <1>2, <1>4, <1>5, <1>6, <1>7, <1>8, <1>9, <1>10 DEF Next, Scanning, StopStep
-----------------------------------------------------------------------------
\* The invariant holds in every reachable state, for any files and codecs.
THEOREM Invariance == Spec => []IInv
<1>1. Init => IInv BY InitHolds
<1>2. IInv /\ [Next]_vars => IInv'
  <2>1. ASSUME IInv, Next PROVE IInv'
    BY <2>1, TypesStep, SoundStep, KeptStep, StoppedStep DEF IInv
  <2>2. ASSUME IInv, UNCHANGED vars PROVE IInv'
    BY <2>2 DEF vars, sinceVars, inputVars, IInv, TypeOK, Sound, SaverSound, Holds, KnownIsComplete,
                Known, InMap, OffsetStored, Kept, StorageAt, MarkedNotEmpty, MarkedIsKnown, At,
                Stopped, Phases, QuietAfterStop, Covered
  <2>3. QED BY <2>1, <2>2
<1>3. QED BY <1>1, <1>2, PTL DEF Spec

\* The state keeps its types; filestoWatch never holds more than its capacity.
THEOREM TypeCorrect == Spec => []TypeOK
BY Invariance, PTL DEF IInv

\* A file is never skipped, in this or a later process, before all of its
\* records were sent.
THEOREM ReadAtLeastOnce == Spec => []KnownIsComplete
<1>1. IInv => KnownIsComplete BY DEF IInv, Sound
<1>2. QED BY <1>1, Invariance, PTL

\* A file this process marked is never read again by it.
THEOREM MarkedStaysKnown == Spec => []MarkedIsKnown
<1>1. IInv => MarkedIsKnown BY DEF IInv, Kept
<1>2. QED BY <1>1, Invariance, PTL

\* A stop that returned has saved every mark.
THEOREM StopSaves == Spec => []StoppedIsSaved
<1>1. IInv => StoppedIsSaved
  <2>1. SUFFICES ASSUME IInv, stopping = "done", ~DryRun, NEW f \in marked
                 PROVE  OffsetStored(f) # 0
    BY DEF StoppedIsSaved
  <2>2. f \in DOMAIN stored
    BY <2>1 DEF IInv, Stopped, Phases, Covered
  <2>3. stored[f] = Size[f] /\ Size[f] # 0
    BY <2>1, <2>2 DEF IInv, TypeOK, Kept, MarkedNotEmpty
  <2>4. QED BY <2>2, <2>3 DEF OffsetStored
<1>2. QED BY <1>1, Invariance, PTL

\* Nothing is sent once the stop has begun to close the database.
THEOREM QuietStop == Spec => []QuietAfterStop
<1>1. IInv => QuietAfterStop BY DEF IInv, Stopped
<1>2. QED BY <1>1, Invariance, PTL
=============================================================================
