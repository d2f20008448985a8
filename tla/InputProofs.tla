---------------------------- MODULE InputProofs ----------------------------
(***************************************************************************)
(* The safety properties of the inputs of Components, for any number of    *)
(* lines, messages, shippers, requests and inputs.                         *)
(***************************************************************************)
EXTENDS Components, TLAPS

(***************************************************************************)
(* The tail input.                                                         *)
(***************************************************************************)
TailRecords ==
  [main : {"none", "start", "range", "write", "done"},
   tailer : {"none", "seek", "read", "send", "check", "ending", "gone"},
   decoder : {"none", "read", "send", "tell", "set", "gone"}, dying : BOOLEAN,
   from : Nat, pos : Nat, line : Nat, record : Nat, told : Nat, last : Nat]
RunRecords ==
  [life : {"running", "stopping", "closing", "stopped"}, nr : 1..MaxLives,
   discoverer : {"scan", "wait", "gone"}, watched : BOOLEAN]
SaverRecords == [pc : {"idle", "visit", "set", "delete", "done"}, todo : SUBSET {Path}, key : {0, Path}, value : Nat]
Marks(f) == DOMAIN f \subseteq {Path} /\ \A r \in DOMAIN f : f[r] \in Nat

TailTyped == lines \in Nat /\ tail \in TailRecords /\ run \in RunRecords
SinceTyped ==
  /\ saver \in [Savers -> SaverRecords] /\ Marks(offsets) /\ Marks(stored)
  /\ \A s \in Savers : saver[s].pc \in {"set", "delete"} => saver[s].key = Path

\* Which goroutines of the file there are, and what Stop has begun.
Threads ==
  /\ tail.main \in {"none", "start"} <=> tail.tailer = "none"
  /\ tail.decoder = "none" <=> tail.tailer = "none"
  /\ tail.tailer = "seek" => tail.main = "range" /\ tail.decoder = "read"
  /\ tail.dying => run.life # "running"
  /\ tail.tailer \in {"ending", "gone"} => tail.dying
  /\ run.life = "running" => saver["closer"].pc = "idle"
  /\ ~run.watched => tail.main = "none"

\* Before the reading begins nothing of this life is recorded.
Unread == tail.tailer \in {"none", "seek"}
Nothing == DOMAIN offsets = {} /\ \A s \in Savers : saver[s].todo = {} /\ saver[s].pc # "set" /\ saver[s].value = 0
Fresh ==
  /\ Unread => Nothing /\ tail.told = 0
  /\ tail.tailer = "seek" => tail.from = OffsetStored(Path)

\* The lines in the hands of the decoder, tailFile and the tailer follow each
\* other.
AtDecoder == IF tail.decoder = "send" THEN tail.record ELSE tail.last
AtMain == IF tail.main = "write" THEN tail.line ELSE AtDecoder
InLine ==
  ~Unread /\ tail.decoder # "gone" =>
    /\ tail.decoder = "send" => tail.record = tail.last + 1
    /\ tail.main = "write" => tail.line = AtDecoder + 1
    /\ tail.pos = IF tail.tailer = "send" THEN AtMain + 1 ELSE AtMain

\* On its way from the tailer over the decoder, the map and the saver into the
\* storage, a position follows those it was before.
Above(v) ==
  /\ OffsetStored(Path) <= v
  /\ saver["looper"].pc = "set" => saver["looper"].value <= v
Trail ==
  run.life = "running" =>
    /\ saver["looper"].pc = "set" => OffsetStored(Path) <= saver["looper"].value
    /\ InMap(Path) => Above(offsets[Path])
    /\ tail.decoder = "set" => Above(tail.told) /\ (InMap(Path) => offsets[Path] <= tail.told)
    /\ ~Unread => /\ Above(tail.pos) /\ (InMap(Path) => offsets[Path] <= tail.pos)
                  /\ tail.decoder = "set" => tail.told <= tail.pos

Ahead(v) == v <= tail.last + 2
Within ==
  /\ \A r \in DOMAIN offsets : Ahead(offsets[r])
  /\ \A r \in DOMAIN stored : Ahead(stored[r])
  /\ \A s \in Savers : Ahead(saver[s].value)
  /\ Ahead(tail.told)

TailInv == TailTyped /\ SinceTyped /\ Threads /\ Fresh /\ InLine /\ Trail /\ Within

LEMMA TailInit == ASSUME InputBounds, TLInit PROVE TailInv
<1> USE DEF TLInit, NewSinceDB, Savers, Idle, Untouched
<1>1. TailTyped BY DEF InputBounds, TailTyped, TailRecords, RunRecords
<1>2. SinceTyped BY DEF SinceTyped, SaverRecords, Marks
<1>3. Threads /\ Fresh /\ InLine
  BY DEF Threads, Fresh, Unread, Nothing, InLine
<1>4. Trail /\ Within BY DEF Trail, Unread, InMap, Within, Ahead, Above
<1>5. QED BY <1>1, <1>2, <1>3, <1>4 DEF TailInv

\* What does not touch the SinceDB.
LEMMA SinceStays == ASSUME SinceTyped, UNCHANGED sinceVars
                    PROVE  /\ SinceTyped' /\ offsets' = offsets /\ stored' = stored /\ saver' = saver
                           /\ Nothing' = Nothing /\ OffsetStored(Path)' = OffsetStored(Path) /\ InMap(Path)' = InMap(Path)
<1>1. offsets' = offsets /\ stored' = stored /\ saver' = saver BY DEF sinceVars
<1>2. SinceTyped' BY <1>1 DEF SinceTyped, Marks
<1>3. Nothing' = Nothing BY <1>1 DEF Nothing
<1>4. QED BY <1>1, <1>2, <1>3 DEF OffsetStored, InMap

\* tailFile asks for the offset, and the tailer goes there.
LEMMA TailOpens == ASSUME TailInv, Open PROVE TailInv'
<1>1. /\ tail \in TailRecords /\ tail.main = "start" /\ lines' = lines /\ run' = run /\ SinceTyped
      /\ tail.tailer = "none" /\ tail.decoder = "none" /\ Nothing /\ tail.told = 0 /\ UNCHANGED sinceVars
  BY DEF Open, TailInv, TailTyped, Threads, Fresh, Unread
<1>2. ~InMap(Path) BY <1>1 DEF Nothing, InMap
<1> DEFINE f == OffsetStored(Path)
<1>3. f \in Nat BY <1>1 DEF SinceTyped, Marks, OffsetStored
<1>4. tail' = [tail EXCEPT !.main = "range", !.tailer = "seek", !.decoder = "read", !.from = f]
  BY <1>2 DEF Open
<1>5. SinceTyped' /\ offsets' = offsets /\ stored' = stored /\ saver' = saver /\ Nothing' /\ OffsetStored(Path)' = f
  BY <1>1, SinceStays
<1> HIDE DEF f
<1>6. TailTyped' BY <1>1, <1>3, <1>4 DEF TailInv, TailTyped, TailRecords
<1>7. Threads' BY <1>1, <1>4, <1>5 DEF TailInv, Threads, TailRecords
<1>8. Fresh' BY <1>1, <1>4, <1>5 DEF Fresh, TailRecords
<1>9. InLine' BY <1>1, <1>4 DEF InLine, Unread, TailRecords
<1>10. Trail'
  <2>1. ~InMap(Path)' BY <1>2, <1>5 DEF InMap
  <2>2. saver'["looper"].pc # "set" BY <1>1, <1>5 DEF Nothing, Savers
  <2>3. tail'.decoder = "read" /\ Unread' BY <1>1, <1>4 DEF TailRecords, Unread
  <2>4. QED BY <2>1, <2>2, <2>3 DEF Trail
<1>11. Within'
  <2>1. tail'.last = tail.last /\ tail'.told = tail.told BY <1>1, <1>4 DEF TailRecords
  <2>2. QED BY <1>5, <2>1 DEF TailInv, Within, Ahead, Savers
<1>12. QED BY <1>5, <1>6, <1>7, <1>8, <1>9, <1>10, <1>11 DEF TailInv

LEMMA TailSeeks == ASSUME TailInv, Seek PROVE TailInv'
<1>1. /\ tail \in TailRecords /\ tail.tailer = "seek" /\ lines' = lines /\ run' = run /\ SinceTyped /\ lines \in Nat
      /\ tail.main = "range" /\ tail.decoder = "read" /\ Nothing /\ tail.told = 0 /\ tail.from = OffsetStored(Path)
      /\ UNCHANGED sinceVars
  BY DEF Seek, TailInv, TailTyped, Threads, Fresh, Unread
<1> DEFINE p == SeekTo
<1>2. p \in Nat /\ OffsetStored(Path) <= p
  BY <1>1 DEF SeekTo, SinceTyped, Marks, OffsetStored
<1>3. tail' = [tail EXCEPT !.tailer = "read", !.pos = p, !.last = p] BY DEF Seek
<1> HIDE DEF p
<1>4. /\ SinceTyped' /\ offsets' = offsets /\ stored' = stored /\ saver' = saver
      /\ Nothing' /\ OffsetStored(Path)' = OffsetStored(Path)
  BY <1>1, SinceStays
<1>5. /\ TailTyped' /\ tail'.tailer = "read" /\ tail'.pos = p /\ tail'.last = p /\ tail'.main = "range" /\ tail'.decoder = "read"
      /\ tail'.told = 0 /\ tail'.dying = tail.dying
  BY <1>1, <1>2, <1>3 DEF TailInv, TailTyped, TailRecords
<1>6. Threads' BY <1>1, <1>5, <1>4 DEF TailInv, Threads
<1>7. Fresh' BY <1>5 DEF Fresh, Unread
<1>8. InLine' BY <1>5 DEF InLine, AtMain, AtDecoder
<1>9. Trail'
  <2>1. ~InMap(Path)' BY <1>4 DEF InMap, Nothing
  <2>2. saver'["looper"].pc # "set" BY <1>4 DEF Nothing, Savers
  <2>3. QED BY <1>2, <1>4, <1>5, <2>1, <2>2 DEF Trail, Above
<1>10. Within'
  <2>1. \A r \in DOMAIN stored' : stored'[r] <= p
    <3>1. OffsetStored(Path)' <= p /\ DOMAIN stored' \subseteq {Path} BY <1>2, <1>4 DEF SinceTyped, Marks
    <3>2. QED BY <3>1 DEF OffsetStored
  <2>2. DOMAIN offsets' = {} /\ \A s \in Savers : saver'[s].value = 0 BY <1>4 DEF Nothing
  <2>3. \A r \in DOMAIN stored' : stored'[r] \in Nat BY <1>4 DEF SinceTyped, Marks
  <2>4. QED BY <1>2, <1>5, <2>1, <2>2, <2>3 DEF Within, Ahead, Savers
<1>11. QED BY <1>4, <1>5, <1>6, <1>7, <1>8, <1>9, <1>10 DEF TailInv

\* The decoder sends its line, and asks for the position.
LEMMA TailSends == ASSUME TailInv, DecoderSend PROVE TailInv'
<1>1. /\ tail \in TailRecords /\ tail.decoder = "send" /\ lines' = lines /\ run' = run /\ SinceTyped /\ Threads
      /\ ~Unread /\ tail.record = tail.last + 1 /\ UNCHANGED sinceVars
  BY DEF DecoderSend, TailInv, TailTyped, Threads, Fresh, Unread, InLine
<1>2. /\ SinceTyped' /\ offsets' = offsets /\ stored' = stored /\ saver' = saver
      /\ OffsetStored(Path)' = OffsetStored(Path) /\ InMap(Path)' = InMap(Path)
  BY <1>1, SinceStays
<1>3. /\ TailTyped' /\ tail'.decoder = "tell" /\ tail'.last = tail.record /\ tail'.main = tail.main /\ tail'.tailer = tail.tailer
      /\ tail'.told = tail.told /\ tail'.pos = tail.pos /\ tail'.line = tail.line /\ tail'.dying = tail.dying
  BY <1>1 DEF DecoderSend, TailInv, TailTyped, TailRecords
<1>4. Threads' /\ Unread' = Unread BY <1>1, <1>2, <1>3 DEF Threads, Unread
<1>5. Fresh' BY <1>1, <1>4, <1>3 DEF Fresh, Unread
<1>6. InLine' BY <1>1, <1>3, <1>4 DEF TailInv, InLine, AtMain, AtDecoder
<1>7. Trail' BY <1>1, <1>2, <1>3, <1>4 DEF TailInv, Trail, Above
<1>8. Within'
  <2>1. tail.last \in Nat /\ tail'.last = tail.last + 1 BY <1>1, <1>3 DEF TailRecords
  <2>2. /\ \A r \in DOMAIN offsets : offsets[r] \in Nat
        /\ \A r \in DOMAIN stored : stored[r] \in Nat
        /\ \A s \in Savers : saver[s].value \in Nat
    BY <1>1 DEF SinceTyped, Marks, SaverRecords
  <2>3. tail.told \in Nat BY <1>1 DEF TailRecords
  <2>4. \A v \in Nat : v <= tail.last + 2 => v <= tail'.last + 2 BY <2>1
  <2>5. QED BY <1>2, <1>3, <2>2, <2>3, <2>4 DEF TailInv, Within, Ahead
<1>9. QED BY <1>2, <1>3, <1>4, <1>5, <1>6, <1>7, <1>8 DEF TailInv

LEMMA TailTells == ASSUME TailInv, DecoderTell PROVE TailInv'
<1>1. /\ tail \in TailRecords /\ tail.decoder = "tell" /\ lines' = lines /\ run' = run /\ SinceTyped /\ Threads
      /\ ~Unread /\ UNCHANGED sinceVars /\ InLine /\ Trail
  BY DEF DecoderTell, TailInv, TailTyped, Threads, Fresh, Unread
<1> DEFINE v == Tell
<1>2. v \in Nat /\ (v = 0 \/ v = tail.pos) /\ (tail.tailer # "gone" => v = tail.pos) BY <1>1 DEF Tell, TailRecords
<1>3. tail' = [tail EXCEPT !.decoder = "set", !.told = v] BY DEF DecoderTell
<1> HIDE DEF v
<1>4. /\ SinceTyped' /\ offsets' = offsets /\ stored' = stored /\ saver' = saver
      /\ OffsetStored(Path)' = OffsetStored(Path) /\ InMap(Path)' = InMap(Path)
  BY <1>1, SinceStays
<1>5. /\ TailTyped' /\ tail'.decoder = "set" /\ tail'.last = tail.last /\ tail'.main = tail.main /\ tail'.tailer = tail.tailer
      /\ tail'.told = v /\ tail'.pos = tail.pos /\ tail'.line = tail.line /\ tail'.dying = tail.dying
  BY <1>1, <1>2, <1>3 DEF TailInv, TailTyped, TailRecords
<1>6. Threads' /\ Unread' = Unread BY <1>1, <1>4, <1>5 DEF Threads, Unread
<1>7. Fresh' BY <1>1, <1>6, <1>5 DEF Fresh, Unread
<1>8. InLine' BY <1>1, <1>5, <1>6 DEF InLine, AtMain, AtDecoder
<1>9. Trail'
  <2>1. run.life = "running" => tail.tailer # "gone" BY <1>1 DEF Threads
  <2>2. tail.pos <= tail.pos BY <1>1 DEF TailRecords
  <2>3. QED BY <1>1, <1>2, <1>4, <1>5, <1>6, <2>1, <2>2 DEF Trail, Above
<1>10. Within'
  <2>1. tail.pos <= tail.last + 2 /\ tail.last \in Nat BY <1>1 DEF InLine, AtMain, AtDecoder, TailRecords
  <2>2. v <= tail.last + 2 BY <1>2, <2>1
  <2>3. QED BY <1>4, <1>5, <2>2 DEF TailInv, Within, Ahead
<1>11. QED BY <1>4, <1>5, <1>6, <1>7, <1>8, <1>9, <1>10 DEF TailInv

LEMMA TailReads == ASSUME TailInv, ReadLine PROVE TailInv'
<1>1. /\ tail \in TailRecords /\ tail.tailer = "read" /\ lines' = lines /\ run' = run /\ SinceTyped /\ Threads
      /\ ~Unread /\ UNCHANGED sinceVars /\ InLine /\ Trail
  BY DEF ReadLine, TailInv, TailTyped, Unread
<1>2. /\ SinceTyped' /\ offsets' = offsets /\ stored' = stored /\ saver' = saver
      /\ OffsetStored(Path)' = OffsetStored(Path) /\ InMap(Path)' = InMap(Path)
  BY <1>1, SinceStays
<1>3. PICK p \in {tail.pos, tail.pos + 1}, at \in {"send", "ending"} :
        /\ tail' = [tail EXCEPT !.tailer = at, !.pos = p]
        /\ at = "send" => p = tail.pos + 1
        /\ at = "ending" => p = tail.pos /\ tail.dying
  BY <1>1 DEF ReadLine, TailRecords
<1>4. /\ TailTyped' /\ tail'.decoder = tail.decoder /\ tail'.last = tail.last /\ tail'.main = tail.main /\ tail'.tailer = at
      /\ tail'.told = tail.told /\ tail'.pos = p /\ tail'.line = tail.line /\ tail'.dying = tail.dying /\ tail'.record = tail.record
  <2>1. p \in Nat BY <1>1 DEF TailRecords
  <2>2. tail' \in TailRecords BY <1>1, <1>3, <2>1 DEF TailRecords
  <2>3. QED BY <1>1, <1>3, <2>2 DEF TailInv, TailTyped, TailRecords
<1>5. Threads' /\ ~Unread' BY <1>1, <1>2, <1>3, <1>4 DEF Threads, Unread
<1>6. Fresh' BY <1>4, <1>5 DEF Fresh, Unread
<1>7. InLine' BY <1>1, <1>3, <1>4, <1>5 DEF InLine, AtMain, AtDecoder
<1>8. Trail'
  <2>1. tail.pos \in Nat /\ tail.told \in Nat /\ OffsetStored(Path) \in Nat /\ saver["looper"].value \in Nat
        /\ (InMap(Path) => offsets[Path] \in Nat)
    BY <1>1 DEF TailRecords, SinceTyped, OffsetStored, Marks, SaverRecords, Savers, InMap
  <2>2. tail.pos <= p BY <1>3, <2>1
  <2>3. QED BY <1>1, <1>2, <1>4, <1>5, <2>1, <2>2 DEF Trail, Above
<1>9. Within' BY <1>2, <1>4 DEF TailInv, Within, Ahead
<1>10. QED BY <1>2, <1>4, <1>5, <1>6, <1>7, <1>8, <1>9 DEF TailInv

LEMMA TailDecodes == ASSUME TailInv, Decode PROVE TailInv'
<1>1. /\ tail \in TailRecords /\ run' = run /\ lines' = lines /\ SinceTyped /\ UNCHANGED sinceVars
      /\ Threads /\ Fresh /\ InLine /\ Trail /\ tail.decoder = "read"
  BY DEF Decode, TailInv, TailTyped
<1>2. /\ SinceTyped' /\ offsets' = offsets /\ stored' = stored /\ saver' = saver /\ Nothing' = Nothing
      /\ OffsetStored(Path)' = OffsetStored(Path) /\ InMap(Path)' = InMap(Path)
  BY <1>1, SinceStays
<1>3. PICK m \in {"range", "done"}, d \in {"send", "gone"}, l \in {tail.record, tail.line} :
        /\ tail' = [tail EXCEPT !.main = m, !.decoder = d, !.record = l]
        /\ \/ tail.main = "write" /\ m = "range" /\ d = "send" /\ l = tail.line
           \/ tail.main \in {"write", "done"} /\ d = "gone"
  <2>1. tail.record = tail.record /\ [tail EXCEPT !.main = "range", !.decoder = "gone"]
          = [tail EXCEPT !.main = "range", !.decoder = "gone", !.record = tail.record]
        /\ (tail.main = "done" => [tail EXCEPT !.decoder = "gone"]
              = [tail EXCEPT !.main = "done", !.decoder = "gone", !.record = tail.record])
    BY <1>1 DEF TailRecords
  <2>2. CASE tail.main = "write" /\ tail' = [tail EXCEPT !.main = "range", !.decoder = "send", !.record = tail.line]
    BY <2>2
  <2>3. CASE tail.main = "write" /\ tail' = [tail EXCEPT !.main = "range", !.decoder = "gone"] BY <2>1, <2>3
  <2>4. CASE tail.main = "done" /\ tail' = [tail EXCEPT !.decoder = "gone"] BY <2>1, <2>4
  <2>5. QED BY <2>2, <2>3, <2>4 DEF Decode
<1>4. /\ tail' \in TailRecords /\ tail'.main = m /\ tail'.decoder = d /\ tail'.record = l /\ tail'.tailer = tail.tailer
      /\ tail'.dying = tail.dying /\ tail'.from = tail.from /\ tail'.pos = tail.pos /\ tail'.line = tail.line
      /\ tail'.told = tail.told /\ tail'.last = tail.last
  BY <1>1, <1>3 DEF TailRecords
<1>5. Threads' BY <1>1, <1>2, <1>3, <1>4 DEF Threads
<1>6. Fresh' BY <1>1, <1>2, <1>4 DEF Fresh, Unread
<1>7. InLine' BY <1>1, <1>3, <1>4 DEF InLine, AtMain, AtDecoder, Unread
<1>8. Trail' BY <1>1, <1>2, <1>3, <1>4 DEF Trail, Above, Unread
<1>9. Within' BY <1>2, <1>4 DEF TailInv, Within, Ahead
<1>10. TailTyped' BY <1>1, <1>4 DEF TailInv, TailTyped
<1>11. QED BY <1>2, <1>5, <1>6, <1>7, <1>8, <1>9, <1>10 DEF TailInv

\* The other steps of the goroutines that leave the map, the storage and the savers alone.
LEMMA TailGoroutines ==
  ASSUME TailInv, \/ Open \/ Seek \/ ReadLine \/ HandOver \/ CheckDying \/ CloseFile \/ TailStop \/ MainEnds
                  \/ Decode \/ DecoderSend \/ DecoderTell
  PROVE  TailInv'
<1> USE DEF TailTyped, TailRecords, TailInv, Threads, Fresh, InLine, Trail, Within, AtDecoder, AtMain, Unread, sinceVars,
           Nothing, OffsetStored, InMap, Above, Ahead, SinceTyped, Marks
<1>1. CASE HandOver BY <1>1 DEF HandOver
<1>2. CASE CheckDying BY <1>2 DEF CheckDying
<1>3. CASE CloseFile BY <1>3 DEF CloseFile
<1>4. CASE TailStop BY <1>4 DEF TailStop
<1>5. CASE MainEnds BY <1>5 DEF MainEnds
<1>6. QED BY <1>1, <1>2, <1>3, <1>4, <1>5, TailDecodes, TailReads, TailOpens, TailSeeks, TailSends, TailTells

LEMMA TailDiscovers == ASSUME TailInv, TLDiscover PROVE TailInv'
<1>1. /\ tail \in TailRecords /\ run \in RunRecords /\ lines' = lines /\ SinceTyped /\ Threads /\ Fresh
      /\ UNCHANGED sinceVars
  BY DEF TLDiscover, TailInv, TailTyped
<1>2. /\ SinceTyped' /\ offsets' = offsets /\ stored' = stored /\ saver' = saver /\ Nothing' = Nothing
      /\ OffsetStored(Path)' = OffsetStored(Path) /\ InMap(Path)' = InMap(Path)
  BY <1>1, SinceStays
<1>3. PICK w \in BOOLEAN, m \in {tail.main, "start"} :
        /\ run' = [run EXCEPT !.discoverer = "wait", !.watched = w] /\ tail' = [tail EXCEPT !.main = m]
        /\ m # tail.main => tail.main = "none"
        /\ ~w => m = "none"
  <2>1. ~run.watched => tail.main = "none" BY <1>1 DEF Threads
  <2>2. CASE /\ ~run.watched /\ tail' = [tail EXCEPT !.main = "start"]
             /\ run' = [run EXCEPT !.discoverer = "wait", !.watched = TRUE]
    BY <2>1, <2>2
  <2>3. CASE run' = [run EXCEPT !.discoverer = "wait"] /\ tail' = tail
    <3>1. run.watched \in BOOLEAN /\ [run EXCEPT !.discoverer = "wait"] = [run EXCEPT !.discoverer = "wait", !.watched = run.watched]
      BY <1>1 DEF RunRecords
    <3>2. tail = [tail EXCEPT !.main = tail.main] BY <1>1 DEF TailRecords
    <3>3. QED BY <2>1, <2>3, <3>1, <3>2
  <2>4. QED BY <2>2, <2>3 DEF TLDiscover
<1>4. /\ TailTyped' /\ tail'.decoder = tail.decoder /\ tail'.last = tail.last /\ tail'.main = m /\ tail'.tailer = tail.tailer
      /\ tail'.told = tail.told /\ tail'.pos = tail.pos /\ tail'.line = tail.line /\ tail'.dying = tail.dying
      /\ tail'.record = tail.record /\ tail'.from = tail.from
  BY <1>1, <1>3 DEF TailInv, TailTyped, TailRecords, RunRecords
<1>5. run'.life = run.life /\ run'.watched = w BY <1>1, <1>3 DEF RunRecords
<1>6. Threads' /\ Unread' = Unread BY <1>1, <1>2, <1>3, <1>4, <1>5 DEF Threads, Unread
<1>7. Fresh' BY <1>1, <1>2, <1>4, <1>6 DEF Fresh
<1>8. InLine'
  <2>1. (AtMain' = AtMain /\ AtDecoder' = AtDecoder) \/ Unread BY <1>1, <1>3, <1>4 DEF AtMain, AtDecoder, Unread, Threads
  <2>2. ~Unread => m = tail.main BY <1>1, <1>3 DEF Unread, Threads
  <2>3. QED BY <1>4, <1>6, <2>1, <2>2 DEF TailInv, InLine
<1>9. Trail' BY <1>2, <1>4, <1>5, <1>6 DEF TailInv, Trail, Above
<1>10. Within' BY <1>2, <1>4 DEF TailInv, Within, Ahead
<1>11. QED BY <1>2, <1>4, <1>6, <1>7, <1>8, <1>9, <1>10 DEF TailInv

\* What a new process finds is what the last one stored.
LEMMA TailRestarts == ASSUME InputBounds, TailInv, TLRestart PROVE TailInv'
<1>1. /\ tail \in TailRecords /\ run \in RunRecords /\ SinceTyped /\ lines \in Nat /\ lines' = lines
      /\ run.nr < MaxLives /\ tail.last \in Nat
  BY DEF TLRestart, TailInv, TailTyped, TailRecords
<1>2. /\ run' = [life |-> "running", nr |-> run.nr + 1, discoverer |-> "scan", watched |-> FALSE]
      /\ tail' = [Untouched EXCEPT !.last = tail.last]
      /\ offsets' = <<>> /\ saver' = [s \in Savers |-> Idle] /\ stored' = stored
  BY DEF TLRestart
<1>3. /\ tail' \in TailRecords /\ tail'.main = "none" /\ tail'.tailer = "none" /\ tail'.decoder = "none" /\ ~tail'.dying
      /\ tail'.told = 0 /\ tail'.last = tail.last
  BY <1>1, <1>2 DEF Untouched, TailRecords
<1>4. run.nr + 1 \in 1..MaxLives BY <1>1 DEF RunRecords, InputBounds
<1>5. run' \in RunRecords /\ run'.life = "running" /\ ~run'.watched BY <1>2, <1>4 DEF RunRecords
<1>6. \A s \in Savers : saver'[s] = Idle BY <1>2
<1>7. DOMAIN offsets' = {} BY <1>2
<1>8. SinceTyped'
  <2>1. Idle \in SaverRecords /\ Idle.pc = "idle" BY DEF Idle, SaverRecords
  <2>2. saver' \in [Savers -> SaverRecords] BY <1>2, <2>1
  <2>3. Marks(offsets') /\ Marks(stored') BY <1>1, <1>2, <1>7 DEF Marks, SinceTyped
  <2>4. QED BY <1>6, <2>1, <2>2, <2>3 DEF SinceTyped
<1>9. Idle.pc = "idle" /\ Idle.todo = {} /\ Idle.value = 0 BY DEF Idle
<1>10. Threads' BY <1>3, <1>5, <1>6, <1>9 DEF Threads, Savers
<1>11. Fresh' BY <1>3, <1>6, <1>7, <1>9 DEF Fresh, Nothing
<1>12. InLine' BY <1>3 DEF InLine, Unread
<1>13. Trail' BY <1>3, <1>6, <1>7, <1>9 DEF Trail, Unread, InMap, Savers
<1>14. Within' BY SMTT(60), <1>1, <1>2, <1>3, <1>6, <1>7, <1>9 DEF TailInv, Within, Ahead
<1>15. QED BY <1>1, <1>3, <1>5, <1>8, <1>10, <1>11, <1>12, <1>13, <1>14 DEF TailInv, TailTyped

\* A save begins: it has the keys of the map and no value.
LEMMA SaveBegins ==
  ASSUME SinceTyped, NEW s \in Savers, saver[s].pc = "idle", BeginSave(s), offsets' = offsets, stored' = stored
  PROVE  /\ SinceTyped' /\ saver'[s].pc = "visit" /\ saver'[s].value = 0 /\ saver'[s].todo = DOMAIN offsets
         /\ \A t \in Savers \ {s} : saver'[t] = saver[t]
<1> DEFINE new == Visiting(DOMAIN offsets)
<1>1. new \in SaverRecords /\ new.pc = "visit" /\ new.value = 0 /\ new.todo = DOMAIN offsets
  BY DEF SinceTyped, Marks, SaverRecords, Visiting
<1>2. saver' = [saver EXCEPT ![s] = new] BY DEF BeginSave
<1> HIDE DEF new
<1>3. saver' \in [Savers -> SaverRecords] /\ saver'[s] = new /\ \A t \in Savers \ {s} : saver'[t] = saver[t]
  BY <1>1, <1>2 DEF SinceTyped
<1>4. QED BY <1>1, <1>3 DEF SinceTyped, Marks

LEMMA TailCloses == ASSUME TailInv, TLClose PROVE TailInv'
<1>1. /\ tail \in TailRecords /\ run \in RunRecords /\ SinceTyped /\ lines' = lines /\ tail' = tail
      /\ run.life = "stopping" /\ saver["closer"].pc = "idle" /\ "closer" \in Savers
      /\ offsets' = offsets /\ stored' = stored /\ tail.main \in {"none", "done"}
  BY DEF TLClose, TailInv, TailTyped, Close, Closed, Savers
<1>2. run' \in RunRecords /\ run'.life = "closing" /\ run'.watched = run.watched BY <1>1 DEF TLClose, RunRecords
<1>3. /\ SinceTyped' /\ saver'["looper"] = saver["looper"] /\ saver'["closer"].pc \in {"visit", "done"}
      /\ saver'["closer"].value = saver["closer"].value \/ saver'["closer"].value = 0
      /\ saver'["closer"].todo = saver["closer"].todo \/ saver'["closer"].todo = DOMAIN offsets
  <2>1. CASE ~DryRun
    <3>1. BeginSave("closer") BY <2>1 DEF TLClose, Close
    <3>2. QED BY <1>1, <3>1, SaveBegins DEF Savers
  <2>2. CASE DryRun
    <3> DEFINE new == [saver["closer"] EXCEPT !.pc = "done"]
    <3>1. saver' = [saver EXCEPT !["closer"] = new] BY <2>2 DEF TLClose, Close
    <3>2. new \in SaverRecords /\ new.pc = "done" /\ new.value = saver["closer"].value /\ new.todo = saver["closer"].todo
      BY <1>1 DEF SinceTyped, SaverRecords
    <3> HIDE DEF new
    <3>3. /\ saver' \in [Savers -> SaverRecords] /\ saver'["closer"] = new /\ saver'["looper"] = saver["looper"]
      BY <1>1, <3>1, <3>2 DEF SinceTyped, Savers
    <3>4. QED BY <1>1, <3>2, <3>3 DEF SinceTyped, Marks, Savers
  <2>3. QED BY <2>1, <2>2
<1>4. TailTyped' /\ Unread' = Unread BY <1>1, <1>2 DEF TailInv, TailTyped, Unread
<1>5. Threads' BY <1>1, <1>2 DEF TailInv, Threads
<1>6. Fresh' BY <1>1, <1>3, <1>4 DEF TailInv, Fresh, Nothing, Savers, OffsetStored
<1>7. InLine' BY <1>1, <1>4 DEF TailInv, InLine, AtMain, AtDecoder
<1>8. Trail' BY <1>2 DEF Trail
<1>9. Within'
  <2>1. 0 <= tail.last + 2 BY <1>1 DEF TailRecords
  <2>2. QED BY <1>1, <1>3, <2>1 DEF TailInv, Within, Ahead, Savers
<1>10. QED BY <1>3, <1>4, <1>5, <1>6, <1>7, <1>8, <1>9 DEF TailInv

\* The processor turns, and its goroutines stay where they are.
LEMMA TailTurns ==
  ASSUME TailInv, run' \in RunRecords, UNCHANGED <<lines, tail, sinceVars>>, run'.watched = run.watched,
         run'.life = "running" => run.life = "running"
  PROVE  TailInv'
<1>1. /\ SinceTyped' /\ offsets' = offsets /\ stored' = stored /\ saver' = saver /\ Nothing' = Nothing
      /\ OffsetStored(Path)' = OffsetStored(Path) /\ InMap(Path)' = InMap(Path) /\ tail' = tail
  BY SinceStays DEF TailInv
<1>2. TailTyped' BY DEF TailInv, TailTyped
<1>3. Threads' BY <1>1 DEF TailInv, Threads
<1>4. Fresh' /\ InLine' BY <1>1 DEF TailInv, Fresh, InLine, Unread, AtMain, AtDecoder
<1>5. Trail' BY <1>1 DEF TailInv, Trail, Above, Unread
<1>6. Within' BY <1>1 DEF TailInv, Within, Ahead
<1>7. QED BY <1>1, <1>2, <1>3, <1>4, <1>5, <1>6 DEF TailInv

\* The steps of the discoverer, of Stop, of the file and of a restart.
LEMMA TailOthers ==
  ASSUME InputBounds, TailInv, Grow \/ TLDiscover \/ TLTick \/ TLQuit \/ TLStop \/ TLStopped \/ TLRestart \/ TLClose
  PROVE  TailInv'
<1>1. CASE Grow
  <2>1. lines' \in Nat /\ UNCHANGED <<run, tail, sinceVars>> BY <1>1 DEF Grow, TailInv, TailTyped
  <2>2. /\ SinceTyped' /\ offsets' = offsets /\ stored' = stored /\ saver' = saver /\ Nothing' = Nothing
        /\ OffsetStored(Path)' = OffsetStored(Path) /\ InMap(Path)' = InMap(Path) /\ tail' = tail
    BY <2>1, SinceStays DEF TailInv
  <2>3. TailTyped' /\ Threads' BY <2>1, <2>2 DEF TailInv, TailTyped, Threads
  <2>4. Fresh' /\ InLine' BY <2>1, <2>2 DEF TailInv, Fresh, InLine, Unread, AtMain, AtDecoder
  <2>5. Trail' BY <2>1, <2>2 DEF TailInv, Trail, Above, Unread
  <2>6. Within' BY <2>1, <2>2 DEF TailInv, Within, Ahead
  <2>7. QED BY <2>2, <2>3, <2>4, <2>5, <2>6 DEF TailInv
<1>2. run \in RunRecords BY DEF TailInv, TailTyped
<1>3. CASE TLTick \/ TLQuit
  <2>1. PICK d \in {"scan", "gone"} : run' = [run EXCEPT !.discoverer = d] BY <1>3 DEF TLTick, TLQuit
  <2>2. run' \in RunRecords /\ run'.watched = run.watched /\ run'.life = run.life BY <1>2, <2>1 DEF RunRecords
  <2>3. UNCHANGED <<lines, tail, sinceVars>> BY <1>3 DEF TLTick, TLQuit
  <2>4. QED BY <2>2, <2>3, TailTurns
<1>4. CASE TLStop \/ TLStopped
  <2>1. PICK l \in {"stopping", "stopped"} : run' = [run EXCEPT !.life = l] BY <1>4 DEF TLStop, TLStopped
  <2>2. run' \in RunRecords /\ run'.watched = run.watched /\ run'.life = l BY <1>2, <2>1 DEF RunRecords
  <2>3. UNCHANGED <<lines, tail, sinceVars>> BY <1>4 DEF TLStop, TLStopped
  <2>4. QED BY <2>2, <2>3, TailTurns
<1>5. QED BY <1>1, <1>3, <1>4, TailDiscovers, TailRestarts, TailCloses

\* A saver takes the mark it stored, or a newer one, out of the map.
LEMMA TailDeletes ==
  ASSUME TailInv, NEW s \in Savers, DeleteOffset(s), UNCHANGED <<lines, run, tail, past>>
  PROVE  TailInv'
<1> DEFINE new == Visiting(saver[s].todo)
<1>1. /\ tail \in TailRecords /\ SinceTyped /\ saver[s] \in SaverRecords /\ stored' = stored
      /\ saver[s].pc = "delete" /\ saver[s].key = Path /\ lines' = lines /\ run' = run /\ tail' = tail
  BY DEF TailInv, TailTyped, SinceTyped, DeleteOffset
<1>2. new \in SaverRecords /\ new.pc = "visit" /\ new.value = 0 /\ new.todo = saver[s].todo
  BY <1>1 DEF Visiting, SaverRecords
<1>3. saver' = [saver EXCEPT ![s] = new] BY DEF DeleteOffset
<1>4. DOMAIN offsets' = {}
  <2>1. DOMAIN offsets' = DOMAIN offsets \ {Path} BY <1>1 DEF DeleteOffset, Without
  <2>2. QED BY <1>1, <2>1 DEF SinceTyped, Marks
<1> HIDE DEF new
<1>5. saver' \in [Savers -> SaverRecords] /\ saver'[s] = new /\ \A t \in Savers \ {s} : saver'[t] = saver[t]
  BY <1>1, <1>2, <1>3 DEF SinceTyped
<1>6. SinceTyped' BY <1>1, <1>2, <1>4, <1>5 DEF SinceTyped, Marks
<1>7. TailTyped' /\ Unread' = Unread BY <1>1 DEF TailInv, TailTyped, Unread
<1>8. Threads'
  <2>1. saver'["closer"] = saver["closer"] \/ saver["closer"].pc = "delete" BY <1>1, <1>5 DEF Savers
  <2>2. QED BY <1>1, <2>1 DEF TailInv, Threads
<1>9. Fresh' BY <1>1, <1>2, <1>4, <1>5, <1>7 DEF TailInv, Fresh, Nothing, OffsetStored
<1>10. InLine' BY <1>1, <1>7 DEF TailInv, InLine, AtMain, AtDecoder
<1>11. Trail'
  <2>1. ~InMap(Path)' BY <1>4 DEF InMap
  <2>2. saver'["looper"].pc = "set" => saver'["looper"] = saver["looper"] BY <1>2, <1>5 DEF Savers
  <2>3. OffsetStored(Path)' = OffsetStored(Path) BY <1>1 DEF OffsetStored
  <2>4. QED BY <1>1, <1>7, <2>1, <2>2, <2>3 DEF TailInv, Trail, Above
<1>12. Within'
  <2>1. 0 <= tail.last + 2 BY <1>1 DEF TailRecords
  <2>2. QED BY <1>1, <1>2, <1>4, <1>5, <2>1 DEF TailInv, Within, Ahead
<1>13. QED BY <1>6, <1>7, <1>8, <1>9, <1>10, <1>11, <1>12 DEF TailInv

\* A saver takes the next mark of its list, if it is still in the map.
LEMMA TailVisits ==
  ASSUME TailInv, NEW s \in Savers, Visit(s), UNCHANGED <<lines, run, tail, past>>
  PROVE  TailInv'
<1>1. /\ saver \in [Savers -> SaverRecords] /\ saver[s].pc = "visit" /\ Marks(offsets)
      /\ offsets' = offsets /\ stored' = stored /\ UNCHANGED <<lines, run, tail>> /\ SinceTyped /\ Threads /\ Fresh
      /\ InLine /\ Trail /\ Within /\ tail \in TailRecords
  BY DEF Visit, TailInv, SinceTyped, TailTyped
<1>2. PICK r \in saver[s].todo :
        saver' = [saver EXCEPT ![s] = IF InMap(r) THEN Holding(saver[s].todo \ {r}, r) ELSE Visiting(saver[s].todo \ {r})]
  BY DEF Visit
<1>3. r = Path /\ saver[s].todo \ {r} \in SUBSET {Path} BY <1>1, <1>2 DEF SaverRecords
<1> DEFINE q == IF InMap(r) THEN Holding(saver[s].todo \ {r}, r) ELSE Visiting(saver[s].todo \ {r})
<1>4. /\ q \in SaverRecords /\ q.pc \in {"visit", "set"}
      /\ q.pc = "set" => InMap(Path) /\ q.key = Path /\ q.value = offsets[Path]
      /\ q.pc = "visit" => q.value = 0
  BY <1>1, <1>3 DEF Holding, Visiting, SaverRecords, InMap, Marks
<1>5. saver' = [saver EXCEPT ![s] = q] BY <1>2
<1> HIDE DEF q
<1>6. saver' \in [Savers -> SaverRecords] /\ saver'[s] = q /\ \A t \in Savers \ {s} : saver'[t] = saver[t] BY <1>1, <1>4, <1>5
<1>7. SinceTyped' BY <1>1, <1>4, <1>6 DEF SinceTyped
<1>8. ~Unread BY <1>1, <1>2 DEF Fresh, Nothing
<1>9. InMap(Path)' = InMap(Path) /\ Unread' = Unread /\ OffsetStored(Path)' = OffsetStored(Path)
  BY <1>1 DEF InMap, Unread, OffsetStored
<1>10. Threads' BY <1>1, <1>6 DEF Threads, Savers
<1>11. Fresh' /\ InLine' BY <1>1, <1>8, <1>9 DEF Fresh, InLine, Unread, AtMain, AtDecoder
<1>12. Trail'
  <2> SUFFICES ASSUME run.life = "running" PROVE Trail' BY <1>1 DEF Trail
  <2>1. s = "looper" /\ saver'["looper"] = q BY <1>1, <1>6 DEF Threads, Savers
  <2>2. OffsetStored(Path)' = OffsetStored(Path) BY <1>9
  <2>3. InMap(Path) => OffsetStored(Path) <= offsets[Path] BY <1>1 DEF Trail, Above
  <2>4. InMap(Path) => offsets[Path] \in Nat BY <1>1 DEF InMap, Marks
  <2>5. \A x : Above(x) /\ (InMap(Path) => offsets[Path] <= x) => Above(x)' BY <1>4, <2>1, <2>2 DEF Above
  <2>6. InMap(Path) => Above(offsets[Path]) /\ offsets[Path] <= offsets[Path] BY <1>1, <2>4 DEF Trail
  <2>7. InMap(Path) => Above(offsets[Path])' BY <1>1, <2>5, <2>6
  <2>8. QED BY <1>1, <1>4, <1>9, <2>1, <2>2, <2>3, <2>5, <2>7 DEF Trail
<1>13. Within'
  <2>1. tail.last \in Nat BY <1>1 DEF TailRecords
  <2>2. Ahead(q.value) BY <1>1, <1>4, <2>1 DEF Within, Ahead, InMap
  <2>3. QED BY <1>1, <1>6, <2>2 DEF Within, Ahead
<1>14. TailTyped' BY <1>1 DEF TailInv, TailTyped
<1>15. QED BY <1>7, <1>10, <1>11, <1>12, <1>13, <1>14 DEF TailInv

\* A saver stores the mark that it took.
LEMMA TailStores ==
  ASSUME TailInv, NEW s \in Savers, SetStorage(s), UNCHANGED <<lines, run, tail, past>>
  PROVE  TailInv'
<1>1. /\ saver \in [Savers -> SaverRecords] /\ saver[s].pc = "set" /\ saver[s].key = Path /\ Marks(stored)
      /\ stored' = With(stored, saver[s].key, saver[s].value) /\ saver' = [saver EXCEPT ![s].pc = "delete"]
      /\ offsets' = offsets /\ UNCHANGED <<lines, run, tail>> /\ SinceTyped /\ Threads /\ Fresh /\ InLine /\ Trail /\ Within
  BY DEF SetStorage, TailInv, SinceTyped
<1> DEFINE v == saver[s].value
<1>2. v \in Nat BY <1>1 DEF SaverRecords
<1>3. DOMAIN stored' \subseteq {Path} /\ Path \in DOMAIN stored' /\ \A x \in DOMAIN stored' : stored'[x] = v
  BY <1>1 DEF With, Marks
<1>4. OffsetStored(Path)' = v BY <1>3 DEF OffsetStored
<1> HIDE DEF v
<1>5. /\ saver' \in [Savers -> SaverRecords] /\ saver'[s].pc = "delete" /\ \A t \in Savers : saver'[t].value = saver[t].value
      /\ \A t \in Savers : saver'[t].key = saver[t].key /\ saver'[t].todo = saver[t].todo
      /\ \A t \in Savers \ {s} : saver'[t] = saver[t]
  BY <1>1 DEF SaverRecords
<1>6. SinceTyped' BY <1>1, <1>2, <1>3, <1>5 DEF SinceTyped, Marks
<1>7. ~Unread BY <1>1 DEF Fresh, Nothing
<1>8. InMap(Path)' = InMap(Path) /\ Unread' = Unread BY <1>1 DEF InMap, Unread
<1>9. s = "looper" \/ run.life # "running" BY <1>1 DEF Threads, Savers
<1>10. Threads'
  <2>1. run.life = "running" => saver'["closer"].pc = "idle" BY <1>1, <1>5, <1>9 DEF Threads, Savers
  <2>2. QED BY <1>1, <2>1 DEF Threads
<1>11. Fresh' /\ InLine' BY <1>1, <1>7, <1>8 DEF Fresh, InLine, Unread, AtMain, AtDecoder
<1>12. Trail'
  <2> SUFFICES ASSUME run.life = "running" PROVE Trail' BY <1>1 DEF Trail
  <2>1. s = "looper" /\ saver'["looper"].pc = "delete" BY <1>5, <1>9
  <2>2. v = saver["looper"].value BY <2>1 DEF v
  <2>3. \A x : Above(x) => Above(x)' BY <1>1, <1>4, <2>1, <2>2 DEF Above
  <2>4. QED BY <1>1, <1>7, <1>8, <2>1, <2>3 DEF Trail
<1>13. Within' BY <1>1, <1>3, <1>5 DEF Within, Ahead, v
<1>14. TailTyped' BY <1>1 DEF TailInv, TailTyped
<1>15. QED BY <1>6, <1>10, <1>11, <1>12, <1>13, <1>14 DEF TailInv

\* A saver is done with its list and has nothing in its hands.
LEMMA TailEndsSave ==
  ASSUME TailInv, NEW s \in Savers, EndSave(s), UNCHANGED <<lines, run, tail, past>>
  PROVE  TailInv'
<1> DEFINE new == IF s = "closer" THEN [Idle EXCEPT !.pc = "done"] ELSE Idle
<1>1. /\ tail \in TailRecords /\ SinceTyped /\ saver[s].pc = "visit" /\ saver' = [saver EXCEPT ![s] = new]
      /\ offsets' = offsets /\ stored' = stored /\ lines' = lines /\ run' = run /\ tail' = tail
  BY DEF TailInv, TailTyped, EndSave
<1>2. /\ new \in SaverRecords /\ new.todo = {} /\ new.value = 0
      /\ new.pc = IF s = "closer" THEN "done" ELSE "idle"
  BY DEF Idle, SaverRecords
<1> HIDE DEF new
<1>3. saver' \in [Savers -> SaverRecords] /\ saver'[s] = new /\ \A t \in Savers \ {s} : saver'[t] = saver[t]
  BY <1>1, <1>2 DEF SinceTyped
<1>4. SinceTyped' BY <1>1, <1>2, <1>3 DEF SinceTyped
<1>5. TailTyped' /\ Unread' = Unread BY <1>1 DEF TailInv, TailTyped, Unread
<1>6. Threads'
  <2>1. saver'["closer"] = saver["closer"] \/ (saver["closer"].pc = "visit" /\ saver'["closer"].pc = "done")
    BY <1>1, <1>2, <1>3 DEF Savers
  <2>2. QED BY <1>1, <2>1 DEF TailInv, Threads
<1>7. Fresh' BY <1>1, <1>2, <1>3, <1>5 DEF TailInv, Fresh, Nothing, OffsetStored
<1>8. InLine' BY <1>1, <1>5 DEF TailInv, InLine, AtMain, AtDecoder
<1>9. Trail'
  <2>1. saver'["looper"].pc = "set" => saver'["looper"] = saver["looper"] BY <1>2, <1>3 DEF Savers
  <2>2. OffsetStored(Path)' = OffsetStored(Path) /\ InMap(Path)' = InMap(Path) BY <1>1 DEF OffsetStored, InMap
  <2>3. QED BY <1>1, <1>5, <2>1, <2>2 DEF TailInv, Trail, Above
<1>10. Within'
  <2>1. 0 <= tail.last + 2 BY <1>1 DEF TailRecords
  <2>2. QED BY <1>1, <1>2, <1>3, <2>1 DEF TailInv, Within, Ahead
<1>11. QED BY <1>4, <1>5, <1>6, <1>7, <1>8, <1>9, <1>10 DEF TailInv

\* The decoder records what Tell said, and the savers move it on.
LEMMA TailSaves ==
  ASSUME TailInv, DecoderSet \/ (TLSaver /\ UNCHANGED <<lines, run, tail, past>>)
  PROVE  TailInv'
<1> USE DEF TailTyped, TailRecords, TailInv, Threads, Fresh, InLine, Trail, Within, AtDecoder, AtMain, Unread, sinceVars,
           Nothing, OffsetStored, InMap, Above, Ahead, SinceTyped, Marks
<1>1. CASE DecoderSet BY <1>1 DEF DecoderSet, SetRessourceOffset, With
<1>2. CASE LooperTick /\ UNCHANGED <<lines, run, tail, past>> BY <1>2 DEF LooperTick, BeginSave, Visiting, SaverRecords, Savers
<1>3. CASE LooperQuit /\ UNCHANGED <<lines, run, tail, past>> BY <1>3 DEF LooperQuit
<1>4. ASSUME NEW s \in Savers, SaveStep(s), UNCHANGED <<lines, run, tail, past>> PROVE TailInv'
  <2> USE DEF SaverRecords, Savers
  <2>1. CASE Visit(s) BY <2>1, <1>4, TailVisits
  <2>2. CASE SetStorage(s) BY <2>2, <1>4, TailStores
  <2>3. CASE EndSave(s) BY <2>3, <1>4, TailEndsSave
  <2>4. QED BY <2>1, <2>2, <2>3, <1>4, TailDeletes DEF SaveStep
<1>5. QED BY <1>1, <1>2, <1>3, <1>4 DEF TLSaver

LEMMA TailStep == ASSUME InputBounds, TailInv, [TLNext]_tailVars PROVE TailInv'
<1>1. CASE UNCHANGED tailVars
  <2>1. lines' = lines /\ run' = run /\ tail' = tail /\ UNCHANGED sinceVars BY <1>1 DEF tailVars
  <2>2. SinceTyped' /\ offsets' = offsets /\ stored' = stored /\ saver' = saver BY <2>1, SinceStays DEF TailInv
  <2>3. TailTyped' /\ Threads' /\ InLine' BY <2>1, <2>2 DEF TailInv, TailTyped, Threads, InLine, Unread, AtMain, AtDecoder
  <2>4. Fresh' /\ Trail' /\ Within'
    BY <2>1, <2>2 DEF TailInv, Fresh, Nothing, OffsetStored, Unread, Trail, InMap, Above, Within, Ahead
  <2>5. QED BY <2>2, <2>3, <2>4 DEF TailInv
<1>2. CASE TLNext BY <1>2, TailGoroutines, TailOthers, TailSaves DEF TLNext, TLGoroutine
<1>3. QED BY <1>1, <1>2

\* What the run checks of it, and that the storage grows.
LEMMA TailSound == ASSUME TailInv PROVE NoGap /\ AheadByTwo
<1>1. NoGap BY DEF TailInv, NoGap, InLine, Threads, Unread, TailTyped, TailRecords
<1>2. AheadByTwo BY DEF TailInv, Within, Ahead, AheadByTwo, Recorded
<1>3. QED BY <1>1, <1>2

LEMMA TailGrows == ASSUME TailInv, [TLNext]_tailVars PROVE StoredGrowsStep
<1> SUFFICES ASSUME run.life = "running", run'.life = "running", stored' # stored
             PROVE  OffsetStored(Path)' >= OffsetStored(Path)
  <2>1. OffsetStored(Path) \in Nat BY DEF TailInv, SinceTyped, Marks, OffsetStored
  <2>2. stored' = stored => OffsetStored(Path)' = OffsetStored(Path) BY DEF OffsetStored
  <2>3. QED BY <2>1, <2>2 DEF StoredGrowsStep
<1>1. SetStorage("looper")
  <2>1. saver["closer"].pc = "idle" BY DEF TailInv, Threads
  <2>2. ~SetStorage("closer") BY <2>1 DEF SetStorage
  <2>3. \E s \in Savers : SetStorage(s)
    BY DEF TLNext, TLGoroutine, TLSaver, tailVars, sinceVars, SaveStep, Visit, DeleteOffset, EndSave, LooperTick, LooperQuit,
       Open, Seek, ReadLine, HandOver, CheckDying, CloseFile, TailStop, MainEnds, Decode, DecoderSend, DecoderTell,
       DecoderSet, TLClose, Close, TLStopped, Grow, TLDiscover, TLTick, TLQuit, TLStop, TLRestart
  <2>4. QED BY <2>2, <2>3 DEF Savers
<1>2. /\ saver["looper"].key = Path /\ saver["looper"].pc = "set" /\ stored' = With(stored, Path, saver["looper"].value)
      /\ saver["looper"].value \in Nat
  BY <1>1 DEF SetStorage, TailInv, SinceTyped, Savers, SaverRecords
<1>3. OffsetStored(Path)' = saver["looper"].value BY <1>2 DEF With, OffsetStored
<1>4. OffsetStored(Path) <= saver["looper"].value BY <1>2 DEF TailInv, Trail
<1>5. OffsetStored(Path) \in Nat BY DEF TailInv, SinceTyped, Marks, OffsetStored
<1>6. QED BY <1>2, <1>3, <1>4, <1>5
\* The history: where a process begins is at most two lines ahead of the last line
\* sent before, for its mark was, or it begins at the end of the file, a jump.
PastRecords == [sent : SUBSET Nat, marks : SUBSET Nat, jumps : SUBSET (Nat \X Nat)]
Accounted == past \in PastRecords /\ LinesAccounted
Known(l) ==
  \/ l \in past.sent
  \/ \E m \in past.marks : m - 2 < l /\ l <= m
  \/ \E jump \in past.jumps : jump[1] < l /\ l <= jump[2]

LEMMA AccountBegins == ASSUME TLInit PROVE Accounted
<1>1. past = [sent |-> {}, marks |-> {}, jumps |-> {}] /\ tail.last = 0 BY DEF TLInit, Untouched
<1>2. past \in PastRecords BY <1>1 DEF PastRecords
<1>3. LinesAccounted BY <1>1 DEF LinesAccounted
<1>4. QED BY <1>2, <1>3 DEF Accounted

\* A process begins to read.
LEMMA AccountSeeks == ASSUME TailInv, Accounted, Seek PROVE Accounted'
<1>1. /\ tail \in TailRecords /\ tail.tailer = "seek" /\ tail.from = OffsetStored(Path) /\ lines \in Nat
      /\ Marks(stored) /\ past \in PastRecords /\ LinesAccounted
  BY DEF Seek, TailInv, TailTyped, SinceTyped, Fresh, Accounted
<1>2. tail.last \in Nat /\ tail.from \in Nat /\ tail' = [tail EXCEPT !.tailer = "read", !.pos = SeekTo, !.last = SeekTo]
  BY <1>1 DEF TailRecords, Seek
<1>3. tail'.last = SeekTo BY <1>1, <1>2 DEF TailRecords
<1>4. \A l \in 1..tail.last : Known(l) BY <1>1 DEF LinesAccounted, Known
<1>5. CASE tail.from # 0
  <2>1. past' = [past EXCEPT !.marks = @ \cup {tail.from}, !.jumps = @] BY <1>5 DEF Seek
  <2>2. /\ past' \in PastRecords /\ past'.sent = past.sent /\ past'.jumps = past.jumps
        /\ past'.marks = past.marks \cup {tail.from}
    BY <1>1, <1>2, <2>1 DEF PastRecords
  <2>3. tail'.last = tail.from BY <1>3, <1>5 DEF SeekTo
  <2>4. tail.from <= tail.last + 2 BY <1>1, <1>5 DEF TailInv, Within, Ahead, OffsetStored
  <2>5. \A l : Known(l) => Known(l)' BY <2>2 DEF Known
  <2>6. ASSUME NEW l \in 1..tail.from PROVE Known(l)'
    <3>1. CASE l <= tail.last BY <3>1, <1>2, <1>4, <2>5
    <3>2. CASE l > tail.last
      <4>1. tail.from - 2 < l /\ l <= tail.from BY <3>2, <2>4, <1>2
      <4>2. QED BY <4>1, <2>2 DEF Known
    <3>3. QED BY <3>1, <3>2, <1>2
  <2>7. QED BY <2>2, <2>3, <2>6 DEF Accounted, LinesAccounted, Known
<1>6. CASE tail.from = 0 /\ FromBeginning
  <2>1. past' = [past EXCEPT !.marks = @, !.jumps = @] BY <1>6 DEF Seek
  <2>2. past' = past BY <1>1, <2>1 DEF PastRecords
  <2>3. tail'.last = 0 BY <1>3, <1>6 DEF SeekTo
  <2>4. QED BY <1>1, <2>2, <2>3 DEF Accounted, LinesAccounted
<1>7. CASE tail.from = 0 /\ ~FromBeginning
  <2> DEFINE jump == <<tail.last, lines>>
  <2>1. past' = [past EXCEPT !.marks = @, !.jumps = @ \cup {jump}] BY <1>7 DEF Seek
  <2>2. jump \in Nat \X Nat /\ jump[1] = tail.last /\ jump[2] = lines BY <1>1, <1>2
  <2> HIDE DEF jump
  <2>3. /\ past' \in PastRecords /\ past'.sent = past.sent /\ past'.marks = past.marks
        /\ past'.jumps = past.jumps \cup {jump}
    BY <1>1, <2>1, <2>2 DEF PastRecords
  <2>4. tail'.last = lines BY <1>3, <1>7 DEF SeekTo
  <2>5. \A l : Known(l) => Known(l)' BY <2>3 DEF Known
  <2>6. ASSUME NEW l \in 1..lines PROVE Known(l)'
    <3>1. CASE l <= tail.last BY <3>1, <1>2, <1>4, <2>5
    <3>2. CASE l > tail.last
      <4>1. jump[1] < l /\ l <= jump[2] BY <3>2, <1>1, <2>2
      <4>2. QED BY <4>1, <2>3 DEF Known
    <3>3. QED BY <3>1, <3>2, <1>1, <1>2
  <2>7. QED BY <2>3, <2>4, <2>6 DEF Accounted, LinesAccounted, Known
<1>8. QED BY <1>5, <1>6, <1>7

\* The decoder sends the next line.
LEMMA AccountSends == ASSUME TailInv, Accounted, DecoderSend PROVE Accounted'
<1>1. /\ tail \in TailRecords /\ tail.record = tail.last + 1 /\ past \in PastRecords /\ LinesAccounted
  BY DEF DecoderSend, TailInv, TailTyped, Threads, Unread, InLine, Accounted
<1>2. /\ tail.last \in Nat /\ tail' = [tail EXCEPT !.decoder = "tell", !.last = tail.record]
      /\ past' = [past EXCEPT !.sent = @ \cup {tail.record}]
  BY <1>1 DEF TailRecords, DecoderSend
<1>3. tail'.last = tail.last + 1 BY <1>1, <1>2 DEF TailRecords
<1>4. /\ past' \in PastRecords /\ past'.marks = past.marks /\ past'.jumps = past.jumps
      /\ past'.sent = past.sent \cup {tail.last + 1}
  BY <1>1, <1>2 DEF PastRecords
<1>5. \A l : Known(l) => Known(l)' BY <1>4 DEF Known
<1>6. \A l \in 1..tail.last : Known(l) BY <1>1 DEF LinesAccounted, Known
<1>7. ASSUME NEW l \in 1..(tail.last + 1) PROVE Known(l)'
  <2>1. CASE l <= tail.last BY <2>1, <1>2, <1>5, <1>6
  <2>2. CASE l = tail.last + 1 BY <2>2, <1>4 DEF Known
  <2>3. QED BY <2>1, <2>2, <1>2
<1>8. QED BY <1>3, <1>4, <1>7 DEF Accounted, LinesAccounted, Known

LEMMA TailAccounts == ASSUME TailInv, Accounted, [TLNext]_tailVars PROVE Accounted'
<1>1. CASE Seek BY <1>1, AccountSeeks
<1>2. CASE DecoderSend BY <1>2, AccountSends
<1>3. CASE ~Seek /\ ~DecoderSend
  <2>1. tail \in TailRecords BY DEF TailInv, TailTyped
  <2>2. past' = past /\ tail'.last = tail.last
    <3>1. CASE Open \/ ReadLine \/ HandOver \/ CheckDying \/ CloseFile \/ TailStop \/ MainEnds
      BY <3>1, <2>1 DEF Open, ReadLine, HandOver, CheckDying, CloseFile, TailStop, MainEnds, TailRecords
    <3>2. CASE Decode \/ DecoderTell \/ DecoderSet \/ TLClose \/ TLStopped
      BY <3>2, <2>1 DEF Decode, DecoderTell, DecoderSet, TLClose, TLStopped, TailRecords
    <3>3. CASE Grow \/ TLDiscover \/ TLTick \/ TLQuit \/ TLStop
      BY <3>3, <2>1 DEF Grow, TLDiscover, TLTick, TLQuit, TLStop, TailRecords
    <3>4. CASE TLRestart BY <3>4 DEF TLRestart, Untouched
    <3>5. CASE (TLSaver /\ UNCHANGED <<lines, run, tail, past>>) \/ UNCHANGED tailVars BY <3>5 DEF tailVars
    <3>6. QED BY <1>3, <3>1, <3>2, <3>3, <3>4, <3>5 DEF TLNext, TLGoroutine
  <2>3. QED BY <2>2 DEF Accounted, LinesAccounted
<1>4. QED BY <1>1, <1>2, <1>3

-----------------------------------------------------------------------------
(***************************************************************************)
(* The http server input.                                                  *)
(***************************************************************************)
PostRecords ==
  [at : {"idle", "more", "send", "check", "respond", "over"}, body : Seq({"good", "end", "bad", "odd"}), read : Nat,
   err : {"none", "EOF", "decoding"}, dec : Builds, enc : Builds]
EmitRecords == [records : Seq(Nat), late : Nat]
Replies == {"none", "accepted", "error", "recovered", "implicit"}
HttpTyped ==
  /\ post \in [Posts -> PostRecords] /\ emitted \in [Posts -> EmitRecords]
  /\ answer \in [Posts -> Replies] /\ input \in {"up", "stopped", "closed"}

\* A request q, what e was sent of it, its answer a, and the input at i: the
\* records sent are the first n of the body; read is ahead of n while a record
\* is at hand.
ReadSoFar(n, q) ==
  /\ q.read <= Len(q.body)
  /\ q.at = "idle" => q.read = 0
  /\ q.at \in {"idle", "more", "check"} => q.read = n
  /\ q.at = "send" => q.read = n + 1
  /\ q.at \in {"idle", "more", "check", "send"} => q.err # "decoding"
  /\ q.at = "respond" => IF q.err = "decoding" THEN q.read = n + 1 /\ q.body[n + 1] = "bad" ELSE n = Len(q.body)
Honest(n, q, a) ==
  /\ q.at # "over" => a = "none"
  /\ a = "accepted" => n = Len(q.body)
  /\ a = "error" => IF n < Len(q.body) THEN q.body[n + 1] = "bad" ELSE q.enc = "fails"
Late(k, q, i) ==
  /\ i = "up" => k = 0
  /\ k <= 1
  /\ k # 0 => q.at \in {"check", "over"}
Serves1(q, e, a, i) ==
  /\ e.records = [k \in 1..Len(e.records) |-> k]
  /\ ReadSoFar(Len(e.records), q) /\ Honest(Len(e.records), q, a) /\ Late(e.late, q, i)
  /\ a = "implicit" => i # "up" \/ (Len(e.records) = 0 /\ q.dec = "fails")
HttpInv == HttpTyped /\ \A r \in Posts : Serves1(post[r], emitted[r], answer[r], input)

LEMMA AppendNext == ASSUME NEW s \in Seq(Nat), s = [k \in 1..Len(s) |-> k]
                    PROVE  LET t == Append(s, Len(s) + 1) IN t \in Seq(Nat) /\ Len(t) = Len(s) + 1 /\ t = [k \in 1..Len(t) |-> k]
<1> DEFINE t == Append(s, Len(s) + 1)
<1>1. t \in Seq(Nat) /\ Len(t) = Len(s) + 1 OBVIOUS
<1>2. \A k \in 1..Len(t) : t[k] = k OBVIOUS
<1>3. QED BY <1>1, <1>2

LEMMA HttpInit == ASSUME InputBounds, HSInit PROVE HttpInv
<1>1. HttpTyped
  <2>1. \A b \in Bodies, dec \in Builds, enc \in Builds :
          [at |-> "idle", body |-> b, read |-> 0, err |-> "none", dec |-> dec, enc |-> enc] \in PostRecords
    BY DEF InputBounds, PostRecords
  <2>2. [records |-> <<>>, late |-> 0] \in EmitRecords BY DEF EmitRecords
  <2>3. QED BY <2>1, <2>2 DEF HSInit, HttpTyped, Replies
<1>2. ASSUME NEW r \in Posts PROVE Serves1(post[r], emitted[r], answer[r], input)
  <2>1. /\ post[r].at = "idle" /\ post[r].read = 0 /\ post[r].err = "none" /\ post[r] \in PostRecords
        /\ emitted[r].records = <<>> /\ emitted[r].late = 0 /\ answer[r] = "none"
    BY <1>1 DEF HSInit, HttpTyped
  <2>2. Len(<<>>) = 0 /\ <<>> = [k \in 1..0 |-> k] OBVIOUS
  <2>3. 0 <= Len(post[r].body) BY <2>1 DEF PostRecords
  <2>4. QED BY <2>1, <2>2, <2>3 DEF Serves1, ReadSoFar, Honest, Late
<1>3. QED BY <1>1, <1>2 DEF HttpInv

\* A step of one request: what it has to show, and what stays of the others.
LEMMA OneServes ==
  ASSUME HttpInv, NEW r \in Posts, NEW q \in PostRecords, NEW e \in EmitRecords, NEW a \in Replies,
         post' = [post EXCEPT ![r] = q], emitted' = [emitted EXCEPT ![r] = e], answer' = [answer EXCEPT ![r] = a],
         input' = input, Serves1(q, e, a, input)
  PROVE  HttpInv'
<1>1. HttpTyped' BY DEF HttpInv, HttpTyped
<1>2. /\ post'[r] = q /\ emitted'[r] = e /\ answer'[r] = a
      /\ \A p \in Posts \ {r} : post'[p] = post[p] /\ emitted'[p] = emitted[p] /\ answer'[p] = answer[p]
  BY DEF HttpInv, HttpTyped
<1>3. QED BY <1>1, <1>2 DEF HttpInv

Goes(q, at, err) == [q EXCEPT !.at = at, !.read = q.read + 1, !.err = err]
LEMMA GoesOn1 ==
  ASSUME NEW q \in PostRecords, NEW to \in {"send", "respond", "over"}, NEW err \in {"none", "EOF", "decoding"}
  PROVE  /\ Goes(q, to, err) \in PostRecords /\ Goes(q, to, err).at = to /\ Goes(q, to, err).read = q.read + 1
         /\ Goes(q, to, err).err = err /\ Goes(q, to, err).body = q.body
         /\ Goes(q, to, err).dec = q.dec /\ Goes(q, to, err).enc = q.enc
<1>1. q.read + 1 \in Nat BY DEF PostRecords
<1> DEFINE n == q.read + 1
<1> HIDE DEF n
<1>2. n \in Nat BY <1>1 DEF n
<1>3. Goes(q, to, err) = [q EXCEPT !.at = to, !.read = n, !.err = err] BY DEF Goes, n
<1> DEFINE p == [q EXCEPT !.at = to, !.read = n, !.err = err]
<1>4. /\ p \in PostRecords /\ p.at = to /\ p.read = n /\ p.err = err /\ p.body = q.body
      /\ p.dec = q.dec /\ p.enc = q.enc
  BY <1>2 DEF PostRecords
<1>5. QED BY <1>3, <1>4 DEF n

LEMMA HttpRequests ==
  ASSUME HttpInv, NEW r \in Posts,
         HSRequest(r) \/ HSDecode(r) \/ HSRead(r) \/ HSSend(r) \/ HSSendPanics(r) \/ HSCheck(r) \/ HSRespond(r)
  PROVE  HttpInv'
<1> DEFINE q == post[r]
           e == emitted[r]
           a == answer[r]
           n == Len(e.records)
<1>1. q \in PostRecords /\ e \in EmitRecords /\ a \in Replies /\ Serves1(q, e, a, input) /\ n \in Nat
  BY DEF HttpInv, HttpTyped, EmitRecords
<1>2. post = [post EXCEPT ![r] = q] /\ emitted = [emitted EXCEPT ![r] = e] /\ answer = [answer EXCEPT ![r] = a]
  BY DEF HttpInv, HttpTyped
<1> DEFINE Step(p, f, b) == post' = [post EXCEPT ![r] = p] /\ emitted' = [emitted EXCEPT ![r] = f]
                            /\ answer' = [answer EXCEPT ![r] = b]
<1>3. CASE HSRequest(r)
  <2> DEFINE p(at) == [q EXCEPT !.at = at]
  <2>1. q.at = "idle" /\ input' = input /\ emitted' = emitted BY <1>3 DEF HSRequest
  <2>2. CASE q.dec = "ok"
    <3>1. Step(p("more"), e, a) BY <1>2, <1>3, <2>2 DEF HSRequest
    <3>2. p("more") \in PostRecords /\ Serves1(p("more"), e, a, input)
      BY <1>1, <2>1 DEF PostRecords, Serves1, ReadSoFar, Honest, Late
    <3>3. QED BY <1>1, <2>1, <3>1, <3>2, OneServes
  <2>3. CASE q.dec \in {"fails", "panics"}
    <3>1. PICK b \in {"implicit", "recovered"} : Step(p("over"), e, b) /\ (b = "implicit" => q.dec = "fails")
      BY <1>2, <1>3, <2>3 DEF HSRequest, Answers
    <3>2. n = 0 BY <1>1, <2>1 DEF Serves1, ReadSoFar
    <3> DEFINE s == p("over")
    <3>3. s \in PostRecords /\ s.at = "over" /\ s.read = q.read /\ s.body = q.body /\ s.err = q.err /\ s.dec = q.dec
      BY <1>1 DEF PostRecords
    <3>4. Step(s, e, b) BY <3>1
    <3> HIDE DEF s
    <3>5. Serves1(s, e, b, input) BY <1>1, <2>1, <3>1, <3>2, <3>3 DEF Serves1, ReadSoFar, Honest, Late
    <3>6. QED BY <1>1, <2>1, <3>3, <3>4, <3>5, OneServes DEF Replies
  <2>4. q.dec \in {"ok", "fails", "panics"} BY <1>1 DEF PostRecords, Builds
  <2>5. QED BY <2>2, <2>3, <2>4
<1>4. CASE HSDecode(r)
  <2>1. q.at = "more" /\ q.read < Len(q.body) /\ q.read = n /\ input' = input /\ emitted' = emitted /\ a = "none"
    BY <1>1, <1>4 DEF HSDecode, More, Serves1, ReadSoFar, Honest
  <2>2. q.body[n + 1] \in {"good", "end", "bad", "odd"} BY <1>1, <2>1 DEF PostRecords
  <2>3. ASSUME NEW at, NEW err, HSGoto(r, at, err) PROVE post' = [post EXCEPT ![r] = Goes(q, at, err)]
    BY <2>3, <1>1 DEF HSGoto, Goes, HttpInv, HttpTyped
  <2>5. CASE q.body[n + 1] \in {"good", "end"}
    <3>1. PICK err \in {"none", "EOF"} : HSGoto(r, "send", err) /\ answer' = answer
      BY <1>4, <2>1, <2>5 DEF HSDecode, Record
    <3>2. Step(Goes(q, "send", err), e, a) BY <1>2, <2>1, <2>3, <3>1
    <3> DEFINE s == Goes(q, "send", err)
    <3>3. s \in PostRecords /\ s.at = "send" /\ s.read = n + 1 /\ s.err = err /\ s.body = q.body BY <1>1, <2>1, GoesOn1
    <3> HIDE DEF s
    <3>4. Serves1(s, e, a, input) BY <1>1, <2>1, <3>3 DEF Serves1, ReadSoFar, Honest, Late
    <3>5. Step(s, e, a) BY <3>2 DEF s
    <3>6. QED BY <1>1, <2>1, <3>3, <3>4, <3>5, OneServes
  <2>6. CASE q.body[n + 1] = "bad"
    <3>1. HSGoto(r, "respond", "decoding") /\ answer' = answer BY <1>4, <2>1, <2>6 DEF HSDecode, Record
    <3>2. Step(Goes(q, "respond", "decoding"), e, a) BY <1>2, <2>1, <2>3, <3>1
    <3> DEFINE s == Goes(q, "respond", "decoding")
    <3>3. s \in PostRecords /\ s.at = "respond" /\ s.read = n + 1 /\ s.err = "decoding" /\ s.body = q.body BY <1>1, <2>1, GoesOn1
    <3> HIDE DEF s
    <3>4. Serves1(s, e, a, input) BY <1>1, <2>1, <2>6, <3>3 DEF Serves1, ReadSoFar, Honest, Late
    <3>5. Step(s, e, a) BY <3>2 DEF s
    <3>6. QED BY <1>1, <2>1, <3>3, <3>4, <3>5, OneServes
  <2>7. CASE q.body[n + 1] = "odd"
    <3>1. HSGoto(r, "over", "none") /\ Answers(r, "recovered") BY <1>4, <2>1, <2>7 DEF HSDecode, Record
    <3>2. Step(Goes(q, "over", "none"), e, "recovered") BY <1>2, <2>1, <2>3, <3>1 DEF Answers
    <3> DEFINE s == Goes(q, "over", "none")
    <3>3. s \in PostRecords /\ s.at = "over" /\ s.read = n + 1 /\ s.err = "none" /\ s.body = q.body BY <1>1, <2>1, GoesOn1
    <3> HIDE DEF s
    <3>4. Serves1(s, e, "recovered", input) BY <1>1, <2>1, <3>3 DEF Serves1, ReadSoFar, Honest, Late
    <3>5. Step(s, e, "recovered") BY <3>2 DEF s
    <3>6. QED BY <1>1, <2>1, <3>3, <3>4, <3>5, OneServes DEF Replies
  <2>8. QED BY <2>2, <2>5, <2>6, <2>7
<1>5. CASE HSRead(r)
  <2> DEFINE p == [q EXCEPT !.at = "respond"]
  <2>1. Step(p, e, a) /\ input' = input /\ q.at = "more" /\ ~(q.read < Len(q.body)) BY <1>2, <1>5 DEF HSRead, More
  <2>2. p \in PostRecords /\ Serves1(p, e, a, input) BY <1>1, <2>1 DEF PostRecords, Serves1, ReadSoFar, Honest, Late
  <2>3. QED BY <1>1, <2>1, <2>2, OneServes
<1>6. CASE HSSend(r)
  <2> DEFINE p == [q EXCEPT !.at = "check"]
             l == e.late + IF input = "up" THEN 0 ELSE 1
             f == [records |-> Append(e.records, q.read), late |-> l]
  <2>1. Step(p, f, a) /\ input' = input /\ q.at = "send" BY <1>2, <1>6 DEF HSSend
  <2>2. q.read = n + 1 /\ e.late = 0 /\ l \in {0, 1} /\ (input = "up" => l = 0)
    BY <1>1, <2>1 DEF Serves1, ReadSoFar, Late, EmitRecords
  <2>3. p \in PostRecords /\ p.at = "check" /\ p.read = n + 1 /\ p.err = q.err /\ p.body = q.body
    BY <1>1, <2>2 DEF PostRecords
  <2>4. /\ Append(e.records, n + 1) \in Seq(Nat) /\ Len(Append(e.records, n + 1)) = n + 1
        /\ Append(e.records, n + 1) = [k \in 1..n + 1 |-> k]
    BY <1>1, AppendNext DEF Serves1, EmitRecords
  <2> DEFINE t == Append(e.records, n + 1)
  <2>5. f.records = t /\ f.late = l /\ f \in EmitRecords BY <2>2, <2>4 DEF EmitRecords
  <2> HIDE DEF p, l, f, t
  <2>6. Len(t) = n + 1 /\ t = [k \in 1..n + 1 |-> k] BY <2>4 DEF t
  <2>7. Serves1(p, f, a, input) BY <1>1, <2>1, <2>2, <2>3, <2>5, <2>6 DEF Serves1, ReadSoFar, Honest, Late
  <2>8. QED BY <1>1, <2>1, <2>3, <2>5, <2>7, OneServes
<1>7. CASE HSSendPanics(r)
  <2> DEFINE p == [q EXCEPT !.at = "over"]
  <2>1. Step(p, e, "recovered") /\ input' = input /\ q.at = "send" BY <1>2, <1>7 DEF HSSendPanics, Answers
  <2>2. p \in PostRecords /\ Serves1(p, e, "recovered", input)
    BY <1>1, <2>1 DEF PostRecords, Serves1, ReadSoFar, Honest, Late
  <2>3. QED BY <1>1, <2>1, <2>2, OneServes DEF Replies
<1>8. CASE HSCheck(r)
  <2> DEFINE p(at) == [q EXCEPT !.at = at]
  <2>1. q.at = "check" /\ input' = input /\ emitted' = emitted BY <1>8 DEF HSCheck
  <2>2. CASE input = "up"
    <3>1. Step(p("more"), e, a) BY <1>2, <1>8, <2>2 DEF HSCheck
    <3>2. p("more") \in PostRecords /\ Serves1(p("more"), e, a, input)
      BY <1>1, <2>1, <2>2 DEF PostRecords, Serves1, ReadSoFar, Honest, Late
    <3>3. QED BY <1>1, <2>1, <3>1, <3>2, OneServes
  <2>3. CASE input # "up"
    <3>1. Step(p("over"), e, "implicit") BY <1>2, <1>8, <2>3 DEF HSCheck, Answers
    <3>2. p("over") \in PostRecords /\ Serves1(p("over"), e, "implicit", input)
      BY <1>1, <2>1, <2>3 DEF PostRecords, Serves1, ReadSoFar, Honest, Late
    <3>3. QED BY <1>1, <2>1, <3>1, <3>2, OneServes DEF Replies
  <2>4. QED BY <2>2, <2>3
<1>9. CASE HSRespond(r)
  <2> DEFINE p == [q EXCEPT !.at = "over"]
             b == IF q.err \in {"none", "EOF"} THEN Encoded(q.enc) ELSE "error"
  <2>1. Step(p, e, b) /\ input' = input /\ q.at = "respond" BY <1>2, <1>9 DEF HSRespond, Answers
  <2>2. /\ b \in {"accepted", "error", "recovered"}
        /\ q.err = "decoding" => b = "error"
        /\ q.err # "decoding" /\ b = "error" => q.enc = "fails"
    BY <1>1 DEF PostRecords, Builds, Encoded
  <2>3. p \in PostRecords /\ p.at = "over" /\ p.read = q.read /\ p.err = q.err /\ p.body = q.body /\ p.enc = q.enc
    BY <1>1 DEF PostRecords
  <2>4. Len(q.body) \in Nat /\ q.read \in Nat BY <1>1 DEF PostRecords
  <2> HIDE DEF b, p
  <2>5. q.err = "decoding" => n < Len(q.body) /\ q.body[n + 1] = "bad" BY <1>1, <2>1, <2>4 DEF Serves1, ReadSoFar
  <2>6. q.err # "decoding" => n = Len(q.body) BY <1>1, <2>1 DEF Serves1, ReadSoFar
  <2>7. ReadSoFar(n, p) BY <1>1, <2>3 DEF Serves1, ReadSoFar
  <2>8. Honest(n, p, b) BY <1>1, <2>2, <2>3, <2>4, <2>5, <2>6 DEF Honest
  <2>9. Serves1(p, e, b, input) BY <1>1, <2>1, <2>2, <2>3, <2>7, <2>8 DEF Serves1, Late
  <2>10. b \in Replies BY <2>2 DEF Replies
  <2>11. QED BY <1>1, <2>1, <2>3, <2>9, <2>10, OneServes
<1>10. QED BY <1>3, <1>4, <1>5, <1>6, <1>7, <1>8, <1>9

LEMMA HttpStep == ASSUME HttpInv, [HSNext]_hsVars PROVE HttpInv'
<1>1. CASE UNCHANGED hsVars BY <1>1 DEF hsVars, HttpInv, HttpTyped
<1>2. CASE HSStop \/ HSClose
  <2>1. /\ post' = post /\ emitted' = emitted /\ answer' = answer
        /\ input' \in {"stopped", "closed"}
    BY <1>2 DEF HSStop, HSClose
  <2>2. QED BY <2>1 DEF HttpInv, HttpTyped, Serves1, Late
<1>3. QED BY <1>1, <1>2, HttpRequests DEF HSNext

LEMMA HttpSound == ASSUME HttpInv PROVE AnswerIsHonest /\ LateByOne
BY DEF HttpInv, Serves1, Honest, Late, AnswerIsHonest, LateByOne
-----------------------------------------------------------------------------
(***************************************************************************)
(* The rabbitmq input.                                                     *)
(***************************************************************************)
Queued == 1..Messages
BrokerRecords == [ready : SUBSET Queued, gone : SUBSET Queued]
ChannelRecords == [up : BOOLEAN, dlv : Seq(Queued), acked : SUBSET Nat, set : BOOLEAN]
ConsumeRecords == [at : {"connect", "range", "send", "ack", "sleep"}, tag : Nat]
TakenRecords == [passed : SUBSET Queued, early : SUBSET Queued]
RabbitTyped ==
  /\ acks \in BOOLEAN /\ broker \in BrokerRecords /\ channel \in ChannelRecords /\ consuming \in ConsumeRecords
  /\ taken \in TakenRecords /\ stage \in {"configured", "wired", "stopped", "closed", "crash"}

\* The goroutine is at most at the last delivery; where it has no channel to
\* range over, the last channel is down and all that came by it was taken.
RangesOn ==
  /\ channel.acked \subseteq Tags /\ consuming.tag <= Len(channel.dlv)
  /\ consuming.at \in {"connect", "sleep"} => ~channel.up /\ consuming.tag = Len(channel.dlv)
  /\ consuming.at \in {"send", "ack"} => consuming.tag >= 1
\* What was taken was sent, all but the one at hand.
TakenIsSent == \A t \in 1..consuming.tag : t < consuming.tag \/ consuming.at # "send" => channel.dlv[t] \in Reached
\* What was acknowledged the broker has forgotten.
AckedIsGone == \A t \in channel.acked : channel.dlv[t] \in broker.gone
RabbitInv == RabbitTyped /\ RangesOn /\ TakenIsSent /\ AckedIsGone /\ AckedWasSent

LEMMA RabbitInit == ASSUME InputBounds, RIInit PROVE RabbitInv
<1> USE DEF RIInit
<1>1. RabbitTyped
  BY DEF RabbitTyped, BrokerRecords, ChannelRecords, ConsumeRecords, TakenRecords, Queued
<1>2. RangesOn /\ TakenIsSent /\ AckedIsGone BY DEF RangesOn, TakenIsSent, AckedIsGone, Tags
<1>3. AckedWasSent BY DEF AckedWasSent, Reached
<1>4. QED BY <1>1, <1>2, <1>3 DEF RabbitInv

LEMMA RabbitFacts ==
  ASSUME RabbitInv
  PROVE  /\ channel.dlv \in Seq(Queued) /\ Tags = 1..Len(channel.dlv) /\ Len(channel.dlv) \in Nat /\ consuming.tag \in Nat
         /\ Delivered(Unacked) \subseteq Queued /\ broker.ready \subseteq Queued /\ broker.gone \subseteq Queued
         /\ \A t \in Tags : channel.dlv[t] \in Queued
<1>1. channel.dlv \in Seq(Queued) /\ consuming.tag \in Nat /\ broker.ready \subseteq Queued /\ broker.gone \subseteq Queued
  BY DEF RabbitInv, RabbitTyped, BrokerRecords, ChannelRecords, ConsumeRecords
<1>2. Tags = 1..Len(channel.dlv) /\ Len(channel.dlv) \in Nat BY <1>1 DEF Tags
<1>3. \A t \in Tags : channel.dlv[t] \in Queued BY <1>1, <1>2
<1>4. Delivered(Unacked) \subseteq Queued BY <1>3 DEF Delivered, Unacked
<1>5. QED BY <1>1, <1>2, <1>3, <1>4

\* The connection is lost, closed, or ends with the program: what was not
\* acknowledged is ready again, and nothing else changes.
LEMMA RabbitDrops ==
  ASSUME RabbitInv, UNCHANGED <<acks, taken>>, broker' = Requeued, channel' = [channel EXCEPT !.up = FALSE],
         consuming' = consuming, stage' \in {"configured", "wired", "stopped", "closed", "crash"}
  PROVE  RabbitInv'
<1>1. /\ channel' \in ChannelRecords /\ ~channel'.up /\ channel'.dlv = channel.dlv /\ channel'.acked = channel.acked
      /\ channel \in ChannelRecords /\ broker \in BrokerRecords
  BY DEF RabbitInv, RabbitTyped, ChannelRecords
<1>2. /\ broker' \in BrokerRecords /\ broker'.gone = broker.gone
      /\ broker'.ready = broker.ready \cup (IF channel.up THEN Delivered(Unacked) ELSE {})
  BY <1>1, RabbitFacts DEF Requeued, BrokerRecords
<1>3. RabbitTyped' BY <1>1, <1>2 DEF RabbitInv, RabbitTyped
<1>4. RangesOn' /\ TakenIsSent' /\ AckedIsGone'
  BY <1>1, <1>2 DEF RabbitInv, RangesOn, TakenIsSent, AckedIsGone, Tags, Reached
<1>5. AckedWasSent'
  <2>1. Reached' = Reached /\ ToBeTaken' = ToBeTaken /\ Delivered(ToBeTaken)' = Delivered(ToBeTaken)
    BY <1>1 DEF Reached, ToBeTaken, Tags, Delivered
  <2>2. QED BY <1>1, <1>2, <2>1 DEF RabbitInv, AckedWasSent
<1>6. QED BY <1>3, <1>4, <1>5 DEF RabbitInv

LEMMA RabbitDelivers == ASSUME RabbitInv, Deliver PROVE RabbitInv'
<1>1. PICK m \in broker.ready :
        /\ channel' = [channel EXCEPT !.dlv = Append(@, m)]
        /\ broker' = [ready |-> broker.ready \ {m}, gone |-> broker.gone \cup (IF acks THEN {} ELSE {m})]
  BY DEF Deliver
<1>2. channel.up /\ UNCHANGED <<acks, consuming, stage, taken>> /\ channel \in ChannelRecords /\ broker \in BrokerRecords
  BY DEF Deliver, RabbitInv, RabbitTyped
<1> DEFINE n == Len(channel.dlv)
           d == Append(channel.dlv, m)
<1>3. m \in Queued /\ n \in Nat /\ channel.dlv \in Seq(Queued) BY <1>1, RabbitFacts
<1>4. d \in Seq(Queued) /\ Len(d) = n + 1 /\ d[n + 1] = m /\ \A t \in 1..n : d[t] = channel.dlv[t] BY <1>3
<1> HIDE DEF d, n
<1>5. /\ channel' \in ChannelRecords /\ channel'.up /\ channel'.dlv = d /\ channel'.acked = channel.acked
  BY <1>1, <1>2, <1>4 DEF ChannelRecords, d
<1>6. broker' \in BrokerRecords /\ broker'.ready = broker.ready \ {m} /\ broker.gone \subseteq broker'.gone
      /\ (acks => broker'.gone = broker.gone) /\ (~acks => broker'.gone = broker.gone \cup {m})
  BY <1>1, <1>2, <1>3 DEF BrokerRecords
<1>7. Tags = 1..n /\ Tags' = 1..n+1 BY <1>4, <1>5, RabbitFacts DEF Tags, n
<1>8. RabbitTyped' BY <1>2, <1>5, <1>6 DEF RabbitInv, RabbitTyped
<1>9. consuming.tag \in Nat /\ consuming.tag <= n BY RabbitFacts DEF RabbitInv, RangesOn, n
<1>10. RangesOn'
  <2>1. channel'.acked \subseteq Tags' BY <1>3, <1>5, <1>7 DEF RabbitInv, RangesOn
  <2>2. consuming.at \notin {"connect", "sleep"} BY <1>2 DEF RabbitInv, RangesOn
  <2>3. consuming'.tag <= Len(channel'.dlv) BY <1>2, <1>3, <1>4, <1>5, <1>9
  <2>4. QED BY <1>2, <2>1, <2>2, <2>3 DEF RabbitInv, RangesOn
<1>11. TakenIsSent' BY <1>2, <1>3, <1>4, <1>5, <1>9 DEF RabbitInv, TakenIsSent, Reached
<1>12. AckedIsGone' BY <1>4, <1>5, <1>6, <1>7 DEF RabbitInv, AckedIsGone, RangesOn
<1>13. AckedWasSent'
  <2>1. Reached' = Reached BY <1>2 DEF Reached
  <2>2. ASSUME NEW g \in broker'.gone PROVE g \in Reached' \cup (IF acks' THEN {} ELSE Delivered(ToBeTaken)')
    <3>1. CASE g \in broker.gone
      <4>1. g \in Reached \/ (~acks /\ \E t \in ToBeTaken : channel.dlv[t] = g)
        BY <3>1 DEF RabbitInv, AckedWasSent, Delivered
      <4>2. ToBeTaken \subseteq ToBeTaken' /\ \A t \in ToBeTaken : channel'.dlv[t] = channel.dlv[t]
        BY <1>2, <1>3, <1>4, <1>5, <1>7 DEF ToBeTaken
      <4>3. QED BY <1>2, <2>1, <4>1, <4>2 DEF Delivered
    <3>2. CASE g \notin broker.gone
      <4>1. ~acks /\ g = m BY <1>6, <3>2
      <4>2. n + 1 \in ToBeTaken' BY <1>2, <1>3, <1>7, <1>9 DEF ToBeTaken
      <4>3. QED BY <1>2, <1>4, <1>5, <4>1, <4>2 DEF Delivered
    <3>3. QED BY <3>1, <3>2
  <2>3. Queued = broker'.gone \cup broker'.ready \cup Delivered(Unacked)'
    <3>1. Queued = broker.gone \cup broker.ready \cup Delivered(Unacked) BY <1>2 DEF RabbitInv, AckedWasSent, Queued
    <3>2. ASSUME NEW t \in Unacked PROVE channel.dlv[t] \in broker'.gone \cup Delivered(Unacked)'
      <4>1. t \in Tags' \ channel'.acked /\ channel'.dlv[t] = channel.dlv[t] BY <1>3, <1>4, <1>5, <1>7 DEF Unacked
      <4>2. QED BY <4>1 DEF Unacked, Delivered
    <3>3. m \in broker'.gone \cup Delivered(Unacked)'
      <4>1. n + 1 \in Tags' /\ n + 1 \notin channel'.acked BY <1>3, <1>5, <1>7 DEF RabbitInv, RangesOn
      <4>2. QED BY <1>4, <1>5, <4>1 DEF Unacked, Delivered
    <3>4. Delivered(Unacked)' \subseteq Queued /\ broker'.gone \subseteq Queued /\ broker'.ready \subseteq Queued
      <4>1. \A t \in Tags' : channel'.dlv[t] \in Queued BY <1>4, <1>5, <1>7
      <4>2. QED BY <1>6, <4>1 DEF Delivered, Unacked, BrokerRecords
    <3>5. Delivered(Unacked) \subseteq broker'.gone \cup Delivered(Unacked)' BY <3>2 DEF Delivered
    <3>6. QED BY <1>6, <3>1, <3>3, <3>4, <3>5
  <2>4. QED BY <1>5, <2>2, <2>3 DEF AckedWasSent, Queued
<1>14. QED BY <1>8, <1>10, <1>11, <1>12, <1>13 DEF RabbitInv

\* A step of the goroutine, or of the pipeline, that leaves the broker and the channel alone.
LEMMA RabbitMoves ==
  ASSUME RabbitInv, UNCHANGED <<acks, broker>>, channel'.up = channel.up, channel'.dlv = channel.dlv,
         channel'.acked = channel.acked, channel' \in ChannelRecords, consuming' \in ConsumeRecords,
         taken' \in TakenRecords, stage' \in {"configured", "wired", "stopped", "closed", "crash"},
         Reached \subseteq Reached', RangesOn', TakenIsSent',
         \A t \in ToBeTaken : channel.dlv[t] \in Reached' \/ t \in ToBeTaken'
  PROVE  RabbitInv'
<1>1. RabbitTyped' BY DEF RabbitInv, RabbitTyped
<1>2. AckedIsGone' BY DEF RabbitInv, AckedIsGone
<1>3. Delivered(Unacked)' = Delivered(Unacked) BY DEF Delivered, Unacked, Tags
<1>4. Delivered(ToBeTaken) \subseteq Reached' \cup Delivered(ToBeTaken)' BY DEF Delivered
<1>5. AckedWasSent' BY <1>3, <1>4 DEF RabbitInv, AckedWasSent
<1>6. QED BY <1>1, <1>2, <1>5 DEF RabbitInv

LEMMA RabbitConnects == ASSUME RabbitInv, Connect PROVE RabbitInv'
<1>1. /\ consuming.at = "connect" /\ ~channel.up /\ UNCHANGED <<acks, broker, stage, taken>>
      /\ channel' = [up |-> TRUE, dlv |-> <<>>, acked |-> {}, set |-> TRUE] /\ consuming' = [at |-> "range", tag |-> 0]
  BY DEF Connect, RabbitInv, RangesOn
<1>2. channel'.dlv = <<>> /\ channel'.acked = {} /\ Tags' = {} /\ Len(<<>>) = 0 BY <1>1 DEF Tags
<1>3. RabbitTyped' BY <1>1 DEF RabbitInv, RabbitTyped, ChannelRecords, ConsumeRecords
<1>4. RangesOn' /\ TakenIsSent' /\ AckedIsGone' BY <1>1, <1>2 DEF RangesOn, TakenIsSent, AckedIsGone
<1>5. ToBeTaken = {} BY <1>1, RabbitFacts DEF ToBeTaken, RabbitInv, RangesOn
<1>6. Delivered(ToBeTaken) = {} BY <1>5 DEF Delivered
<1>7. Unacked' = {} BY <1>2 DEF Unacked
<1>8. Delivered(Unacked)' = {} BY <1>7 DEF Delivered
<1>9. AckedWasSent' BY <1>1, <1>6, <1>8 DEF RabbitInv, AckedWasSent, Reached
<1>10. QED BY <1>3, <1>4, <1>9 DEF RabbitInv

LEMMA RabbitAcks == ASSUME RabbitInv, RIAck PROVE RabbitInv'
<1> DEFINE tags == 1..consuming.tag
<1>1. /\ consuming.at = "ack" /\ UNCHANGED <<acks, stage, taken>> /\ consuming' = [consuming EXCEPT !.at = "range"]
      /\ channel \in ChannelRecords /\ broker \in BrokerRecords /\ consuming \in ConsumeRecords
  BY DEF RIAck, Acknowledge, Goto, RabbitInv, RabbitTyped
<1>2. consuming' \in ConsumeRecords /\ consuming'.at = "range" /\ consuming'.tag = consuming.tag
  BY <1>1 DEF ConsumeRecords
<1>3. tags \subseteq Tags /\ \A t \in tags : channel.dlv[t] \in Reached
  BY <1>1, RabbitFacts DEF RabbitInv, RangesOn, TakenIsSent
<1>4. ToBeTaken' = ToBeTaken \/ channel'.dlv # channel.dlv
  BY <1>1, <1>2 DEF ToBeTaken, Tags
<1>5. CASE ~channel.up
  <2>1. UNCHANGED <<channel, broker>> BY <1>5 DEF RIAck, Acknowledge
  <2>2. RangesOn' /\ TakenIsSent' BY <1>1, <1>2, <2>1 DEF RabbitInv, RangesOn, TakenIsSent, Tags, Reached
  <2>3. QED BY <1>1, <1>2, <1>4, <2>1, <2>2, RabbitMoves DEF RabbitInv, RabbitTyped, Reached
<1>6. CASE channel.up
  <2>1. /\ channel' = [channel EXCEPT !.acked = @ \cup tags]
        /\ broker' = [broker EXCEPT !.gone = @ \cup Delivered(tags)]
    BY <1>6 DEF RIAck, Acknowledge
  <2>2. Delivered(tags) \subseteq Queued /\ Delivered(tags) \subseteq Reached
    BY <1>3, RabbitFacts DEF Delivered
  <2>3. tags \subseteq Nat BY RabbitFacts
  <2> HIDE DEF tags
  <2>4. /\ channel' \in ChannelRecords /\ channel'.up = channel.up /\ channel'.dlv = channel.dlv
        /\ channel'.acked = channel.acked \cup tags
    BY <1>1, <2>1, <2>3 DEF ChannelRecords
  <2>5. broker' \in BrokerRecords /\ broker'.ready = broker.ready /\ broker'.gone = broker.gone \cup Delivered(tags)
    BY <1>1, <2>1, <2>2 DEF BrokerRecords
  <2>6. RabbitTyped' BY <1>1, <1>2, <2>4, <2>5 DEF RabbitInv, RabbitTyped
  <2>7. RangesOn' /\ TakenIsSent' BY <1>1, <1>2, <1>3, <2>4 DEF RabbitInv, RangesOn, TakenIsSent, Tags, Reached
  <2>8. AckedIsGone' BY <2>4, <2>5 DEF RabbitInv, AckedIsGone, Delivered
  <2>9. AckedWasSent'
    <3>1. Reached' = Reached /\ Delivered(ToBeTaken)' = Delivered(ToBeTaken)
      BY <1>1, <1>4, <2>4 DEF Reached, Delivered
    <3>2. \A t \in Unacked : t \in Unacked' \/ channel.dlv[t] \in broker'.gone
      BY <2>4, <2>5 DEF Unacked, Tags, Delivered
    <3>3. Delivered(Unacked) \subseteq broker'.gone \cup Delivered(Unacked)' BY <2>4, <3>2 DEF Delivered
    <3>4. Delivered(Unacked)' \subseteq Delivered(Unacked)
      BY <2>4, <2>5 DEF Unacked, Tags, Delivered
    <3>5. QED BY <1>1, <2>2, <2>4, <2>5, <3>1, <3>3, <3>4, RabbitFacts DEF RabbitInv, AckedWasSent, Queued
  <2>10. QED BY <2>6, <2>7, <2>8, <2>9 DEF RabbitInv
<1>7. QED BY <1>5, <1>6

LEMMA RabbitStep == ASSUME RabbitInv, [RINext]_riVars PROVE RabbitInv'
<1>0. /\ acks \in BOOLEAN /\ broker \in BrokerRecords /\ channel \in ChannelRecords /\ consuming \in ConsumeRecords
      /\ taken \in TakenRecords /\ stage \in {"configured", "wired", "stopped", "closed", "crash"}
      /\ RangesOn /\ TakenIsSent
  BY DEF RabbitInv, RabbitTyped
<1>1. CASE UNCHANGED riVars
  <2>1. UNCHANGED <<acks, broker, channel, consuming, stage, taken>> BY <1>1 DEF riVars
  <2>2. RangesOn' /\ TakenIsSent' /\ ToBeTaken' = ToBeTaken /\ Reached' = Reached
    BY <1>0, <2>1 DEF RangesOn, TakenIsSent, Tags, Reached, ToBeTaken
  <2>3. QED BY <1>0, <2>1, <2>2, RabbitMoves
<1>2. CASE DropChannel \/ SendOnClosed \/ RIStop BY <1>0, <1>2, RabbitDrops DEF DropChannel, SendOnClosed, RIStop
<1>3. CASE ConnectFails
  <2>1. PICK s \in BOOLEAN : channel' = [channel EXCEPT !.set = s] BY <1>3 DEF ConnectFails
  <2>2. /\ channel' \in ChannelRecords /\ channel'.up = channel.up /\ channel'.dlv = channel.dlv
        /\ channel'.acked = channel.acked
    BY <1>0, <2>1 DEF ChannelRecords
  <2>3. consuming' \in ConsumeRecords /\ consuming'.at = "sleep" /\ consuming'.tag = consuming.tag /\ consuming.at = "connect"
    BY <1>0, <1>3 DEF ConnectFails, Goto, ConsumeRecords
  <2>4. UNCHANGED <<acks, broker, stage, taken>> BY <1>3 DEF ConnectFails
  <2>5. RangesOn' /\ TakenIsSent' /\ ToBeTaken' = ToBeTaken /\ Reached' = Reached
    BY <1>0, <2>2, <2>3, <2>4 DEF RangesOn, TakenIsSent, Tags, Reached, ToBeTaken
  <2>6. QED BY <1>0, <2>2, <2>3, <2>4, <2>5, RabbitMoves
<1>4. CASE RITake
  <2>1. UNCHANGED <<acks, broker, channel, stage, taken>> /\ consuming.at = "range" BY <1>4 DEF RITake
  <2>2. /\ consuming' \in ConsumeRecords /\ consuming'.at = "send" /\ consuming'.tag = consuming.tag + 1
        /\ consuming.tag < Len(channel.dlv)
    BY <1>0, <1>4 DEF RITake, ConsumeRecords
  <2>3. RangesOn' /\ TakenIsSent' /\ Reached' = Reached
    BY <1>0, <2>1, <2>2, RabbitFacts DEF RangesOn, TakenIsSent, Tags, Reached
  <2>4. \A t \in ToBeTaken : t \in ToBeTaken' BY <2>1, <2>2, RabbitFacts DEF ToBeTaken, Tags
  <2>5. QED BY <1>0, <2>1, <2>2, <2>3, <2>4, RabbitMoves
<1>5. CASE RIRangeEnds \/ RISleep
  <2>1. UNCHANGED <<acks, broker, channel, stage, taken>> /\ consuming.at \in {"range", "sleep"}
    BY <1>5 DEF RIRangeEnds, RISleep
  <2>2. /\ consuming' \in ConsumeRecords /\ consuming'.at \in {"connect", "sleep"} /\ consuming'.tag = consuming.tag
        /\ ~channel.up /\ consuming.tag = Len(channel.dlv)
    BY <1>0, <1>5 DEF RIRangeEnds, RISleep, Goto, ConsumeRecords, RangesOn
  <2>3. RangesOn' /\ TakenIsSent' /\ Reached' = Reached /\ ToBeTaken' = ToBeTaken
    BY <1>0, <2>1, <2>2 DEF RangesOn, TakenIsSent, Tags, Reached, ToBeTaken
  <2>4. QED BY <1>0, <2>1, <2>2, <2>3, RabbitMoves
<1>6. CASE RISend
  <2> DEFINE m == channel.dlv[consuming.tag]
  <2>1. UNCHANGED <<acks, broker, channel, stage>> /\ consuming.at = "send" BY <1>6 DEF RISend
  <2>2. m \in Queued /\ consuming.tag \in Nat BY <1>0, <2>1, RabbitFacts DEF RangesOn
  <2>3. /\ consuming' \in ConsumeRecords /\ consuming'.at \in {"range", "ack"} /\ consuming'.tag = consuming.tag
    BY <1>0, <1>6 DEF RISend, Goto, AfterRISend, ConsumeRecords
  <2>4. taken' = [taken EXCEPT !.early = @ \cup {m}] \/ taken' = [taken EXCEPT !.passed = @ \cup {m}]
    BY <1>6 DEF RISend
  <2> HIDE DEF m
  <2>5. taken' \in TakenRecords /\ Reached' = Reached \cup {m} BY <1>0, <2>2, <2>4 DEF TakenRecords, Reached
  <2>6. RangesOn' BY <1>0, <2>1, <2>3 DEF RangesOn, Tags
  <2>7. TakenIsSent' BY <1>0, <2>1, <2>2, <2>3, <2>5 DEF TakenIsSent, m
  <2>8. \A t \in ToBeTaken : channel.dlv[t] \in Reached' \/ t \in ToBeTaken'
    BY <2>1, <2>3, <2>5 DEF ToBeTaken, Tags, m
  <2>9. QED BY <1>0, <2>1, <2>3, <2>5, <2>6, <2>7, <2>8, RabbitMoves
<1>7. CASE Wire
  <2>1. UNCHANGED <<acks, consuming, taken>> /\ stage' \in {"wired", "crash"} BY <1>7 DEF Wire
  <2>2. CASE stage' = "crash" BY <1>7, <2>1, <2>2, RabbitDrops DEF Wire
  <2>3. CASE stage' # "crash"
    <3>1. UNCHANGED <<broker, channel>> BY <1>7, <2>3 DEF Wire
    <3>2. RangesOn' /\ TakenIsSent' /\ ToBeTaken' = ToBeTaken /\ Reached' = Reached
      BY <1>0, <2>1, <3>1 DEF RangesOn, TakenIsSent, Tags, Reached, ToBeTaken
    <3>3. QED BY <1>0, <2>1, <3>1, <3>2, RabbitMoves
  <2>4. QED BY <2>2, <2>3
<1>8. CASE OutputsClose
  <2>1. UNCHANGED <<acks, broker, channel, consuming, taken>> /\ stage' = "closed" BY <1>8 DEF OutputsClose
  <2>2. RangesOn' /\ TakenIsSent' /\ ToBeTaken' = ToBeTaken /\ Reached' = Reached
    BY <1>0, <2>1 DEF RangesOn, TakenIsSent, Tags, Reached, ToBeTaken
  <2>3. QED BY <1>0, <2>1, <2>2, RabbitMoves
<1>9. QED BY <1>1, <1>2, <1>3, <1>4, <1>5, <1>6, <1>7, <1>8, RabbitDelivers, RabbitConnects, RabbitAcks DEF RINext, Consuming
-----------------------------------------------------------------------------
(***************************************************************************)
(* The beats input.                                                        *)
(***************************************************************************)
ShipRecords == [at : {"idle", "sent"}, batch : Nat, acked : Nat]
ServeRecords == [at : {"off", "read", "push", "queued", "acked"}, conn : Nat]
EntryRecords == [batch : Shippers \X Nat, conn : Nat]
DrainRecords == [at : {"range", "send", "done"}, batch : (Shippers \X Nat) \cup {<<>>}, sent : Nat]
BeatsTyped ==
  /\ ship \in [Shippers -> ShipRecords] /\ serving \in [Shippers -> ServeRecords]
  /\ backlog \in Seq(EntryRecords) /\ drain \in DrainRecords /\ log \in Seq(Shippers \X Nat \X Nat)
  /\ server \in {"up", "closing", "closed", "stopped"} /\ resets \in Nat
  /\ drain.at = "send" => drain.batch \in Shippers \X Nat
  /\ drain.sent < BatchLen

LEMMA InSeq == ASSUME NEW S, NEW q \in Seq(S), NEW i \in DOMAIN q PROVE q[i] \in S
OBVIOUS

\* A batch that waits with the connection it came by is the one its shipper is
\* at; a connection has one at most.
Waits(e) ==
  LET s == e.batch[1] IN
  e.conn <= serving[s].conn
  /\ (e.conn = serving[s].conn => serving[s].at \in {"queued", "off"} /\ e.batch[2] = ship[s].batch)
OnePerConn ==
  \A i, j \in DOMAIN backlog : i # j /\ backlog[i].batch[1] = backlog[j].batch[1] => backlog[i].conn # backlog[j].conn
Entries == (\A i \in DOMAIN backlog : Waits(backlog[i])) /\ OnePerConn

\* Each batch whose ack is on its way or has come is in the log, or is being sent.
Logged(e) == \E i \in DOMAIN log : log[i] = e
Sent(s, n) == (\A k \in 1..BatchLen : Logged(<<s, n, k>>)) \/ (drain.batch = <<s, n>> /\ drain.at = "send")
AcksHold ==
  /\ drain.at = "send" => \A k \in 1..drain.sent : Logged(<<drain.batch[1], drain.batch[2], k>>)
  /\ \A s \in Shippers : /\ ship[s].batch = ship[s].acked + 1
                         /\ \A n \in 1..ship[s].acked : Sent(s, n)
                         /\ serving[s].at = "acked" => Sent(s, ship[s].batch)

\* The log ends with what was sent of the batch, or with a whole one.
Follows(i) ==
  \/ log[i][3] = 1 /\ (i = 1 \/ log[i-1][3] = BatchLen)
  \/ i > 1 /\ log[i] = [log[i-1] EXCEPT ![3] = @ + 1]
LogEnds ==
  /\ drain.at # "send" => drain.sent = 0
  /\ IF drain.sent = 0 THEN Len(log) = 0 \/ log[Len(log)][3] = BatchLen
     ELSE Len(log) > 0 /\ log[Len(log)] = <<drain.batch[1], drain.batch[2], drain.sent>>
LogOrder == (\A i \in DOMAIN log : Follows(i)) /\ LogEnds

ClosesInOrder ==
  /\ server \in {"closed", "stopped"} => \A s \in Shippers : serving[s].at = "off"
  /\ drain.at = "done" => backlog = <<>> /\ server \in {"closed", "stopped"}
  /\ server = "stopped" => drain.at = "done"

\* Without a reset a batch comes once: it waits, is being sent, or is in the log.
Behind(s, n) == n < ship[s].batch \/ (n = ship[s].batch /\ serving[s].at \in {"acked", "off"})
OfBatch(e, b) == e[1] = b[1] /\ e[2] = b[2]
Once ==
  resets = 0 =>
    /\ \A s \in Shippers : serving[s].conn = 1
    /\ \A i \in DOMAIN backlog : backlog[i].conn = 1 /\ (\A j \in DOMAIN log : ~OfBatch(log[j], backlog[i].batch))
                                 /\ (drain.at = "send" => drain.batch # backlog[i].batch)
    /\ \A i \in DOMAIN log : Behind(log[i][1], log[i][2])
    /\ drain.at = "send" => /\ Behind(drain.batch[1], drain.batch[2])
                            /\ \A i \in DOMAIN log : OfBatch(log[i], drain.batch) => log[i][3] <= drain.sent
    /\ \A i, j \in DOMAIN log : log[i] = log[j] => i = j
BeatsInv == BeatsTyped /\ Entries /\ AcksHold /\ LogOrder /\ ClosesInOrder /\ Once

LEMMA BeatsInit == ASSUME InputBounds, BIInit PROVE BeatsInv
<1> USE DEF BIInit, InputBounds
<1>1. BeatsTyped BY DEF BeatsTyped, ShipRecords, ServeRecords, DrainRecords
<1>2. Entries /\ LogOrder /\ ClosesInOrder BY DEF Entries, OnePerConn, LogOrder, LogEnds, ClosesInOrder
<1>3. AcksHold BY DEF AcksHold
<1>4. Once BY DEF Once
<1>5. QED BY <1>1, <1>2, <1>3, <1>4 DEF BeatsInv

\* A step of a shipper and its connection.
LEMMA BeatsShips ==
  ASSUME BeatsInv, NEW s \in Shippers, NEW p \in ShipRecords, NEW v \in ServeRecords, resets' \in Nat,
         UNCHANGED <<backlog, drain, log, server>>, serving[s].at # "off",
         ship' = [ship EXCEPT ![s] = p], serving' = [serving EXCEPT ![s] = v],
         server \in {"up", "closing"},
         \* A batch that waits stays the shipper's, or its connection is another.
         \/ v.conn > serving[s].conn /\ resets' # 0
         \/ /\ v.conn = serving[s].conn /\ resets' = resets
            /\ serving[s].at = "queued" => v.at \in {"queued", "off"} /\ p.batch = ship[s].batch,
         \/ p.batch = ship[s].batch /\ p.acked = ship[s].acked /\ (v.at = "acked" => serving[s].at = "acked")
            /\ (serving[s].at = "acked" => v.at \in {"acked", "off"} \/ resets' # 0)
         \/ serving[s].at = "acked" /\ p.batch = ship[s].batch + 1 /\ p.acked = ship[s].batch /\ v.at # "acked"
  PROVE  BeatsInv'
<1>1. /\ ship \in [Shippers -> ShipRecords] /\ serving \in [Shippers -> ServeRecords] /\ backlog \in Seq(EntryRecords)
      /\ ship' \in [Shippers -> ShipRecords] /\ serving' \in [Shippers -> ServeRecords]
      /\ ship'[s] = p /\ serving'[s] = v
      /\ \A t \in Shippers \ {s} : ship'[t] = ship[t] /\ serving'[t] = serving[t]
  BY DEF BeatsInv, BeatsTyped
<1>2. /\ ship[s].batch \in Nat /\ ship[s].acked \in Nat /\ serving[s].conn \in Nat /\ p.batch \in Nat /\ v.conn \in Nat
      /\ p.acked \in Nat
  BY <1>1 DEF ShipRecords, ServeRecords
<1>3. BeatsTyped' BY <1>1 DEF BeatsInv, BeatsTyped
<1>4. Entries'
  <2>1. ASSUME NEW i \in DOMAIN backlog PROVE Waits(backlog[i])'
    <3>1. Waits(backlog[i]) /\ backlog[i] \in EntryRecords BY <1>1 DEF BeatsInv, Entries
    <3>2. backlog[i].batch[1] \in Shippers /\ backlog[i].conn \in Nat BY <3>1 DEF EntryRecords
    <3>3. CASE backlog[i].batch[1] = s BY <1>1, <1>2, <3>1, <3>2, <3>3 DEF Waits
    <3>4. CASE backlog[i].batch[1] # s BY <1>1, <3>1, <3>2, <3>4 DEF Waits
    <3>5. QED BY <3>3, <3>4
  <2>2. QED BY <2>1 DEF BeatsInv, Entries, OnePerConn
<1>5. AcksHold'
  <2>1. \A t, n : Sent(t, n)' <=> Sent(t, n) BY DEF Sent, Logged
  <2>2. AcksHold BY DEF BeatsInv
  <2>3. drain.at = "send" => \A k \in 1..drain.sent : Logged(<<drain.batch[1], drain.batch[2], k>>)' BY <2>2 DEF AcksHold, Logged
  <2>4. /\ p.batch = p.acked + 1
        /\ \A n \in 1..p.acked : Sent(s, n)
        /\ v.at = "acked" => Sent(s, p.batch)
    BY <1>2, <2>2 DEF AcksHold
  <2>5. QED BY <1>1, <2>1, <2>2, <2>3, <2>4 DEF AcksHold
<1>6. LogOrder' BY DEF BeatsInv, LogOrder, LogEnds, Follows
<1>7. ClosesInOrder' BY <1>1 DEF BeatsInv, ClosesInOrder
<1>8. Once'
  <2> SUFFICES ASSUME resets' = 0 PROVE Once' BY DEF Once
  <2>1. resets = 0 /\ Once /\ v.conn = serving[s].conn BY DEF BeatsInv
  <2>2. ASSUME NEW t \in Shippers, NEW n \in Nat, Behind(t, n) PROVE Behind(t, n)'
    <3>1. CASE t = s BY <1>1, <1>2, <2>1, <2>2, <3>1 DEF Behind
    <3>2. CASE t # s BY <1>1, <2>2, <3>2 DEF Behind
    <3>3. QED BY <3>1, <3>2
  <2>3. \A i \in DOMAIN log : log[i][1] \in Shippers /\ log[i][2] \in Nat BY DEF BeatsInv, BeatsTyped
  <2>4. drain.at = "send" => drain.batch[1] \in Shippers /\ drain.batch[2] \in Nat BY DEF BeatsInv, BeatsTyped
  <2>5. \A t \in Shippers : serving'[t].conn = 1 BY <1>1, <2>1 DEF Once
  <2>6. \A i \in DOMAIN log : Behind(log[i][1], log[i][2])' BY <2>1, <2>2, <2>3 DEF Once
  <2>7. drain.at = "send" => Behind(drain.batch[1], drain.batch[2])' BY <2>1, <2>2, <2>4 DEF Once
  <2>8. QED BY <2>1, <2>5, <2>6, <2>7 DEF Once, OfBatch
<1>9. QED BY <1>3, <1>4, <1>5, <1>6, <1>7, <1>8 DEF BeatsInv

LEMMA BeatsConnections ==
  ASSUME BeatsInv, NEW s \in Shippers, Ship(s) \/ Disconnect(s) \/ AckArrives(s)
  PROVE  BeatsInv'
<1>1. /\ ship \in [Shippers -> ShipRecords] /\ serving \in [Shippers -> ServeRecords] /\ resets \in Nat
      /\ ship[s] \in ShipRecords /\ serving[s] \in ServeRecords
      /\ ship[s].batch \in Nat /\ ship[s].acked \in Nat /\ serving[s].conn \in Nat
      /\ server \in {"up", "closing", "closed", "stopped"}
      /\ serving[s].at # "off" => server \in {"up", "closing"}
  BY DEF BeatsInv, BeatsTyped, ShipRecords, ServeRecords, ClosesInOrder
<1>2. CASE Ship(s)
  <2> DEFINE p == [ship[s] EXCEPT !.at = "sent"]
             v == [serving[s] EXCEPT !.at = "push"]
  <2>1. /\ UNCHANGED <<backlog, drain, log, server, resets>> /\ serving[s].at = "read"
        /\ ship' = [ship EXCEPT ![s] = p] /\ serving' = [serving EXCEPT ![s] = v]
    BY <1>1, <1>2 DEF Ship, Serves
  <2>2. p \in ShipRecords /\ p.batch = ship[s].batch /\ p.acked = ship[s].acked BY <1>1 DEF ShipRecords
  <2>3. v \in ServeRecords /\ v.conn = serving[s].conn /\ v.at = "push" BY <1>1 DEF ServeRecords
  <2> HIDE DEF p, v
  <2>4. QED BY <1>1, <2>1, <2>2, <2>3, BeatsShips
<1>3. CASE Disconnect(s)
  <2> DEFINE p == [ship[s] EXCEPT !.at = "idle"]
  <2>1. UNCHANGED <<backlog, drain, log, server>> /\ ship' = [ship EXCEPT ![s] = p] /\ serving[s].at # "off"
    BY <1>1, <1>3 DEF Disconnect
  <2>2. p \in ShipRecords /\ p.batch = ship[s].batch /\ p.acked = ship[s].acked BY <1>1 DEF ShipRecords
  <2> HIDE DEF p
  <2>3. CASE server = "closing"
    <3> DEFINE v == [serving[s] EXCEPT !.at = "off"]
    <3>1. serving' = [serving EXCEPT ![s] = v] /\ resets' = resets BY <1>1, <1>3, <2>3 DEF Disconnect, Serves
    <3>2. v \in ServeRecords /\ v.conn = serving[s].conn /\ v.at = "off" BY <1>1 DEF ServeRecords
    <3> HIDE DEF v
    <3>3. QED BY <1>1, <2>1, <2>2, <3>1, <3>2, BeatsShips
  <2>4. CASE server # "closing"
    <3> DEFINE v == [at |-> "read", conn |-> serving[s].conn + 1]
    <3>1. serving' = [serving EXCEPT ![s] = v] /\ resets' = resets + 1 BY <1>1, <1>3, <2>4 DEF Disconnect
    <3>2. v \in ServeRecords /\ v.conn = serving[s].conn + 1 /\ v.at = "read" BY <1>1 DEF ServeRecords
    <3> HIDE DEF v
    <3>3. resets' \in Nat /\ resets' # 0 /\ v.conn > serving[s].conn BY <1>1, <3>1, <3>2
    <3>4. QED BY <1>1, <2>1, <2>2, <3>1, <3>2, <3>3, BeatsShips
  <2>5. QED BY <2>3, <2>4
<1>4. CASE AckArrives(s)
  <2> DEFINE p == [at |-> "idle", batch |-> ship[s].batch + 1, acked |-> ship[s].batch]
             v == [serving[s] EXCEPT !.at = "read"]
  <2>1. /\ UNCHANGED <<backlog, drain, log, server, resets>> /\ serving[s].at = "acked"
        /\ ship' = [ship EXCEPT ![s] = p] /\ serving' = [serving EXCEPT ![s] = v]
    BY <1>1, <1>4 DEF AckArrives, Serves
  <2>2. p \in ShipRecords /\ p.batch = ship[s].batch + 1 /\ p.acked = ship[s].batch BY <1>1 DEF ShipRecords
  <2>3. v \in ServeRecords /\ v.conn = serving[s].conn /\ v.at = "read" BY <1>1 DEF ServeRecords
  <2> HIDE DEF p, v
  <2>4. QED BY <1>1, <2>1, <2>2, <2>3, BeatsShips
<1>5. QED BY <1>2, <1>3, <1>4

LEMMA BeatsQueues == ASSUME BeatsInv, NEW s \in Shippers, BIQueue(s) PROVE BeatsInv'
<1> DEFINE v == [serving[s] EXCEPT !.at = "queued"]
           e == [batch |-> <<s, ship[s].batch>>, conn |-> serving[s].conn]
           n == Len(backlog)
<1>1. /\ ship \in [Shippers -> ShipRecords] /\ serving \in [Shippers -> ServeRecords] /\ backlog \in Seq(EntryRecords)
      /\ ship[s] \in ShipRecords /\ serving[s] \in ServeRecords
      /\ ship[s].batch \in Nat /\ serving[s].conn \in Nat /\ n \in Nat
      /\ UNCHANGED <<ship, drain, server, log, resets>> /\ serving[s].at = "push"
      /\ serving' = [serving EXCEPT ![s] = v] /\ backlog' = Append(backlog, e)
  BY DEF BeatsInv, BeatsTyped, ShipRecords, ServeRecords, BIQueue, Serves
<1>2. v \in ServeRecords /\ v.conn = serving[s].conn /\ v.at = "queued" BY <1>1 DEF ServeRecords
<1>3. e \in EntryRecords /\ e.batch[1] = s /\ e.batch[2] = ship[s].batch /\ e.conn = serving[s].conn
      /\ e.batch = <<s, ship[s].batch>>
  BY <1>1 DEF EntryRecords
<1> HIDE DEF v, e, n
<1>4. serving' \in [Shippers -> ServeRecords] /\ serving'[s] = v /\ \A t \in Shippers \ {s} : serving'[t] = serving[t]
  BY <1>1, <1>2
<1>5. /\ backlog' \in Seq(EntryRecords) /\ DOMAIN backlog = 1..n /\ DOMAIN backlog' = 1..n+1
      /\ backlog'[n + 1] = e /\ \A i \in 1..n : backlog'[i] = backlog[i]
  BY <1>1, <1>3 DEF n
<1>6. BeatsTyped' BY <1>1, <1>4, <1>5 DEF BeatsInv, BeatsTyped
<1>7. \A i \in 1..n : /\ Waits(backlog[i]) /\ backlog[i].batch[1] \in Shippers /\ backlog[i].conn \in Nat
                      /\ (backlog[i].batch[1] = s => backlog[i].conn < serving[s].conn)
  <2>1. \A i \in 1..n : Waits(backlog[i]) /\ backlog[i].batch[1] \in Shippers /\ backlog[i].conn \in Nat
    <3>0. \A i \in DOMAIN backlog : backlog[i] \in EntryRecords BY <1>1, InSeq
    <3>1. \A i \in 1..n : backlog[i] \in EntryRecords /\ Waits(backlog[i]) BY <1>5, <3>0 DEF BeatsInv, Entries
    <3>2. \A x \in EntryRecords : x.batch[1] \in Shippers /\ x.conn \in Nat BY DEF EntryRecords
    <3>3. QED BY <3>1, <3>2
  <2>2. QED BY <1>1, <2>1 DEF Waits
<1>8. Entries'
  <2>1. ASSUME NEW i \in 1..n+1 PROVE Waits(backlog[i])'
    <3> DEFINE x == backlog'[i]
    <3>1. \/ x = e
          \/ x.batch[1] = s /\ x.conn < serving[s].conn
          \/ x.batch[1] # s /\ x.batch[1] \in Shippers /\ Waits(x)
      <4>1. CASE i = n + 1 BY <1>5, <4>1
      <4>2. CASE i \in 1..n
        <5>1. x = backlog[i] BY <1>5, <4>2
        <5>2. /\ Waits(backlog[i]) /\ backlog[i].batch[1] \in Shippers
              /\ (backlog[i].batch[1] = s => backlog[i].conn < serving[s].conn)
          BY <1>7, <4>2
        <5> HIDE DEF x
        <5>3. QED BY <5>1, <5>2
      <4>3. i = n + 1 \/ i \in 1..n BY <1>1
      <4>4. QED BY <4>1, <4>2, <4>3
    <3> DEFINE c == serving[s].conn
    <3>2. c \in Nat BY <1>1
    <3>4. x \in EntryRecords
      <4>1. backlog' \in Seq(EntryRecords) /\ i \in DOMAIN backlog' BY <1>5
      <4>2. QED BY <4>1, InSeq
    <3>5. x.conn \in Nat BY <3>4 DEF EntryRecords
    <3> HIDE DEF x, c
    <3>6. CASE x = e BY <1>1, <1>2, <1>3, <1>4, <3>2, <3>6 DEF Waits, x, c
    <3>7. CASE x.batch[1] = s /\ x.conn < c
      <4>1. x.conn <= c /\ x.conn # c BY <3>2, <3>5, <3>7
      <4>2. serving'[s].conn = c BY <1>2, <1>4 DEF c
      <4>3. QED BY <3>7, <4>1, <4>2 DEF Waits, x
    <3>8. CASE x.batch[1] # s /\ x.batch[1] \in Shippers /\ Waits(x) BY <1>1, <1>4, <3>8 DEF Waits, x
    <3>9. QED BY <3>1, <3>6, <3>7, <3>8 DEF c
  <2>2. OnePerConn'
    <3>1. ASSUME NEW i \in 1..n+1, NEW j \in 1..n+1, i # j, backlog'[i].batch[1] = backlog'[j].batch[1]
          PROVE  backlog'[i].conn # backlog'[j].conn
      <4>0. \A k \in 1..n+1 : k = n + 1 \/ k \in 1..n BY <1>1
      <4>1. CASE i \in 1..n /\ j \in 1..n BY <1>5, <3>1, <4>1 DEF BeatsInv, Entries, OnePerConn
      <4>2. CASE i = n + 1 /\ j \in 1..n BY <1>1, <1>3, <1>5, <1>7, <3>1, <4>2
      <4>3. CASE j = n + 1 /\ i \in 1..n BY <1>1, <1>3, <1>5, <1>7, <3>1, <4>3
      <4>4. QED BY <3>1, <4>0, <4>1, <4>2, <4>3
    <3>2. QED BY <1>5, <3>1 DEF OnePerConn
  <2>3. QED BY <1>5, <2>1, <2>2 DEF Entries
<1>9. AcksHold'
  <2>1. \A t, k : Sent(t, k)' <=> Sent(t, k) BY <1>1 DEF Sent, Logged
  <2>2. \A t \in Shippers : serving'[t].at = "acked" => serving[t].at = "acked" BY <1>2, <1>4
  <2>3. AcksHold BY DEF BeatsInv
  <2>4. QED BY <1>1, <2>1, <2>2, <2>3 DEF AcksHold, Logged
<1>10. LogOrder' BY <1>1 DEF BeatsInv, LogOrder, LogEnds, Follows
<1>11. ClosesInOrder' BY <1>1, <1>4 DEF BeatsInv, ClosesInOrder
<1>12. Once'
  <2> SUFFICES ASSUME resets = 0 PROVE Once' BY <1>1 DEF Once
  <2>1. Once BY DEF BeatsInv
  <2>2. ASSUME NEW t \in Shippers, NEW k \in Nat, Behind(t, k) PROVE Behind(t, k)' /\ ~(t = s /\ k = ship[s].batch)
    <3>1. CASE t = s BY <1>1, <1>2, <1>4, <2>2, <3>1 DEF Behind
    <3>2. CASE t # s BY <1>1, <1>4, <2>2, <3>2 DEF Behind
    <3>3. QED BY <3>1, <3>2
  <2>3. \A i \in DOMAIN log : log[i][1] \in Shippers /\ log[i][2] \in Nat BY DEF BeatsInv, BeatsTyped
  <2>4. drain.at = "send" => drain.batch[1] \in Shippers /\ drain.batch[2] \in Nat BY DEF BeatsInv, BeatsTyped
  <2>5. \A t \in Shippers : serving'[t].conn = 1 BY <1>2, <1>4, <2>1 DEF Once
  <2>6. \A i \in DOMAIN log : Behind(log[i][1], log[i][2])' /\ ~OfBatch(log[i], e.batch)
    <3>1. ASSUME NEW i \in DOMAIN log
          PROVE  Behind(log[i][1], log[i][2])' /\ ~(log[i][1] = s /\ log[i][2] = ship[s].batch)
      <4>1. Behind(log[i][1], log[i][2]) BY <2>1 DEF Once
      <4> DEFINE t == log[i][1]
                 k == log[i][2]
      <4>2. t \in Shippers /\ k \in Nat BY <2>3
      <4>3. log' = log BY <1>1
      <4> HIDE DEF t, k
      <4>4. Behind(t, k) BY <4>1 DEF t, k
      <4>5. /\ k < ship'[t].batch \/ (k = ship'[t].batch /\ serving'[t].at \in {"acked", "off"})
            /\ ~(t = s /\ k = ship[s].batch)
        BY <1>1, <1>2, <1>4, <4>2, <4>4, <2>2 DEF Behind
      <4>6. QED BY <4>3, <4>5 DEF Behind, t, k
    <3>2. QED BY <1>3, <3>1 DEF OfBatch
  <2>7. drain.at = "send" => Behind(drain.batch[1], drain.batch[2])' /\ drain.batch # e.batch
    <3> SUFFICES ASSUME drain.at = "send"
                 PROVE  Behind(drain.batch[1], drain.batch[2])' /\ drain.batch # e.batch
      OBVIOUS
    <3> DEFINE t == drain.batch[1]
               k == drain.batch[2]
    <3>1. t \in Shippers /\ k \in Nat /\ Behind(t, k) BY <2>1, <2>4 DEF Once
    <3>2. drain' = drain BY <1>1
    <3> HIDE DEF t, k
    <3>3. /\ k < ship'[t].batch \/ (k = ship'[t].batch /\ serving'[t].at \in {"acked", "off"})
          /\ ~(t = s /\ k = ship[s].batch)
      BY <1>1, <1>2, <1>4, <3>1, <2>2 DEF Behind
    <3>4. QED BY <1>3, <3>2, <3>3 DEF Behind, t, k
  <2>8. \A i \in 1..n+1 : /\ backlog'[i].conn = 1 /\ (\A j \in DOMAIN log : ~OfBatch(log[j], backlog'[i].batch))
                          /\ (drain.at = "send" => drain.batch # backlog'[i].batch)
    <3>1. e.conn = 1 BY <1>3, <2>1 DEF Once
    <3>2. \A i \in 1..n+1 : i = n + 1 \/ i \in 1..n BY <1>1
    <3>3. QED BY <1>5, <2>1, <2>6, <2>7, <3>1, <3>2 DEF Once
  <2>9. QED BY <1>1, <1>5, <2>1, <2>5, <2>6, <2>7, <2>8 DEF Once, OfBatch
<1>13. QED BY <1>6, <1>8, <1>9, <1>10, <1>11, <1>12 DEF BeatsInv

LEMMA OfTail == ASSUME NEW S, NEW q \in Seq(S), q # <<>>
                PROVE  /\ Head(q) \in S /\ Head(q) = q[1] /\ 1 \in DOMAIN q /\ Tail(q) \in Seq(S)
                       /\ \A i \in DOMAIN Tail(q) : i + 1 \in DOMAIN q /\ Tail(q)[i] = q[i + 1] /\ i # 0 /\ i \in Nat
OBVIOUS
LEMMA OfAppend == ASSUME NEW S, NEW q \in Seq(S), NEW x \in S
                  PROVE  /\ Append(q, x) \in Seq(S) /\ Len(Append(q, x)) = Len(q) + 1 /\ Len(q) \in Nat
                         /\ DOMAIN q = 1..Len(q) /\ DOMAIN Append(q, x) = 1..Len(q)+1
                         /\ Append(q, x)[Len(q) + 1] = x /\ \A i \in 1..Len(q) : Append(q, x)[i] = q[i]
OBVIOUS
LEMMA OfPair == ASSUME NEW b \in Shippers \X Nat PROVE b[1] \in Shippers /\ b[2] \in Nat /\ b = <<b[1], b[2]>>
OBVIOUS

LEMMA BeatsTakes == ASSUME InputBounds, BeatsInv, TakeBatch PROVE BeatsInv'
<1> DEFINE e == Head(backlog)
<1>1. /\ ship \in [Shippers -> ShipRecords] /\ serving \in [Shippers -> ServeRecords] /\ backlog \in Seq(EntryRecords)
      /\ UNCHANGED <<ship, server, log, resets>> /\ drain.at = "range" /\ backlog # <<>>
      /\ drain' = [at |-> "send", batch |-> e.batch, sent |-> 0] /\ backlog' = Tail(backlog)
      /\ IF serving[e.batch[1]].at = "queued" /\ serving[e.batch[1]].conn = e.conn
         THEN Serves(e.batch[1], "acked") ELSE UNCHANGED serving
  BY DEF BeatsInv, BeatsTyped, TakeBatch
<1>2. e \in EntryRecords /\ e = backlog[1] /\ 1 \in DOMAIN backlog BY <1>1, OfTail
<1> HIDE DEF e
<1>3. PICK s \in Shippers, k \in Nat, c \in Nat : e.batch[1] = s /\ e.batch[2] = k /\ e.conn = c /\ e.batch = <<s, k>>
  <2>1. e.batch \in Shippers \X Nat /\ e.conn \in Nat BY <1>2 DEF EntryRecords
  <2>2. QED BY <2>1, OfPair
<1>4. <<s, k>> \in Shippers \X Nat /\ drain' = [at |-> "send", batch |-> <<s, k>>, sent |-> 0] BY <1>1, <1>3
<1>5. c <= serving[s].conn /\ (c = serving[s].conn => serving[s].at \in {"queued", "off"} /\ k = ship[s].batch)
  BY <1>2, <1>3 DEF BeatsInv, Entries, Waits
<1> DEFINE acks1 == serving[s].at = "queued" /\ serving[s].conn = c
<1>6. /\ serving' \in [Shippers -> ServeRecords]
      /\ \A t \in Shippers : serving'[t].conn = serving[t].conn
      /\ \A t \in Shippers : serving'[t].at = serving[t].at \/ (t = s /\ acks1 /\ serving'[t].at = "acked")
      /\ acks1 => serving'[s].at = "acked"
  <2>1. CASE acks1
    <3> DEFINE v == [serving[s] EXCEPT !.at = "acked"]
    <3>1. serving' = [serving EXCEPT ![s] = v] BY <1>1, <1>3, <2>1 DEF Serves
    <3>2. v \in ServeRecords /\ v.conn = serving[s].conn /\ v.at = "acked" BY <1>1 DEF ServeRecords
    <3> HIDE DEF v
    <3>3. QED BY <1>1, <2>1, <3>1, <3>2
  <2>2. CASE ~acks1 BY <1>1, <1>3, <2>2
  <2>3. QED BY <2>1, <2>2
<1>7. /\ Tail(backlog) \in Seq(EntryRecords)
      /\ \A i \in DOMAIN backlog' : i + 1 \in DOMAIN backlog /\ backlog'[i] = backlog[i + 1] /\ i # 0 /\ i \in Nat
  BY <1>1, OfTail
<1>8. BeatsTyped'
  <2>1. drain' \in DrainRecords /\ drain'.batch = <<s, k>> /\ drain'.sent = 0 /\ drain'.at = "send"
    BY <1>4 DEF DrainRecords
  <2>2. 0 < BatchLen BY DEF InputBounds
  <2>3. QED BY <1>1, <1>4, <1>6, <1>7, <2>1, <2>2 DEF BeatsInv, BeatsTyped
<1>9. drain'.at = "send" /\ drain'.batch = <<s, k>> /\ drain'.sent = 0 BY <1>4
<1>10. \A i \in DOMAIN backlog' :
         /\ backlog'[i].batch[1] \in Shippers /\ backlog'[i].conn \in Nat /\ backlog'[i].batch \in Shippers \X Nat
         /\ Waits(backlog'[i]) /\ (backlog'[i].batch[1] = s => backlog'[i].conn # c)
  <2> TAKE i \in DOMAIN backlog'
  <2>1. i + 1 \in DOMAIN backlog /\ backlog'[i] = backlog[i + 1] /\ i + 1 # 1 BY <1>7
  <2>2. backlog[i + 1] \in EntryRecords BY <1>1, <2>1, InSeq
  <2>3. Waits(backlog[i + 1]) /\ (backlog[i + 1].batch[1] = backlog[1].batch[1] => backlog[i + 1].conn # backlog[1].conn)
    BY <1>2, <2>1 DEF BeatsInv, Entries, OnePerConn
  <2>4. \A x \in EntryRecords : x.batch[1] \in Shippers /\ x.conn \in Nat /\ x.batch \in Shippers \X Nat BY DEF EntryRecords
  <2>5. QED BY <1>2, <1>3, <2>1, <2>2, <2>3, <2>4
<1>11. Entries'
  <2>1. ASSUME NEW i \in DOMAIN backlog' PROVE Waits(backlog[i])'
    <3> DEFINE x == backlog'[i]
               t == x.batch[1]
    <3>1. /\ t \in Shippers /\ x.conn <= serving[t].conn
          /\ (x.conn = serving[t].conn => serving[t].at \in {"queued", "off"} /\ x.batch[2] = ship[t].batch)
          /\ (t = s => x.conn # c)
      BY <1>10, <2>1 DEF Waits
    <3> HIDE DEF x
    <3>2. /\ x.conn <= serving'[t].conn
          /\ (x.conn = serving'[t].conn => serving'[t].at \in {"queued", "off"} /\ x.batch[2] = ship'[t].batch)
      BY <1>1, <1>6, <3>1
    <3>3. QED BY <3>2 DEF Waits, x
  <2>2. OnePerConn'
    <3>1. ASSUME NEW i \in DOMAIN backlog', NEW j \in DOMAIN backlog', i # j, backlog'[i].batch[1] = backlog'[j].batch[1]
          PROVE  backlog'[i].conn # backlog'[j].conn
      <4>1. i + 1 # j + 1 /\ i + 1 \in DOMAIN backlog /\ j + 1 \in DOMAIN backlog BY <1>7, <3>1
      <4>2. backlog'[i] = backlog[i + 1] /\ backlog'[j] = backlog[j + 1] BY <1>7
      <4>3. QED BY <3>1, <4>1, <4>2 DEF BeatsInv, Entries, OnePerConn
    <3>2. QED BY <3>1 DEF OnePerConn
  <2>3. QED BY <2>1, <2>2 DEF Entries
<1>12. AcksHold'
  <2>1. AcksHold BY DEF BeatsInv
  <2>2. \A t, n : Sent(t, n) => Sent(t, n)' BY <1>1 DEF Sent, Logged
  <2>3. acks1 => Sent(s, ship[s].batch)'
    <3>1. acks1 => k = ship'[s].batch BY <1>1, <1>5
    <3>2. QED BY <1>9, <3>1 DEF Sent
  <2>4. ASSUME NEW t \in Shippers PROVE serving'[t].at = "acked" => Sent(t, ship[t].batch)'
    <3>1. serving[t].at = "acked" => Sent(t, ship[t].batch) BY <2>1 DEF AcksHold
    <3>2. ship'[t].batch = ship[t].batch BY <1>1
    <3>3. Sent(t, ship[t].batch) => Sent(t, ship[t].batch)'
      <4>1. PICK m : m = ship[t].batch OBVIOUS
      <4>2. Sent(t, m) => Sent(t, m)' BY <2>2
      <4>3. QED BY <3>2, <4>1, <4>2 DEF Sent, Logged
    <3>4. QED BY <1>6, <2>3, <3>1, <3>3
  <2>5. \A j \in 1..drain'.sent : FALSE BY <1>9
  <2>6. QED BY <1>1, <2>1, <2>2, <2>4, <2>5 DEF AcksHold
<1>13. LogOrder'
  <2>1. drain.sent = 0 BY <1>1 DEF BeatsInv, LogOrder, LogEnds
  <2>2. QED BY <1>1, <1>9, <2>1 DEF BeatsInv, LogOrder, LogEnds, Follows
<1>14. ClosesInOrder'
  <2>1. \A t \in Shippers : serving[t].at = "off" => serving'[t].at = "off"
    BY <1>6
  <2>2. QED BY <1>1, <1>9, <2>1 DEF BeatsInv, ClosesInOrder
<1>15. Once'
  <2> SUFFICES ASSUME resets = 0 PROVE Once' BY <1>1 DEF Once
  <2>1. Once /\ resets = 0 BY DEF BeatsInv
  <2>2. ASSUME NEW t \in Shippers, NEW n \in Nat, Behind(t, n) PROVE Behind(t, n)' BY <1>1, <1>6, <2>2 DEF Behind
  <2>3. \A t \in Shippers : serving'[t].conn = 1 BY <1>6, <2>1 DEF Once
  <2>4. ASSUME NEW i \in DOMAIN log PROVE Behind(log[i][1], log[i][2])'
    <3>1. log[i] \in Shippers \X Nat \X Nat BY InSeq DEF BeatsInv, BeatsTyped
    <3>2. PICK t \in Shippers, n \in Nat : log[i][1] = t /\ log[i][2] = n BY <3>1
    <3>3. Behind(t, n) BY <2>1, <3>2 DEF Once
    <3>4. Behind(t, n)' /\ log'[i][1] = t /\ log'[i][2] = n BY <1>1, <2>2, <3>2, <3>3
    <3>5. QED BY <3>4 DEF Behind
  <2>5. Behind(s, k)'
    <3>1. c = 1 /\ serving[s].conn = 1 BY <1>2, <1>3, <2>1 DEF Once
    <3>2. serving'[s].at \in {"acked", "off"} BY <1>5, <1>6, <3>1
    <3>3. QED BY <1>1, <1>5, <3>1, <3>2 DEF Behind
  <2>6. \A j \in DOMAIN log : ~OfBatch(log[j], <<s, k>>) BY <1>2, <1>3, <2>1 DEF Once
  <2>7. ASSUME NEW i \in DOMAIN backlog'
        PROVE  /\ backlog'[i].conn = 1 /\ (\A j \in DOMAIN log : ~OfBatch(log[j], backlog'[i].batch))
               /\ <<s, k>> # backlog'[i].batch
    <3>1. backlog'[i] = backlog[i + 1] /\ i + 1 \in DOMAIN backlog BY <1>7
    <3>2. c = 1 /\ backlog[i + 1].conn = 1 BY <1>2, <1>3, <2>1, <3>1 DEF Once
    <3>3. backlog'[i].batch[1] # s BY <1>10, <3>1, <3>2
    <3>4. \A j \in DOMAIN log : ~OfBatch(log[j], backlog[i + 1].batch) BY <2>1, <3>1 DEF Once
    <3>5. QED BY <3>1, <3>2, <3>3, <3>4
  <2>8. log' = log /\ drain'.at = "send" /\ drain'.batch = <<s, k>> /\ drain'.batch[1] = s /\ drain'.batch[2] = k
    BY <1>1, <1>9
  <2>9. \A i \in DOMAIN backlog' :
           /\ backlog'[i].conn = 1 /\ (\A j \in DOMAIN log' : ~OfBatch(log'[j], backlog'[i].batch))
           /\ (drain'.at = "send" => drain'.batch # backlog'[i].batch)
    BY <2>7, <2>8 DEF OfBatch
  <2>10. \A i \in DOMAIN log' : Behind(log[i][1], log[i][2])' BY <2>4, <2>8
  <2>11. Behind(drain.batch[1], drain.batch[2])' BY <2>5, <2>8
  <2>12. \A i \in DOMAIN log' : ~OfBatch(log'[i], drain'.batch) BY <2>6, <2>8 DEF OfBatch
  <2>13. \A i, j \in DOMAIN log' : log'[i] = log'[j] => i = j BY <2>1, <2>8 DEF Once
  <2>14. QED BY <2>3, <2>9, <2>10, <2>11, <2>12, <2>13 DEF Once, OfBatch
<1>16. QED BY <1>8, <1>11, <1>12, <1>13, <1>14, <1>15 DEF BeatsInv

LEMMA BeatsSends == ASSUME InputBounds, BeatsInv, BISend PROVE BeatsInv'
<1>0. PICK n \in Nat : n = Len(log) BY DEF BeatsInv, BeatsTyped
<1>1. PICK s \in Shippers, b \in Nat, k \in Nat :
        /\ drain.batch[1] = s /\ drain.batch[2] = b /\ drain.batch = <<s, b>> /\ drain.sent = k /\ k < BatchLen
        /\ <<s, b, k + 1>> \in Shippers \X Nat \X Nat
  <2>1. drain.at = "send" /\ drain.batch \in Shippers \X Nat /\ drain.sent \in Nat /\ drain.sent < BatchLen
    BY DEF BISend, BeatsInv, BeatsTyped, DrainRecords
  <2>2. PICK s \in Shippers, b \in Nat : drain.batch[1] = s /\ drain.batch[2] = b /\ drain.batch = <<s, b>> BY <2>1, OfPair
  <2>3. PICK k \in Nat : drain.sent = k BY <2>1
  <2>4. <<s, b, k + 1>> \in Shippers \X Nat \X Nat OBVIOUS
  <2>5. QED BY <2>1, <2>2, <2>3, <2>4
<1> DEFINE x == <<s, b, k + 1>>
<1>2. /\ UNCHANGED <<ship, serving, backlog, server, resets>> /\ drain.at = "send" /\ log' = Append(log, x)
      /\ drain' = IF k + 1 = BatchLen THEN [at |-> "range", batch |-> <<>>, sent |-> 0] ELSE [drain EXCEPT !.sent = k + 1]
      /\ log \in Seq(Shippers \X Nat \X Nat) /\ drain \in DrainRecords /\ BatchLen \in Nat \ {0}
  BY <1>1 DEF BISend, BeatsInv, BeatsTyped, InputBounds
<1>3. x \in Shippers \X Nat \X Nat /\ x[1] = s /\ x[2] = b /\ x[3] = k + 1 BY <1>1
<1>4. /\ log' \in Seq(Shippers \X Nat \X Nat) /\ Len(log') = n + 1 /\ n \in Nat
      /\ DOMAIN log = 1..n /\ DOMAIN log' = 1..n+1
      /\ log'[n + 1] = x /\ \A i \in 1..n : log'[i] = log[i]
  BY SMTT(60), <1>0, <1>2, <1>3, OfAppend
<1> HIDE DEF x
<1>5. (\A i \in 1..n+1 : i = n + 1 \/ i \in 1..n) /\ n + 1 \in 1..n+1 /\ \A i \in 1..n : i \in 1..n+1 BY <1>4
<1>6. \/ k + 1 = BatchLen /\ drain' \in DrainRecords /\ drain'.at = "range" /\ drain'.sent = 0
      \/ k + 1 # BatchLen /\ drain' \in DrainRecords /\ drain'.at = "send" /\ drain'.sent = k + 1 /\ drain'.batch = <<s, b>>
  BY <1>1, <1>2 DEF DrainRecords
<1>7. BeatsTyped'
  <2>1. drain' \in DrainRecords /\ drain'.sent < BatchLen BY SMTT(60), <1>1, <1>2, <1>6
  <2>0. <<s, b>> \in Shippers \X Nat OBVIOUS
  <2>2. drain'.at = "send" => drain'.batch \in Shippers \X Nat BY <1>6, <2>0
  <2>3. QED BY <1>2, <1>4, <2>1, <2>2 DEF BeatsInv, BeatsTyped
<1>8. Entries' BY <1>2 DEF BeatsInv, Entries, OnePerConn, Waits
<1>9. ASSUME NEW e, Logged(e) PROVE Logged(e)'
  <2>1. PICK i \in 1..n : log[i] = e BY <1>4, <1>9 DEF Logged
  <2>2. i \in DOMAIN log' /\ log'[i] = e BY <1>4, <1>5, <2>1
  <2>3. QED BY <2>2 DEF Logged
<1>10. Logged(<<s, b, k + 1>>)'
  <2>1. n + 1 \in DOMAIN log' /\ log'[n + 1] = <<s, b, k + 1>> BY <1>4, <1>5 DEF x
  <2>2. QED BY <2>1 DEF Logged
<1>11. \A j \in 1..k : Logged(<<s, b, j>>) BY <1>1, <1>2 DEF BeatsInv, AcksHold
<1>12. \A j \in 1..k+1 : Logged(<<s, b, j>>)'
  <2>1. \A j \in 1..k+1 : j = k + 1 \/ j \in 1..k BY <1>1
  <2>2. QED BY <1>9, <1>10, <1>11, <2>1
<1>13. AcksHold'
  <2>1. ASSUME NEW t \in Shippers, NEW m \in Nat, Sent(t, m) PROVE Sent(t, m)'
    <3>1. CASE \A j \in 1..BatchLen : Logged(<<t, m, j>>) BY <1>9, <3>1 DEF Sent
    <3>2. CASE drain.batch = <<t, m>>
      <4>1. t = s /\ m = b BY <1>1, <3>2
      <4>2. QED BY <1>6, <1>12, <4>1 DEF Sent
    <3>3. QED BY <2>1, <3>1, <3>2 DEF Sent
  <2>2. ASSUME NEW t \in Shippers
        PROVE  /\ ship'[t].batch = ship'[t].acked + 1
               /\ \A m \in 1..ship'[t].acked : Sent(t, m)'
               /\ serving'[t].at = "acked" => Sent(t, ship[t].batch)'
    <3>1. /\ ship[t].batch = ship[t].acked + 1 /\ \A m \in 1..ship[t].acked : Sent(t, m)
          /\ serving[t].at = "acked" => Sent(t, ship[t].batch)
      BY DEF BeatsInv, AcksHold
    <3>2. PICK q \in Nat, a \in Nat : ship[t].batch = q /\ ship[t].acked = a BY DEF BeatsInv, BeatsTyped, ShipRecords
    <3>3. \A m \in 1..a : m \in Nat BY <3>2
    <3>4. ship'[t].batch = q /\ ship'[t].acked = a /\ serving' = serving BY <1>2, <3>2
    <3>5. serving[t].at = "acked" => Sent(t, q)' BY <2>1, <3>1, <3>2
    <3>6. Sent(t, q)' => Sent(t, ship[t].batch)' BY <3>4 DEF Sent, Logged
    <3>7. QED BY <2>1, <3>1, <3>2, <3>3, <3>4, <3>5, <3>6
  <2>3. drain'.at = "send" => \A j \in 1..drain'.sent : Logged(<<drain.batch[1], drain.batch[2], j>>)'
    <3> SUFFICES ASSUME drain'.at = "send" PROVE \A j \in 1..drain'.sent : Logged(<<drain.batch[1], drain.batch[2], j>>)'
      OBVIOUS
    <3>1. drain'.sent = k + 1 /\ drain'.batch[1] = s /\ drain'.batch[2] = b BY <1>6
    <3>2. QED BY <1>12, <3>1 DEF Logged
  <2>4. QED BY <2>2, <2>3 DEF AcksHold
<1>14. LogOrder'
  <2>1. IF k = 0 THEN n = 0 \/ log[n][3] = BatchLen ELSE n > 0 /\ log[n] = <<s, b, k>>
    BY <1>0, <1>1 DEF BeatsInv, LogOrder, LogEnds
  <2>2. Follows(n + 1)'
    <3>1. CASE k = 0
      <4>1. log'[n + 1][3] = 1 BY <1>1, <1>3, <1>4, <3>1
      <4>2. (n + 1) - 1 = n /\ (n # 0 => n \in 1..n) BY <1>4
      <4>3. n + 1 = 1 \/ log'[(n + 1) - 1][3] = BatchLen BY <1>4, <2>1, <3>1, <4>2
      <4>4. QED BY <4>1, <4>3 DEF Follows
    <3>2. CASE k # 0
      <4>1. n > 0 /\ log[n] = <<s, b, k>> BY <2>1, <3>2
      <4>2. n \in 1..n /\ (n + 1) - 1 = n /\ n + 1 > 1 BY <1>4, <4>1
      <4>3. log'[(n + 1) - 1] = <<s, b, k>> BY <1>4, <4>1, <4>2
      <4>4. [<<s, b, k>> EXCEPT ![3] = @ + 1] = <<s, b, k + 1>> OBVIOUS
      <4>5. log'[n + 1] = [log'[(n + 1) - 1] EXCEPT ![3] = @ + 1] BY <1>4, <4>3, <4>4 DEF x
      <4>6. QED BY <4>2, <4>5 DEF Follows
    <3>3. QED BY <3>1, <3>2
  <2>3. ASSUME NEW i \in 1..n PROVE Follows(i)'
    <3>1. Follows(i) BY <1>4 DEF BeatsInv, LogOrder
    <3>2. i = 1 \/ i - 1 \in 1..n BY <1>4
    <3>3. log'[i] = log[i] /\ (i = 1 \/ log'[i - 1] = log[i - 1]) BY <1>4, <3>2
    <3>4. CASE log[i][3] = 1 /\ (i = 1 \/ log[i - 1][3] = BatchLen) BY <3>3, <3>4 DEF Follows
    <3>5. CASE i > 1 /\ log[i] = [log[i - 1] EXCEPT ![3] = @ + 1]
      <4>1. i # 1 BY <3>5
      <4>2. log'[i - 1] = log[i - 1] BY <3>3, <4>1
      <4>3. QED BY <3>3, <3>5, <4>2 DEF Follows
    <3>6. QED BY <3>1, <3>4, <3>5 DEF Follows
  <2>4. LogEnds'
    <3>1. Len(log') > 0 /\ log'[Len(log')] = <<s, b, k + 1>> /\ log'[Len(log')][3] = k + 1 BY <1>3, <1>4 DEF x
    <3>2. k + 1 # 0 BY <1>1
    <3>3. CASE drain'.at = "range"
      <4>1. drain'.sent = 0 /\ k + 1 = BatchLen BY <1>6, <3>3
      <4>2. QED BY <3>1, <4>1 DEF LogEnds
    <3>4. CASE drain'.at # "range"
      <4>1. drain'.at = "send" /\ drain'.sent = k + 1 /\ drain'.batch[1] = s /\ drain'.batch[2] = b BY <1>6, <3>4
      <4>2. QED BY <3>1, <3>2, <4>1 DEF LogEnds
    <3>5. QED BY <3>3, <3>4
  <2>5. \A i \in DOMAIN log' : Follows(i)' BY <1>4, <1>5, <2>2, <2>3
  <2>6. QED BY <2>4, <2>5 DEF LogOrder
<1>15. ClosesInOrder' BY <1>2, <1>6 DEF BeatsInv, ClosesInOrder
<1>16. Once'
  <2> SUFFICES ASSUME resets = 0 PROVE Once' BY <1>2 DEF Once
  <2>1. Once /\ resets = 0 BY DEF BeatsInv
  <2>2. ASSUME NEW t, NEW m, Behind(t, m) PROVE Behind(t, m)' BY <1>2, <2>2 DEF Behind
  <2>3. Behind(s, b) /\ \A i \in 1..n : OfBatch(log[i], <<s, b>>) => log[i][3] <= k
    BY <1>1, <1>2, <1>4, <2>1 DEF Once
  <2>4. ASSUME NEW i \in 1..n+1 PROVE Behind(log[i][1], log[i][2])'
    <3>1. CASE i \in 1..n
      <4>1. Behind(log[i][1], log[i][2]) BY <1>4, <2>1, <3>1 DEF Once
      <4>2. log'[i] = log[i] BY <1>4, <3>1
      <4>3. QED BY <1>2, <4>1, <4>2 DEF Behind
    <3>2. CASE i = n + 1
      <4>1. log'[i][1] = s /\ log'[i][2] = b BY <1>3, <1>4, <3>2
      <4>2. QED BY <1>2, <2>3, <4>1 DEF Behind
    <3>3. QED BY <1>5, <3>1, <3>2
  <2>5. drain'.at = "send" => /\ Behind(drain.batch[1], drain.batch[2])'
                              /\ \A i \in 1..n+1 : OfBatch(log'[i], drain'.batch) => log'[i][3] <= drain'.sent
    <3> SUFFICES ASSUME drain'.at = "send"
                 PROVE  /\ Behind(drain.batch[1], drain.batch[2])'
                        /\ \A i \in 1..n+1 : OfBatch(log'[i], drain'.batch) => log'[i][3] <= drain'.sent
      OBVIOUS
    <3>1. drain'.sent = k + 1 /\ drain'.batch[1] = s /\ drain'.batch[2] = b /\ drain'.batch = <<s, b>> BY <1>6
    <3>2. Behind(drain.batch[1], drain.batch[2])' BY <1>2, <2>3, <3>1 DEF Behind
    <3>3. ASSUME NEW i \in 1..n+1, OfBatch(log'[i], <<s, b>>) PROVE log'[i][3] <= k + 1
      <4>1. CASE i \in 1..n
        <5>1. log'[i] = log[i] /\ log[i] \in Shippers \X Nat \X Nat BY <1>2, <1>4, <4>1, InSeq
        <5>2. log[i][3] <= k /\ log[i][3] \in Nat BY <2>3, <3>3, <4>1, <5>1
        <5>3. QED BY <1>1, <5>1, <5>2
      <4>2. CASE i = n + 1 BY <1>1, <1>3, <1>4, <4>2
      <4>3. QED BY <1>5, <4>1, <4>2
    <3>4. QED BY <3>1, <3>2, <3>3
  <2>6. ASSUME NEW i \in DOMAIN backlog
        PROVE  /\ backlog'[i].conn = 1 /\ (\A j \in 1..n+1 : ~OfBatch(log'[j], backlog'[i].batch))
               /\ (drain'.at = "send" => drain'.batch # backlog'[i].batch)
    <3>1. /\ backlog[i].conn = 1 /\ (\A j \in 1..n : ~OfBatch(log[j], backlog[i].batch))
          /\ <<s, b>> # backlog[i].batch
      BY <1>1, <1>2, <1>4, <2>1 DEF Once
    <3>2. backlog[i] \in EntryRecords BY InSeq DEF BeatsInv, BeatsTyped
    <3>3. backlog[i].batch \in Shippers \X Nat BY <3>2 DEF EntryRecords
    <3>4. ~OfBatch(x, backlog[i].batch) BY <1>3, <3>1, <3>3, OfPair DEF OfBatch
    <3>5. QED BY <1>2, <1>4, <1>5, <1>6, <3>1, <3>4
  <2>7. ASSUME NEW i \in 1..n+1, NEW j \in 1..n+1, log'[i] = log'[j] PROVE i = j
    <3>1. \A m \in 1..n : log[m] # x
      <4>1. ASSUME NEW m \in 1..n, log[m] = x PROVE FALSE
        <5>1. OfBatch(log[m], <<s, b>>) BY <1>3, <4>1 DEF OfBatch
        <5>2. log[m][3] = k + 1 /\ log[m][3] <= k BY <1>3, <2>3, <4>1, <5>1
        <5>3. QED BY <1>1, <5>2
      <4>2. QED BY <4>1
    <3>2. \A m, o \in 1..n : log[m] = log[o] => m = o BY <1>4, <2>1 DEF Once
    <3>3. QED BY <1>4, <1>5, <2>7, <3>1, <3>2
  <2>8. QED BY <1>2, <1>4, <2>1, <2>4, <2>5, <2>6, <2>7 DEF Once
<1>17. QED BY <1>7, <1>8, <1>13, <1>14, <1>15, <1>16 DEF BeatsInv

LEMMA BeatsStep == ASSUME InputBounds, BeatsInv, [BINext]_biVars PROVE BeatsInv'
<1>1. CASE UNCHANGED biVars
  <2>1. UNCHANGED <<ship, serving, backlog, drain, server, log, resets>> BY <1>1 DEF biVars
  <2>2. BeatsTyped' /\ ClosesInOrder' BY <2>1 DEF BeatsInv, BeatsTyped, ClosesInOrder
  <2>3. Entries' /\ LogOrder' BY <2>1 DEF BeatsInv, Entries, OnePerConn, Waits, LogOrder, LogEnds, Follows
  <2>4. AcksHold' BY <2>1 DEF BeatsInv, AcksHold, Sent, Logged
  <2>5. Once' BY <2>1 DEF BeatsInv, Once, Behind, OfBatch
  <2>6. QED BY <2>2, <2>3, <2>4, <2>5 DEF BeatsInv
<1>2. CASE BIDrained \/ BIStop \/ BIClosed \/ BIStopped
  <2>1. UNCHANGED <<ship, serving, backlog, log, resets>> /\ server' \in {"up", "closing", "closed", "stopped"}
    BY <1>2 DEF BIDrained, BIStop, BIClosed, BIStopped, BeatsInv, BeatsTyped
  <2>2. /\ drain' \in DrainRecords /\ drain'.sent = drain.sent /\ drain'.batch = drain.batch
        /\ drain'.at = "send" <=> drain.at = "send"
    BY <1>2 DEF BIDrained, BIStop, BIClosed, BIStopped, BeatsInv, BeatsTyped, DrainRecords
  <2>3. BeatsTyped' BY <2>1, <2>2 DEF BeatsInv, BeatsTyped
  <2>4. Entries' /\ LogOrder'
    BY <2>1, <2>2 DEF BeatsInv, Entries, OnePerConn, Waits, LogOrder, LogEnds, Follows
  <2>5. AcksHold' BY <2>1, <2>2 DEF BeatsInv, AcksHold, Sent, Logged
  <2>6. ClosesInOrder'
    <3>1. drain \in DrainRecords /\ ClosesInOrder BY DEF BeatsInv, BeatsTyped
    <3>2. CASE BIDrained
      <4>1. drain'.at = "done" /\ backlog = <<>> /\ server = "closed" /\ server' = server
        BY <3>1, <3>2 DEF BIDrained, DrainRecords
      <4>2. QED BY <2>1, <3>1, <4>1 DEF ClosesInOrder
    <3>3. CASE BIStop BY <2>1, <3>1, <3>3 DEF ClosesInOrder, BIStop
    <3>4. CASE BIClosed BY <2>1, <3>1, <3>4 DEF ClosesInOrder, BIClosed
    <3>5. CASE BIStopped BY <2>1, <3>1, <3>5 DEF ClosesInOrder, BIStopped
    <3>6. QED BY <1>2, <3>2, <3>3, <3>4, <3>5
  <2>7. Once' BY <2>1, <2>2 DEF BeatsInv, Once, Behind, OfBatch
  <2>8. QED BY <2>3, <2>4, <2>5, <2>6, <2>7 DEF BeatsInv
<1>3. QED BY <1>1, <1>2, BeatsConnections, BeatsQueues, BeatsTakes, BeatsSends DEF BINext, Draining

LEMMA BeatsSound == ASSUME InputBounds, BeatsInv PROVE AckedIsSent /\ StopDrains
<1>1. AckedIsSent
  <2>1. ASSUME NEW s \in Shippers, NEW n \in 1..ship[s].acked
        PROVE  EventsOf(<<s, n>>) \subseteq ToSet(log) \/ (drain.batch = <<s, n>> /\ drain.at = "send")
    <3>1. Sent(s, n) BY DEF BeatsInv, AcksHold
    <3>2. \A e : Logged(e) => e \in ToSet(log) BY DEF Logged, ToSet
    <3>3. EventsOf(<<s, n>>) = {<<s, n, i>> : i \in 1..BatchLen} BY DEF EventsOf
    <3>4. QED BY <3>1, <3>2, <3>3 DEF Sent
  <2>2. QED BY <2>1 DEF AckedIsSent
<1>2. StopDrains
  <2>1. server = "stopped" => backlog = <<>> /\ drain.at = "done" BY DEF BeatsInv, ClosesInOrder
  <2>2. \A i \in DOMAIN log : Follows(i) BY DEF BeatsInv, LogOrder
  <2>3. resets = 0 => IsInjective(log) BY DEF BeatsInv, Once, IsInjective
  <2>4. QED BY <2>1, <2>2, <2>3 DEF StopDrains, Follows
<1>3. QED BY <1>1, <1>2
-----------------------------------------------------------------------------
(***************************************************************************)
(* The inputs that read from elsewhere.                                    *)
(***************************************************************************)
InletRecords ==
  [of : Inlets, at : {"start", "up", "hangs", "stopped", "closed", "crash", "exit"},
   why : {"", "closed", "no connection", "no client", "no first page", "scroll", "not configured"}, unseen : SUBSET Nat]
Places == {"dial", "done", "send", "finish", "next", "fatal", "read", "accept", "last", "first", "watch", "add"}
GoingRecords == [at : Places, item : Nat]
SocketsTyped ==
  /\ inlet \in InletRecords /\ items \in Nat /\ forwarded \in Seq(Nat \X Nat)
  /\ DOMAIN going \subseteq Nat /\ \A g \in DOMAIN going : going[g] \in GoingRecords

\* What goroutine g sent; before the start there is nothing, and while the
\* input is up nothing is overdue.
Below(g, v) == \A i \in DOMAIN forwarded : forwarded[i][1] = g => forwarded[i][2] < v
UpTo(v) == \A i \in DOMAIN forwarded : forwarded[i][2] <= v
NoneOf(g) == \A i \in DOMAIN forwarded : forwarded[i][1] # g
OneOf(g) == \E i \in DOMAIN forwarded : \A j \in DOMAIN forwarded : forwarded[j][1] = g <=> j = i
Has(g, v) == \E i \in DOMAIN forwarded : forwarded[i] = <<g, v>>
Ordered ==
  \A i, j \in DOMAIN forwarded : i < j /\ forwarded[i][1] = forwarded[j][1] => forwarded[i][2] < forwarded[j][2]
KnownEnd ==
  inlet.at = "crash" =>
    \/ inlet.why = "closed" /\ inlet.of.plugin \notin {"elasticsearch", "imap"}
    \/ inlet.why = "no connection" /\ inlet.of.timeout
    \/ inlet.of.plugin \in {"elasticsearch", "imap"}
Common ==
  /\ \A i \in DOMAIN forwarded : forwarded[i][1] \in DOMAIN going
  /\ Ordered
  /\ \A g \in DOMAIN going : going[g].at \in {"send", "last"} => Below(g, going[g].item)
  /\ inlet.at = "start" => DOMAIN going = {} /\ items = 0
  /\ inlet.at \in {"start", "up"} => overdue = {}
  /\ KnownEnd

\* unix: a goroutine for each connection beside the one that accepts or dials.
UnixInv ==
  /\ DOMAIN going \subseteq 0..items /\ UpTo(items)
  /\ \A g \in DOMAIN going : going[g].item <= items /\ (going[g].at = "read" => Below(g, going[g].item))
  /\ 0 \in DOMAIN going => going[0].at \in {"accept", "dial", "read", "send"}
  /\ \A g \in DOMAIN going \ {0} :
       /\ going[g].at \in {"read", "send", "done"}
       /\ IF going[g].at = "done" THEN OneOf(g) ELSE NoneOf(g)
\* udp, syslog, twitter, elasticsearch: one goroutine, at the last item there is.
Streams == {"udp", "syslog", "twitter", "elasticsearch"}
StreamInv ==
  /\ DOMAIN going \subseteq {0} /\ UpTo(items)
  /\ 0 \in DOMAIN going =>
       /\ going[0].item <= items
       /\ inlet.of.plugin # "elasticsearch" \/ going[0].at # "send" => going[0].item = items
       /\ inlet.of.plugin # "twitter" => \A k \in 1..going[0].item : Has(0, k) \/ (k = going[0].item /\ going[0].at = "send")
  /\ inlet.of.plugin = "udp" => overdue \subseteq {<<0, items>>}
TwitterInv ==
  /\ 0 \notin DOMAIN going \/ going[0].at = "send" => overdue = {}
  /\ 0 \in DOMAIN going =>
       /\ going[0].at = "read" => overdue \subseteq {<<0, items>>}
       /\ going[0].at = "last" => overdue \subseteq {<<0, items - 1>>} /\ inlet.at # "up"
       /\ overdue \subseteq {<<0, items - 1>>, <<0, items>>}
\* event: Stop waits for all ticks but those it does not see.
EventInv ==
  /\ inlet.of.interval => DOMAIN going \subseteq 1..items
  /\ \A g \in DOMAIN going :
       /\ going[g].at \in {"add", "send", "finish", "done"}
       /\ going[g].at = "add" => NoneOf(g)
       /\ going[g].at = "send" => going[g].item \in 1..Count
       /\ inlet.at \in {"stopped", "closed"} /\ going[g].at # "done" => g \in inlet.unseen
  /\ overdue \subseteq inlet.unseen \X (1..Count)
ByPlugin ==
  /\ inlet.of.plugin = "unix" => UnixInv
  /\ inlet.of.plugin \in Streams => StreamInv
  /\ inlet.of.plugin = "twitter" => TwitterInv
  /\ inlet.of.plugin = "event" => EventInv
SocketsInv == SocketsTyped /\ Common /\ ByPlugin

LEMMA SocketsInit == ASSUME InputBounds, SIInit PROVE SocketsInv
<1>1. inlet \in InletRecords /\ inlet.at = "start"
  <2>1. PICK i \in Inlets : inlet = [of |-> i, at |-> "start", why |-> "", unseen |-> {}] BY DEF SIInit
  <2>2. QED BY <2>1 DEF InletRecords
<1>2. DOMAIN going = {} /\ items = 0 /\ forwarded = <<>> /\ overdue = {}
  <2>1. going = <<>> /\ items = 0 /\ forwarded = <<>> /\ overdue = {} BY DEF SIInit
  <2>2. DOMAIN <<>> = {} OBVIOUS
  <2>3. QED BY <2>1, <2>2
<1>3. SocketsTyped BY <1>1, <1>2 DEF SocketsTyped
<1>4. Common BY <1>1, <1>2 DEF Common, Ordered, KnownEnd
<1>5. ByPlugin BY <1>1, <1>2 DEF ByPlugin, UnixInv, StreamInv, TwitterInv, EventInv, UpTo
<1>6. QED BY <1>3, <1>4, <1>5 DEF SocketsInv

\* The input turns, and its goroutines stay where they are.
LEMMA SocketsTurn ==
  ASSUME SocketsInv, UNCHANGED <<going, items, forwarded, overdue>>, inlet' \in InletRecords, inlet'.of = inlet.of,
         inlet'.at # "start", inlet'.at = "up" => inlet.at = "start",
         inlet'.unseen = inlet.unseen \/ inlet.at = "up", KnownEnd',
         inlet.of.plugin = "event" /\ inlet'.at \in {"stopped", "closed"} =>
           \A g \in DOMAIN going : going[g].at # "done" => g \in inlet'.unseen
  PROVE  SocketsInv'
<1>1. SocketsTyped' BY DEF SocketsInv, SocketsTyped
<1>2. Common' BY DEF SocketsInv, Common, Ordered, Below
<1>3. UnixInv' <=> UnixInv BY DEF UnixInv, UpTo, Below, OneOf, NoneOf
<1>4. StreamInv' <=> StreamInv BY DEF StreamInv, UpTo, Has
<1>5. inlet.of.plugin = "twitter" => TwitterInv'
  <2>1. inlet.at = "start" => DOMAIN going = {} BY DEF SocketsInv, Common
  <2>2. inlet.of.plugin = "twitter" => TwitterInv BY DEF SocketsInv, ByPlugin
  <2>3. QED BY <2>1, <2>2 DEF TwitterInv
<1>6. ASSUME inlet.of.plugin = "event" PROVE EventInv'
  <2>1. EventInv BY <1>6 DEF SocketsInv, ByPlugin
  <2>2. overdue = {} \/ inlet'.unseen = inlet.unseen BY DEF SocketsInv, Common
  <2>3. QED BY <1>6, <2>1, <2>2 DEF EventInv, NoneOf
<1>7. ByPlugin' BY <1>3, <1>4, <1>5, <1>6 DEF SocketsInv, ByPlugin
<1>8. QED BY <1>1, <1>2, <1>7 DEF SocketsInv

LEMMA Turned ==
  ASSUME inlet \in InletRecords, NEW to \in {"up", "hangs", "stopped", "closed", "exit"}, Turns(to)
  PROVE  /\ inlet' \in InletRecords /\ inlet'.of = inlet.of /\ inlet'.at = to /\ inlet'.unseen = inlet.unseen
         /\ inlet'.why = inlet.why
BY DEF Turns, InletRecords
LEMMA Crashed ==
  ASSUME inlet \in InletRecords, NEW why \in {"closed", "no connection", "no client", "no first page", "scroll", "not configured"},
         Crash(why)
  PROVE  /\ inlet' \in InletRecords /\ inlet'.of = inlet.of /\ inlet'.at = "crash" /\ inlet'.unseen = inlet.unseen
         /\ inlet'.why = why /\ UNCHANGED <<going, items, forwarded, overdue>>
BY DEF Crash, InletRecords

LEMMA SocketsEnd ==
  ASSUME SocketsInv,
         NEW why \in {"closed", "no connection", "no client", "no first page", "scroll", "not configured"}, Crash(why),
         \/ why = "closed"
         \/ why = "no connection" /\ inlet.of.timeout
         \/ inlet.of.plugin \in {"elasticsearch", "imap"}
  PROVE  SocketsInv'
<1>1. inlet \in InletRecords BY DEF SocketsInv, SocketsTyped
<1>2. /\ inlet' \in InletRecords /\ inlet'.of = inlet.of /\ inlet'.at = "crash" /\ inlet'.unseen = inlet.unseen
      /\ inlet'.why = why /\ UNCHANGED <<going, items, forwarded, overdue>>
  BY <1>1, Crashed
<1>3. KnownEnd' BY <1>2 DEF KnownEnd
<1>4. QED BY <1>2, <1>3, SocketsTurn

LEMMA SocketsStop ==
  ASSUME SocketsInv, \/ OutletsClose \/ SIStop \/ StopFatal \/ ImapDeliver \/ \E g \in DOMAIN going : SendCloses(g)
  PROVE  SocketsInv'
<1>1. inlet \in InletRecords BY DEF SocketsInv, SocketsTyped
<1>2. CASE OutletsClose
  <2>1. Turns("closed") /\ inlet.at = "stopped" /\ UNCHANGED <<going, items, forwarded, overdue>>
    BY <1>2 DEF OutletsClose
  <2>2. inlet.of.plugin = "event" => \A g \in DOMAIN going : going[g].at # "done" => g \in inlet.unseen
    BY <2>1 DEF SocketsInv, ByPlugin, EventInv
  <2>3. /\ inlet' \in InletRecords /\ inlet'.of = inlet.of /\ inlet'.at = "closed" /\ inlet'.unseen = inlet.unseen
    BY <1>1, <2>1, Turned
  <2>4. KnownEnd' BY <2>3 DEF KnownEnd
  <2>5. QED BY <2>1, <2>2, <2>3, <2>4, SocketsTurn
<1>3. CASE StopsAtOnce({"unix", "udp", "syslog", "twitter", "stop"}) \/ ScrollStop \/ StopFatal
  <2>1. PICK to \in {"hangs", "stopped", "exit"} : Turns(to)
    BY <1>3 DEF StopsAtOnce, ScrollStop, StopFatal
  <2>2. inlet.of.plugin # "event" /\ UNCHANGED <<going, items, forwarded, overdue>>
    BY <1>3 DEF StopsAtOnce, ScrollStop, StopFatal, Plugin
  <2>3. /\ inlet' \in InletRecords /\ inlet'.of = inlet.of /\ inlet'.at = to /\ inlet'.unseen = inlet.unseen
    BY <1>1, <2>1, Turned
  <2>4. KnownEnd' BY <2>3 DEF KnownEnd
  <2>5. QED BY <2>2, <2>3, <2>4, SocketsTurn
<1>4. CASE ImapStop \/ ImapDeliver
  BY <1>4, SocketsEnd DEF ImapStop, ImapDeliver, Plugin
<1>5. CASE EventStop
  <2> DEFINE u == {g \in DOMAIN going : going[g].at = "add"}
  <2>1. /\ inlet.of.plugin = "event" /\ inlet.at = "up" /\ InWaitGroup = {} /\ UNCHANGED <<going, items, forwarded, overdue>>
        /\ inlet' = [inlet EXCEPT !.at = "stopped", !.unseen = u]
    BY <1>5 DEF EventStop, Plugin
  <2>2. u \in SUBSET Nat BY DEF SocketsInv, SocketsTyped
  <2>3. EventInv BY <2>1 DEF SocketsInv, ByPlugin
  <2>4. \A g \in DOMAIN going : going[g].at # "done" => g \in u BY <2>1, <2>3 DEF EventInv, InWaitGroup
  <2> HIDE DEF u
  <2>5. inlet' \in InletRecords /\ inlet'.of = inlet.of /\ inlet'.at = "stopped" /\ inlet'.unseen = u
    BY <1>1, <2>1, <2>2 DEF InletRecords
  <2>6. KnownEnd' BY <2>5 DEF KnownEnd
  <2>7. QED BY <2>1, <2>4, <2>5, <2>6, SocketsTurn
<1>6. CASE \E g \in DOMAIN going : SendCloses(g) BY <1>6, SocketsEnd DEF SendCloses
<1>7. QED BY <1>2, <1>3, <1>4, <1>5, <1>6 DEF SIStop

LEMMA Gone ==
  ASSUME SocketsTyped, NEW g \in Nat, NEW to \in Places, NEW item \in Nat, GoesOn(g, to, item)
  PROVE  /\ DOMAIN going' = DOMAIN going \cup {g} /\ going'[g].at = to /\ going'[g].item = item
         /\ \A h \in DOMAIN going \ {g} : going'[h] = going[h]
         /\ DOMAIN going' \subseteq Nat /\ \A h \in DOMAIN going' : going'[h] \in GoingRecords
<1> DEFINE new == [at |-> to, item |-> item]
<1>1. new \in GoingRecords /\ new.at = to /\ new.item = item BY DEF GoingRecords
<1>2. going' = [h \in DOMAIN going \cup {g} |-> IF h = g THEN new ELSE going[h]] BY DEF GoesOn
<1> HIDE DEF new
<1>3. DOMAIN going' = DOMAIN going \cup {g} /\ going'[g] = new /\ \A h \in DOMAIN going \ {g} : going'[h] = going[h] BY <1>2
<1>4. QED BY <1>1, <1>3 DEF SocketsTyped

\* A goroutine begins or goes on; what it has to send is more than what it sent.
LEMMA SocketsMove ==
  ASSUME SocketsInv, NEW g \in Nat, NEW to \in Places, NEW item \in Nat, GoesOn(g, to, item), items' \in Nat,
         UNCHANGED <<forwarded, overdue>>, inlet' \in InletRecords, inlet'.at # "start", inlet'.of = inlet.of,
         inlet'.at = "up" => inlet.at \in {"start", "up"}, KnownEnd',
         to \in {"send", "last"} => Below(g, item)
  PROVE  SocketsTyped' /\ Common'
<1>1. /\ DOMAIN going' = DOMAIN going \cup {g} /\ going'[g].at = to /\ going'[g].item = item
      /\ \A h \in DOMAIN going \ {g} : going'[h] = going[h]
      /\ DOMAIN going' \subseteq Nat /\ \A h \in DOMAIN going' : going'[h] \in GoingRecords
  BY Gone DEF SocketsInv
<1>2. SocketsTyped' BY <1>1 DEF SocketsInv, SocketsTyped
<1>3. Common BY DEF SocketsInv
<1>4. Ordered' BY <1>3 DEF Common, Ordered
<1>5. \A h \in DOMAIN going' : going'[h].at \in {"send", "last"} => Below(h, going'[h].item)
  <2>1. \A h \in DOMAIN going \ {g} : going'[h].at \in {"send", "last"} => Below(h, going'[h].item) BY <1>1, <1>3 DEF Common
  <2>2. QED BY <1>1, <2>1
<1>6. \A h, v : Below(h, v)' <=> Below(h, v) BY DEF Below
<1>7. \A h \in DOMAIN going' : going'[h].at \in {"send", "last"} => Below(h, going[h].item)'
  BY <1>5 DEF Below
<1>8. \A i \in DOMAIN forwarded' : forwarded'[i][1] \in DOMAIN going' BY <1>1, <1>3 DEF Common
<1>9. overdue' = {} \/ inlet'.at \notin {"start", "up"} BY <1>3 DEF Common
<1>10. Common' BY <1>4, <1>7, <1>8, <1>9 DEF Common
<1>11. QED BY <1>2, <1>10

\* Start.
LEMMA SocketsStart == ASSUME SocketsInv, SIStart PROVE SocketsInv'
<1>2. /\ inlet.at = "start" /\ UNCHANGED <<items, forwarded, overdue>> /\ inlet \in InletRecords
  BY DEF SIStart, SocketsInv, SocketsTyped, UnixStart, UdpStart, SyslogStart, TwitterStart, ScrollStart, ImapStart, EventStart,
         StopStart, Starts
<1>3. DOMAIN going = {} /\ items = 0 /\ overdue = {} /\ DOMAIN forwarded = {} BY <1>2 DEF SocketsInv, Common
<1>4. CASE Crash("no client") /\ inlet.of.plugin = "elasticsearch" BY <1>4, SocketsEnd
<1>5. CASE Turns("up")
  <2>1. inlet' \in InletRecords /\ inlet'.of = inlet.of /\ inlet'.at = "up" /\ inlet'.unseen = inlet.unseen
    BY <1>2, <1>5, Turned
  <2>2. KnownEnd' BY <2>1 DEF KnownEnd
  <2>3. CASE UNCHANGED going BY <1>2, <2>1, <2>2, <2>3, SocketsTurn
  <2>4. ASSUME NEW g \in {0, 1}, NEW to \in Places, NEW item \in {0, 1}, GoesOn(g, to, item),
               inlet.of.plugin = "unix" => g = 0 /\ item = 0 /\ to \in {"accept", "dial"},
               inlet.of.plugin \in Streams => g = 0 /\ item = 0 /\ to \in {"read", "first"},
               inlet.of.plugin = "event" => to = "add" /\ ~inlet.of.interval
        PROVE  SocketsInv'
    <3>1. DOMAIN going' = {g} /\ going'[g].at = to /\ going'[g].item = item
      <4>1. g \in Nat /\ item \in Nat /\ SocketsTyped BY DEF SocketsInv
      <4>2. DOMAIN going' = DOMAIN going \cup {g} /\ going'[g].at = to /\ going'[g].item = item BY <2>4, <4>1, Gone
      <4>3. QED BY <1>3, <4>2
    <3>2. \A h, v : Below(h, v) BY <1>3 DEF Below
    <3>3. SocketsTyped' /\ Common' BY <1>2, <2>1, <2>2, <2>4, <3>2, SocketsMove DEF SocketsInv, SocketsTyped
    <3>4. items' = 0 /\ overdue' = {} /\ DOMAIN forwarded' = {} BY <1>2, <1>3
    <3>5. inlet.of.plugin = "unix" => UnixInv' BY <2>4, <3>1, <3>4 DEF UnixInv, UpTo, Below
    <3>6. inlet.of.plugin \in Streams => StreamInv' BY <2>4, <3>1, <3>4 DEF StreamInv, UpTo
    <3>7. inlet.of.plugin = "twitter" => TwitterInv' BY <2>4, <3>1, <3>4 DEF TwitterInv, Streams
    <3>8. inlet.of.plugin = "event" => EventInv' BY <2>1, <2>4, <3>1, <3>4 DEF EventInv, NoneOf
    <3>9. QED BY <2>1, <3>3, <3>5, <3>6, <3>7, <3>8 DEF SocketsInv, ByPlugin
  <2>5. CASE UnixStart BY <2>3, <2>4, <2>5 DEF UnixStart, Starts, Plugin, BeginsAt, Places, Streams
  <2>6. CASE UdpStart \/ SyslogStart \/ TwitterStart \/ ScrollStart
    <3>1. inlet.of.plugin \in Streams BY <2>6 DEF UdpStart, SyslogStart, TwitterStart, ScrollStart, Starts, Plugin, Streams
    <3>2. UNCHANGED going \/ \E to \in {"read", "first"} : GoesOn(0, to, 0)
      BY <2>1, <2>6 DEF UdpStart, SyslogStart, TwitterStart, ScrollStart, BeginsAt, Crash
    <3>3. QED BY <2>3, <2>4, <3>1, <3>2 DEF Places, Streams
  <2>7. CASE ImapStart \/ StopStart BY <2>4, <2>7 DEF ImapStart, StopStart, Starts, Plugin, Places, Streams
  <2>8. CASE EventStart BY <2>3, <2>4, <2>8 DEF EventStart, Starts, Plugin, Places, Streams
  <2>9. QED BY <2>5, <2>6, <2>7, <2>8 DEF SIStart
<1>6. Turns("up") \/ (Crash("no client") /\ inlet.of.plugin = "elasticsearch")
  BY DEF SIStart, UnixStart, UdpStart, SyslogStart, TwitterStart, ScrollStart, ImapStart, EventStart, StopStart, BeginsAt,
         Starts, Plugin
<1>7. QED BY <1>4, <1>5, <1>6

\* A goroutine of unix takes a connection, or reads of it.
LEMMA UnixGoes ==
  ASSUME SocketsInv, inlet.of.plugin = "unix", inlet.at # "start", NEW g \in Nat, NEW to \in {"read", "send"}, NEW item \in Nat,
         GoesOn(g, to, item), items' \in {items, items + 1}, UNCHANGED <<inlet, forwarded, overdue>>,
         g <= items', item <= items', Below(g, item), g = 0 \/ NoneOf(g)
  PROVE  SocketsInv'
<1>1. SocketsTyped /\ UnixInv /\ KnownEnd /\ inlet \in InletRecords /\ items \in Nat /\ items' \in Nat /\ items <= items'
  BY DEF SocketsInv, ByPlugin, Common, SocketsTyped
<1>2. to \in Places BY DEF Places
<1>3. /\ DOMAIN going' = DOMAIN going \cup {g} /\ going'[g].at = to /\ going'[g].item = item
      /\ \A h \in DOMAIN going \ {g} : going'[h] = going[h]
  BY <1>1, <1>2, Gone
<1>4. KnownEnd' BY <1>1 DEF KnownEnd
<1>5. SocketsTyped' /\ Common' BY <1>1, <1>2, <1>4, SocketsMove
<1>6. \A h \in DOMAIN going : going[h].item \in Nat BY <1>1 DEF SocketsTyped, GoingRecords
<1>7. UnixInv'
  <2>1. DOMAIN going' \subseteq 0..items' BY <1>1, <1>3 DEF UnixInv
  <2>2. forwarded \in Seq(Nat \X Nat) BY <1>1 DEF SocketsTyped
  <2>3. \A i \in DOMAIN forwarded : forwarded[i][2] \in Nat BY <2>2
  <2>4. UpTo(items)' BY <1>1, <2>3 DEF UnixInv, UpTo
  <2>5. ASSUME NEW h \in DOMAIN going'
        PROVE  going'[h].item <= items' /\ (going'[h].at = "read" => Below(h, going[h].item)')
    <3>1. CASE h = g BY <1>3, <3>1 DEF Below
    <3>2. CASE h # g BY <1>1, <1>3, <1>6, <3>2 DEF UnixInv, Below
    <3>3. QED BY <3>1, <3>2
  <2>6. 0 \in DOMAIN going' => going'[0].at \in {"accept", "dial", "read", "send"} BY <1>1, <1>3 DEF UnixInv
  <2>7. ASSUME NEW h \in DOMAIN going' \ {0}
        PROVE  /\ going'[h].at \in {"read", "send", "done"}
               /\ IF going'[h].at = "done" THEN OneOf(h)' ELSE NoneOf(h)'
    <3>1. CASE h = g BY <1>3, <2>7, <3>1 DEF NoneOf
    <3>2. CASE h # g BY <1>1, <1>3, <2>7, <3>2 DEF UnixInv, OneOf, NoneOf
    <3>3. QED BY <3>1, <3>2
  <2>8. QED BY <2>1, <2>4, <2>5, <2>6, <2>7 DEF UnixInv
<1>8. QED BY <1>5, <1>7 DEF SocketsInv, ByPlugin, Streams

LEMMA SocketsUnix ==
  ASSUME SocketsInv, UnixAccept \/ UnixAcceptFails \/ UnixDial \/ \E g \in DOMAIN going : UnixRead(g)
  PROVE  SocketsInv'
<1>1. inlet.of.plugin = "unix" BY DEF UnixAccept, UnixAcceptFails, UnixDial, UnixRead, Plugin
<1>2. /\ UnixInv /\ Common /\ items \in Nat /\ DOMAIN going \subseteq 0..items /\ forwarded \in Seq(Nat \X Nat)
      /\ \A g \in DOMAIN going : going[g].item \in Nat
  BY <1>1 DEF SocketsInv, ByPlugin, SocketsTyped, UnixInv, GoingRecords
<1>3. \A i \in DOMAIN forwarded : forwarded[i][1] \in Nat /\ forwarded[i][2] \in Nat /\ forwarded[i][2] <= items
  BY <1>2 DEF UnixInv, UpTo
<1>4. NoneOf(items + 1) BY <1>2, <1>3 DEF Common, NoneOf
<1>5. Below(0, items + 1) /\ Below(items + 1, items + 1) /\ Below(items + 1, 0) BY <1>3, <1>4, <1>2 DEF Below, NoneOf
<1>6. inlet.at = "start" => DOMAIN going = {} BY <1>2 DEF Common
<1>7. CASE UnixAccept BY <1>1, <1>2, <1>4, <1>5, <1>7, UnixGoes DEF UnixAccept
<1>8. CASE UnixAcceptFails
  <2>1. CASE Crash("no connection") /\ inlet.of.timeout BY <2>1, SocketsEnd
  <2>2. CASE items' = items + 1 /\ GoesOn(items + 1, "read", 0) /\ UNCHANGED <<inlet, forwarded, overdue>>
    <3>1. inlet.at # "start" BY <1>8 DEF UnixAcceptFails
    <3>2. items + 1 \in Nat /\ 0 \in Nat /\ 0 <= items + 1 /\ items + 1 <= items + 1 BY <1>2
    <3>3. QED BY <1>1, <1>4, <1>5, <2>2, <3>1, <3>2, UnixGoes
  <2>3. QED BY <1>8, <2>1, <2>2 DEF UnixAcceptFails
<1>9. CASE UnixDial BY <1>1, <1>2, <1>5, <1>9, UnixGoes DEF UnixDial, Arrives
<1>10. CASE \E g \in DOMAIN going : UnixRead(g)
  <2>1. PICK g \in DOMAIN going : UnixRead(g) BY <1>10
  <2>2. going[g].at = "read" /\ GoesOn(g, "send", going[g].item) /\ UNCHANGED <<inlet, items, forwarded, overdue>>
    BY <2>1 DEF UnixRead, Moves, Stands
  <2>3. g \in Nat /\ g <= items /\ going[g].item <= items /\ Below(g, going[g].item) /\ (g = 0 \/ NoneOf(g))
    BY <1>2, <2>2 DEF UnixInv
  <2>4. inlet.at # "start" BY <1>6
  <2> DEFINE item == going[g].item
  <2>5. item \in Nat BY <1>2
  <2> HIDE DEF item
  <2>6. QED BY <1>1, <2>2, <2>3, <2>4, <2>5, UnixGoes DEF item
<1>11. QED BY <1>7, <1>8, <1>9, <1>10

\* The goroutine of a stream reads the next item, or ends.
LEMMA StreamGoes ==
  ASSUME SocketsInv, inlet.of.plugin \in Streams, NEW to \in Places, NEW item \in Nat, GoesOn(0, to, item),
         UNCHANGED <<inlet, forwarded, overdue>>, 0 \in DOMAIN going, going[0].at # "send", items' \in Nat,
         \/ to = "done" /\ item = going[0].item /\ items' = items /\ inlet.of.plugin # "elasticsearch"
         \/ to = "done" /\ item = going[0].item /\ items' = items /\ going[0].at = "next"
         \/ /\ item = items + 1 /\ item <= items' /\ (inlet.of.plugin # "elasticsearch" => items' = item)
            /\ to # "send" => inlet.of.plugin = "twitter"
            /\ inlet.of.plugin = "udp" => inlet.at = "up"
  PROVE  SocketsTyped' /\ Common' /\ StreamInv'
<1>1. SocketsTyped /\ StreamInv /\ Common /\ inlet \in InletRecords /\ items \in Nat /\ inlet.at # "start"
  BY DEF SocketsInv, ByPlugin, Common, SocketsTyped
<1>2. forwarded \in Seq(Nat \X Nat) BY <1>1 DEF SocketsTyped
<1>3. \A i \in DOMAIN forwarded : forwarded[i][2] \in Nat /\ forwarded[i][2] <= items BY <1>1, <1>2 DEF StreamInv, UpTo
<1>4. going[0].item = items BY <1>1 DEF StreamInv
<1>5. items <= items' BY <1>1
<1>6. to \in {"send", "last"} => Below(0, item) BY <1>1, <1>3 DEF Below
<1>7. KnownEnd' BY <1>1 DEF Common, KnownEnd
<1>8. SocketsTyped' /\ Common' BY <1>1, <1>6, <1>7, SocketsMove
<1>9. DOMAIN going' = {0} /\ going'[0].at = to /\ going'[0].item = item
  <2>1. 0 \in Nat /\ GoesOn(0, to, item) OBVIOUS
  <2>2. DOMAIN going' = DOMAIN going \cup {0} /\ going'[0].at = to /\ going'[0].item = item BY <1>1, <2>1, Gone
  <2>3. QED BY <1>1, <2>2 DEF StreamInv
<1>10. UpTo(items)' BY <1>1, <1>3, <1>5 DEF UpTo
<1>11. item <= items' /\ (inlet.of.plugin # "elasticsearch" \/ to # "send" => item = items') BY <1>1, <1>4
<1>12. ASSUME inlet.of.plugin # "twitter", NEW k \in 1..item PROVE Has(0, k)' \/ (k = item /\ to = "send")
  <2>1. k \in 1..items \/ (k = item /\ to = "send") BY <1>1, <1>4, <1>12
  <2>2. ASSUME k \in 1..items PROVE Has(0, k) BY <1>1, <1>4, <1>12, <2>2 DEF StreamInv
  <2>3. QED BY <2>1, <2>2 DEF Has
<1>13. inlet.of.plugin = "udp" => overdue' \subseteq {<<0, items'>>}
  <2>1. inlet.of.plugin = "udp" => overdue \subseteq {<<0, items>>} BY <1>1 DEF StreamInv
  <2>2. inlet.at = "up" => overdue = {} BY <1>1 DEF Common
  <2>3. QED BY <2>1, <2>2
<1>14. StreamInv' BY <1>9, <1>10, <1>11, <1>12, <1>13 DEF StreamInv
<1>15. QED BY <1>8, <1>14

LEMMA SocketsStreams ==
  ASSUME InputBounds, SocketsInv, UdpRead \/ UdpEnds \/ SyslogTake \/ TakeTweet \/ TwitterEnds \/ ScrollFirst \/ ScrollNext
  PROVE  SocketsInv'
<1>1. inlet.of.plugin \in Streams /\ inlet.at # "start" /\ 0 \in DOMAIN going
  <2>1. inlet.of.plugin \in Streams /\ 0 \in DOMAIN going
    BY DEF UdpRead, UdpEnds, SyslogTake, TakeTweet, TwitterEnds, ScrollFirst, ScrollNext, Plugin, Streams, Stands
  <2>2. QED BY <2>1 DEF SocketsInv, Common
<1>2. SocketsTyped /\ StreamInv /\ Common /\ items \in Nat /\ going[0].item \in Nat /\ going[0].item <= items
  BY <1>1 DEF SocketsInv, ByPlugin, SocketsTyped, GoingRecords, StreamInv
<1>4. ASSUME SocketsTyped', Common', StreamInv', inlet' = inlet, inlet.of.plugin = "twitter" => TwitterInv' PROVE SocketsInv'
  BY <1>1, <1>4 DEF SocketsInv, ByPlugin, Streams
<1>5. ASSUME NEW to \in Places, GoesOn(0, to, going[0].item), UNCHANGED <<inlet, items, forwarded, overdue>>, to = "done",
             going[0].at # "send", inlet.of.plugin # "elasticsearch" \/ going[0].at = "next"
      PROVE  SocketsTyped' /\ Common' /\ StreamInv' /\ DOMAIN going' = {0} /\ going'[0].at = "done"
  <2> DEFINE item == going[0].item
  <2>1. item \in Nat BY <1>2
  <2>2. GoesOn(0, to, item) BY <1>5
  <2>3. item = going[0].item OBVIOUS
  <2> HIDE DEF item
  <2>4. SocketsTyped' /\ Common' /\ StreamInv' BY <1>1, <1>2, <1>5, <2>1, <2>2, <2>3, StreamGoes
  <2>5. DOMAIN going' = DOMAIN going \cup {0} /\ going'[0].at = to BY <1>2, <2>1, <2>2, Gone
  <2>6. QED BY <1>1, <1>2, <1>5, <2>4, <2>5 DEF StreamInv
<1>6. ASSUME NEW to \in Places, Arrives(0, to), going[0].at # "send", inlet.of.plugin # "elasticsearch",
             to # "send" => inlet.of.plugin = "twitter", inlet.of.plugin = "udp" => inlet.at = "up"
      PROVE  /\ SocketsTyped' /\ Common' /\ StreamInv' /\ DOMAIN going' = {0} /\ going'[0].at = to
             /\ items' = items + 1 /\ UNCHANGED <<inlet, overdue>>
  <2>1. items' = items + 1 /\ GoesOn(0, to, items + 1) /\ UNCHANGED <<inlet, forwarded, overdue>> BY <1>6 DEF Arrives
  <2>2. items + 1 \in Nat /\ items + 1 <= items + 1 BY <1>2
  <2>3. SocketsTyped' /\ Common' /\ StreamInv' BY <1>1, <1>6, <2>1, <2>2, StreamGoes
  <2>4. DOMAIN going' = DOMAIN going \cup {0} /\ going'[0].at = to BY <1>2, <2>1, <2>2, Gone
  <2>5. QED BY <1>1, <1>2, <2>1, <2>3, <2>4 DEF StreamInv
<1>7. ASSUME Page, inlet.of.plugin = "elasticsearch", going[0].at # "send" PROVE SocketsInv'
  <2>1. items' = items + Count /\ GoesOn(0, "send", items + 1) /\ UNCHANGED <<inlet, forwarded, overdue>> BY <1>7 DEF Page
  <2>2. items + 1 \in Nat /\ items + Count \in Nat /\ items + 1 <= items + Count BY <1>2 DEF InputBounds
  <2>3. "send" \in Places BY DEF Places
  <2>4. SocketsTyped' /\ Common' /\ StreamInv' BY <1>1, <1>7, <2>1, <2>2, <2>3, StreamGoes
  <2>5. QED BY <1>4, <1>7, <2>1, <2>4
<1>8. CASE UdpRead \/ SyslogTake
  <2>1. Arrives(0, "send") /\ inlet.of.plugin \in {"udp", "syslog"} /\ going[0].at = "read" /\ inlet' = inlet
        /\ (inlet.of.plugin = "udp" => inlet.at = "up")
    BY <1>8 DEF UdpRead, SyslogTake, Plugin, Stands, Arrives
  <2>2. "send" \in Places BY DEF Places
  <2>3. SocketsTyped' /\ Common' /\ StreamInv' BY <1>6, <2>1, <2>2
  <2>4. QED BY <1>4, <2>1, <2>3
<1>9. CASE UdpEnds \/ TwitterEnds
  <2>1. Moves(0, "done") /\ inlet.of.plugin \in {"udp", "twitter"} /\ going[0].at = "read"
    BY <1>9 DEF UdpEnds, TwitterEnds, Plugin, Stands
  <2>2. "done" \in Places /\ GoesOn(0, "done", going[0].item) /\ UNCHANGED <<inlet, items, forwarded, overdue>>
    BY <2>1 DEF Moves, Places
  <2>3. SocketsTyped' /\ Common' /\ StreamInv' /\ DOMAIN going' = {0} /\ going'[0].at = "done" BY <1>5, <2>1, <2>2
  <2>4. inlet.of.plugin = "twitter" => TwitterInv'
    BY <1>1, <2>1, <2>2, <2>3 DEF SocketsInv, ByPlugin, TwitterInv
  <2>5. QED BY <1>4, <2>2, <2>3, <2>4
<1>10. CASE TakeTweet
  <2>1. inlet.of.plugin = "twitter" /\ going[0].at = "read" BY <1>10 DEF TakeTweet, Plugin, Stands
  <2>2. PICK to \in {"send", "read", "last", "done"} :
          Arrives(0, to) /\ (inlet.at = "up" <=> to \in {"send", "read"})
    BY <1>10 DEF TakeTweet
  <2>3. to \in Places BY DEF Places
  <2>4. /\ SocketsTyped' /\ Common' /\ StreamInv' /\ DOMAIN going' = {0} /\ going'[0].at = to
        /\ items' = items + 1 /\ UNCHANGED <<inlet, overdue>>
    BY <1>6, <2>1, <2>2, <2>3
  <2>5. overdue \subseteq {<<0, items>>} /\ (inlet.at = "up" => overdue = {})
    BY <1>1, <1>2, <2>1 DEF SocketsInv, ByPlugin, TwitterInv, Common
  <2>6. items' - 1 = items BY <1>2, <2>4
  <2>7. TwitterInv' BY <2>2, <2>4, <2>5, <2>6 DEF TwitterInv
  <2>8. QED BY <1>4, <2>4, <2>7
<1>11. CASE ScrollFirst \/ ScrollNext
  <2>1. inlet.of.plugin = "elasticsearch" /\ going[0].at \in {"first", "next"}
    BY <1>11 DEF ScrollFirst, ScrollNext, Plugin, Stands
  <2>2. CASE Crash("no first page") \/ Crash("scroll") BY <2>1, <2>2, SocketsEnd
  <2>3. CASE Page BY <1>7, <2>1, <2>3
  <2>4. CASE Moves(0, "done") /\ going[0].at = "next"
    <3>1. "done" \in Places /\ GoesOn(0, "done", going[0].item) /\ UNCHANGED <<inlet, items, forwarded, overdue>>
      BY <2>4 DEF Moves, Places
    <3>2. SocketsTyped' /\ Common' /\ StreamInv' BY <1>5, <2>1, <2>4, <3>1
    <3>3. QED BY <1>4, <2>1, <3>1, <3>2
  <2>5. QED BY <1>11, <2>2, <2>3, <2>4 DEF ScrollFirst, ScrollNext, Stands
<1>12. QED BY <1>8, <1>9, <1>10, <1>11

\* event: a tick comes, is counted, and is done.
LEMMA EventGoes ==
  ASSUME SocketsInv, inlet.of.plugin = "event", inlet.at # "start", NEW g \in Nat, NEW to \in {"add", "send", "done"},
         NEW item \in Nat, GoesOn(g, to, item), items' \in {items, items + 1}, UNCHANGED <<inlet, forwarded, overdue>>,
         inlet.of.interval => g \in 1..items', to = "add" => NoneOf(g), to = "send" => item \in 1..Count /\ Below(g, item),
         (g \in DOMAIN going /\ going[g].at # "done") \/ inlet.at = "up"
  PROVE  SocketsInv'
<1>1. SocketsTyped /\ EventInv /\ Common /\ inlet \in InletRecords /\ items \in Nat /\ items' \in Nat /\ items <= items'
  BY DEF SocketsInv, ByPlugin, SocketsTyped
<1>2. to \in Places BY DEF Places
<1>3. /\ DOMAIN going' = DOMAIN going \cup {g} /\ going'[g].at = to /\ going'[g].item = item
      /\ \A h \in DOMAIN going \ {g} : going'[h] = going[h]
  <2>1. SocketsTyped /\ GoesOn(g, to, item) BY <1>1
  <2>2. QED BY <1>2, <2>1, Gone
<1>4. KnownEnd' BY <1>1 DEF Common, KnownEnd
<1>5. SocketsTyped' /\ Common' BY <1>1, <1>2, <1>4, SocketsMove
<1>6. EventInv'
  <2>1. inlet.of.interval => DOMAIN going' \subseteq 1..items' BY <1>1, <1>3 DEF EventInv
  <2>2. ASSUME NEW h \in DOMAIN going'
        PROVE  /\ going'[h].at \in {"add", "send", "finish", "done"}
               /\ going'[h].at = "add" => NoneOf(h)'
               /\ going'[h].at = "send" => going'[h].item \in 1..Count
               /\ inlet.at \in {"stopped", "closed"} /\ going'[h].at # "done" => h \in inlet.unseen
    <3>1. CASE h = g BY <1>1, <1>3, <3>1 DEF EventInv, NoneOf
    <3>2. CASE h # g BY <1>1, <1>3, <3>2 DEF EventInv, NoneOf
    <3>3. QED BY <3>1, <3>2
  <2>3. QED BY <1>1, <2>1, <2>2 DEF EventInv
<1>7. QED BY <1>5, <1>6 DEF SocketsInv, ByPlugin, Streams

LEMMA SocketsEvent ==
  ASSUME InputBounds, SocketsInv, EventTick \/ \E g \in DOMAIN going : TickAdd(g) \/ TickDone(g)
  PROVE  SocketsInv'
<1>1. inlet.of.plugin = "event" BY DEF EventTick, TickAdd, TickDone, Plugin
<1>2. /\ EventInv /\ Common /\ items \in Nat /\ DOMAIN going \subseteq Nat /\ \A g \in DOMAIN going : going[g].item \in Nat
  BY <1>1 DEF SocketsInv, ByPlugin, SocketsTyped, GoingRecords
<1>3. inlet.at = "start" => DOMAIN going = {} BY <1>2 DEF Common
<1>4. CASE EventTick
  <2>1. /\ inlet.of.interval /\ inlet.at = "up" /\ items' = items + 1 /\ GoesOn(items + 1, "add", 0)
        /\ UNCHANGED <<inlet, forwarded, overdue>>
    BY <1>4 DEF EventTick
  <2>2. items + 1 \notin DOMAIN going BY <1>2, <2>1 DEF EventInv
  <2>3. NoneOf(items + 1) BY <1>2, <2>2 DEF Common, NoneOf
  <2>4. items + 1 \in Nat /\ items + 1 \in 1..items' /\ 0 \in Nat BY <1>2, <2>1
  <2>5. QED BY <1>1, <2>1, <2>3, <2>4, EventGoes
<1>5. ASSUME NEW g \in DOMAIN going, TickAdd(g) \/ TickDone(g) PROVE SocketsInv'
  <2>1. g \in Nat /\ inlet.at # "start" /\ going[g].at \in {"add", "finish"} /\ (inlet.of.interval => g \in 1..items)
    BY <1>2, <1>3, <1>5 DEF TickAdd, TickDone, Stands, EventInv
  <2>2. CASE TickAdd(g)
    <3>1. going[g].at = "add" /\ GoesOn(g, "send", 1) /\ UNCHANGED <<inlet, items, forwarded, overdue>>
      BY <2>2 DEF TickAdd, Stands
    <3>2. Below(g, 1) BY <1>2, <3>1 DEF EventInv, NoneOf, Below
    <3>3. 1 \in Nat /\ 1 \in 1..Count BY DEF InputBounds
    <3>4. QED BY <1>1, <2>1, <3>1, <3>2, <3>3, EventGoes
  <2>3. CASE TickDone(g)
    <3> DEFINE item == going[g].item
    <3>1. going[g].at = "finish" /\ GoesOn(g, "done", item) /\ UNCHANGED <<inlet, items, forwarded, overdue>>
      BY <2>3 DEF TickDone, Stands, Moves
    <3>2. item \in Nat BY <1>2
    <3> HIDE DEF item
    <3>3. QED BY <1>1, <2>1, <3>1, <3>2, EventGoes
  <2>4. QED BY <1>5, <2>2, <2>3
<1>6. QED BY <1>4, <1>5

\* An event is sent, and its goroutine goes on to what is more.
LEMMA SocketsSend ==
  ASSUME SocketsInv, NEW g \in DOMAIN going, going[g].at \in {"send", "last"}, inlet.at # "start",
         forwarded' = Append(forwarded, <<g, going[g].item>>), NEW to \in Places, NEW item \in Nat, GoesOn(g, to, item),
         UNCHANGED <<inlet, items>>, to \in {"send", "last"} => item > going[g].item, inlet.at = "up" => overdue' = {}
  PROVE  /\ SocketsTyped' /\ Common'
         /\ DOMAIN going' = DOMAIN going /\ going'[g].at = to /\ going'[g].item = item
         /\ \A h \in DOMAIN going \ {g} : going'[h] = going[h]
         /\ \E n \in Nat : /\ DOMAIN forwarded = 1..n /\ DOMAIN forwarded' = 1..n+1
                           /\ forwarded'[n+1] = <<g, going[g].item>> /\ \A i \in 1..n : forwarded'[i] = forwarded[i]
<1> DEFINE v == going[g].item
<1> DEFINE n == Len(forwarded)
<1>1. SocketsTyped /\ Common /\ forwarded \in Seq(Nat \X Nat) /\ g \in Nat BY DEF SocketsInv, SocketsTyped
<1>2. v \in Nat BY <1>1 DEF SocketsTyped, GoingRecords
<1>3. Below(g, v) BY <1>1 DEF Common
<1>4. forwarded' = Append(forwarded, <<g, v>>) OBVIOUS
<1>5. to \in {"send", "last"} => item > v OBVIOUS
<1>6. v = going[g].item OBVIOUS
<1> HIDE DEF v
<1>7. <<g, v>> \in Nat \X Nat BY <1>1, <1>2
<1>8. /\ forwarded' \in Seq(Nat \X Nat) /\ n \in Nat /\ DOMAIN forwarded = 1..n /\ DOMAIN forwarded' = 1..n+1
      /\ forwarded'[n+1] = <<g, v>> /\ \A i \in 1..n : forwarded'[i] = forwarded[i]
  BY <1>1, <1>4, <1>7, OfAppend
<1> HIDE DEF n
<1>9. /\ DOMAIN going' = DOMAIN going \cup {g} /\ going'[g].at = to /\ going'[g].item = item
      /\ \A h \in DOMAIN going \ {g} : going'[h] = going[h]
      /\ DOMAIN going' \subseteq Nat /\ \A h \in DOMAIN going' : going'[h] \in GoingRecords
  <2>1. GoesOn(g, to, item) OBVIOUS
  <2>2. QED BY <1>1, <2>1, Gone
<1>10. SocketsTyped' BY <1>1, <1>8, <1>9 DEF SocketsTyped
<1>11. \A i \in 1..n+1 : i = n + 1 \/ i \in 1..n BY <1>8
<1>12. \A i \in 1..n : forwarded[i][1] = g => forwarded[i][2] < v BY <1>3, <1>8 DEF Below
<1>13. forwarded'[n+1][1] = g /\ forwarded'[n+1][2] = v BY <1>8
<1>14. Ordered'
  <2>1. ASSUME NEW i \in 1..n+1, NEW j \in 1..n+1, i < j, forwarded'[i][1] = forwarded'[j][1]
        PROVE  forwarded'[i][2] < forwarded'[j][2]
    <3>1. i \in 1..n BY <1>8, <2>1
    <3>2. CASE j = n + 1 BY <1>8, <1>12, <1>13, <2>1, <3>1, <3>2
    <3>3. CASE j \in 1..n BY <1>1, <1>8, <2>1, <3>1, <3>3 DEF Common, Ordered
    <3>4. QED BY <1>11, <3>2, <3>3
  <2>2. QED BY <1>8, <2>1 DEF Ordered
<1>15. \A i \in DOMAIN forwarded' : forwarded'[i][1] \in DOMAIN going'
  BY <1>1, <1>8, <1>9, <1>11, <1>13 DEF Common
<1>16. ASSUME NEW h \in DOMAIN going', going'[h].at \in {"send", "last"} PROVE Below(h, going[h].item)'
  <2>1. CASE h = g
    <3>1. going'[h].item = item /\ item > v BY <1>5, <1>9, <1>16, <2>1
    <3>2. ASSUME NEW i \in 1..n+1, forwarded'[i][1] = h PROVE forwarded'[i][2] < item
      <4>1. CASE i = n + 1 BY <1>2, <1>13, <3>1, <4>1
      <4>2. CASE i \in 1..n
        <5>1. forwarded[i] \in Nat \X Nat BY <1>1, <1>8, <4>2, InSeq
        <5>2. forwarded[i][2] \in Nat /\ forwarded[i][2] < v BY <1>8, <1>12, <2>1, <3>2, <4>2, <5>1
        <5>3. QED BY <1>2, <1>8, <3>1, <4>2, <5>2
      <4>3. QED BY <1>11, <4>1, <4>2
    <3>3. QED BY <1>8, <3>1, <3>2 DEF Below
  <2>2. CASE h # g
    <3>1. h \in DOMAIN going /\ going'[h] = going[h] /\ Below(h, going[h].item) BY <1>1, <1>9, <1>16, <2>2 DEF Common
    <3>2. QED BY <1>8, <1>11, <1>13, <2>2, <3>1 DEF Below
  <2>3. QED BY <2>1, <2>2
<1>17. KnownEnd' BY <1>1 DEF Common, KnownEnd
<1>18. Common' BY <1>14, <1>15, <1>16, <1>17 DEF Common
<1>19. QED BY <1>6, <1>8, <1>9, <1>10, <1>18

LEMMA SocketsSends == ASSUME InputBounds, SocketsInv, NEW g \in DOMAIN going, SendItem(g) PROVE SocketsInv'
<1> DEFINE v == going[g].item
<1>1. /\ inlet.at \in {"up", "hangs", "stopped"} /\ g \in DOMAIN going /\ going[g].at = "send"
      /\ forwarded' = Append(forwarded, <<g, v>>) /\ inlet' = inlet /\ items' = items
      /\ overdue' = overdue \cup (IF inlet.at = "stopped" THEN {<<g, v>>} ELSE {}) /\ AfterSend(g)
  BY DEF SendItem, Stands
<1>2. /\ SocketsTyped /\ Common /\ ByPlugin /\ v \in Nat /\ items \in Nat /\ g \in Nat /\ forwarded \in Seq(Nat \X Nat)
      /\ \A h \in DOMAIN going : going[h].item \in Nat
  BY DEF SocketsInv, SocketsTyped, GoingRecords
<1>3. inlet.at = "up" => overdue' = {} BY <1>1, <1>2 DEF Common
<1>4. v = going[g].item OBVIOUS
<1> HIDE DEF v
<1>5. PICK to \in Places, item \in Nat :
        /\ GoesOn(g, to, item) /\ (to \in {"send", "last"} => item > v)
        /\ inlet.of.plugin = "unix" => item \in {v, 0} /\ to = (IF g = 0 THEN "dial" ELSE "done") /\ (g = 0 => item = 0)
        /\ inlet.of.plugin = "event" => item \in {v, v + 1} /\ (item = v => to = "finish")
                                        /\ (item = v + 1 => to = "send" /\ v < Count)
        /\ inlet.of.plugin = "elasticsearch" => item \in {v, v + 1} /\ (item = v => to = "next" /\ ~(v < items))
                                                /\ (item = v + 1 => to = "send" /\ v < items)
        /\ inlet.of.plugin \in {"udp", "syslog", "twitter"} => to = "read" /\ item = v
  <2>1. v + 1 \in Nat /\ v + 1 > v /\ v + 1 # v /\ 0 \in Nat BY <1>2
  <2>2. /\ inlet.of.plugin = "unix" => IF g = 0 THEN GoesOn(0, "dial", 0) ELSE GoesOn(g, "done", v)
        /\ inlet.of.plugin = "event" => IF v < Count THEN GoesOn(g, "send", v + 1) ELSE GoesOn(g, "finish", v)
        /\ inlet.of.plugin = "elasticsearch" => IF v < items THEN GoesOn(g, "send", v + 1) ELSE GoesOn(g, "next", v)
        /\ inlet.of.plugin = "stop" => GoesOn(g, "fatal", v)
        /\ inlet.of.plugin \notin {"unix", "event", "elasticsearch", "stop"} => GoesOn(g, "read", v)
    BY <1>1, <1>4 DEF AfterSend, Plugin
  <2>3. CASE inlet.of.plugin = "unix" BY <1>2, <2>1, <2>2, <2>3 DEF Places
  <2>4. CASE inlet.of.plugin = "event"
    <3>1. CASE v < Count BY <1>2, <2>1, <2>2, <2>4, <3>1 DEF Places
    <3>2. CASE ~(v < Count) BY <1>2, <2>1, <2>2, <2>4, <3>2 DEF Places
    <3>3. QED BY <3>1, <3>2
  <2>5. CASE inlet.of.plugin = "elasticsearch"
    <3>1. CASE v < items BY <1>2, <2>1, <2>2, <2>5, <3>1 DEF Places
    <3>2. CASE ~(v < items) BY <1>2, <2>1, <2>2, <2>5, <3>2 DEF Places
    <3>3. QED BY <3>1, <3>2
  <2>6. CASE inlet.of.plugin = "stop" BY <1>2, <2>2, <2>6 DEF Places
  <2>7. CASE inlet.of.plugin \notin {"unix", "event", "elasticsearch", "stop"} BY <1>2, <2>2, <2>7 DEF Places
  <2>8. QED BY <2>3, <2>4, <2>5, <2>6, <2>7
<1>6. /\ SocketsTyped' /\ Common'
      /\ DOMAIN going' = DOMAIN going /\ going'[g].at = to /\ going'[g].item = item
      /\ \A h \in DOMAIN going \ {g} : going'[h] = going[h]
      /\ \E n \in Nat : /\ DOMAIN forwarded = 1..n /\ DOMAIN forwarded' = 1..n+1
                        /\ forwarded'[n+1] = <<g, v>> /\ \A i \in 1..n : forwarded'[i] = forwarded[i]
  <2>1. GoesOn(g, to, item) /\ (to \in {"send", "last"} => item > going[g].item) /\ inlet.at # "start"
    BY <1>1, <1>4, <1>5
  <2>2. forwarded' = Append(forwarded, <<g, going[g].item>>) /\ UNCHANGED <<inlet, items>> BY <1>1, <1>4
  <2>3. QED BY SMTT(60), <1>1, <1>3, <1>4, <2>1, <2>2, SocketsSend
<1>7. PICK n \in Nat : /\ DOMAIN forwarded = 1..n /\ DOMAIN forwarded' = 1..n+1
                       /\ forwarded'[n+1] = <<g, v>> /\ \A i \in 1..n : forwarded'[i] = forwarded[i]
  BY <1>6
<1>8. forwarded'[n+1][1] = g /\ forwarded'[n+1][2] = v BY <1>7
<1>9. \A i \in 1..n+1 : i = n + 1 \/ i \in 1..n OBVIOUS
<1>10. n + 1 \in 1..n+1 /\ n + 1 \notin 1..n /\ \A i \in 1..n : i \in 1..n+1 OBVIOUS
<1>11. ASSUME UpTo(items), v <= items PROVE UpTo(items)' BY <1>1, <1>7, <1>8, <1>9, <1>11 DEF UpTo
<1>12. inlet.of.plugin = "unix" => UnixInv'
  <2> SUFFICES ASSUME inlet.of.plugin = "unix" PROVE UnixInv' OBVIOUS
  <2>1. UnixInv BY <1>2 DEF ByPlugin
  <2>2. v <= items /\ item <= items BY <1>2, <1>4, <1>5, <2>1 DEF UnixInv
  <2>3. UpTo(items)' BY <1>11, <2>1, <2>2 DEF UnixInv
  <2>4. to = (IF g = 0 THEN "dial" ELSE "done") BY <1>5
  <2>5. ASSUME NEW h \in DOMAIN going' \ {0}
        PROVE  /\ going'[h].at \in {"read", "send", "done"}
               /\ IF going'[h].at = "done" THEN OneOf(h)' ELSE NoneOf(h)'
    <3>1. CASE h = g
      <4>1. NoneOf(g) BY <1>1, <2>1, <2>5, <3>1 DEF UnixInv
      <4>2. going'[h].at = "done" BY <1>6, <2>4, <2>5, <3>1
      <4>3. \A j \in 1..n+1 : forwarded'[j][1] = h <=> j = n + 1
        <5>0. \A j \in DOMAIN forwarded : forwarded[j][1] # g BY ONLY <4>1 DEF NoneOf
        <5>1. ASSUME NEW j \in 1..n PROVE forwarded[j][1] # g /\ j # n + 1
          <6>1. j # n + 1 BY ONLY <1>10, <5>1
          <6>2. j \in DOMAIN forwarded BY ONLY <1>7, <5>1
          <6>3. forwarded[j][1] # g BY ONLY <5>0, <6>2, Zenon
          <6>4. QED BY ONLY <6>1, <6>3, Zenon
        <5>2. \A j \in 1..n : forwarded'[j] = forwarded[j] BY <1>7
        <5>3. QED BY <1>8, <1>9, <3>1, <5>1, <5>2
      <4>4. OneOf(h)'
        <5>1. DOMAIN forwarded' = 1..n+1 BY <1>7
        <5>2. n + 1 \in DOMAIN forwarded' /\ \A j \in DOMAIN forwarded' : forwarded'[j][1] = h <=> j = n + 1
          BY ONLY <1>10, <4>3, <5>1
        <5>3. QED BY ONLY <5>2 DEF OneOf
      <4>5. QED BY <4>2, <4>4
    <3>2. CASE h # g
      <4>1. h \in DOMAIN going \ {0} /\ going'[h] = going[h] BY <1>6, <2>5, <3>2
      <4>2. going[h].at \in {"read", "send", "done"} /\ IF going[h].at = "done" THEN OneOf(h) ELSE NoneOf(h)
        BY <2>1, <4>1 DEF UnixInv
      <4>3. NoneOf(h) => NoneOf(h)' BY <1>7, <1>8, <1>9, <3>2 DEF NoneOf
      <4>4. ASSUME OneOf(h) PROVE OneOf(h)'
        <5>1. DOMAIN forwarded = 1..n BY <1>7
        <5>2. PICK i \in DOMAIN forwarded : \A j \in DOMAIN forwarded : forwarded[j][1] = h <=> j = i BY <4>4 DEF OneOf
        <5>3. i \in 1..n /\ \A j \in 1..n : forwarded[j][1] = h <=> j = i BY <5>1, <5>2
        <5>4. \A j \in 1..n+1 : forwarded'[j][1] = h <=> j = i BY <1>7, <1>8, <1>9, <1>10, <3>2, <5>3
        <5>5. QED BY <1>7, <1>10, <5>3, <5>4 DEF OneOf
      <4>5. QED BY <4>1, <4>2, <4>3, <4>4
    <3>3. QED BY <3>1, <3>2
  <2>6. ASSUME NEW h \in DOMAIN going' PROVE going'[h].item <= items /\ (going'[h].at = "read" => Below(h, going[h].item)')
    <3>1. CASE h = g BY <1>6, <2>2, <2>4, <3>1
    <3>2. CASE h # g
      <4>1. going[h].item <= items /\ (going[h].at = "read" => Below(h, going[h].item)) /\ going'[h] = going[h]
        BY <1>6, <2>1, <3>2 DEF UnixInv
      <4>2. QED BY <1>7, <1>8, <1>9, <3>2, <4>1 DEF Below
    <3>3. QED BY <3>1, <3>2
  <2>7. 0 \in DOMAIN going' => going'[0].at \in {"accept", "dial", "read", "send"}
    <3>1. CASE g = 0 BY <1>6, <2>4, <3>1
    <3>2. CASE g # 0 BY <1>6, <2>1, <3>2 DEF UnixInv
    <3>3. QED BY <3>1, <3>2
  <2>8. DOMAIN going' \subseteq 0..items BY <1>6, <2>1 DEF UnixInv
  <2>9. QED BY <1>1, <2>3, <2>5, <2>6, <2>7, <2>8 DEF UnixInv
<1>13. inlet.of.plugin \in Streams => StreamInv' /\ (inlet.of.plugin = "twitter" => TwitterInv')
  <2> SUFFICES ASSUME inlet.of.plugin \in Streams PROVE StreamInv' /\ (inlet.of.plugin = "twitter" => TwitterInv')
    OBVIOUS
  <2>1. StreamInv BY <1>2 DEF ByPlugin
  <2>2. g = 0 /\ DOMAIN going' = {0} /\ going'[0].at = to /\ going'[0].item = item BY <1>1, <1>6, <2>1 DEF StreamInv
  <2>3. v <= items /\ (inlet.of.plugin # "elasticsearch" => v = items) BY <1>1, <1>4, <2>1, <2>2 DEF StreamInv
  <2>4. UpTo(items)' BY <1>11, <2>1, <2>3 DEF StreamInv
  <2>5. item <= items /\ (inlet.of.plugin # "elasticsearch" \/ to # "send" => item = items)
    <3>1. CASE inlet.of.plugin = "elasticsearch" BY <1>2, <1>5, <2>3, <3>1
    <3>2. CASE inlet.of.plugin # "elasticsearch" BY <1>2, <1>5, <2>3, <3>2 DEF Streams
    <3>3. QED BY <3>1, <3>2
  <2>6. ASSUME inlet.of.plugin # "twitter", NEW k \in 1..item PROVE Has(0, k)' \/ (k = item /\ to = "send")
    <3>1. k \in 1..v \/ (k = item /\ to = "send")
      <4>1. item = v \/ (item = v + 1 /\ to = "send") BY <1>5, <2>6 DEF Streams
      <4>2. QED BY <1>2, <2>6, <4>1
    <3>2. CASE k \in 1..v
      <4>1. Has(0, k) \/ k = v BY <1>1, <1>4, <2>1, <2>2, <2>6, <3>2 DEF StreamInv
      <4>2. Has(0, k) => Has(0, k)' BY <1>7, <1>10 DEF Has
      <4>3. k = v => Has(0, k)' BY <1>7, <1>10, <2>2 DEF Has
      <4>4. QED BY <4>1, <4>2, <4>3
    <3>3. QED BY <3>1, <3>2
  <2>7. inlet.of.plugin = "udp" => overdue' \subseteq {<<0, items>>} BY <1>1, <2>1, <2>2, <2>3 DEF StreamInv
  <2>8. StreamInv' BY <1>1, <2>2, <2>4, <2>5, <2>6, <2>7 DEF StreamInv
  <2>9. ASSUME inlet.of.plugin = "twitter" PROVE TwitterInv'
    <3>1. overdue = {} BY <1>1, <1>2, <2>2, <2>9 DEF ByPlugin, TwitterInv
    <3>2. overdue' \subseteq {<<0, items>>} BY <1>1, <2>2, <2>3, <2>9, <3>1
    <3>3. to = "read" BY <1>5, <2>9
    <3>4. QED BY <1>1, <2>2, <3>2, <3>3 DEF TwitterInv
  <2>10. QED BY <2>8, <2>9
<1>14. inlet.of.plugin = "event" => EventInv'
  <2> SUFFICES ASSUME inlet.of.plugin = "event" PROVE EventInv' OBVIOUS
  <2>1. EventInv BY <1>2 DEF ByPlugin
  <2>2. v \in 1..Count /\ (inlet.at = "stopped" => g \in inlet.unseen) BY <1>1, <1>4, <2>1 DEF EventInv
  <2>3. overdue' \subseteq inlet.unseen \X (1..Count)
    <3>1. inlet.at = "stopped" => <<g, v>> \in inlet.unseen \X (1..Count) BY <2>2
    <3>2. overdue \subseteq inlet.unseen \X (1..Count) BY <2>1 DEF EventInv
    <3>3. QED BY <1>1, <3>1, <3>2
  <2>4. to \in {"send", "finish"} /\ (to = "send" => item \in 1..Count)
    <3>1. item = v \/ (item = v + 1 /\ v < Count) BY <1>5
    <3>2. to = "finish" \/ (to = "send" /\ item = v + 1 /\ v < Count) BY <1>2, <1>5, <3>1
    <3>3. Count \in Nat BY DEF InputBounds
    <3>4. QED BY <1>2, <3>2, <3>3
  <2>5. ASSUME NEW h \in DOMAIN going'
        PROVE  /\ going'[h].at \in {"add", "send", "finish", "done"}
               /\ going'[h].at = "add" => NoneOf(h)'
               /\ going'[h].at = "send" => going'[h].item \in 1..Count
               /\ inlet.at \in {"stopped", "closed"} /\ going'[h].at # "done" => h \in inlet.unseen
    <3>1. CASE h = g BY <1>1, <1>6, <2>2, <2>4, <3>1
    <3>2. CASE h # g
      <4>1. NoneOf(h) => NoneOf(h)' BY <1>7, <1>8, <1>9, <3>2 DEF NoneOf
      <4>2. QED BY <1>6, <2>1, <3>2, <4>1 DEF EventInv
    <3>3. QED BY <3>1, <3>2
  <2>6. inlet.of.interval => DOMAIN going' \subseteq 1..items BY <1>6, <2>1 DEF EventInv
  <2>7. QED BY <1>1, <2>3, <2>5, <2>6 DEF EventInv
<1>15. inlet' = inlet BY <1>1
<1>16. ByPlugin' BY <1>12, <1>13, <1>14, <1>15 DEF ByPlugin, Streams
<1>17. QED BY <1>6, <1>16 DEF SocketsInv

LEMMA SocketsLast == ASSUME SocketsInv, SendLast PROVE SocketsInv'
<1>1. inlet.of.plugin = "twitter" /\ 0 \in DOMAIN going /\ going[0].at = "last" BY DEF SendLast, Plugin, Stands
<1>2. CASE Crash("closed") BY <1>1, <1>2, SocketsEnd
<1>3. CASE /\ forwarded' = Append(forwarded, <<0, going[0].item>>) /\ overdue' = overdue \cup {<<0, going[0].item>>}
           /\ GoesOn(0, "done", going[0].item) /\ UNCHANGED <<inlet, items>>
  <2> DEFINE v == going[0].item
  <2>1. SocketsTyped /\ Common /\ StreamInv /\ TwitterInv /\ DOMAIN going = {0} /\ v \in Nat /\ items \in Nat
    BY <1>1 DEF SocketsInv, ByPlugin, Streams, SocketsTyped, GoingRecords, StreamInv
  <2>2. v = items /\ \A k \in DOMAIN forwarded : forwarded[k][2] <= items BY <1>1, <2>1 DEF StreamInv, UpTo
  <2>3. inlet.at \notin {"start", "up"} /\ overdue \subseteq {<<0, items - 1>>} BY <1>1, <2>1 DEF Common, TwitterInv
  <2>4. GoesOn(0, "done", v) /\ "done" \in Places /\ forwarded' = Append(forwarded, <<0, v>>) /\ v = going[0].item
    BY <1>3 DEF Places
  <2> HIDE DEF v
  <2>5. /\ SocketsTyped' /\ Common'
        /\ DOMAIN going' = DOMAIN going /\ going'[0].at = "done" /\ going'[0].item = v
        /\ \E n \in Nat : /\ DOMAIN forwarded = 1..n /\ DOMAIN forwarded' = 1..n+1
                          /\ forwarded'[n+1] = <<0, v>> /\ \A i \in 1..n : forwarded'[i] = forwarded[i]
    BY <1>1, <1>3, <2>1, <2>3, <2>4, SocketsSend
  <2>6. PICK n \in Nat : /\ DOMAIN forwarded = 1..n /\ DOMAIN forwarded' = 1..n+1
                         /\ forwarded'[n+1] = <<0, v>> /\ \A i \in 1..n : forwarded'[i] = forwarded[i]
    BY <2>5
  <2>7. \A i \in 1..n+1 : i = n + 1 \/ i \in 1..n OBVIOUS
  <2>8. UpTo(items)' BY <1>3, <2>1, <2>2, <2>6, <2>7 DEF UpTo
  <2>9. StreamInv' BY <1>1, <1>3, <2>1, <2>2, <2>5, <2>8 DEF StreamInv
  <2>10. overdue' \subseteq {<<0, items - 1>>, <<0, items>>} BY <1>3, <2>2, <2>3, <2>4
  <2>11. TwitterInv' BY <1>3, <2>1, <2>5, <2>10 DEF TwitterInv
  <2>12. QED BY <1>1, <1>3, <2>5, <2>9, <2>11 DEF SocketsInv, ByPlugin
<1>4. QED BY <1>2, <1>3 DEF SendLast

LEMMA SocketsStep == ASSUME InputBounds, SocketsInv, [SINext]_siVars PROVE SocketsInv'
<1>1. CASE UNCHANGED siVars
  <2>1. inlet' = inlet /\ going' = going /\ items' = items /\ forwarded' = forwarded /\ overdue' = overdue
    BY <1>1 DEF siVars
  <2>2. SocketsTyped' <=> SocketsTyped BY <2>1 DEF SocketsTyped
  <2>3. Common' <=> Common BY <2>1 DEF Common, Below, Ordered, KnownEnd
  <2>4. UnixInv' <=> UnixInv BY <2>1 DEF UnixInv, UpTo, Below, NoneOf, OneOf
  <2>5. StreamInv' <=> StreamInv BY <2>1 DEF StreamInv, UpTo, Has
  <2>6. (TwitterInv' <=> TwitterInv) /\ (EventInv' <=> EventInv) BY <2>1 DEF TwitterInv, EventInv, NoneOf
  <2>7. ByPlugin' <=> ByPlugin BY <2>1, <2>4, <2>5, <2>6 DEF ByPlugin
  <2>8. QED BY <2>2, <2>3, <2>7 DEF SocketsInv
<1>2. CASE SIStart BY <1>2, SocketsStart
<1>3. CASE OutletsClose \/ SIStop \/ StopFatal \/ ImapDeliver \/ \E g \in DOMAIN going : SendCloses(g) BY <1>3, SocketsStop
<1>4. CASE \E g \in DOMAIN going : SendItem(g) BY <1>4, SocketsSends
<1>5. CASE UnixAccept \/ UnixAcceptFails \/ UnixDial \/ \E g \in DOMAIN going : UnixRead(g) BY <1>5, SocketsUnix
<1>6. CASE UdpRead \/ UdpEnds \/ SyslogTake \/ TakeTweet \/ TwitterEnds \/ ScrollFirst \/ ScrollNext BY <1>6, SocketsStreams
<1>7. CASE EventTick \/ \E g \in DOMAIN going : TickAdd(g) \/ TickDone(g) BY <1>7, SocketsEvent
<1>8. CASE SendLast BY <1>8, SocketsLast
<1>9. QED BY <1>1, <1>2, <1>3, <1>4, <1>5, <1>6, <1>7, <1>8 DEF SINext

LEMMA SocketsSound == ASSUME SocketsInv PROVE ReadIsSent /\ OutlivesOnlySo
<1>1. Common /\ SocketsTyped /\ ByPlugin BY DEF SocketsInv
<1>2. ReadIsSent
  <2>1. ASSUME inlet.of.plugin = "unix", NEW g \in DOMAIN going, going[g].at = "done" PROVE OneOf(g)
    <3>1. UnixInv BY <1>1, <2>1 DEF ByPlugin
    <3>2. g # 0 BY <2>1, <3>1 DEF UnixInv
    <3>3. QED BY <2>1, <3>1, <3>2 DEF UnixInv
  <2>2. ASSUME inlet.of.plugin \in {"udp", "syslog", "elasticsearch"}, 0 \in DOMAIN going, NEW i \in 1..going[0].item
        PROVE  <<0, i>> \in ToSet(forwarded) \/ (i = going[0].item /\ Stands(0, "send"))
    <3>1. Has(0, i) \/ (i = going[0].item /\ going[0].at = "send") BY <1>1, <2>2 DEF ByPlugin, StreamInv, Streams
    <3>2. QED BY <2>2, <3>1 DEF Has, ToSet, Stands
  <2>3. Ordered BY <1>1 DEF Common
  <2>4. QED BY <2>1, <2>2, <2>3 DEF ReadIsSent, OneOf, Ordered
<1>3. OutlivesOnlySo
  <2>1. inlet.of.plugin = "udp" => overdue \subseteq {<<0, items>>} BY <1>1 DEF ByPlugin, StreamInv, Streams
  <2>2. inlet.of.plugin = "twitter" => overdue \subseteq {<<0, items - 1>>, <<0, items>>} BY <1>1 DEF ByPlugin, TwitterInv
  <2>3. inlet.of.plugin = "event" => EventInv BY <1>1 DEF ByPlugin
  <2>4. inlet.of.plugin = "event" /\ inlet.at \in {"stopped", "closed"} => InWaitGroup \subseteq inlet.unseen
    BY <2>3 DEF EventInv, InWaitGroup
  <2>5. KnownEnd BY <1>1 DEF Common
  <2>6. QED BY <2>1, <2>2, <2>3, <2>4, <2>5 DEF OutlivesOnlySo, EventInv, KnownEnd
<1>4. QED BY <1>2, <1>3
-----------------------------------------------------------------------------
(***************************************************************************)
(* The promises of each input.                                             *)
(***************************************************************************)
LEMMA InputBoundsHold == InputBounds
BY InputBounds DEF InputBounds

\* tail (tail.go with sincedb.go): a process sends the lines from where its reading
\* began without gap or repetition; what is or may be recorded is at most two lines
\* ahead of the last line sent; and over exits and restarts every line up to the last
\* was sent, is one of the two before a mark that a process resumed at, or was
\* skipped by one that found the mark 0 and began at the end of the file.  For files
\* of any length and any number of processes.
THEOREM TailHolds == TLSpec => [](NoGap /\ AheadByTwo /\ LinesAccounted)
<1>1. TLInit => TailInv /\ Accounted BY InputBoundsHold, TailInit, AccountBegins
<1>2. TailInv /\ Accounted /\ [TLNext]_tailVars => (TailInv /\ Accounted)'
  BY InputBoundsHold, TailStep, TailAccounts
<1>3. TailInv /\ Accounted => NoGap /\ AheadByTwo /\ LinesAccounted BY TailSound DEF Accounted
<1> QED BY <1>1, <1>2, <1>3, PTL DEF TLSpec

\* rabbitmq (rabbitmqinput.go): the broker forgets a message only when Send
\* returned for it, or, in automatic mode, while its delivery is still to be
\* taken, whatever connections are lost and however the program ends.
THEOREM RabbitHolds == RISpec => []AckedWasSent
<1>1. RIInit => RabbitInv BY InputBoundsHold, RabbitInit
<1>2. RabbitInv /\ [RINext]_riVars => RabbitInv' BY RabbitStep
<1>3. RabbitInv => AckedWasSent BY DEF RabbitInv
<1> QED BY <1>1, <1>2, <1>3, PTL DEF RISpec

\* beats (beatsinput.go with the lumberjack server): a batch that its shipper
\* counts as delivered was sent or is the one being sent or waiting, and when
\* Stop returns nothing waits; the events of a batch are sent together and in order.
THEOREM BeatsHolds == BISpec => [](AckedIsSent /\ StopDrains)
<1>1. BIInit => BeatsInv BY InputBoundsHold, BeatsInit
<1>2. BeatsInv /\ [BINext]_biVars => BeatsInv' BY InputBoundsHold, BeatsStep
<1>3. BeatsInv => AckedIsSent /\ StopDrains BY InputBoundsHold, BeatsSound
<1> QED BY <1>1, <1>2, <1>3, PTL DEF BISpec

\* httpserver (http_server.go): 202 tells that every record of the body was
\* sent, an error that those before the bad one were, and a request outlives
\* Stop by one record at most.
THEOREM HttpHolds == HSSpec => [](AnswerIsHonest /\ LateByOne)
<1>1. HSInit => HttpInv BY InputBoundsHold, HttpInit
<1>2. HttpInv /\ [HSNext]_hsVars => HttpInv' BY HttpStep
<1>3. HttpInv => AnswerIsHonest /\ LateByOne BY HttpSound
<1> QED BY <1>1, <1>2, <1>3, PTL DEF HSSpec
-----------------------------------------------------------------------------
(***************************************************************************)
(* Side by side.  Those that are not at work stay as they began.           *)
(***************************************************************************)
InputsInv ==
  /\ at_work = "tail" => TailInv /\ Accounted
  /\ at_work = "rabbit input" => RabbitInv
  /\ at_work = "beats" => BeatsInv
  /\ at_work = "http server" => HttpInv
  /\ at_work = "sockets" => SocketsInv

LEMMA InputsStart == ASSUME InputBounds, InputsInit PROVE InputsInv
BY TailInit, AccountBegins, RabbitInit, BeatsInit, HttpInit, SocketsInit DEF InputsInit, InputsInv

LEMMA InputsStep ==
  ASSUME InputBounds, InputsInv, [InputsNext /\ UNCHANGED at_work]_<<at_work, inputVars>>
  PROVE  InputsInv'
<1>1. at_work' = at_work OBVIOUS
<1>2. CASE at_work = "tail"
  <2>1. TailInv /\ Accounted /\ [TLNext]_tailVars BY <1>2 DEF InputsInv, InputsNext, inputVars
  <2>2. QED BY <1>1, <1>2, <2>1, TailStep, TailAccounts DEF InputsInv
<1>3. CASE at_work = "rabbit input"
  <2>1. RabbitInv /\ [RINext]_riVars BY <1>3 DEF InputsInv, InputsNext, inputVars
  <2>2. QED BY <1>1, <1>3, <2>1, RabbitStep DEF InputsInv
<1>4. CASE at_work = "beats"
  <2>1. BeatsInv /\ [BINext]_biVars BY <1>4 DEF InputsInv, InputsNext, inputVars
  <2>2. QED BY <1>1, <1>4, <2>1, BeatsStep DEF InputsInv
<1>5. CASE at_work = "http server"
  <2>1. HttpInv /\ [HSNext]_hsVars BY <1>5 DEF InputsInv, InputsNext, inputVars
  <2>2. QED BY <1>1, <1>5, <2>1, HttpStep DEF InputsInv
<1>6. CASE at_work = "sockets"
  <2>1. SocketsInv /\ [SINext]_siVars BY <1>6 DEF InputsInv, InputsNext, inputVars
  <2>2. QED BY <1>1, <1>6, <2>1, SocketsStep DEF InputsInv
<1>7. QED BY <1>1, <1>2, <1>3, <1>4, <1>5, <1>6 DEF InputsInv

\* What the inputs promise of what they read and were told, of unix, udp,
\* syslog, twitter, elasticsearch and event too: for any number of lines,
\* messages, shippers, batches, requests, connections and ticks.
THEOREM InputsSoundHolds == InputsSpec => []InputsSound
<1>1. InputsInit => InputsInv BY InputBoundsHold, InputsStart
<1>2. InputsInv /\ [InputsNext /\ UNCHANGED at_work]_<<at_work, inputVars>> => InputsInv'
  BY InputBoundsHold, InputsStep
<1>3. InputsInv => InputsSound
  <2>1. at_work = "tail" /\ InputsInv => NoGap /\ AheadByTwo /\ LinesAccounted BY TailSound DEF InputsInv, Accounted
  <2>2. at_work = "rabbit input" /\ InputsInv => AckedWasSent BY DEF InputsInv, RabbitInv
  <2>3. at_work = "beats" /\ InputsInv => AckedIsSent /\ StopDrains BY InputBoundsHold, BeatsSound DEF InputsInv
  <2>4. at_work = "http server" /\ InputsInv => AnswerIsHonest /\ LateByOne BY HttpSound DEF InputsInv
  <2>5. at_work = "sockets" /\ InputsInv => ReadIsSent /\ OutlivesOnlySo BY SocketsSound DEF InputsInv
  <2>6. QED BY <2>1, <2>2, <2>3, <2>4, <2>5 DEF InputsSound
<1> QED BY <1>1, <1>2, <1>3, PTL DEF InputsSpec

\* What the SinceDB has stored of a tailed file never goes back, though the
\* looper of every run saves a value it read before others were saved.
THEOREM StoredGrowsHolds == InputsSpec => StoredGrows
<1>1. InputsInit => InputsInv BY InputBoundsHold, InputsStart
<1>2. InputsInv /\ [InputsNext /\ UNCHANGED at_work]_<<at_work, inputVars>> => InputsInv'
  BY InputBoundsHold, InputsStep
<1>3. ASSUME InputsInv, [InputsNext /\ UNCHANGED at_work]_<<at_work, inputVars>>
      PROVE  [at_work = "tail" => StoredGrowsStep]_<<at_work, inputVars>>
  <2>1. CASE at_work = "tail"
    <3>1. TailInv /\ [TLNext]_tailVars BY <1>3, <2>1 DEF InputsInv, InputsNext, inputVars
    <3>2. QED BY <3>1, TailGrows
  <2>2. QED BY <2>1
<1>4. InputsInv /\ [InputsNext /\ UNCHANGED at_work]_<<at_work, inputVars>>
        => [at_work = "tail" => StoredGrowsStep]_<<at_work, inputVars>>
  BY <1>3
<1> QED BY <1>1, <1>2, <1>4, PTL DEF InputsSpec, StoredGrows
=============================================================================
