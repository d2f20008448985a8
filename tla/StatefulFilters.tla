-------------------------- MODULE StatefulFilters --------------------------
(***************************************************************************)
(* The filters that remember: newterm, change, geoip, digest.              *)
(***************************************************************************)
EXTENDS Integers, SequencesExt

NoValue == ""  \* the zero value of a string

(***************************************************************************)
(* The newterm filter (processors/filter-newterm/newterm.go): an event     *)
(* passes when its term was not seen before.  Any number of workers share  *)
(* the list of terms, which is searched under a read lock and appended to  *)
(* under a later write lock.                                               *)
(***************************************************************************)
CONSTANTS
  Filters,        \* the workers of the agent, MaxConcurent 0: any number
  Terms,          \* values of compare_field
  Configured,     \* the option `terms`
  IgnoreMissing,  \* the option `ignore_missing`
  MaxSeen         \* bound: events received

VARIABLES
  terms,      \* terms in the list; how often and in which order is never asked
  filtering,  \* worker -> where it is in Receive, and the term of its event
  passed,     \* worker -> term -> events sent ("none": without the field)
  seen        \* term -> events received

ntVars == <<terms, filtering, passed, seen>>
Held == Terms \cup {"none"}
Resting == [pc |-> "idle", term |-> "none"]

NTInit ==
  /\ terms = Configured
  /\ filtering = [w \in Filters |-> Resting]
  /\ passed = [w \in Filters |-> [t \in Held |-> 0]]
  /\ seen = [t \in Held |-> 0]

NTStep(w, pc, t) == filtering' = [filtering EXCEPT ![w] = [pc |-> pc, term |-> t]]

\* Receive up to the lookup; an event without the field is ignored or sent.
NTReceive(w) ==
  /\ filtering[w].pc = "idle"
  /\ \E t \in Held :
       /\ seen[t] < MaxSeen
       /\ seen' = [seen EXCEPT ![t] = @ + 1]
       /\ IF t = "none"
            THEN filtering' = IF IgnoreMissing THEN filtering
                              ELSE [filtering EXCEPT ![w] = [pc |-> "send", term |-> t]]
            ELSE NTStep(w, "search", t)
  /\ UNCHANGED <<terms, passed>>

\* Mutant: the term is appended before the search.
NTSearch_AppendFirst(w) ==
  /\ filtering[w].pc = "search"
  /\ terms' = terms \cup {filtering[w].term}
  /\ NTStep(w, "idle", "none")
  /\ UNCHANGED <<passed, seen>>
\* Under the read lock.
NTSearch(w) ==
  /\ filtering[w].pc = "search"
  /\ IF filtering[w].term \in terms THEN NTStep(w, "idle", "none")
                                    ELSE NTStep(w, "append", filtering[w].term)
  /\ UNCHANGED <<terms, passed, seen>>

\* Mutant: the term is never remembered.
NTAppend_Forgotten(w) ==
  /\ filtering[w].pc = "append"
  /\ NTStep(w, "send", filtering[w].term)
  /\ UNCHANGED <<terms, passed, seen>>
\* Under the write lock.
NTAppend(w) ==
  /\ filtering[w].pc = "append"
  /\ terms' = terms \cup {filtering[w].term}
  /\ NTStep(w, "send", filtering[w].term)
  /\ UNCHANGED <<passed, seen>>

NTSend(w) ==
  /\ filtering[w].pc = "send"
  /\ passed' = [passed EXCEPT ![w][filtering[w].term] = @ + 1]
  /\ NTStep(w, "idle", "none")
  /\ UNCHANGED <<terms, seen>>

NTNext == \E w \in Filters : NTReceive(w) \/ NTSearch(w) \/ NTAppend(w) \/ NTSend(w)
NTSpec == NTInit /\ [][NTNext]_ntVars
-----------------------------------------------------------------------------
NTTypeOK ==
  /\ terms \subseteq Terms
  /\ filtering \in [Filters -> [pc : {"idle", "search", "append", "send"}, term : Held]]
  /\ passed \in [Filters -> [Held -> Nat]]
  /\ seen \in [Held -> Nat]

\* The search and the append are two critical sections, so two workers can
\* both find a term new; what remains true is that one worker never does
\* twice, which bounds the events of a term by the number of workers.
OncePerWorker == \A w \in Filters, t \in Terms : passed[w][t] <= 1

\* A term that was received and was not configured is passed by somebody: the
\* worker that dropped it found it in the list, so another one is sending it.
NewTermPasses ==
  \A t \in Terms \ Configured :
    (seen[t] > 0 /\ \A w \in Filters : filtering[w].term # t) =>
       \E w \in Filters : passed[w][t] > 0
-----------------------------------------------------------------------------
(***************************************************************************)
(* The change filter (processors/filter-change/change.go): an event passes *)
(* when its value differs from the one before, unless that one is older    *)
(* than a timeframe.  One worker and the timer's callback share the fields *)
(* under a mutex; Stop reads them without it.  A timer of AfterFunc has no *)
(* channel: to receive from its C is to wait for ever.                     *)
(***************************************************************************)
CONSTANTS
  Values,         \* of compare_field, other than NoValue
  Timeframe,      \* the option `timeframe` is not 0
  SkipMissing,    \* the option `ignore_missing`
  MaxChanges      \* bound: events received

VARIABLES
  doing,       \* what the agent's goroutine is at in Receive or Stop
  mu,          \* who holds p.mu
  lastValue, first,
  hop,         \* p.hop is not nil
  was, value,  \* locals of Receive: lastValue and eValue
  timer,       \* "off", "armed", or "fired": its callback has begun
  heard,       \* history: the last value since the filter last forgot, or "none"
  verdict,     \* history: what the last event was compared with, and if it passed
  changes      \* events received

cfVars == <<doing, mu, lastValue, first, hop, was, value, timer, heard, verdict, changes>>
Texts == Values \cup {NoValue}

CFInit ==
  /\ doing = "idle" /\ mu = "nobody"
  /\ lastValue = NoValue /\ first = TRUE /\ hop = FALSE
  /\ was = NoValue /\ value = NoValue /\ timer = "off"
  /\ heard = "none" /\ verdict = [before |-> "none", value |-> NoValue, passed |-> FALSE]
  /\ changes = 0

\* An event; one without the field is ignored or stands for NoValue.
CFReceive ==
  /\ doing = "idle" /\ changes < MaxChanges
  /\ changes' = changes + 1
  /\ \E v \in Texts :
       IF v = NoValue /\ SkipMissing THEN UNCHANGED <<doing, value>>
                                ELSE doing' = "lock" /\ value' = v
  /\ UNCHANGED <<mu, lastValue, first, hop, was, timer, heard, verdict>>

CFLock ==
  /\ doing = "lock" /\ mu = "nobody"
  /\ mu' = "worker" /\ doing' = "reset"
  /\ was' = lastValue /\ lastValue' = value
  /\ UNCHANGED <<first, hop, value, timer, heard, verdict, changes>>

\* ResetTimer.  A timer that fired cannot be stopped any more, and its callback
\* waits for the mutex that is held here.
ResetTimer ==
  /\ doing = "reset"
  /\ IF Timeframe /\ hop /\ timer # "armed"
       THEN doing' = "blocked" /\ UNCHANGED <<hop, timer>>
       ELSE doing' = "judge" /\ IF Timeframe THEN hop' = TRUE /\ timer' = "armed"
                                             ELSE UNCHANGED <<hop, timer>>
  /\ UNCHANGED <<mu, lastValue, first, was, value, heard, verdict, changes>>

CFJudge ==
  /\ doing = "judge"
  /\ first' = FALSE
  /\ verdict' = [before |-> heard, value |-> value, passed |-> ~first /\ was # value]
  /\ heard' = value
  /\ mu' = "nobody" /\ doing' = "idle"
  /\ UNCHANGED <<lastValue, hop, was, value, timer, changes>>

\* The timeframe is over: the runtime starts the callback.
Expire ==
  /\ timer = "armed"
  /\ timer' = "fired"
  /\ UNCHANGED <<doing, mu, lastValue, first, hop, was, value, heard, verdict, changes>>

\* Mutant: only the value is forgotten.
ForgetValue_Alone ==
  /\ timer = "fired" /\ mu = "nobody"
  /\ lastValue' = NoValue /\ hop' = FALSE
  /\ timer' = "off" /\ heard' = "none"
  /\ UNCHANGED <<doing, mu, first, was, value, verdict, changes>>
\* The callback, once it has the mutex.
ForgetValue ==
  /\ timer = "fired" /\ mu = "nobody"
  /\ lastValue' = NoValue /\ first' = TRUE /\ hop' = FALSE
  /\ timer' = "off" /\ heard' = "none"
  /\ UNCHANGED <<doing, mu, was, value, verdict, changes>>

\* Stop, after the worker has returned: hop is read at each use, without the
\* mutex.  A nil hop is dereferenced and the process panics.
CFStop ==
  /\ doing = "idle"
  /\ doing' = IF hop THEN "stop" ELSE "stopped"
  /\ UNCHANGED <<mu, lastValue, first, hop, was, value, timer, heard, verdict, changes>>
\* Mutant: the timer is left alone.
StopTimer_Leave ==
  /\ doing = "stop"
  /\ doing' = "stopped"
  /\ UNCHANGED <<mu, lastValue, first, hop, was, value, timer, heard, verdict, changes>>
StopTimer ==
  /\ doing = "stop"
  /\ doing' = CASE ~hop -> "panic" [] hop /\ timer = "armed" -> "stopped" [] OTHER -> "drain"
  /\ timer' = IF timer = "armed" THEN "off" ELSE timer
  /\ UNCHANGED <<mu, lastValue, first, hop, was, value, heard, verdict, changes>>
DrainTimer ==
  /\ doing = "drain"
  /\ doing' = IF hop THEN "blocked" ELSE "panic"
  /\ UNCHANGED <<mu, lastValue, first, hop, was, value, timer, heard, verdict, changes>>

CFWorker == CFLock \/ ResetTimer \/ CFJudge \/ StopTimer \/ DrainTimer
CFNext == CFReceive \/ CFWorker \/ Expire \/ ForgetValue \/ CFStop
CFSpec == CFInit /\ [][CFNext]_cfVars
\* The Go scheduler runs a goroutine that can run.
CFFairSpec == CFSpec /\ WF_cfVars(CFWorker) /\ WF_cfVars(ForgetValue)
-----------------------------------------------------------------------------
CFTypeOK ==
  /\ doing \in {"idle", "lock", "reset", "judge", "stop", "drain", "blocked", "panic", "stopped"}
  /\ mu \in {"nobody", "worker"} /\ timer \in {"off", "armed", "fired"}
  /\ {lastValue, was, value} \subseteq Texts /\ heard \in Texts \cup {"none"}
  /\ {first, hop} \subseteq BOOLEAN /\ changes \in 0..MaxChanges
  /\ verdict \in [before : Texts \cup {"none"}, value : Texts, passed : BOOLEAN]

\* What passes is exactly what differs from the event before it, if the filter
\* has not forgotten that one, whenever the timer's callback gets the mutex.
PassesExactlyChanges == verdict.passed <=> verdict.before \notin {"none", verdict.value}

\* No timer is left behind in a stopped pipeline: hop is the only way to it.
StoppedHasNoTimer == doing = "stopped" => timer = "off"

\* "After this time period, Bitfan will forget the old value" (change.go:47).
\* Not so when an event takes the mutex between the timer's firing and its
\* callback: the worker then waits for ever with the mutex held.
ForgetsInTime == timer = "fired" ~> heard = "none"
-----------------------------------------------------------------------------
(***************************************************************************)
(* The geoip filter (processors/filter-geoip/geoip.go): any number of      *)
(* workers look an address up in a cache they share; on a miss a goroutine *)
(* of the cache reads the database, which a ticker fetches anew.  The      *)
(* releases of the database are numbered, 0 is none.  The cache is made    *)
(* before the options are read: its size is the default one.               *)
(***************************************************************************)
CONSTANTS
  Lookers,     \* workers
  GeoOptions,  \* the options web, for a URL, and database_type
  Addresses,   \* hosts; "nonsense" is no address
  CacheSize,   \* the default of lru_cache_size
  MaxReleases, MaxLocated \* bounds: releases of the database; events

VARIABLES
  geo,       \* the options; etag, database; at "start", "idle", "body" or "crash"; release
             \* and the one being fetched; history: a body was lost, a refresh failed
  locating,  \* worker -> where it is in Receive: its address, what it read, its record
  cached,    \* addresses and the release of their records, the least recently used first
  located    \* history: address -> release of the latest answer, those looked up at a time;
             \* events
giVars == <<geo, locating, cached, located>>

GINone == [pc |-> "idle", ip |-> NoValue, read |-> 0, record |-> 0]
GIInit ==
  /\ geo \in {[options |-> o, etag |-> 0, database |-> 0, at |-> "start", release |-> 1, fetched |-> 0,
               lost |-> FALSE, failed |-> FALSE] : o \in GeoOptions}
  /\ locating = [w \in Lookers |-> GINone] /\ cached = <<>>
  /\ located = [latest |-> [a \in Addresses |-> 0], overlaps |-> {}, count |-> 0]
GeoAt(place) == geo' = [geo EXCEPT !.at = place]
LookerAt(w, pc) == w \in Lookers /\ geo.at # "crash" /\ locating[w].pc = pc
\* The filter's owner publishes a new database.
Release == geo.release < MaxReleases /\ geo' = [geo EXCEPT !.release = @ + 1] /\ UNCHANGED <<locating, cached, located>>
Refuses == geo.at \in {"start", "idle"} /\ geo' = [geo EXCEPT !.at = "idle", !.failed = TRUE]
Replaces(database) == geo' = [geo EXCEPT !.at = "idle", !.database = database, !.failed = @ \/ database = 0]

\* refresh, at Start and at each tick, from a file: one that cannot be read leaves none.
OpenFile == ~geo.options.web /\ \E d \in {0, geo.release} : Replaces(d)
\* Mutant: the etag is saved whatever the status.
AskServer_SaveFirst ==
  geo.options.web /\ \/ GeoAt("crash") \/ (geo' = [geo EXCEPT !.at = "idle", !.failed = TRUE, !.etag = geo.release])
                     \/ geo' = [geo EXCEPT !.at = "body", !.etag = geo.release, !.fetched = geo.release]
\* From the web, with the etag of the last one: an error; not modified; the head of an
\* answer, which must have an etag.
AskServer ==
  /\ geo.options.web
  /\ \/ Refuses
     \/ geo.etag = geo.release /\ GeoAt("idle")
     \/ geo.etag # geo.release /\ (GeoAt("crash") \/ geo' = [geo EXCEPT !.at = "body", !.etag = geo.release, !.fetched = geo.release])
Refresh == geo.at \in {"start", "idle"} /\ (OpenFile \/ AskServer) /\ UNCHANGED <<locating, cached, located>>
\* The body breaks off, or is no database, or is one.
ReadBody ==
  /\ geo.at = "body"
  /\ \/ geo' = [geo EXCEPT !.at = "idle", !.lost = TRUE, !.failed = TRUE]
     \/ geo' = [geo EXCEPT !.at = "idle", !.database = 0, !.lost = TRUE, !.failed = TRUE]
     \/ Replaces(geo.fetched)
  /\ UNCHANGED <<locating, cached, located>>

Cached(ip) == {i \in DOMAIN cached : cached[i].ip = ip}
CachedWithout(ip) == IF Cached(ip) = {} THEN cached ELSE RemoveAt(cached, CHOOSE i \in Cached(ip) : TRUE)
Trimmed(s) == SubSeq(s, 1 + (IF Len(s) > CacheSize THEN Len(s) - CacheSize ELSE 0), Len(s))
\* Receive, once the pipeline started; one without the field is tagged.
Locate(w) ==
  /\ LookerAt(w, "idle") /\ geo.at # "start" /\ located.count < MaxLocated
  /\ \E ip \in Addresses \cup {NoValue} :
       locating' = [locating EXCEPT ![w] = [pc |-> IF ip = NoValue THEN "tag" ELSE "get", ip |-> ip, read |-> 0, record |-> 0]]
  /\ located' = [located EXCEPT !.count = @ + 1] /\ UNCHANGED <<geo, cached>>
\* The cache's goroutine: what it has is the most recently used now.
CacheGet(w) ==
  LET ip == locating[w].ip IN
  /\ LookerAt(w, "get")
  /\ \/ /\ Cached(ip) = {} /\ locating' = [locating EXCEPT ![w].pc = "miss"] /\ UNCHANGED cached
     \/ \E i \in Cached(ip) :
          /\ cached' = Append(RemoveAt(cached, i), cached[i])
          /\ locating' = [locating EXCEPT ![w].pc = "answer", ![w].record = cached[i].record]
  /\ located' = [located EXCEPT !.overlaps = @ \cup
       {locating[v].ip : v \in {v \in Lookers \ {w} : Cached(ip) = {} /\ locating[v].ip = ip /\ locating[v].pc \in {"miss", "set", "answer"}}}]
  /\ UNCHANGED geo
\* Mutant: the database is what it was when the worker handed its function to the cache.
GetInfo_Captured(w) ==
  /\ LookerAt(w, "miss")
  /\ IF geo.database = 0 THEN GeoAt("crash") /\ UNCHANGED <<locating, cached, located>>
     ELSE /\ \E d \in 1..geo.database : locating' = [locating EXCEPT ![w].pc = "set", ![w].read = d]
          /\ UNCHANGED <<geo, cached, located>>
\* On a miss a goroutine reads the database there is.
GetInfo(w) ==
  /\ LookerAt(w, "miss")
  /\ IF locating[w].ip = "nonsense" \/ geo.options.type \notin {"city", "isp", "country", "domain", "anonymousip"}
     THEN locating' = [locating EXCEPT ![w].pc = "tag"] /\ UNCHANGED <<geo, cached, located>>
     ELSE IF geo.database = 0 THEN GeoAt("crash") /\ UNCHANGED <<locating, cached, located>>
     ELSE /\ locating' = [locating EXCEPT ![w].pc = "set", ![w].read = geo.database]
          /\ UNCHANGED <<geo, cached, located>>
CacheSet(w) ==
  /\ LookerAt(w, "set")
  /\ cached' = Trimmed(Append(CachedWithout(locating[w].ip), [ip |-> locating[w].ip, record |-> locating[w].read]))
  /\ locating' = [locating EXCEPT ![w].pc = "answer", ![w].record = locating[w].read] /\ UNCHANGED <<geo, located>>
\* What the options want of the record is copied into the event, which is sent.
Answer(w) ==
  /\ LookerAt(w, "answer") /\ located' = [located EXCEPT !.latest[locating[w].ip] = locating[w].record]
  /\ locating' = [locating EXCEPT ![w] = GINone] /\ UNCHANGED <<geo, cached>>
\* It is sent with the tags of a failure.
TagFailure(w) == LookerAt(w, "tag") /\ locating' = [locating EXCEPT ![w] = GINone] /\ UNCHANGED <<geo, cached, located>>
GINext ==
  Release \/ Refresh \/ ReadBody
    \/ \E w \in Lookers : Locate(w) \/ CacheGet(w) \/ GetInfo(w) \/ CacheSet(w) \/ Answer(w) \/ TagFailure(w)
GISpec == GIInit /\ [][GINext]_giVars

\* The etag is that of the database in use, unless a body was lost: then the old
\* database, or none, stays until there is a new release.
EtagNamesDatabase == geo.options.web /\ geo.at = "idle" /\ ~geo.lost => geo.database = geo.etag
\* An address is answered from no older release than before, unless two lookups of it
\* ran at a time: the cache keeps what the later of them brings, which may be the older.
GeoNeverOlder ==
  \A w \in Lookers : LET l == locating[w] IN
    l.pc = "answer" /\ l.ip \notin located.overlaps => l.record >= located.latest[l.ip]
\* The cache has an address once and no more of them than its size; the program ends
\* only after a refresh that failed, or one that was answered without an etag.
CacheWithin ==
  /\ Len(cached) <= CacheSize /\ \A i, j \in DOMAIN cached : cached[i].ip = cached[j].ip => i = j
  /\ geo.at = "crash" => geo.failed \/ geo.options.web
-----------------------------------------------------------------------------
(***************************************************************************)
(* The digest filter (processors/filter-digest/digest.go) merges events    *)
(* into one.  With a count Receive sends that event; with an interval Tick *)
(* does, which every tick of the scheduler runs in a goroutine of its own  *)
(* (core/agent.go:223), beside Receive and beside an earlier tick, without *)
(* a lock.  The event sent holds the very map the next events go into.     *)
(***************************************************************************)
CONSTANTS
  Tickers,        \* goroutines of ticks that may be alive together
  DigestSettings,  \* interval, whether it is set, and count
  MaxDigested,    \* bound: events received
  MaxDigests      \* bound: events sent

VARIABLES
  digestOpt,  \* the options
  packets,    \* p.packets
  maps,       \* the maps made, as the events merged into each; p.values is the last
  ticking,    \* "worker" or a ticker -> its place in Receive or Tick
  loaded,     \* what the worker read of packets in packets++, no single step
  digests,    \* the events sent: which map, and how many events it held then
  lost,       \* events counted but without the key: never merged
  digested,   \* events received
  overlapped, \* history: a tick began while another was alive
  fatal       \* the runtime found a concurrent use of a map and ended the process

digestVars == <<digestOpt, packets, maps, ticking, loaded, digests, lost, digested, overlapped, fatal>>
DigestThreads == Tickers \cup {"worker"}
TickPlaces == {"build", "send", "clear", "zero"}

DGInit ==
  /\ digestOpt \in DigestSettings
  /\ packets = 0 /\ loaded = 0 /\ digested = 0
  /\ maps = <<{}>> /\ digests = <<>> /\ lost = {}
  /\ ticking = [t \in DigestThreads |-> "idle"]
  /\ overlapped = FALSE /\ fatal = FALSE

DGGo(t, place) == ticking' = [ticking EXCEPT ![t] = place]

\* Receive begins: packets++ reads.
DGReceive ==
  /\ ~fatal /\ ticking["worker"] = "idle" /\ digested < MaxDigested
  /\ digested' = digested + 1 /\ loaded' = packets
  /\ DGGo("worker", "count")
  /\ UNCHANGED <<digestOpt, packets, maps, digests, lost, overlapped, fatal>>

\* packets++ writes.
DGCount ==
  /\ ~fatal /\ ticking["worker"] = "count"
  /\ packets' = loaded + 1
  /\ DGGo("worker", "merge")
  /\ UNCHANGED <<digestOpt, maps, loaded, digests, lost, digested, overlapped, fatal>>

\* The event is merged, or lacks the key; a map that is written by NewPacket at
\* the same time may end the process.  Without interval the flush comes next.
MergeEvent ==
  /\ ~fatal /\ ticking["worker"] = "merge"
  /\ \/ maps' = [maps EXCEPT ![Len(maps)] = @ \cup {digested}] /\ lost' = lost
        /\ DGGo("worker", IF ~digestOpt.interval /\ packets >= digestOpt.count THEN "build" ELSE "idle")
     \/ lost' = lost \cup {digested} /\ maps' = maps /\ DGGo("worker", "idle")
  /\ fatal' \in {FALSE, \E t \in Tickers : ticking[t] = "send"}
  /\ UNCHANGED <<digestOpt, packets, loaded, digests, digested, overlapped>>

\* Tick, called by the scheduler: too few events, or on to NewPacket.
DGTick(t) ==
  /\ ~fatal /\ digestOpt.interval /\ ticking[t] = "idle" /\ Len(digests) < MaxDigests
  /\ packets >= digestOpt.count
  /\ DGGo(t, "build")
  /\ overlapped' = (overlapped \/ \E u \in Tickers : ticking[u] # "idle")
  /\ UNCHANGED <<digestOpt, packets, maps, loaded, digests, lost, digested, fatal>>

\* Mutant: the values are replaced before the event is made.
BuildDigest_Empty(t) ==
  /\ ~fatal /\ ticking[t] = "build"
  /\ maps' = Append(maps, {})
  /\ digests' = Append(digests, [map |-> Len(maps) + 1, held |-> 0])
  /\ DGGo(t, "send")
  /\ UNCHANGED <<digestOpt, packets, loaded, lost, digested, overlapped, fatal>>
\* NewPacket(p.values): the event holds the map there is now.
BuildDigest(t) ==
  /\ ~fatal /\ ticking[t] = "build"
  /\ digests' = Append(digests, [map |-> Len(maps), held |-> Cardinality(maps[Len(maps)])])
  /\ DGGo(t, "send")
  /\ UNCHANGED <<digestOpt, packets, maps, loaded, lost, digested, overlapped, fatal>>

\* Send returned, which may take as long as the next agent likes.
DGSent(t) ==
  /\ ~fatal /\ ticking[t] = "send"
  /\ DGGo(t, "clear")
  /\ UNCHANGED <<digestOpt, packets, maps, loaded, digests, lost, digested, overlapped, fatal>>

\* Mutant: the values are cleared in the map itself.
ClearValues_InPlace(t) ==
  /\ ~fatal /\ ticking[t] = "clear"
  /\ maps' = [maps EXCEPT ![Len(maps)] = {}]
  /\ DGGo(t, "zero")
  /\ UNCHANGED <<digestOpt, packets, loaded, digests, lost, digested, overlapped, fatal>>
ClearValues(t) ==
  /\ ~fatal /\ ticking[t] = "clear"
  /\ maps' = Append(maps, {})
  /\ DGGo(t, "zero")
  /\ UNCHANGED <<digestOpt, packets, loaded, digests, lost, digested, overlapped, fatal>>

\* Mutant: what was digested is taken off the counter.
ZeroPackets_Subtract(t) ==
  /\ ~fatal /\ ticking[t] = "zero"
  /\ packets' = packets - digestOpt.count
  /\ DGGo(t, "idle")
  /\ UNCHANGED <<digestOpt, maps, loaded, digests, lost, digested, overlapped, fatal>>
ZeroPackets(t) ==
  /\ ~fatal /\ ticking[t] = "zero"
  /\ packets' = 0
  /\ DGGo(t, "idle")
  /\ UNCHANGED <<digestOpt, maps, loaded, digests, lost, digested, overlapped, fatal>>

DGNext ==
  \/ DGReceive \/ DGCount \/ MergeEvent
  \/ \E t \in Tickers : DGTick(t)
  \/ \E t \in DigestThreads : BuildDigest(t) \/ DGSent(t) \/ ClearValues(t) \/ ZeroPackets(t)
DGSpec == DGInit /\ [][DGNext]_digestVars
-----------------------------------------------------------------------------
DGTypeOK ==
  /\ packets \in Nat /\ loaded \in Nat /\ digested \in 0..MaxDigested
  /\ maps \in Seq(SUBSET (1..MaxDigested)) /\ lost \subseteq 1..MaxDigested
  /\ ticking \in [DigestThreads -> {"idle", "count", "merge"} \cup TickPlaces]
  /\ digests \in Seq([map : Nat, held : Nat])
  /\ {overlapped, fatal} \subseteq BOOLEAN

\* An event merged is in the map to be sent or in one that was, whatever Receive
\* and Tick do to each other, as long as no two ticks overlap.
NoEventDropped ==
  ~overlapped =>
    \A i \in 1..(Len(maps) - 1) : \E d \in 1..Len(digests) : digests[d].map = i

\* No event is in two digests, unless two ticks overlap.
DigestedOnce ==
  ~overlapped => \A d, e \in 1..Len(digests) : d # e => digests[d].map # digests[e].map

\* "digest will not fire an event if less than min events were digested"
\* (digest.go:43).  packets says otherwise when an event had no key or came
\* between a Send and the reset, or a second tick looked before the reset.
MinIsKept == \A d \in 1..Len(digests) : digests[d].held >= digestOpt.count
=============================================================================
