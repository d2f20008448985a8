--------------------------------- MODULE Sinks -------------------------------
(***************************************************************************)
(* Outputs that give each event to the library of a service: email, the    *)
(* two for elasticsearch, and statsd. Several workers may be in Receive;   *)
(* what they share is the state of the processor. An error of Start or     *)
(* Receive is logged by the agent, and the event goes no further.          *)
(***************************************************************************)
EXTENDS Integers, FiniteSets, SequencesExt

(* output-email. *)
CONSTANTS
  Mailers,     \* workers
  MailOptions, \* options: templates, "none", "fine" or "bad" for those that cannot be read
  MailEvents,  \* events: the pictures in their html; the data to be attached
  MaxMails     \* bound: events

VARIABLES
  mailOpt,  \* the options but Images
  images,   \* p.opt.Images: the configured places, and the names of pictures
  spool,    \* the files embed-i in the temporary directory: the picture that was written last
  mailing,  \* worker -> its event and the mail in the making
  mailed    \* history: events so far; the mails that were sent; events whose mails were
            \* made side by side
emVars == <<mailOpt, images, spool, mailing, mailed>>

EMIdle == [at |-> "idle", n |-> 0, event |-> <<>>, next |-> 1, seen |-> <<>>, mail |-> <<>>]
EMInit ==
  /\ mailOpt \in MailOptions /\ images = mailOpt.images
  /\ spool = <<>> /\ mailing = [w \in Mailers |-> EMIdle]
  /\ mailed = [count |-> 0, sent |-> {}, beside |-> {}]

MailLost(w) == mailing' = [mailing EXCEPT ![w] = EMIdle]
\* The subject and the html are made of templates that are read for every event; a
\* template that fails on the event leaves what it wrote so far.
EMReceive(w) ==
  /\ mailing[w].at = "idle" /\ mailed.count < MaxMails
  /\ LET n == mailed.count + 1
         busy == {mailing[v].n : v \in {u \in Mailers : mailing[u].at # "idle"}}
     IN /\ mailed' = [mailed EXCEPT !.count = n, !.beside = @ \cup (IF busy = {} THEN {} ELSE busy \cup {n})]
        /\ \E e \in MailEvents :
             IF "bad" \in {mailOpt.subject, mailOpt.html} THEN MailLost(w)
             ELSE mailing' = [mailing EXCEPT ![w] =
                    [at |-> IF mailOpt.html = "fine" /\ mailOpt.embeds THEN "pictures" ELSE "body",
                     n |-> n, event |-> e, next |-> 1, seen |-> <<>>, mail |-> [event |-> n, of |-> e, refs |-> <<>>, written |-> {}]]]
  /\ UNCHANGED <<mailOpt, images, spool>>

\* Mutant: the name of a picture has no number.
PictureName_One(i) == <<"embed", 1>>
\* embed-i, in the html and in the temporary directory.
PictureName(i) == <<"embed", i>>
Current(w) == mailing[w].event.pictures[mailing[w].next]
Refers(w) == Append(mailing[w].mail.refs, PictureName(mailing[w].next))
\* The html refers to the picture before it is decoded.
PictureFails(w) ==
  /\ mailing[w].at = "pictures" /\ mailing[w].next <= Len(mailing[w].event.pictures)
  /\ mailing' = [mailing EXCEPT ![w].next = @ + 1, ![w].mail.refs = Refers(w)]
  /\ UNCHANGED <<mailOpt, images, spool, mailed>>
WritePicture(w) ==
  LET i == mailing[w].next name == PictureName(i) IN
  /\ mailing[w].at = "pictures" /\ i <= Len(mailing[w].event.pictures) /\ Current(w) = "base64"
  /\ spool' = [k \in DOMAIN spool \cup {name} |-> IF k = name THEN <<mailing[w].n, i>> ELSE spool[k]]
  /\ mailing' = [mailing EXCEPT ![w].at = "append", ![w].seen = images, ![w].mail.refs = Refers(w), ![w].mail.written = @ \cup {i}]
  /\ UNCHANGED <<mailOpt, images, mailed>>
\* append to the options, which the workers share and nothing resets.
AppendPicture(w) ==
  /\ mailing[w].at = "append"
  /\ images' = Append(mailing[w].seen, PictureName(mailing[w].next))
  /\ mailing' = [mailing EXCEPT ![w].at = "pictures", ![w].next = @ + 1]
  /\ UNCHANGED <<mailOpt, spool, mailed>>
PicturesEnd(w) ==
  /\ mailing[w].at = "pictures" /\ mailing[w].next > Len(mailing[w].event.pictures)
  /\ mailing' = [mailing EXCEPT ![w].at = "body"] /\ UNCHANGED <<mailOpt, images, spool, mailed>>

\* A file is looked for where the process is, then beside the configuration.
Found(places) == SelectSeq(places, LAMBDA p : p # <<"nowhere">>)
\* A text is decoded; what is not base64 is written as it is, and then over it as
\* much as could be decoded.
Attached(kind) == CASE kind = "base64" -> "decoded" [] kind = "text" -> "cut" [] kind = "bytes" -> "bytes"
DataOf(e) == {<<p, Attached(e.data[p])>> : p \in {q \in mailOpt.data : q \in DOMAIN e.data /\ e.data[q] # "other"}}
MakeMail(w) ==
  /\ mailing[w].at = "body"
  /\ IF mailOpt.body = "bad" THEN MailLost(w)
     ELSE mailing' = [mailing EXCEPT ![w].at = "send",
            ![w].mail = @ @@ [embeds |-> Found(images), attached |-> Found(mailOpt.attachments), data |-> DataOf(mailing[w].event)]]
  /\ UNCHANGED <<mailOpt, images, spool, mailed>>
\* DialAndSend reads the files now.
SendMail(w) ==
  /\ mailing[w].at = "send" /\ MailLost(w)
  /\ mailed' = [mailed EXCEPT !.sent = @ \cup {mailing[w].mail @@ [pictures |-> spool]}]
  /\ UNCHANGED <<mailOpt, images, spool>>
SendFails(w) ==
  /\ mailing[w].at = "send" /\ MailLost(w) /\ UNCHANGED <<mailOpt, images, spool, mailed>>
EMNext ==
  \E w \in Mailers :
    EMReceive(w) \/ PictureFails(w) \/ WritePicture(w) \/ AppendPicture(w) \/ PicturesEnd(w) \/ MakeMail(w) \/ SendMail(w) \/ SendFails(w)

\* A mail that is not made beside another refers to each picture of its event in
\* its order, and embeds under that name the event's own if it was written; those
\* of earlier events stay among its files.  Files and data are attached as configured,
\* but data that is neither bytes nor base64 is cut (Receive).
MailIsWhole ==
  \A m \in mailed.sent :
    /\ m.event \notin mailed.beside =>
         /\ \A i \in m.written : m.refs[i] \in ToSet(m.embeds) /\ m.pictures[m.refs[i]] = <<m.event, i>>
         /\ mailOpt.embeds /\ mailOpt.html = "fine" => Len(m.refs) = Len(m.of.pictures)
    /\ SelectSeq(m.embeds, LAMBDA p : p \in {<<"here">>, <<"beside">>}) = Found(mailOpt.images)
    /\ m.attached = Found(mailOpt.attachments)
    /\ \A p \in mailOpt.data \cap DOMAIN m.of.data :
         m.of.data[p] \in {"base64", "bytes"} <=> \E d \in m.data : d[1] = p /\ d[2] # "cut"
-----------------------------------------------------------------------------
(* output-elasticsearch, of servers 5 and 6, and output-elasticsearch2. *)
CONSTANTS
  Indexers,  \* workers
  Days,      \* what the name of an index is made of
  MaxIndexed \* bound: events

VARIABLES
  elastic,   \* the plugin; p.opt.Version; the server's; at "connect", "runs", "failed",
             \* "closing", "stopped", "crash"; versions that have a client, a bulk processor
  indexing,  \* worker -> the event it is at, its index, and the call to be made
  lastIndex, \* p.lastIndex
  cluster,   \* indices; those whose check or creation failed; requests that wait to be
             \* sent; documents stored; those refused
  indexed    \* history: events so far; those of Receives that returned; that had no bulk
             \* processor; with another kind of time stamp
esVars == <<elastic, indexing, lastIndex, cluster, indexed>>

Versions == {5, 6}
\* A server may be down, mute about its version, or of any other.
Down == 0
Mute == 1
Other == 7
ESIdle == [at |-> "idle", n |-> 0, index |-> "none"]
Elastic(plugin, version, server) ==
  [plugin |-> plugin, version |-> version, server |-> server, at |-> "connect", clients |-> {}, bulks |-> {}]
Elastics == {Elastic("elasticsearch", v, s) : v \in {4, 5, 6}, s \in {5, 6, Other, Mute, Down}}
\* Its client asks for no version.
Elastics2 == {Elastic("elasticsearch2", 6, s) : s \in {6, Down}}
ESInit ==
  /\ elastic \in Elastics \cup Elastics2
  /\ indexing = [w \in Indexers |-> ESIdle] /\ lastIndex = "none"
  /\ cluster = [indices |-> {}, unsure |-> {}, queue |-> {}, stored |-> {}, refused |-> {}]
  /\ indexed = [count |-> 0, done |-> {}, nobulk |-> {}, odd |-> {}]
Is(plugin, at) == elastic.plugin = plugin /\ elastic.at = at
Unindexed == UNCHANGED <<indexing, lastIndex, cluster, indexed>>

\* Configure: the version, then startBulkProcessor.
VersionRefused ==
  /\ Is("elasticsearch", "connect") /\ elastic.version \notin Versions
  /\ elastic' = [elastic EXCEPT !.at = "failed"] /\ Unindexed
\* NewClient gives no client, and its server is asked for its version all the same.
NoServer ==
  /\ Is("elasticsearch", "connect") /\ elastic.version \in Versions /\ elastic.server = Down
  /\ elastic' = [elastic EXCEPT !.at = "crash"] /\ Unindexed
\* Mutant: the version is not changed before the next try.
OtherVersion_Same ==
  /\ Is("elasticsearch", "connect") /\ elastic.version \in Versions /\ elastic.server \in {5, 6, Other} \ {elastic.version}
  /\ elastic' = IF elastic.server = Other THEN [elastic EXCEPT !.at = "failed"]
                ELSE [elastic EXCEPT !.at = "runs", !.clients = @ \cup {elastic.version}, !.bulks = {elastic.version}]
  /\ Unindexed
\* Another server than the client's is connected to again, with the client it needs.
OtherVersion ==
  /\ Is("elasticsearch", "connect") /\ elastic.version \in Versions /\ elastic.server \in {5, 6, Other} \ {elastic.version}
  /\ elastic' = IF elastic.server = Other THEN [elastic EXCEPT !.at = "failed"]
                ELSE [elastic EXCEPT !.clients = @ \cup {elastic.version}, !.version = elastic.server]
  /\ Unindexed
BulkStarts ==
  /\ Is("elasticsearch", "connect") /\ elastic.version \in Versions /\ elastic.server \in {Mute, elastic.version}
  /\ elastic' = [elastic EXCEPT !.at = "runs", !.clients = @ \cup {elastic.version}, !.bulks = {elastic.version}]
  /\ Unindexed
Bulk2Starts ==
  /\ Is("elasticsearch2", "connect")
  /\ elastic' = IF elastic.server = Down THEN [elastic EXCEPT !.at = "failed"]
                ELSE [elastic EXCEPT !.at = "runs", !.clients = {6}, !.bulks = {6}]
  /\ Unindexed

\* An index that is the last one needs no check.
Begins(w, index) ==
  /\ indexing[w].at = "idle" /\ indexed.count < MaxIndexed
  /\ indexed' = [indexed EXCEPT !.count = @ + 1, !.odd = IF index = "odd" THEN @ \cup {indexed.count + 1} ELSE @]
  /\ UNCHANGED <<lastIndex, cluster>>
Checks(w, index) ==
  indexing' = [indexing EXCEPT ![w] = [at |-> IF lastIndex = index THEN "add" ELSE "check", n |-> indexed.count + 1, index |-> index]]
\* The index is named by the event's time stamp, or by now; one that is no time
\* panics, which Receive recovers from.
IndexEvent(w) ==
  /\ Is("elasticsearch", "runs") /\ UNCHANGED elastic
  /\ \E index \in Days \cup {"odd"} :
       Begins(w, index) /\ IF index = "odd" THEN UNCHANGED indexing ELSE Checks(w, index)
\* Nothing recovers from it in elasticsearch2.
IndexEvent2(w) ==
  /\ Is("elasticsearch2", "runs")
  /\ \E index \in Days \cup {"odd"} :
       /\ Begins(w, index)
       /\ IF index = "odd" THEN elastic' = [elastic EXCEPT !.at = "crash"] /\ UNCHANGED indexing
          ELSE Checks(w, index) /\ UNCHANGED elastic

NowAt(w, at) == indexing' = [indexing EXCEPT ![w].at = at] /\ UNCHANGED <<elastic, indexed>>
Failed(w) == cluster' = [cluster EXCEPT !.unsure = @ \cup {indexing[w].index}]
CheckStep(w) ==
  \/ indexing[w].index \in cluster.indices /\ NowAt(w, "add") /\ lastIndex' = indexing[w].index /\ UNCHANGED cluster
  \/ indexing[w].index \notin cluster.indices /\ NowAt(w, "create") /\ UNCHANGED <<lastIndex, cluster>>
  \/ NowAt(w, "add") /\ Failed(w) /\ UNCHANGED lastIndex
\* Mutant: the index is the last one before it is created.
CheckIndex_First(w) ==
  /\ Is("elasticsearch", "runs") /\ indexing[w].at = "check" /\ lastIndex' = indexing[w].index
  /\ \/ indexing[w].index \in cluster.indices /\ NowAt(w, "add") /\ UNCHANGED cluster
     \/ indexing[w].index \notin cluster.indices /\ NowAt(w, "create") /\ UNCHANGED cluster
CheckIndex(w) == Is("elasticsearch", "runs") /\ indexing[w].at = "check" /\ CheckStep(w)
CheckIndex2(w) == Is("elasticsearch2", "runs") /\ indexing[w].at = "check" /\ CheckStep(w)
\* CreateIndex, whose error nobody looks at: another worker may have created it.
CreateIndex(w) ==
  /\ elastic.at = "runs" /\ indexing[w].at = "create" /\ NowAt(w, "add") /\ lastIndex' = indexing[w].index
  /\ \/ cluster' = [cluster EXCEPT !.indices = @ \cup {indexing[w].index}]
     \/ indexing[w].index \notin cluster.indices /\ Failed(w)

Returns(w) == indexing' = [indexing EXCEPT ![w] = ESIdle] /\ UNCHANGED <<elastic, lastIndex>>
Queues(w) ==
  /\ cluster' = [cluster EXCEPT !.queue = @ \cup {<<indexing[w].n, indexing[w].index>>}]
  /\ indexed' = [indexed EXCEPT !.done = @ \cup {<<indexing[w].n, indexing[w].index>>}]
\* An event for a server 5 is given to the bulk processor of the other, which is nil.
AddEvent(w) ==
  /\ Is("elasticsearch", "runs") /\ indexing[w].at = "add" /\ Returns(w)
  /\ IF 6 \in elastic.bulks THEN Queues(w)
     ELSE indexed' = [indexed EXCEPT !.nobulk = @ \cup {indexing[w].n}] /\ UNCHANGED cluster
AddEvent2(w) == Is("elasticsearch2", "runs") /\ indexing[w].at = "add" /\ Returns(w) /\ Queues(w)

\* The requests are sent when there are enough of them, when they waited, and by
\* Close; what the server says of each document is not looked at.
Commit ==
  /\ elastic.at \in {"runs", "closing"} /\ cluster.queue # {}
  /\ \E S \in {{}, cluster.queue} \cup {{d} : d \in cluster.queue} :
       cluster' = [cluster EXCEPT !.queue = {}, !.stored = @ \cup S, !.refused = @ \cup (cluster.queue \ S),
                                  !.indices = @ \cup {d[2] : d \in S}]
  /\ UNCHANGED <<elastic, indexing, lastIndex, indexed>>
AllIdle == \A w \in Indexers : indexing[w].at = "idle"
ESStop ==
  /\ \/ elastic.at = "runs" /\ AllIdle /\ elastic' = [elastic EXCEPT !.at = "closing"]
     \/ elastic.at = "closing" /\ cluster.queue = {} /\ elastic' = [elastic EXCEPT !.at = "stopped"]
  /\ Unindexed
ESNext ==
  \/ VersionRefused \/ NoServer \/ OtherVersion \/ BulkStarts \/ Bulk2Starts \/ Commit \/ ESStop
  \/ \E w \in Indexers : IndexEvent(w) \/ IndexEvent2(w) \/ CheckIndex(w) \/ CheckIndex2(w) \/ CreateIndex(w) \/ AddEvent(w) \/ AddEvent2(w)

\* With a server 6, what Receive took is given to the server once, under its own index,
\* all of it when Stop returned; the index was seen or created first, unless that
\* failed, whatever the workers' turns.  No event reaches a server 5.
EventsIndexed ==
  /\ cluster.queue \cup cluster.stored \cup cluster.refused = indexed.done
  /\ elastic.at = "stopped" => cluster.queue = {} /\ {d[1] : d \in indexed.done} = (1..indexed.count) \ (indexed.odd \cup indexed.nobulk)
  /\ \A d \in indexed.done : d[2] \in cluster.indices \cup cluster.unsure
  /\ elastic.at \in {"runs", "closing", "stopped"} =>
       /\ elastic.server \in {elastic.version, Mute}
       /\ elastic.version = 5 => indexed.done = {}
       /\ elastic.version = 6 => indexed.nobulk = {}
-----------------------------------------------------------------------------
(* output-statsd. *)
CONSTANTS
  MeterOptions, \* what is to be counted: of each kind, name -> value, or names
  MeterEvents,  \* events: what stands for %{f} in them
  Numerals      \* texts that are numbers

VARIABLES
  meterOpt, \* p.opt
  statsd,   \* at "start", "idle", a kind of metrics, "stopped"; the client is muted
  metering, \* the event; the entries of the kind that are left
  metrics   \* history: what was sent of the event
sdVars == <<meterOpt, statsd, metering, metrics>>

MapKinds == {"count", "gauge", "timing", "set"}
Kinds == <<"count", "increment", "decrement", "gauge", "timing", "set">>
After(kind) == LET i == CHOOSE j \in DOMAIN Kinds : Kinds[j] = kind IN IF i = Len(Kinds) THEN "idle" ELSE Kinds[i + 1]
SDInit ==
  /\ meterOpt \in MeterOptions /\ statsd = [at |-> "start", muted |-> FALSE]
  /\ metering = [event |-> "", left |-> {}] /\ metrics = <<>>
\* A client that cannot dial is muted; the agent goes on with it.
SDStart ==
  /\ statsd.at = "start" /\ \E b \in BOOLEAN : statsd' = [at |-> "idle", muted |-> b]
  /\ UNCHANGED <<meterOpt, metering, metrics>>
SDReceive ==
  /\ statsd.at = "idle" /\ metrics = <<>> /\ statsd' = [statsd EXCEPT !.at = "count"]
  /\ \E e \in MeterEvents : metering' = [event |-> e, left |-> DOMAIN meterOpt["count"]]
  /\ UNCHANGED <<meterOpt, metrics>>
SDResolved(t) == IF t = "%{f}" THEN metering.event ELSE t
Undotted(t) == IF t = "a.b" THEN "a_b" ELSE t
\* dynamicKey.
MeterKey(k) == <<Undotted(SDResolved(meterOpt.sender)), SDResolved(k)>>
Meter(kind, k, v) == metrics' = IF statsd.muted THEN metrics ELSE Append(metrics, <<kind, MeterKey(k), v>>)
\* Mutant: the first value that is no number ends the kind.
MeterEntry_Break(k) ==
  /\ statsd.at \in MapKinds /\ k \in metering.left
  /\ LET v == SDResolved(meterOpt[statsd.at][k])
     IN IF v \in Numerals THEN Meter(statsd.at, k, v) /\ metering' = [metering EXCEPT !.left = @ \ {k}]
        ELSE UNCHANGED metrics /\ metering' = [metering EXCEPT !.left = {}]
  /\ UNCHANGED <<meterOpt, statsd>>
\* The entries of a map come in any order; a value that is no number is left out, of
\* a set too.
MeterEntry(k) ==
  /\ statsd.at \in MapKinds /\ k \in metering.left /\ metering' = [metering EXCEPT !.left = @ \ {k}]
  /\ LET v == SDResolved(meterOpt[statsd.at][k]) IN IF v \in Numerals THEN Meter(statsd.at, k, v) ELSE UNCHANGED metrics
  /\ UNCHANGED <<meterOpt, statsd>>
MeterName ==
  /\ statsd.at \in {"increment", "decrement"} /\ metering.left # {}
  /\ LET i == CHOOSE j \in metering.left : \A k \in metering.left : j <= k
     IN /\ metering' = [metering EXCEPT !.left = @ \ {i}]
        /\ Meter(statsd.at, meterOpt[statsd.at][i], IF statsd.at = "increment" THEN "1" ELSE "-1")
  /\ UNCHANGED <<meterOpt, statsd>>
MeterKindEnds ==
  /\ statsd.at \in ToSet(Kinds) /\ metering.left = {}
  /\ LET kind == After(statsd.at)
     IN /\ statsd' = [statsd EXCEPT !.at = kind]
        /\ metering' = [metering EXCEPT !.left = IF kind = "idle" THEN {} ELSE DOMAIN meterOpt[kind]]
  /\ UNCHANGED <<meterOpt, metrics>>
SDStop ==
  /\ statsd.at = "idle" /\ statsd' = [statsd EXCEPT !.at = "stopped"] /\ UNCHANGED <<meterOpt, metering, metrics>>
SDNext == SDStart \/ SDReceive \/ (\E k \in metering.left : MeterEntry(k)) \/ MeterName \/ MeterKindEnds \/ SDStop

Times(s, x) == Cardinality({i \in DOMAIN s : s[i] = x})
\* All that is configured to be counted of an event is sent, once, whatever the order
\* of the maps, if its value is a number; but for a client that could not dial.
MetricsAsConfigured ==
  statsd.at = "idle" /\ ~statsd.muted /\ metering.event # "" =>
    /\ \A kind \in MapKinds : \A k \in DOMAIN meterOpt[kind] :
         SDResolved(meterOpt[kind][k]) \in Numerals => <<kind, MeterKey(k), SDResolved(meterOpt[kind][k])>> \in ToSet(metrics)
    /\ \A kind \in {"increment", "decrement"} : \A i \in DOMAIN meterOpt[kind] :
         LET same == {j \in DOMAIN meterOpt[kind] : MeterKey(meterOpt[kind][j]) = MeterKey(meterOpt[kind][i])}
         IN Times(metrics, <<kind, MeterKey(meterOpt[kind][i]), IF kind = "increment" THEN "1" ELSE "-1">>) = Cardinality(same)
    /\ Len(metrics) <= Cardinality(UNION {{<<kind, k>> : k \in DOMAIN meterOpt[kind]} : kind \in ToSet(Kinds)})
=============================================================================
