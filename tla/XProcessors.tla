----------------------------- MODULE XProcessors ----------------------------
(***************************************************************************)
(* External processors around the command that StreamProcessor runs: the   *)
(* command line made of the options of a configuration (xprocessor.go) and *)
(* what a command written with commons/xprocessor reads back from it; how  *)
(* such a command hands the records of its standard input to its workers;  *)
(* and what the API stores beside pipelines: the processors, changed by    *)
(* requests that find, then save, and the environment variables.           *)
(***************************************************************************)
EXTENDS Integers, FiniteSets, SequencesExt

(* The command line. *)
CONSTANTS
  Declarations,  \* what commands declare: option -> type, required, default
  Configurations \* what is written for them: option -> value

VARIABLES
  declared, \* Runner.Opt
  flags,    \* conf, then opt.Flags; "resolved", what %{f} stands for in the event
  args,     \* finalArgs: a flag with or without text, a word
  command   \* at "configure", "build", "parse", "runs" or "refuses"; options to be added; the values

\* Values: a text, by its kind; a list of texts; a map to texts.
Text(is, of) == [is |-> is, of |-> of]
ListOf(texts) == [is |-> "list", of |-> texts]
MapOf(f) == [is |-> "map", of |-> f]
CommonNames == {"interval", "workers", "add_tag"}

CLInit ==
  /\ declared \in Declarations
  /\ flags \in [options : Configurations, resolved : {"", "x"}]
  /\ args = <<>> /\ command = [at |-> "configure", left |-> {}, got |-> <<>>]
Options == flags.options
\* Mutant: the common options stay among the flags.
CLConfigure_All ==
  /\ command.at = "configure"
  /\ command' = [command EXCEPT !.at = "build", !.left = DOMAIN Options]
  /\ UNCHANGED <<declared, flags, args>>
\* Configure.
CLConfigure ==
  /\ command.at = "configure"
  /\ command' = [command EXCEPT !.at = "build", !.left = DOMAIN Options \ CommonNames]
  /\ UNCHANGED <<declared, flags, args>>

\* A text is one word, or key:value; a flag may be without.
Flag(k, text) == [name |-> k, text |-> text]
Word(t) == Flag("", <<t>>)
\* Dynamic.
Resolved(t) == IF t = "%{f}" THEN flags.resolved ELSE t
\* The arguments for one option; what has another type is left out, with an error
\* in the log.
ArgsOf(k) ==
  LET v == Options[k] IN
  CASE v.is = "string" -> <<Flag(k, IF v.of = "" THEN <<>> ELSE <<Resolved(v.of)>>)>>
    [] v.is = "integer" -> <<Flag(k, <<v.of>>)>>
    [] v.is = "bool" -> (IF v.of = "true" THEN <<Flag(k, <<>>)>> ELSE <<>>)
    [] v.is = "list" ->
         LET taken == SelectSeq(v.of, LAMBDA l : l.is \in {"string", "integer"})
         IN [i \in DOMAIN taken |-> Flag(k, <<IF taken[i].is = "string" THEN Resolved(taken[i].of) ELSE taken[i].of>>)]
    [] v.is = "map" ->
         LET keys == SetToSeq({key \in DOMAIN v.of : v.of[key].is = "string"})
         IN [i \in DOMAIN keys |-> Flag(k, <<keys[i], v.of[keys[i]].of>>)]
    [] OTHER -> <<>>
\* buildCommandArgs: the options in any order, and the one named "_" last.
AddFlag ==
  /\ command.at = "build"
  /\ \E k \in command.left \ {"_"} :
       args' = args \o ArgsOf(k) /\ command' = [command EXCEPT !.left = @ \ {k}]
  /\ UNCHANGED <<declared, flags>>
AddWords ==
  /\ command.at = "build" /\ command.left \subseteq {"_"}
  /\ args' = IF "_" \in command.left /\ Options["_"].is = "string" THEN Append(args, Word(Options["_"].of)) ELSE args
  /\ command' = [command EXCEPT !.at = "parse", !.left = {}]
  /\ UNCHANGED <<declared, flags>>

\* The flags of the command line, for kingpin: one that needs a text takes the next word.
Takes(i) ==
  LET a == args[i] IN
  IF a.name \in DOMAIN declared /\ declared[a.name].type # "bool" /\ a.text = <<>> /\ i < Len(args) /\ args[i + 1].name = ""
    THEN args[i + 1].text ELSE a.text
Taken(i) == i > 1 /\ Takes(i - 1) # args[i - 1].text
Given(k) == SelectSeq([i \in DOMAIN args |-> Flag(args[i].name, Takes(i))], LAMBDA a : a.name = k)
IsNumber(t) == t \in {<<"1">>, <<"2">>}
Cumulative == {"[]string", "[]int", "map[string]string"}
Refused ==
  \/ \E i \in DOMAIN args :
       LET a == args[i] IN
       IF a.name = "" THEN ~Taken(i) ELSE
       \/ a.name \notin DOMAIN declared
       \/ LET type == declared[a.name].type IN
          IF type = "bool" THEN a.text # <<>> ELSE
          \/ Takes(i) = <<>>
          \/ type \in {"int", "[]int"} /\ ~IsNumber(Takes(i))
          \/ type = "map[string]string" /\ Len(Takes(i)) < 2
          \/ type \notin Cumulative /\ Len(Given(a.name)) > 1
  \/ \E k \in DOMAIN declared : declared[k].required /\ Given(k) = <<>>
Default(k) == declared[k].default
Got(k) ==
  LET given == Given(k) type == declared[k].type IN
  CASE given = <<>> -> Default(k)
    [] type = "bool" -> <<"true">>
    [] type = "map[string]string" -> {g.text : g \in ToSet(given)}
    [] type \in Cumulative -> [i \in DOMAIN given |-> given[i].text]
    [] OTHER -> given[1].text
\* Run, up to configure.
ParseFlags ==
  /\ command.at = "parse"
  /\ command' = IF Refused THEN [command EXCEPT !.at = "refuses"]
                ELSE [command EXCEPT !.at = "runs", !.got = [k \in DOMAIN declared |-> Got(k)]]
  /\ UNCHANGED <<declared, flags, args>>
CLNext == CLConfigure \/ AddFlag \/ AddWords \/ ParseFlags

\* What the configuration says for an option that the command declares.
IsOf(v, type) ==
  CASE type = "bool" -> v.is = "bool" [] type = "int" -> v.is = "integer"
    [] type = "string" -> v.is = "string" [] type = "[]int" -> v.is = "list" /\ \A i \in DOMAIN v.of : v.of[i].is = "integer"
    [] type = "[]string" -> v.is = "list" /\ \A i \in DOMAIN v.of : v.of[i].is = "string"
    [] OTHER -> v.is = "map" /\ \A key \in DOMAIN v.of : v.of[key].is = "string"
Said(v, type) ==
  CASE type \in {"[]int", "[]string"} -> [i \in DOMAIN v.of |-> <<Resolved(v.of[i].of)>>]
    [] type = "map[string]string" -> {<<key, v.of[key].of>> : key \in DOMAIN v.of}
    [] OTHER -> <<Resolved(v.of)>>
Passed == DOMAIN Options \ CommonNames
\* There is no argument for these: the command takes its default.
Unsaid(k) == LET v == Options[k] IN IF v.is = "bool" THEN v.of = "false" ELSE v.is \in {"list", "map"} /\ v.of = <<>>
Sound(k) ==
  LET v == Options[k]
  IN k \in DOMAIN declared /\ IsOf(v, declared[k].type) /\ (v.is = "string" => v.of # "")
\* A command that runs has each option as it is configured, or its default, which
\* it also takes for a false and for what is empty; and it refuses to run only
\* for an option it does not know, of another type or empty, or one it requires
\* and was not given (buildCommandArgs, Run).
OptionsArrive ==
  /\ command.at = "runs" =>
       \A k \in DOMAIN declared :
         IF k \notin Passed \/ Unsaid(k) THEN command.got[k] = Default(k)
         ELSE Sound(k) => command.got[k] = Said(Options[k], declared[k].type)
  /\ command.at = "refuses" =>
       \/ \E k \in Passed : ~Sound(k)
       \/ \E k \in DOMAIN declared : declared[k].required /\ (k \notin Passed \/ Unsaid(k))
-----------------------------------------------------------------------------
(* The command: processStdinDataWith. *)
CONSTANTS
  Limits,  \* given to Run: how many workers, or 0 for a goroutine for each record
  Records  \* bound: records on the standard input

VARIABLES
  feed,     \* records not decoded yet; their end is an error
  handing,  \* the channel: its size; its records; closed; the record the decoding goroutine holds, or 0
  hands,    \* the goroutines: the record each is at, or 0; and the dispatcher of unlimited ones
  waiting,  \* the WaitGroup's count; "runs", "stopping"
  processed \* history: records received
runVars == <<feed, handing, hands, waiting, processed>>

XRInit ==
  /\ \E n \in 0..Records, e \in {"eof", "error"} : feed = [next |-> 1, upto |-> n, end |-> e]
  /\ \E n \in Limits :
       /\ handing = [size |-> n, queue |-> <<>>, closed |-> FALSE, held |-> 0]
       /\ hands = [pool |-> [i \in 1..n |-> 0], ended |-> {}, dispatching |-> n = 0, others |-> {}]
       /\ waiting = [count |-> IF n = 0 THEN 1 ELSE n, at |-> "runs"]
  /\ processed = {}
DecodeStdin ==
  /\ ~handing.closed /\ handing.held = 0
  /\ IF feed.next > feed.upto THEN handing' = [handing EXCEPT !.closed = TRUE] /\ UNCHANGED feed
     ELSE handing' = [handing EXCEPT !.held = feed.next] /\ feed' = [feed EXCEPT !.next = @ + 1]
  /\ UNCHANGED <<hands, waiting, processed>>
\* The channel holds as many records as there are workers.
Enqueue ==
  /\ handing.held # 0 /\ Len(handing.queue) < handing.size
  /\ handing' = [handing EXCEPT !.queue = Append(@, handing.held), !.held = 0]
  /\ UNCHANGED <<feed, hands, waiting, processed>>
\* With no buffer the record is handed over.
Dispatch ==
  /\ hands.dispatching /\ handing.held # 0 /\ waiting' = [waiting EXCEPT !.count = @ + 1]
  /\ hands' = [hands EXCEPT !.others = @ \cup {handing.held}]
  /\ handing' = [handing EXCEPT !.held = 0] /\ UNCHANGED <<feed, processed>>
DispatchEnds ==
  /\ hands.dispatching /\ handing.closed /\ waiting' = [waiting EXCEPT !.count = @ - 1]
  /\ hands' = [hands EXCEPT !.dispatching = FALSE] /\ UNCHANGED <<feed, handing, processed>>
TakeRecord(i) ==
  /\ hands.pool[i] = 0 /\ i \notin hands.ended /\ handing.queue # <<>>
  /\ hands' = [hands EXCEPT !.pool[i] = Head(handing.queue)]
  /\ handing' = [handing EXCEPT !.queue = Tail(@)] /\ UNCHANGED <<feed, waiting, processed>>
\* receive, whose error is only logged.
ReceiveRecord(i) ==
  /\ hands.pool[i] # 0 /\ processed' = processed \cup {hands.pool[i]}
  /\ hands' = [hands EXCEPT !.pool[i] = 0] /\ UNCHANGED <<feed, handing, waiting>>
ReceiveAlone ==
  /\ \E r \in hands.others : processed' = processed \cup {r} /\ hands' = [hands EXCEPT !.others = @ \ {r}]
  /\ waiting' = [waiting EXCEPT !.count = @ - 1] /\ UNCHANGED <<feed, handing>>
\* Mutant: a worker ends when the channel is closed, whatever is in it.
HandEnds_Early(i) ==
  /\ hands.pool[i] = 0 /\ i \notin hands.ended /\ handing.closed
  /\ hands' = [hands EXCEPT !.ended = @ \cup {i}]
  /\ waiting' = [waiting EXCEPT !.count = @ - 1] /\ UNCHANGED <<feed, handing, processed>>
HandEnds(i) ==
  /\ hands.pool[i] = 0 /\ i \notin hands.ended /\ handing.closed /\ handing.queue = <<>>
  /\ hands' = [hands EXCEPT !.ended = @ \cup {i}]
  /\ waiting' = [waiting EXCEPT !.count = @ - 1] /\ UNCHANGED <<feed, handing, processed>>
\* Wait returns, and stop is called.
RunStops ==
  /\ waiting.at = "runs" /\ waiting.count = 0 /\ waiting' = [waiting EXCEPT !.at = "stopping"]
  /\ UNCHANGED <<feed, handing, hands, processed>>
XRNext ==
  \/ DecodeStdin \/ Enqueue \/ Dispatch \/ DispatchEnds \/ ReceiveAlone \/ RunStops
  \/ \E i \in DOMAIN hands.pool : TakeRecord(i) \/ ReceiveRecord(i) \/ HandEnds(i)

\* When the command is stopped it has received all that came before the end of
\* its input, or the first that is no JSON, and no worker is in receive.
StopsAfterAll ==
  waiting.at = "stopping" =>
    processed = 1..feed.upto /\ handing.closed /\ hands.others = {} /\ \A i \in DOMAIN hands.pool : hands.pool[i] = 0
-----------------------------------------------------------------------------
(* The stored processors. *)
CONSTANTS
  Askers,  \* requests at a time
  Uuids,   \* of records
  Labels,  \* their names
  Codes    \* what stands for the other fields of a record

VARIABLES
  records, \* uuid -> a record, or NoXp
  asked,   \* asker -> its request: at "free", "save", "delete"; what it found; of which uuid
  told,    \* history: the records by the requests that are answered
  rivals   \* history: records that two requests were about at a time
xsVars == <<records, asked, told, rivals>>

NoXp == [label |-> "none", code |-> "none"]
NotAsked == [at |-> "free", found |-> NoXp, uuid |-> CHOOSE u \in Uuids : TRUE, says |-> <<>>]
XSInit ==
  /\ records = [u \in Uuids |-> NoXp] /\ told = records /\ rivals = {}
  /\ asked = [a \in Askers |-> NotAsked]
About(u) == rivals' = rivals \cup {u : a \in {b \in Askers : asked[b].at # "free" /\ asked[b].uuid = u}}
\* CreateXProcessor replaces a record of the uuid the body has.
CreateXp ==
  /\ \E u \in Uuids, l \in Labels, c \in Codes :
       /\ records' = [records EXCEPT ![u] = [label |-> l, code |-> c]]
       /\ told' = [told EXCEPT ![u] = [label |-> l, code |-> c]] /\ About(u)
  /\ UNCHANGED asked
\* FindOneXProcessorByUUID; a request for a record that is not there is answered 404.
FindXp(a, then, u, says) ==
  /\ asked[a].at = "free" /\ records[u] # NoXp /\ About(u)
  /\ asked' = [asked EXCEPT ![a] = [at |-> then, found |-> records[u], uuid |-> u, says |-> says]]
  /\ UNCHANGED <<records, told>>
Answered(a) == asked' = [asked EXCEPT ![a] = NotAsked] /\ UNCHANGED rivals
\* What a body says replaces what was found; the rest is saved as it was found.
With(xp, says) == [f \in DOMAIN xp |-> IF f \in DOMAIN says THEN says[f] ELSE xp[f]]
\* Mutant: only what the body says is saved.
SaveXp_Only(a) ==
  /\ asked[a].at = "save" /\ Answered(a)
  /\ records' = [records EXCEPT ![asked[a].uuid] = With(NoXp, asked[a].says)]
  /\ told' = [told EXCEPT ![asked[a].uuid] = With(@, asked[a].says)]
SaveXp(a) ==
  /\ asked[a].at = "save" /\ Answered(a)
  /\ records' = [records EXCEPT ![asked[a].uuid] = With(asked[a].found, asked[a].says)]
  /\ told' = [told EXCEPT ![asked[a].uuid] = With(@, asked[a].says)]
DeleteXp(a) ==
  /\ asked[a].at = "delete" /\ Answered(a)
  /\ records' = [records EXCEPT ![asked[a].uuid] = NoXp] /\ told' = [told EXCEPT ![asked[a].uuid] = NoXp]
XSNext ==
  \/ CreateXp
  \/ \E a \in Askers : SaveXp(a) \/ DeleteXp(a)
  \/ \E a \in Askers, u \in Uuids :
       FindXp(a, "delete", u, <<>>) \/ \E l \in Labels : FindXp(a, "save", u, [label |-> l]) \/ \E c \in Codes : FindXp(a, "save", u, [code |-> c])

\* A record that no two requests were about at a time is what their answers say:
\* only a rival takes an update back, or brings a record back that was deleted.
StoredAsAnswered == \A u \in Uuids \ rivals : records[u] = told[u]
-----------------------------------------------------------------------------
(* The environment variables kept by the API (api/env.go, store/env.go):   *)
(* records in the storage and the environment of the process, changed one  *)
(* after the other by each request, and loaded again by core.Start.  The   *)
(* records are found in the order of their keys.                           *)
CONSTANTS
  Clients,    \* requests at a time
  Keys,       \* uuids of records: 1..n, in the order of the storage
  Names, Values,
  Settable,   \* the names os.Setenv takes: no "=" in them
  Inherited,  \* Inherited[n]: what the process was started with, or Unset
  Unset

VARIABLES
  stored,   \* stored[k]: a record, or NoRecord
  env,      \* env[n]: the value in the process, or Unset
  request,  \* a client's request: where it is, its key, name and value
  blurred   \* history: names given to two records, changed under their key, or in
            \* two requests at a time
envVars == <<stored, env, request, blurred>>

Record == [name : Names, value : Values]
NoRecord == [name |-> Unset, value |-> Unset]
NoRequest == [at |-> "idle"]
ENInit ==
  /\ stored = [k \in Keys |-> NoRecord] /\ env = Inherited
  /\ request = [c \in Clients |-> NoRequest] /\ blurred = {}
-----------------------------------------------------------------------------
NamesAt(k) == IF stored[k] = NoRecord THEN {} ELSE {stored[k].name}
HoldersOf(n) == {k \in Keys : n \in NamesAt(k)}
Others(c) == {d \in Clients \ {c} : request[d].at # "idle"}
Begin(c, at, k, n, v) ==
  /\ request[c].at = "idle"
  /\ request' = [request EXCEPT ![c] = [at |-> at, key |-> k, name |-> n, value |-> v]]
  /\ blurred' = blurred \cup
       UNION {{n, request[d].name} : d \in {e \in Others(c) : request[e].key = k \/ request[e].name = n}} \cup
       (IF at # "create" THEN {} ELSE
          (IF HoldersOf(n) \subseteq {k} THEN {} ELSE {n}) \cup
          (IF NamesAt(k) \subseteq {n} THEN {} ELSE {n} \cup NamesAt(k)))
Goto(c, at) == request' = [request EXCEPT ![c].at = at]
Answer(c) == request' = [request EXCEPT ![c] = NoRequest]

\* Create: a key of the client's, or a new one; nobody looks for the name.
PostEnv(c) ==
  /\ \E k \in Keys, n \in Names, v \in Values : Begin(c, "create", k, n, v)
  /\ UNCHANGED <<stored, env>>
CreateEnv(c) ==
  /\ request[c].at = "create" /\ Goto(c, "set")
  /\ stored' = [stored EXCEPT ![request[c].key] = [name |-> request[c].name, value |-> request[c].value]]
  /\ UNCHANGED <<env, blurred>>
Setenv(c) ==
  /\ request[c].at = "set" /\ Answer(c)
  /\ env' = IF request[c].name \in Settable THEN [env EXCEPT ![request[c].name] = request[c].value] ELSE env
  /\ UNCHANGED <<stored, blurred>>

\* DeleteByUUID: the record is read, deleted (or found deleted), its name unset.
FindEnv(c) ==
  /\ \E k \in Keys : stored[k] # NoRecord /\ Begin(c, "delete", k, stored[k].name, stored[k].value)
  /\ UNCHANGED <<stored, env>>
DeleteEnv(c) ==
  /\ request[c].at = "delete" /\ Goto(c, "unset")
  /\ stored' = [stored EXCEPT ![request[c].key] = NoRecord]
  /\ UNCHANGED <<env, blurred>>
\* Mutant: the process keeps the variable.
Unsetenv_Keeps(c) == request[c].at = "unset" /\ Answer(c) /\ UNCHANGED <<stored, env, blurred>>
Unsetenv(c) ==
  /\ request[c].at = "unset" /\ Answer(c)
  /\ env' = [env EXCEPT ![request[c].name] = Unset]
  /\ UNCHANGED <<stored, blurred>>

\* Exit and core.Start: every record is set, the last of a name prevails.
Loaded(n) ==
  LET k == CHOOSE k \in HoldersOf(n) : \A j \in HoldersOf(n) : j <= k IN
  IF HoldersOf(n) = {} \/ n \notin Settable THEN Inherited[n] ELSE stored[k].value
ENReboot ==
  /\ env' = [n \in Names |-> Loaded(n)]
  /\ request' = [c \in Clients |-> NoRequest]
  /\ blurred' = {n \in Names : Cardinality(HoldersOf(n)) > 1}
  /\ UNCHANGED stored

ENNext ==
  \/ \E c \in Clients : PostEnv(c) \/ CreateEnv(c) \/ Setenv(c) \/ FindEnv(c) \/ DeleteEnv(c) \/ Unsetenv(c)
  \/ ENReboot
ENSpec == ENInit /\ [][ENNext]_envVars
-----------------------------------------------------------------------------
ENTypeOK ==
  /\ stored \in [Keys -> Record \cup {NoRecord}] /\ env \in [Names -> Values \cup {Unset}]
  /\ \A c \in Clients : request[c].at \in {"idle", "create", "set", "delete", "unset"}
  /\ blurred \subseteq Names

\* While no request is about it, a name that can be set has the value stored for
\* it, over exits in the middle of requests; one that is stored no more has
\* none but what it was inherited with.  A name that two records share, that a
\* record changed, or that two requests were about at a time is left out until
\* the next boot: a delete unsets it whoever else has it.
EnvMirrorsStore ==
  \A n \in Names \ blurred :
    (\A c \in Clients : request[c].at # "idle" => request[c].name # n) =>
      IF HoldersOf(n) = {} \/ n \notin Settable THEN env[n] \in {Unset, Inherited[n]}
      ELSE \A k \in HoldersOf(n) : env[n] = stored[k].value
=============================================================================
