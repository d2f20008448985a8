# A TLA+ model of bitfan

Bitfan runs *pipelines*: directed graphs of *agents* (inputs, filters, outputs)
that pass events to each other over Go channels. Pipelines are started and
stopped at run time, from the command line and over HTTP, next to each other in
one process. These modules model what is hard to get right in it: who may send
to whom while a pipeline starts and stops, what concurrent requests do to the
registry and the store, what an input remembers over a restart, what workers of
one processor do to each other, and whether what a configuration says is what
runs. TLC checks the models on small instances; for most of those
without recursion the safety properties are proved for all instances.

Paths below are relative to `src/`.

## 1. The system

| Component | State | Operations | Talks to |
|---|---|---|---|
| Agent runtime: `core/agent.go`, `core/pipeline.go`, `processors/base.go` | a buffered `packetChan` per agent, wired `outputs`, `Done`, worker and producer goroutines | `Start`, `listen`, `send`, `stop`, `Tick`, `Configure` | processors (callbacks `Configure`, `Start`, `Receive`, `Tick`, `Stop`), scheduler, webhook router |
| Agent ordering: `core/graph.go`, `core/util.go` | none beyond a call | `topSortDFS`, `Sort` | called by the start and the stop of a pipeline |
| Registry and API control: `core/core.go`, `core/pipeline.go`, `api/pipelines.go`, `cmd/bitfan/commands/run.go` | `pipelines`, a concurrent map | `Start`, `StopPipeline`, `Stop`; POST, PATCH, DELETE | runtime, store |
| Webhook router: `core/webhook/webhook.go` | `webHookMap`: url to handler | `Add`, `AddShort`, `Delete`, `Unregister` | agents, HTTP server |
| Scheduler: `core/scheduler.go` | cron entries by name; `scheduleMap`, slices of jobs for display | `Add`, `Remove` | cron library, which spawns `Tick` goroutines |
| Store: `store/*.go`, `api/assets.go` | bolt database: records of pipelines, assets, environment, xprocessors; values of processors | one transaction per call | API handlers, boot |
| SinceDB: `processors/sincedb.go`, `store/processors.go` | a map of new offsets, the storage, a looper | `RessourceOffset`, `SetRessourceOffset`, `save`, `Close` | file, tail and pop3 inputs |
| Inputs: `processors/input-*`, `ldap`, `sql`, `pop3`, `httppoller`, `stop` | sockets, files, tickers, connections, a mark of what was read | `Start`, `Tick`, `Stop` | remote ends, SinceDB, codecs |
| Filters: `processors/filter-*`, `route`, `when`, `use`, `template` | newterm, change, digest, geoip: what they saw; others nothing | `Receive`, `Tick`, `Stop` | the evaluator, files |
| Outputs: `processors/output-*` | buffers, batches, connections their workers share | `Receive`, `Stop` | servers, files |
| External processors: `processors/xprocessor`, `commons/xprocessor` | a command, its pipes, the goroutine that reads them | `Start`, `Receive`, `Stop` | the command |
| Hubs: `processors/websocket`, `processors/input-websocket`, `api/logs.go` | a hub with clients, two pumps a client | register, unregister, broadcast, stop | HTTP server, log hook |
| webfan: `processors/webfan` | requests in flight, a pipeline for each | `onRequest`, `Stop` | builder, runtime |
| Reading configurations: `entrypoint/`, `entrypoint/parser`, `commons/location.go`, `codecs/` | none beyond a call | resolve, lex, parse, build, decode | files, urls, environment |
| Environment, xprocessors, console: `api/env.go`, `api/xprocessors.go`, `api/client`, `cmd/bitfanUI/server` | records, the environment of the process | requests; pages of several requests | store, core |

How they interact. An API handler, or the boot, reads the store, has the builder
make the agents and calls `Pipeline.Start`; that sorts the agents, configures
them, wires the channels, starts each agent, which adds its routes and cron job,
and at last enters the registry. `StopPipeline` goes the other way. Events flow
by `send`, which blocks on a full channel. Nothing holds a lock across two of
these calls.

What is hard. Channels are closed while others may send. Requests about one
pipeline overlap between two atomic calls. Ticks, hub goroutines and detached
readers belong to nobody. Workers of one processor share its fields without a
lock. Errors of `processor.Start` are only logged. The store is changed by
several transactions per request and the process can exit between them. Offsets
are saved behind the back of those who read them. Go maps are ranged over in any
order, also where each entry changes what the next one meets.

What makes each part correct:

- *runtime*: no send on a closed channel; a stop drains, loses nothing, and
  returns; every delivery is made exactly once; order is kept where the graph is
  serial; nobody is fed before it was started;
- *ordering*: the order is topological, and a cycle is reported only if there is one;
- *registry*: one instance per uuid, the registry says what runs, routes and jobs
  lead to live agents only, a shutdown drains what the registry has;
- *scheduler*: jobs fire when the planning says, end with their agents, and are
  listed as they are;
- *store*: references and assets agree, deletions last, a boot starts what it should;
- *SinceDB and the inputs over it*: what counts as read was sent, stays known, and
  is saved by the time `Stop` returns;
- *inputs*: what is acknowledged or marked was sent, in order and once, and a stop
  leaves nothing that sends;
- *filters*: an event is passed, dropped or marked as its content and the options
  say, whatever order maps and workers take;
- *outputs*: what was received reaches its server once or is given up knowingly;
- *hubs and webfan*: no channel is closed twice or sent to when closed, everybody
  gets what is theirs, and all goroutines of a connection end together;
- *configurations*: what runs is what is written, a wrong one is refused, and what
  is refused leaves nothing behind.

`PROJECT.json` maps the definitions a reader needs to their lines (a helper whose lines lie
within those of another definition of its module is found there), and lists the hazards
that matter most at their lines, each with the
properties that watch it. Section 4 lists where the code was found to do something
else than is written.

## 2. The modules

```
Delivery <--refined by-- RuntimeDelivery --extends--> AgentRuntime
                              ^ AgentRuntimeProofs        ^ OrderAssumption
                                              TopSort (SortedIsTopological) <-- TopSortProofs
PipelineControl <-- PipelineControlProofs     PipelineStore <-- PipelineStoreProofs
SinceDB <--extends-- FileInput <-- FileInputProofs
        <--extends-- Pollers
        <--extends-- TailInput, ServerInputs <--+
StatefulFilters, Outputs <----------------------+
Hub     <--extends-- LogHub, Websockets, Webfan <--extends-- Components <-- ClientProofs, InputProofs,
                                                                            ProcessorProofs
PipelineBuilder <--extends-- MCConfigs  <--extends-- MCComponents, which extends Components
                                                     and instantiates the others
                                          MCComponentsLive, those with liveness
```

`MCAgentRuntime`, `MCPipelineStore`, `MCPipelineControl` and `MCFileInput` give the
constants of their component for TLC. The other components keep their state to
themselves, and a variable `at_work` names the component whose behaviours these are.
`Components` puts those side by side that are proved about: what serves clients
(`ClientsSpec`), what reads from the network or a growing file (`InputsSpec`), the filters
that remember (`FiltersSpec`), and the outputs that gather events or share a connection
(`OutputsSpec`).
`MCComponents` extends it and holds an instance of each of the rest, which share the
variables `v1` .. `v11`: an instance takes them for its own, in the order of its
VARIABLES, and a component that needs fewer leaves the rest at `Unused`. `MCComponentsLive` does the same
for the components with liveness, a group of variables for each. `MCConfigs`
holds the data they are given: configurations, events, options, texts, trees of
files.

Operators with an underscore (`CloseChan_NoWait`) are *mutants*: the way a plausible
bug would change the definition that follows them. They are not part of any
specification. Each property a run checks is listed in `PROJECT.json` with a mutant
that breaks it; where a run's property has parts of several modules, most other parts
have a mutant in their module too.

### The core

**AgentRuntime**: one pipeline from `Pipeline.Start` to the return of
`Pipeline.stop`. The state is every `packetChan` (`chan`), where every goroutine is
and what it has yet to send (`pc`, `calls`, `out`, `ev`), the supervisor goroutine of
every agent (`sup`) and how far start and stop have come. `StartAgent` is one turn of
the loop in `Pipeline.Start`; `Take`, `BeginSend`, `Send`, `Finish` and `ExitWorker`
are `listen` and `send`; `CloseChan` and `JoinAgent` are the two halves of
`Agent.stop`; `WorkersDone` and `ProcessorStopped` the supervisor. A `Receive` is a
choice among the lists of ports it may send to (`Calls`): `route`, `when` and fork
are such choices. Inputs come in the three kinds the processors have: *joined* (Stop
hands a token to the goroutine and waits: input-stdin), *detached* (Stop closes the
source and returns: input-udp and others), and *ticks*.

**Delivery, RuntimeDelivery**: what a pipeline promises about events, with no
channels, calls or steps of a stop: a task owes deliveries, hands each over once, and
an agent is retired when nothing waits for it, nobody owes it anything and all that
could are retired. The refinement maps the rest of a goroutine's `Send` call and the
calls it has yet to make to what it owes, the length of a channel to what waits, and
`Done` closed to retired. Deliveries are told apart by their place counted from the
end, which a send or the next call does not change.

**TopSort**: `topSortDFS` with its recursion as a stack, so that it is a state
machine without recursive operators; the range over a Go map is a free choice of the
next root. The graph is chosen in the initial state.

**Configure**: what `Pipeline.Start` does before anything starts. For 40 plugins the
options with their kinds, presets and which are required (`Plugin`), `mapstructure`'s
decoding over the presets, the validator, the codecs by role, and what is left of
each `Configure`, where it looks at its options, opens a connection or starts a
goroutine. Values are told apart as far as decoding does: some, zero, wrong, odd.

**Scheduler**: `Add` turns a planning (an hour's word, five or six fields, `@every`)
into a cron spec (`Spec`), of which the library makes times (`Parsed`); it lists the
job, then adds it. `Remove` deletes the library's entry that is found first and edits
the listed slice within its array, which readers may hold: slices are pairs of an
array and a length, so that this shows.

**PipelineControl**: the registry, routes and jobs as shared maps, with one atomic
step per call on them: PATCH and POST handlers, the boot, and `core.Stop` in main. A
pipeline value is an *instance*; agents are numbered in the order of the stop. Closing
a channel twice panics, which the HTTP framework recovers in a handler and nobody in
main.

**PipelineStore**: records, assets and requests; a request is the list of store calls
it has yet to make, and each call is one transaction. Bodies are decoded over what was
found: a POST may name a uuid that is in use and needs no entrypoint, a PATCH may
replace the list of assets or the uuid (`RewritePipeline`), and that of an asset its
type, uuid and pipeline (`SaveAsset`). `Reboot` is an exit at any point, with the
requests in flight dropped, and the loading of the auto-start pipelines.

### Inputs

**SinceDB, FileInput**: `SinceDB` has one action per call on the concurrent map or the
storage: a `save` visits a key, stores it, deletes it. `FileInput` extends it with the
discoverer, `Receive`, the reader and `Stop`. A file is its size and its number of
records; a codec is how it reports the end of its input (`EofOnly` for those that do
so only by `io.EOF`). `Restart` is an exit and a start on the same storage.

**TailInput**: one file that grows, from the tailer (external) over an unbuffered
channel, a pipe and the decoder to `Send` and the SinceDB, with `Stop`, exits and
restarts. Positions are counted in lines. `tail` is of one process; `past` remembers, over
all of them, the lines sent, the marks resumed at, and the jumps to the end of the file.

**ServerInputs**: rabbitmq, its broker and client library (external) and the loop
`Configure` starts, where deliveries have tags per channel and a lost channel gives back
what was not acknowledged; beats, whose batches are acknowledged before they are sent and whose
`Stop` drains the backlog; the http server, whose handler sends record by record and
looks at the stop between two, and for which neither decoder nor encoder may be had; and
the inputs whose goroutine reads elsewhere and sends
(unix, udp, syslog, twitter, elasticsearch, imap, event, stop): one state machine,
`Inlets` saying how each reads, makes its event, waits, and what `Stop` does to it.

**Pollers**: `PL`, the polls of ldap, sql and the http poller at each tick, with the
connections they share or leave; `PP`, pop3 with its mark, deletions, lost sessions
and restarts, over the SinceDB.

**Commands**: `SP`, the commands xprocessors start: a bounded pipe in and out, a reader
that decodes, `Stop` that waits; `EX`, the exec input's `Tick` and its decoding loop.

### Filters

**Filters**: `Receive` of the processors that keep nothing: kv, grok, eval, date, json,
split, exec, html, template, uuid, drop, blacklist, whitelist, route and when. A
behaviour is one event in one of them; a map the code ranges over is a set of entries
that are left. What a text parses to, matches or evaluates to is given.

**MutateFilter**: mutate with all its options in its order, an event being a small
tree of words; and `ET`, `AddTags` and `RemoveTags` with the slices of the code, whose
range goes on over the old length.

**StatefulFilters**: newterm (`NT`: workers, a lock for reading and one for writing),
change (`CF`: the timer that forgets, its channel, the mutex), digest (`DG`: `Tick` in
the scheduler's goroutine next to `Receive`), geoip (`GI`: the database replaced and
the cache, while workers look up).

### Outputs

**Outputs**: http (`HO`), with the batching library (external), one goroutine per batch
fired, the retries and `Stop`, where a batch size or a pool of 0 is none; file (`FO`), with
`Receive`, the ticker's flush and `Stop` at one buffer, and writes that fail; rabbitmq (`RO`)
and tcp (`TO`), whose workers share a connection and set it up anew.

**Sinks**: email with its templates, attachments and embedded pictures, elasticsearch (both
versions) with its index, statsd.

**XProcessors**: the command line made of the options and what a command reads back
from it; the workers of such a command; the stored xprocessors under requests that
find, then save; and the records of variables beside the environment of the process,
which each request changes one after the other and a start loads in the order of keys.
Clients overlap; an exit may come between two steps.

### Hubs

**Hub** is the design `websocket.go` and `logs.go` share: the hub's goroutine, a
handler, a reading and a writing pump for each client. **LogHub** adds the hook, which
hands every entry over in a goroutine of its own, and the ring of last entries, the
welcome. **Websockets** adds `Receive`, which ranges over the hub's map itself, and
`Stop`; and the websocket input, whose hub is of its own kind and makes a client's
`done` after it took the client. **Webfan**: a request from its count in `wg` to its answer, its
pipeline reduced to the channels and the worker of `pass`.

### Configurations

**Locations**: how `run` finds configurations, the files they use and their templates:
the process's directory first, then that of the file; urls; directories as arguments;
holes filled from the environment. **Lexer**: `readToken`, `readUntilFalse` and the
stream over characters; `toWhenExpression` and its own lexer. **LogstashParser**: the
functions that call each other as a stack of frames, one step per token. **Decoders**:
the decoders of all codecs, called until they return an error, over lines of the kinds
they tell apart. **PipelineBuilder**: the wiring of agents for plain plugins, `if`,
`use` of one file or several, and `route`; the meaning of a configuration is a
definition of its own (`Written`), the trips an event may take, compared with the
trips over the agents.

**Console**: pages of the web console as the calls of the API they make, with the
client library that follows redirects and forgets some errors; a handler is one step
here, its own steps are in PipelineStore and PipelineControl.

## 3. The runs

| Run | Instance | What it shows |
|---|---|---|
| `runtime_diamond` | input, route with 2 workers, filter, output; capacity 1; 2 events | start, work and stop: `NoSendOnClosed`, `StopsDrained`, `NothingLost`, `StartedBeforeFed`; refines `Delivery` |
| `runtime_unjoined` | the same with a detached reader and a tick | goroutines `stop` waits for never face a closed channel (`AwaitedSendersSafe`) |
| `runtime_serial` | fan-out, one worker each, capacity 2, `FairSpec` | `OrderKept`; `StopReturns`; `EventsDrain` |
| `topsort` | all graphs of 3 agents with up to 2 sources | `SortedIsTopological`, `CyclicIsACycle`, `Terminates` |
| `store` | 2 requests at a time and 4 in all, 2 pipelines, 2 assets, one pipeline edited by a client, exit any time | `RefsMatchAssets`, `DeletedStaysDeleted`, `NoDanglingRef`, `BootStartsAll` |
| `control` | 2 clients and main, 2 pipelines of 2 agents, 2 instances | `OneInstanceUnlessMixed`, `RegistryTruthful`, `NoDeadPipelineRegistered`, `PluggedWhileRunning`, `ShutdownIsComplete` |
| `fileinput` | 2 files (one may fail), queue of 1, 2 runs of the process, `FairSpec` | `KnownIsComplete`, `MarkedIsKnown`, `StoppedIsSaved`, `QuietAfterStop`, `StopReturns` |
| `components` | the 43 components of `Components` and `MCComponents`, one after the other | `FiltersSound`, `InputsSound`, `OutputsSound`, `ClientsSound`, `ProcessingSound`, `ConfigSound`, `StoredGrows` |
| `components_live` | 8 of them, with fairness | `EventsFlow`, `StopsReturn`, `ConnectionsEnd` |
| `runtime_tick_panics` | diamond with a tick | *violated*: a tick sends on a closed channel |
| `double_start` | as `control` | *violated*: two instances of one pipeline |
| `seen_file_skipped` | a tailed file of 2 lines, 2 processes | *violated*: a file seen before is begun at its end |

`components` and `components_live` put many small systems into one run: a behaviour
is one of them. Their properties are conjunctions, one line for each component.

| Property | Parts |
|---|---|
| `FiltersSound` | newterm: `OncePerWorker`, `NewTermPasses`; change: `PassesExactlyChanges`, `StoppedHasNoTimer`; geoip: `EtagNamesDatabase`, `GeoNeverOlder`, `CacheWithin`; digest: `NoEventDropped`, `DigestedOnce` |
| `InputsSound` | tail: `NoGap`, `AheadByTwo`, `LinesAccounted`; rabbitmq: `AckedWasSent`; beats: `AckedIsSent`, `StopDrains`; http server: `AnswerIsHonest`, `LateByOne`; sockets and tickers: `ReadIsSent`, `OutlivesOnlySo` |
| `OutputsSound` | http: `BatchesAccounted`, `SentInOrder`; `FileIsTrue`; rabbitmq: `OneConnection`; tcp: `TcpSound` |
| `ClientsSound` | log hub: `HubSurvives`, `EntriesReachClients`; websocket output: `HubSurvives`, `LatestReachesAll`, `StopEmptiesMap`; websocket input: `StopDisconnects`; webfan: `AnswerComplete`, `StopAwaitsRequests` |
| `ProcessingSound` | codecs: `LinesGiven`, `EventsWhole`, `RowsNamed`; pop3: `NoMailLost`, `SentOnce`; exec: `OutputCaptured`; polls: `PolledInOrder`, `PollsAlone`, `DiesAway`; schedules: `JobsEnd`, `ListedAsPlanned`, `ReadAsListed`, `FiresAsMeant`; filters without memory: `WordsKept` of mutate in any order of its maps; `TagsAsConfigured`; of the others `MarkedByOutcome`, `KvOfPairs`, `GrokBreaks`, `EvalAsCame`, `RoutedOnce`; commands: `EventsReturn`, `SentLate`, `OptionsArrive`, `StopsAfterAll`; `MailIsWhole`, `EventsIndexed`, `MetricsAsConfigured` |
| `ConfigSound` | `LexedAsWritten`, `ConditionMeant`, `ParsedAsWritten`, `TripsAsWritten`; `ResolvedBeside`, `HolesFilled`, `ArgumentsStarted`; `AskedIsHad`, `WrongIsRefused`, `CodecAtHand`, `RefusedIsGone`; `EnvMirrorsStore`, `StoredAsAnswered`; console: `SuccessIsTrue`, `PlaysAsAsked`, `SavedAsSent` |
| `StoredGrows` | a step property: the offset stored of a tailed file never goes back |
| `EventsFlow` | `EntriesAreTaken`, `LeaversForgotten`, `MessagesTaken`, `PrintedIsSent` |
| `StopsReturn` | `WebsocketStops`, `HttpStops`, `StreamStops` |
| `ConnectionsEnd` | `PumpsEndTogether`, `RequestsEnd` |

Where the code does not keep the plain promise, the property says under which
condition it does, and the condition is as small as the code allows: `DigestedOnce`
excepts ticks that overlap, `FileIsTrue` a write that failed or two
flushes at a time, `JobsEnd` two starts at a time, and so on. The exceptions are the
hazards and section 4.

Bounds and why they are enough.

- *Diamond*: a fork and a join are the least graph where an agent has two feeders and an
  event two ways; two workers are the least pool that can leave apart; capacity 1 makes
  every sender block; with two events one can be in a channel while another is in a send.
  The proofs do not depend on these numbers.
- *topsort*: two sources are the least for a join and for a duplicate source; three agents
  for a cycle that is entered from outside.
- *store*: two overlapping requests reach every stale copy; two assets give one pipeline
  two, or an asset to add, or one to lose to the other pipeline; four requests make a
  pipeline, change it twice at a time and once more; `MaxEdited = 1` leaves one pipeline
  next to the one whose record a client wrote itself. Symmetric in threads, pipelines and
  assets.
- *control*: two clients and main are all pairs of overlapping callers plus the shutdown;
  `MaxInstances = 2` allows a restart or a double start. One pipeline has a long hook and
  two scheduled agents, the other a short hook.
- *fileinput*: two files and a queue of one make the scanners block; `MaxRuns = 2` is one
  restart; more restarts begin in states the second one begins in.
- *components*: symmetric in the two workers, clients, peers or requests (they appear in
  no order and no component names one; where one alone is at work, the other never appears
  in a state, so no two states are confused). Two of everything that overlaps (workers,
  clients, polls, requests, browsers, flushers), which is every pair of overlapping steps;
  channels of one or two places, so that they fill; three to five events, lines or mails,
  so that one can be behind, in hand and ahead, and a batch of two can be full, short and
  overtaken; one or two faults, a fault after which things go on and one that meets the
  first's remains. In `components_live` the log hub's clients have channels of one place.
  *parser*: all texts of 14 tokens over the braces and ifs, and of 10 over settings.
  *lexer*: all texts of three characters, heads of conditions with up to two terms.
  *builder*: up to two filters of every kind (`use`, `route`, `if` with one or two
  branches, nested once) and up to two outputs. *configure*: each plugin with one option
  in every way, and pairs where `Configure` looks at two. *scheduler*: pipelines of up to
  three agents that share labels or not, and two instances of different plans started at a
  time.

`CHECK_DEADLOCK FALSE` stands in `fileinput`, `components` and `components_live`: after
a stop, a panic, or at the end of a text nothing is left to do. What must not stop in
them is said by the liveness properties, and by invariants that say what is left when
all stands still.

Fairness. In `AgentRuntime` every goroutine that can go on does (weak fairness).
A sender blocked on a channel is served in the order of arrival, and Go's `select`
picks at random among ready cases, hence strong fairness of `Send` and of the
reader's quit case. Producing events and asking for a stop carry no fairness. In
`FileInput` the goroutines have weak fairness and the two `select`s on `q2` strong
fairness; exits, starts, events, scans of a ticker and the looper carry none.
`TopSort` is one goroutine that runs. In `MCComponentsLive` each goroutine has weak
fairness, in its own conjunct, unless the process has crashed; the give-up of a batch
of the http output is a case of a `select` next to a timer that comes again and again,
hence strong fairness. Remote ends carry fairness only where the property is about
what they sent: the broker that delivers, the command that goes on.

`mixed` in `PipelineControl`, `PipelineStore` and `Scheduler`, and `blurred` and
`rivals` in `XProcessors` and `Console` are history: what two requests were about
at the same time. The code promises little for those; what the passing runs show is
that overlap about one thing never disturbs another, and which properties survive any
overlap (`NoDeadPipelineRegistered`, `PluggedWhileRunning` for routes,
`NoDanglingRef`). Other history names what the code lets happen without overlap: in
`PipelineStore` the pipelines that lost something (`shrunk`), whose uuid, references or
assets a client wrote itself (`edited`), and that were made without an entrypoint, or had
its type changed (`bare`). `doubled` in `PipelineControl` is narrower than `mixed`: the
pipelines of which a second start replaced the registered instance, the only ones that
`ShutdownIsComplete` leaves out.

## 4. Where code and documentation disagree

Three are violated runs and findings in `PROJECT.json`:

1. `core/agent.go:223`: a scheduled `Tick` runs in a goroutine that `Agent.stop`
   does not wait for. Stopping such a pipeline can panic the process.
2. `core/pipeline.go:87`: the check for a running pipeline and its registration are
   apart; overlapping starts run it twice, and one can never be stopped.
3. `processors/input-tail/tail.go:359`: the position recorded after a line is 0 when the
   tailer has closed the file for a stop; the next process takes 0 for a file never seen
   and begins at its end, where line 106 says that of a file seen before "the position
   recorded in the sincedb file will be used".

The models do what the code does in the following places too; the properties name
them as exceptions, or a constant keeps them out.

*Runtime and API*

- An error of `processor.Start` is only logged (`core/agent.go:186`); the stop of an
  input-stdin that did not start waits for ever (`BrokenInputs`).
- One stored pipeline without an entrypoint keeps all others from being started
  (`cmd/bitfan/commands/run.go:93`), and nothing asks for one: a POST without assets, or
  with assets of other types, is stored (`api/pipelines.go:65`), and a PATCH may change an
  entrypoint's type.
- The body of a PATCH is decoded over the whole record (`api/pipelines.go:229`,
  `api/assets.go:102`): with a list of assets it makes references to assets that are not
  there, or drops those to assets that are; with a uuid it writes another
  pipeline's record; with another `PipelineUUID` an asset changes its pipeline and the old
  one keeps the reference. A POST with the uuid of a pipeline overwrites its record.
- A second start of a pipeline replaces what is registered; the instance replaced runs on
  through `core.Stop`.
- A planning of blanks alone panics in the cron library while the pipeline starts;
  the agents started before it go on, unregistered. A refused planning stays listed.
  Five fields with a double blank count as six. Readers of the listed slice see it
  edited in place (`core/scheduler.go:96`). The digest filter documents
  `every_10s` (`filter-digest/digest.go:40`), which is no planning.
- A restart of a pipeline that was deleted stops it and answers 500. Two plays of a
  playground at a time run it twice, and only one can be stopped.
- `api/client` forgets the errors of deletes, of new assets and of listings, and takes
  status 400 for a success; the pages that create, save or show ignore what is left.
  PATCH of an asset leaves its size and type as they were.

*Configurations*

- `not in` is rewritten before `and` and `or` are (`expression.go:79`): it negates the
  whole conjunction. A quoted text that holds the other quote, or a quote in a pattern,
  is scanned for ever; `{` inside the quotes of an `else if` ends its condition;
  `else iffoo` is an else-if; `=`, `else` or a backslash at the end of the file panics;
  `AND` and `OR` are read but not translated.
- References are looked for where the process runs before they are looked for beside
  the file. The status of a http answer is not looked at (`commons/location.go:184`): a
  404 page is parsed as a configuration. Directories as arguments make entrypoints
  without a full path, which cannot be loaded.
- The first agent of a used file is the last in its list
  (`entrypoint/parser/pipelinebuilder.go:262`); for a file that begins with an `if` it is
  one inside the branch, where `processors/use/use.go:6` says "the first filter plugin
  found". Of two outputs in a used file without filters the second is never sent anything
  (line 187). Such files are kept out of the configurations of `components`.
- Zero, false and empty texts count as missing where an option is required, empty lists
  do not; misspelled options are ignored. The option `codec` of input-rabbitmq,
  output-file and glusterfs is a text, but the builder gives a codec: refused. Giving a
  codec for one role drops the preset of the other; an unknown charset panics. Of two
  codecs for one role the map's order decides.
- A pipeline that is refused leaves what the agents before the refused one began in
  `Configure`: input-rabbitmq consumes (`input-rabbitmq/rabbitmq.go:151`), sql and ldap
  hold connections. A pop3 server that cannot be reached ends the program
  (`pop3/conn.go:83`).
- The http output puts `http_method` in capitals before it has decoded it
  (`output-http/httpoutput.go:118`).

*Inputs*

- With codecs that end by `io.EOF` a file is never recorded as read and is read again
  (`input-file/file.go:295`). What a tailed file's mark says is up to two lines ahead of
  what was sent: after an exit these are skipped. A record that is sent between the `Set`
  and the `Delete` of an older offset loses its own (`sincedb.go:64`), and is sent again.
- http server: without a decoder a request is answered 200 and nothing is sent
  (`input-httpserver/httpserver.go:107`); without an encoder it is answered 500 after all
  its records were sent (line 229). An unknown charset panics in both.
- ldap: `event_by` documents `entry` and `result` (`ldap/ldap.go:88`), only `row` gives an
  event for each entry; a dial that fails leaves nil in `p.l`; an unknown scope means
  base. sql never asks `rows.Err`. Polls of one agent share connection and request.
- unix: after `Stop` the server's loop goes on at every error of accept, the client dials
  for ever. syslog closes a channel its receivers send to. event counts itself in `wg`
  inside the goroutine `Stop` waits for (`input-event/inputevent.go:55`).
  elasticsearch panics without hits, and its `Stop` hangs; imap is not configured by its
  base; stop ends the program with "IMPLEMENT THIS" (`stop/stop.go:48`).
- exec with the plain codec emits nothing, its pipe being closed at the reading end.

*Filters*

- kv: `prefix` is put before the value (`filter-kv/kv.go:247`), its documentation says the
  keys (line 118); `default_keys` are added only when something was parsed; `recursive`
  is not used. split never looks for its terminator. grok takes no list of patterns.
- exec: what is written to stderr loses the event, `null` printed with target `.` panics,
  without `stdin` the command's input stays open. date: `UNIX_MS` of a text shorter than
  three, and an empty `match`, panic. eval forgets the error of its options when it has an
  expression (`filter-eval/eval.go:81`); an expression that is no text panics.
- mutate: gsub is to leave what is no string alone (`filter-mutate/mutate.go:47`) and split
  to work on strings only (line 75); gsub, strip and the change of case make a text of a
  list's first word, and split makes a list with an empty text of what is no string.
- geoip: the etag is kept before the body is read, and a missing one panics
  (`filter-geoip/geoip.go:302`); a database that cannot be opened leaves nil; the cache is
  made before its size is decoded (line 114), and is not emptied by a refresh; the types
  `asn` and `organization` of line 52 are not known.

*Outputs*

- elasticsearch with version 5 adds to the nil processor of version 6; a server that is
  not there panics in `Configure`; elasticsearch2 panics on a `@timestamp` that is no time.
- email: pictures found in an event stay for all later ones (`output-email/email.go:234`),
  under names that workers and pipelines share; data that is not base64 is cut.
- statsd documents texts for `set`; only numbers are sent. mongodb uses none of
  `GenerateId`, `Isodate`, `Retry_delay`. tcp never dials again after a failed dial.
- Commands: a `false` is never passed, so that a default of true stays; an empty text is a
  flag without value, which takes the next word; other kinds in lists and maps are left
  out with a line in the log.

## 5. What is proved

`tlapm` checks eight proof modules. In each, lemmas per action show that the inductive
invariant `IInv` survives it, and the theorems follow from `IInv`. Every such invariant
was checked by TLC on the instance of its run before it was proved. What they prove of
types is not checked by TLC again in `topsort` and `fileinput`.

**AgentRuntimeProofs** holds for every graph, any numbers of workers, producers and
ticks, every buffer size and every bound on events, under `RuntimeAssumption`: the
goroutines have one owner each, the wires lead to agents, and the two orders
enumerate the agents with sources and targets on the right sides. The last part is
what `TopSortProofs` proves of the code that computes them.

| Theorem | States |
|---|---|
| `TypeCorrect` | types, and no channel above its capacity |
| `AwaitedNeverSendOnClosed` | a goroutine `Agent.stop` waits for never sends to a closed channel |
| `NoPanic` | with no ticks and no detached reader nothing sends to a closed channel |
| `StopIsDrained` | with a worker per agent, `processor.Stop` finds the channel empty and its workers gone |
| `StopLosesNothing` | and with joined producers only, nothing is left in a channel or a hand when `Pipeline.stop` returns |
| `FedAfterStart` | no event is sent to an agent that was not started |
| `OrderHolds` | where one goroutine feeds an agent and one worker serves it, events arrive in the order they were produced |
| `RuntimeImplementsDelivery` | with a worker per agent and joined producers only, the runtime refines `Delivery` |

The properties are not inductive: that no awaited goroutine sends to a closed channel
depends on why the feeders of a closed agent are quiet. `IInv` adds that `Pipeline.stop`
is at most one agent ahead of what it has joined (`StopProgress`), that `Done` means
that workers and joined producers are gone (`DoneMeansGone`), that sends follow the
wires (`SendsFollowWires`), that a worker leaves only a closed and empty channel
(`GoneMeansDrained`), and that goroutines run for started agents only
(`RunsWhenStarted`). If a goroutine of agent *a* may send to a closed *b*, *b* comes
after *a* in the stop order, so *a* was joined before *b* was closed, and the
goroutine is gone. The worker per agent is needed since an agent with none
(`PoolSize` 0) is done before it is drained.

`OrderHolds` needs a second invariant, `InOrder`, about *streams*: what an agent has
received followed by what is in its channel, which `Take` leaves as it is and only a
send makes longer. A stream is in order since its one feeder has nothing older than it
has sent: a worker holds what its agent received last (`HoldsNewest`, which needs the
one worker), that is the newest of a stream in order, and all it ever sent is no newer
(`BehindWorker`); a producer's event is newer than all before (`BehindProducer`,
`NotAhead`).

`RuntimeImplementsDelivery` is proved step by step: `Emit` and `Take` begin with an
event (`BeginsWith`), a send hands one delivery over (`SendPays`), `BeginSend` only turns
a call to be made into one being made (`CallBegins`), `ProcessorStopped` retires, for
which `IInv` gives that the agent is drained and that nobody can owe it anything
(`StoppedIsRetirable`); every other step stutters. The hypotheses are those of
`StopLosesNothing`, and are needed for the same reason: a tick or a detached reader
may still owe when its recipients retire.

**TopSortProofs** holds for every finite set of agents and every list of sources.
`SortIsTopological` says that a sort that succeeds lists each agent once and after
its sources, whichever root the range over the map takes next; `CyclesAreReal` that
what is reported as a cycle is one. `IInv` gives the call stack of `visit` its meaning:
it is a path whose frames wait for each other (`StackIsAPath`), its nodes are exactly
those marked temporary (`StackIsTemp`), the sources a frame has passed are placed
(`PassedArePlaced`), so that a node is placed in front of them (`SourcesBehind`);
when unwinding, what is collected continues the rest of the stack to the node that
closes the cycle (`Unwinding`).

**FileInputProofs** holds for any number of files, any sizes, records and codecs,
any capacity of the queue and any number of restarts, under `FileAssumption` (types
of these).

| Theorem | States |
|---|---|
| `TypeCorrect` | types, and the bound on the queue |
| `ReadAtLeastOnce` | an offset in map or storage belongs to a file all of whose records were sent, also after an exit |
| `MarkedStaysKnown` | a scan never judges a file unread that its process has marked, whatever the savers do meanwhile |
| `StopSaves` | when `Stop` returns every mark is in the storage |
| `QuietStop` | the reader is gone by the time the database is closed |

`IInv` follows an offset from the map through the hands of a saver to the storage:
what a saver holds is true and is stored before it is deleted from the map
(`SaverSound`), so a scan that missed it in the map finds it in the storage
(`MarkedIsKnown`); `Stop`, the reader and the closer are in step (`Phases`); and from
`Close` on a mark that is not stored is ahead of the closer or in its hands
(`Covered`), since marks are made only by the reader, which has left.

**PipelineControlProofs** holds for any pipelines, clients, agents per pipeline and number
of instances, under `ControlAssumption` (types of these, main apart from the clients).

| Theorem | States |
|---|---|
| `TypesHold` | types of registry, instances, routes, jobs and goroutines |
| `OneInstanceHolds` | a pipeline no two requests were about at a time has at most one live instance |
| `RegistryTruthfulHolds` | for such a pipeline the registry says what runs, once no request is about it |
| `NoDeadPipelineHolds` | no stopped pipeline stays registered, however requests overlap and panic |
| `ShutdownHolds` | when `core.Stop` returns, what was registered when it was called is drained, but of pipelines whose registered instance a second start replaced |
| `RoutesLeadToTheRunning` | no url leads to the handler of an agent whose channel is closed, however requests overlap |
| `PluggedHolds` | with hooks and labels apart, what runs has its routes and jobs, what is closed has none |

`IInv` has two halves. What holds under any overlap (`Basics`, `RoutesLead`,
`ShutdownGoesOn`): a goroutine stops or starts the instance it holds; of several that stop
one instance, only the one that closed the first channel gets on, the others panic at it;
so a registered instance with a closed channel has a goroutine that will deregister it, and
an agent's urls are deleted before its channel is closed. `core.Stop` ranges over a list:
what was registered is drained, or still ahead of it, or what it is at, unless a second
start took its place in the registry (`doubled`). What holds of a pipeline while no two
requests are about it (`Unmixed`): a live instance is held by the one client about it, or
registered, so the check at the beginning of a start is enough there. `PluggedHolds` has
two hypotheses: `HooksApart`, that no two agents have the same url, and `LabelsApart`, that
a scheduled agent shares its label with none of its pipeline. Configurations that break
them are a hazard of their own (a url or job goes to the agent started last, and with the
first that stops); the instance of `control` satisfies both.

**PipelineStoreProofs** holds for any requests, bodies, pipelines and assets, under
`StoreAssumption` (types of these).

| Theorem | States |
|---|---|
| `TypesHold` | types of records, assets and requests |
| `RefsMatchAssetsHolds` | while requests about a pipeline do not overlap and no client wrote its uuid, references or assets itself, its record lists exactly its assets when none is about it |
| `DeletedStaysDeletedHolds` | a deleted pipeline stays away unless another request about it overlapped, until a client writes a record of its uuid |
| `NoDanglingRefHolds` | a pipeline nothing was deleted of, nor its record written by a client itself, refers to no missing asset, however requests overlap and wherever an exit cuts them short |
| `BootStartsAllHolds` | a boot starts every auto-start pipeline, as long as each was made with an entrypoint that keeps its type, nothing was deleted of any and no client wrote their records itself |

A request holds a copy of the record between its calls, and `IInv` says what a copy may
say, which depends on the calls the request has left (`Shaped`): of a request that looks
for the pipeline of an asset it is made at that time. What is known of a pipeline was drawn
or named (`Drawn`). While one request at a time is about a pipeline, its copy
lists what the store holds up to the assets it has yet to write or drop (`Alone`,
`Agrees`). With overlap a copy may be stale; but while nothing was deleted, it lists no
missing asset and, of a pipeline made with an entrypoint, keeps one that is there
(`Holds`), since assets are written before the record that lists them. That is what a boot
needs, whose loading fails at the first record without its entrypoint (`Booted`). None of
it holds of a pipeline whose record a client wrote itself (`edited`), to which a request
about another may belong as well: it takes an asset away.

**ClientProofs** holds for any clients, peers and requests, any sizes of their channels and
any numbers of entries, events, messages and records, under `ClientBounds` (types of
these).

| Theorem | States |
|---|---|
| `ClientsSoundHolds` | all of `ClientsSound`, the property of `components` |
| `ClientsTypesHold` | types of hubs, clients, pumps and requests |
| `HubHolds` | the log hub's goroutine closes no channel twice and sends on no closed one; the map holds open channels only |
| `EntriesReachClientsHolds` | who stays has been given, or will be, every entry since it registered |
| `WebsocketOutHolds` | the same for the websocket output; who stays gets the latest event; `Stop` leaves nobody in the map |
| `StopDisconnectsHolds` | when the hub of the websocket input is gone, the clients it had when `Stop` began are disconnected |
| `AnswerCompleteHolds` | an answer of webfan has all that its pipeline made, in order; `Stop` waits for the requests counted |
| `QuietAfterReturnHolds` | a request that returned is written to no more |

`HubInv` says whom the hub may know: clients that have registered and whose channels are
open (`MapIsOpen`); with it no close is a second one. An entry is followed from the hook's
goroutine over the hub's hands into a client's channel (`NothingPassesBy`): it is on one of
these ways for all who registered before it was logged. The websocket output's `Receive`
goes over a map that changes under it: who was in it when it began is in what the loop must
still visit, or has the event (`LatestOnItsWay`), nobody is registered twice (`KnownOnce`),
and whom `Stop` had is gone, or in the hub's hands on the way out (`HadIsGone`). The
websocket input needs the same of its own hub (`LeavesNone`). In webfan what was shown is
followed, number by number, by what waits in the queue and was fed (`InOrder`), and the
stages of a request exclude each other (`Staged`).

**InputProofs** holds for any file and number of lines, messages, shippers, posts, inlets
and clients, any batch and buffer size, and any number of lost channels, resets and
restarts, under `InputBounds` (types of these).

| Theorem | States |
|---|---|
| `InputsSoundHolds` | all of `InputsSound`, the property of `components` |
| `StoredGrowsHolds` | the offset stored of a tailed file never goes back |
| `TailHolds` | a process sends what it reads without gap, the mark is at most two lines ahead; over exits and restarts a line is sent, or one of the two before a mark resumed at, or skipped by a process that found the mark 0 |
| `RabbitHolds` | what is acknowledged was sent |
| `BeatsHolds` | what is acknowledged was sent, or is the batch being sent; when `Stop` has returned everything was, batch by batch and, without a reset, once |
| `HttpHolds` | a request is accepted only if all its records were sent, refused after those before a bad one (all, without an encoder), and one at most is sent after `Stop` |

- *tail*: the line in the hands of the decoder, of `tailFile` and of the tailer follow each
  other (`InLine`), and a position on its way from the tailer over the map and the saver
  into the storage meets only smaller ones (`Trail`): the looper's old value is never above
  what it is written over, which is why what is stored grows. Nothing is on that way before
  the file was opened (`Fresh`), or a restart would begin behind it. Where a process begins
  is where the one before it ended, at most two lines behind a mark, or at the end, so that
  what is between is remembered as skipped (`Accounted`).
- *rabbitmq*: all deliveries before the one at hand were sent (`TakenIsSent`); tags begin
  anew only when everything that came by the lost channel was taken (`RangesOn`), so an
  acknowledgement of several covers none of the new channel.
- *beats*: a batch that waits with the connection it came by is its shipper's present one, and
  a connection has one at most (`Entries`), so the acknowledgement at the range is of the
  batch that is sent next (`AcksHold`); the log is made of whole batches and the part of
  the last (`LogOrder`); the channel is drained before the server stops (`ClosesInOrder`);
  without a reset a batch is waiting, or being sent, or in the log (`Once`).
- *http server*: what was sent of a body is how far it was read, but for the record at hand
  (`ReadSoFar`), so an answer says what happened (`Honest`, `Late`).
- *sockets and tickers*: each goroutine sends its items in order, what it has read is sent or in its
  hands (`Common`, then one invariant each for connections, streams, tweets and ticks), and the ends of
  the program are those listed (`KnownEnd`).

**ProcessorProofs** is about filters and outputs. The first hold for any workers, ticks alive
together, terms, values, addresses, options, size of the cache and bounds on events and
releases, under `FilterBounds` (types of these; "no term", "no value" and "no address" are
none of them); the outputs for any sizes of batches and pools, 0 included, any workers and any
bounds on events, connections and troubles, under `OutputBounds` (types of these; tcp has
finitely many workers, and none of rabbitmq's is called as its `Start`).

| Theorem | States |
|---|---|
| `FiltersSoundHolds` | all of `FiltersSound`, the property of `components` |
| `FiltersTypesHold` | types of the filters' states |
| `NewTermHolds` | a worker passes a term once at most; a new term is passed by one of them |
| `ChangeHolds` | sent is exactly what differs from the event before, unless that is forgotten; no timer outlives `Stop` |
| `GeoHolds` | the etag names the database in use, but after a broken download; no older answer to an address looked up by one worker at a time; the cache keeps its size and an address once |
| `DigestHolds` | without overlapping ticks each map but the last is in one digest, and in one only |
| `OutputsSoundHolds` | all of `OutputsSound`, the property of `components` |
| `OutputsTypesHold` | types of the outputs' states, the bounds on batches and on what is sent at a time |
| `HttpOutHolds` | what was received is settled or on its way, given up only by a stop; sent in order while one batch is sent at a time |
| `FileOutHolds` | without a race the file, what is being flushed and the buffer have what was received, in order and once, but for failed writes |
| `RabbitOutHolds` | no connection but `p.conn` is open, unless two workers set one up at a time; after `Stop` none is |
| `TcpOutHolds` | the same for tcp; only a dial that failed ends the program; no more events are missing than dials failed and connections broke |

- *newterm*: a term a worker is about to pass is one it never passed (`Holds`), since what
  was passed is in the list, and what is in the list was passed or is about to be
  (`ListTrue`). Two workers that both found a term new are why it is once per worker.
- *change*: outside the mutex `lastValue` is what was heard last, unless it was forgotten
  (`Remembers`), and a timer that exists can be reached by `hop` (`Reachable`).
- *geoip*: no record, in the cache, in a worker's hands or answered, is newer than the
  database in use (`AllKnown`), so what is read now is never older than an earlier answer.
  A worker that missed an address is alone with it until it has set it, and who has an
  answer has what the cache has (`Alone`): the condition is needed, for of two lookups of
  one address the one with the older release may set the cache last. The lemmas about
  sequences say what becomes of an entry that is used, replaced or trimmed (`UsedKeeps`,
  `WithoutKeeps`, `TrimmedKeeps`).
- *digest*: until two ticks overlap one thread is between building and clearing
  (`OneAtWork`), and the n-th digest is of the n-th map (`EachOnce`).
- *http output*: the events that were taken are those collected, fired and settled
  (`Accounted`), and what was fired is older than what is collected (`Ages`), so that with
  one batch at a time all before it were settled when it was fired; retries move nothing.
  `WithinLimits` says what a slot of the pool and a full batch are worth. The retry keeps a
  batch in the set, where an equal batch may be already: `FiringMoves` is the lemma for that.
- *file output*: as long as nothing raced one of the two flushes (`OneFlushes`), what `Bytes`
  returned is the beginning of the buffer (`ReadsBeginning`), so what `Read` copies is that,
  and file, flush and buffer follow each other by age (`InOrderOfAge`) with nothing missing
  (`NoneMissing`). The lemmas about sequences say when one that is put together rises and
  what it contains (`RisingJoined`, `ToSetJoined`).
- *rabbitmq output*: one goroutine is between closing and opening the channel (`SettingUp`), and
  while it dials no connection is open (`OneSetsUp`).
- *tcp output*: until workers got in each other's way no connection but `p.conn` is open
  (`OneAtATime`), what a worker is about to do agrees with what `p.conn` is
  (`AgreesWithConn`), and an event that is neither written nor in a worker's hands, or a dead
  connection that no worker has met yet, is paid for by a trouble (`TroublesCounted`): the
  connection that broke costs the event that finds out, not the next.

`StatefulFilters` calls the empty text `NoValue`: the prover's translation stops at `""`.

Only model-checked: `ProcessingSound`, `ConfigSound` and `TypeOK` of `components`. Most of
their parts are about parser, lexer, builder, decoders, schedules, options and templates,
which are recursive or fold over what they read, and what a recursive definition computes
needs induction over data; the parser's and the builder's modules declare RECURSIVE operators,
which the prover does not take at all, and a module that instantiates them with all the others
cannot hold a theorem. Commands, polls, pop3, stored variables and the console keep a state
without recursion, and are within reach, but not proved. And all liveness, which together
with `ENABLED` is out of the prover's reach.

## 6. What is not modelled

- In `AgentRuntime` events are numbers and a `Receive` returns; what processors do to an
  event is in the modules of section 2, each without the pipeline around it.
- Formats and their libraries: what a text parses to, a pattern matches, an expression
  evaluates to, a template renders, a date means, is given to the models as an outcome;
  `%{...}` and time stamps, the encoders, template functions.
- Errors of bolt and of the file system other than those the modules name (unreadable
  files, failed writes); memory that a finished transaction no longer owns
  (`store/processors.go:48`).
- In `PipelineControl` events and channel contents: an instance is plugged, running or
  stopped, and `AgentRuntime` says what a stop does inside. Nor is the store in it: a
  start is assumed to find its pipeline, and the transactions are `PipelineStore`'s.
- In `PipelineStore` the values of processors and the log index, and the execution
  stage on disk.
- In `FileInput` and `TailInput` the filters on path and age, which choose the files of a
  run; a read file does not change, a tailed one is not rotated. In `SinceDB` `Ressource`,
  which nobody calls with effect.
- Processors without a state or choice of their own: stdout, null, sleep, httpout;
  mongodb, which inserts each event; glusterfs, built only with a tag.
- The `help` call of an external command; backup downloads, the listing of documentation;
  commands other than `run`; the service; the pages' templates.
- `cmd/bitfanUI/server/assets.go` and the `docdoc.go` files are generated; memory, metrics
  and logging change nothing a pipeline does.

## 7. What comes next

1. *Proofs of the rest*: `EventsReturn` of `Commands`, `NoMailLost` and `PollsAlone` of
   `Pollers`, `EnvMirrorsStore` of `XProcessors`, which keep a state and could be written
   without RECURSIVE.
2. *Refinements*: abstract specifications of what `SinceDB` and `Hub` promise to those
   that use them, and the proof that they keep it.
3. *Registry over store*: the requests of `PipelineControl` with the transactions of
   `PipelineStore` between their steps.
4. *webfan over the runtime*: its pipelines as instances of `AgentRuntime`.
