---------------------------- MODULE PipelineBuilder -------------------------
(***************************************************************************)
(* The wiring of a pipeline's agents (entrypoint/parser/pipelinebuilder.go)*)
(* from a configuration the parser has read.  A plugin is plain, an `if`   *)
(* with branches, a `use` of one file or of a list of them, or a `route`.  *)
(* An agent is its id, its sources and the numbers of the ports it sends   *)
(* to; a port is an id and a number.  An id is the place of the plugin: a  *)
(* sequence of <<tag, index>>.                                             *)
(* One behaviour builds one configuration, chosen in the initial state.    *)
(***************************************************************************)
EXTENDS Integers, SequencesExt

\* What the parser makes of a file: sections of plugins, of which only what the
\* builder looks at is kept.
Sections == {"input", "filter", "output"}
Config(input, filter, output) == [input |-> input, filter |-> filter, output |-> output]
Plain == [kind |-> "plain"]
\* One expression and its plugins; the expression of an else is "true".
Branch(isElse, plugins) == [else |-> isElse, plugins |-> plugins]
If(branches) == [kind |-> "if", branches |-> branches]
\* The option path of a use is a string or a list.
Use(file) == [kind |-> "use", files |-> <<file>>]
UseList(files) == [kind |-> "use list", files |-> files]
Route(files) == [kind |-> "route", files |-> files]

CONSTANTS
  Configs,  \* configurations
  Files     \* used and routed files: name -> configuration

VARIABLES
  config,  \* the configuration
  built    \* what buildAgents returned: agents, out ports, ok (no index out of range)
pbVars == <<config, built>>
-----------------------------------------------------------------------------
At(id, tag, i) == Append(id, <<tag, i>>)
Port(id, n) == <<id, n>>
NewAgent(id, sources, ports) == [id |-> id, sources |-> sources, ports |-> ports]
Got(agents, out) == [agents |-> agents, out |-> out, ok |-> TRUE]
Panic == [agents |-> <<>>, out |-> <<>>, ok |-> FALSE]

\* What is built later comes before it in the list; its out ports replace those
\* before, or are added to them.
Then(acc, b) == [agents |-> b.agents \o acc.agents, out |-> b.out, ok |-> acc.ok /\ b.ok]
Beside(acc, b) == [Then(acc, b) EXCEPT !.out = acc.out \o b.out]

\* Mutant: the last agent of the flow is given the ports, not the first.
Feed_First(list, ports) == [list EXCEPT ![1].sources = @ \o ports]
\* firstUsedAgent.AgentSources: it is the last in the list.
Feed(list, ports) == [list EXCEPT ![Len(list)].sources = @ \o ports]

RECURSIVE Filter(_, _, _), Output(_, _, _), BuildAgents(_, _, _)

\* Filters one after the other; outputs side by side.
InTurn(plugins, id, tag, ports) ==
  FoldLeftDomain(LAMBDA acc, i : Then(acc, Filter(plugins[i], At(id, tag, i), acc.out)), Got(<<>>, ports), plugins)
InParallel(plugins, id, tag, ports) ==
  FoldLeftDomain(LAMBDA acc, i : [Then(acc, Output(plugins[i], At(id, tag, i), ports)) EXCEPT !.out = ports],
                 Got(<<>>, ports), plugins)

\* parseConfigLocation of each path, the sections picked.
Used(p, id, sections) == [j \in 1..Len(p.files) |-> BuildAgents(Files[p.files[j]], At(id, "file", j), sections)]
NoneEmpty(fs) == \A j \in 1..Len(fs) : fs[j].ok /\ fs[j].agents # <<>>
\* Port 0 of the first in each list, and all lists one after the other.
Ends(fs) == [j \in 1..Len(fs) |-> Port(fs[j].agents[1].id, 0)]
Combined(lists) == FlattenSeq(lists)
FedLists(fs, ports) == [j \in 1..Len(fs) |-> Feed(fs[j].agents, ports)]

HasElse(p) == \E k \in 1..Len(p.branches) : p.branches[k].else
Expressions(p) == 0..(IF HasElse(p) THEN Len(p.branches) - 1 ELSE Len(p.branches))
\* buildWhenBranch: port k - 1 for branch k, one more when there is no else.
WhenBranch(p, id, section) ==
  LET Plugins(k) == IF section = "filter" THEN InTurn(p.branches[k].plugins, id, <<"if", k>>, <<Port(id, k - 1)>>)
                                          ELSE InParallel(p.branches[k].plugins, id, <<"if", k>>, <<Port(id, k - 1)>>)
      After(acc, b) == [Then(acc, b) EXCEPT !.out = b.out \o acc.out]
      all == FoldLeftDomain(LAMBDA acc, k : After(acc, Plugins(k)), Got(<<>>, <<>>), p.branches)
  IN IF HasElse(p) THEN all ELSE [all EXCEPT !.out = <<Port(id, Len(p.branches))>> \o @]

\* buildFilterAgents; a route takes the outputs of its files too.
Filter(p, id, ports) ==
  IF p.kind = "plain" THEN Got(<<NewAgent(id, ports, {0})>>, <<Port(id, 0)>>)
  ELSE IF p.kind = "if" THEN LET w == WhenBranch(p, id, "filter")
                             IN [w EXCEPT !.agents = <<NewAgent(id, ports, Expressions(p))>> \o @]
  ELSE LET fs == Used(p, id, IF p.kind = "route" THEN {"filter", "output"} ELSE {"filter"})
           Routed(j) == [fs[j].agents EXCEPT ![1].sources = Append(@, Port(id, 0))]
       IN CASE ~NoneEmpty(fs) -> Panic
            [] p.kind = "use" -> Got(Feed(fs[1].agents, ports), Ends(fs))
            [] p.kind = "use list" -> Got(<<NewAgent(id, Ends(fs), {0})>> \o Combined(FedLists(fs, ports)), <<Port(id, 0)>>)
            [] p.kind = "route" -> Got(Append(Combined([j \in 1..Len(fs) |-> Routed(j)]), NewAgent(id, ports, {0, 1})), <<Port(id, 1)>>)

\* buildOutputAgents; a used file's agents are added, not the `use` itself.
Output(p, id, ports) ==
  CASE p.kind = "plain" -> Got(<<NewAgent(id, ports, {0})>>, <<>>)
    [] p.kind = "if" -> LET w == WhenBranch(p, id, "output")
                        IN [w EXCEPT !.agents = <<NewAgent(id, ports, Expressions(p))>> \o @]
    [] p.kind \in {"use", "use list"} ->
         LET fs == Used(p, id, {"filter", "output"})
         IN IF NoneEmpty(fs) THEN Got(Combined(FedLists(fs, ports)), <<>>) ELSE Panic

\* buildInputAgents.
Input(p, id) ==
  IF p.kind = "plain" THEN Got(<<NewAgent(id, <<>>, {0})>>, <<Port(id, 0)>>)
  ELSE LET fs == Used(p, id, {"input", "filter"})
       IN IF ~NoneEmpty(fs) THEN Panic
          ELSE Got(<<NewAgent(id, Ends(fs), {0})>> \o Combined([j \in 1..Len(fs) |-> fs[j].agents]), <<Port(id, 0)>>)

Inputs(c, id) == FoldLeftDomain(LAMBDA acc, i : Beside(acc, Input(c.input[i], At(id, "input", i))), Got(<<>>, <<>>), c.input)

\* buildAgents, with pickSections.
BuildAgents(c, id, sections) ==
  LET ins == IF "input" \in sections THEN Inputs(c, id) ELSE Got(<<>>, <<>>)
      fils == IF "filter" \in sections THEN Then(ins, InTurn(c.filter, id, "filter", ins.out)) ELSE ins
  IN IF "output" \in sections THEN Then(fils, InParallel(c.output, id, "output", fils.out)) ELSE fils

PBInit == config \in Configs /\ built = Got(<<>>, <<>>)
Build == built.agents = <<>> /\ built' = BuildAgents(config, <<>>, Sections) /\ UNCHANGED config
PBNext == Build
PBSpec == PBInit /\ [][PBNext]_pbVars
-----------------------------------------------------------------------------
(* The trips of an event through the agents that were built: from an agent *)
(* without sources, leaving each by one port for one of those that listen. *)
RECURSIVE TripsFrom(_, _)
TripsFrom(agents, a) ==
  UNION {LET next == {b \in Range(agents) : Port(a.id, n) \in Range(b.sources)}
         IN IF next = {} THEN {<<a.id>>} ELSE {<<a.id>> \o t : t \in UNION {TripsFrom(agents, b) : b \in next}}
         : n \in a.ports}
Trips(agents) == UNION {TripsFrom(agents, a) : a \in {b \in Range(agents) : b.sources = <<>>}}

(* The trips as the configuration reads: a trip goes on or has ended.      *)
Trip(path, on) == [path |-> path, on |-> on]
Join(ts, us) == {t \in ts : ~t.on} \cup {Trip(t.path \o u.path, u.on) : t \in {t \in ts : t.on}, u \in us}
Straight == {Trip(<<>>, TRUE)}
RECURSIVE Reads(_, _, _)
ReadTurn(plugins, id, tag) ==
  FoldLeftDomain(LAMBDA ts, i : Join(ts, Reads(plugins[i], At(id, tag, i), FALSE)), Straight, plugins)
ReadParallel(plugins, id, tag) ==
  IF plugins = <<>> THEN Straight ELSE UNION {Reads(plugins[i], At(id, tag, i), TRUE) : i \in 1..Len(plugins)}
ReadFile(file, id, isOutput) ==
  Join(ReadTurn(Files[file].filter, id, "filter"), IF isOutput THEN ReadParallel(Files[file].output, id, "output") ELSE Straight)
Reads(p, id, isOutput) ==
  LET self == {Trip(<<id>>, TRUE)}
      Body(k) == IF isOutput THEN ReadParallel(p.branches[k].plugins, id, <<"if", k>>)
                             ELSE ReadTurn(p.branches[k].plugins, id, <<"if", k>>)
      inFiles == UNION {ReadFile(p.files[j], At(id, "file", j), isOutput \/ p.kind = "route") : j \in 1..Len(p.files)}
  IN CASE p.kind = "plain" -> self
       [] p.kind = "if" -> Join(self, UNION {Body(k) : k \in 1..Len(p.branches)} \cup (IF HasElse(p) THEN {} ELSE Straight))
       [] p.kind = "use" \/ isOutput -> inFiles
       [] p.kind = "use list" -> Join(inFiles, self)
       [] p.kind = "route" -> self \cup {Trip(<<id>> \o t.path, FALSE) : t \in inFiles}
ReadInput(p, id) ==
  IF p.kind = "plain" THEN {Trip(<<id>>, TRUE)}
  ELSE Join(UNION {LET c == Files[p.files[j]]
                       from == At(id, "file", j)
                   IN Join({Trip(<<At(from, "input", i)>>, TRUE) : i \in 1..Len(c.input)}, ReadTurn(c.filter, from, "filter"))
                   : j \in 1..Len(p.files)}, {Trip(<<id>>, TRUE)})
Written(c) ==
  {t.path : t \in Join(Join(UNION {ReadInput(c.input[i], At(<<>>, "input", i)) : i \in 1..Len(c.input)},
                           ReadTurn(c.filter, <<>>, "filter")), ReadParallel(c.output, <<>>, "output"))}

\* An event can take exactly the trips the configuration describes: each filter
\* is fed by what comes before it, each branch by its condition, all branches
\* lead on, and a used file's plugins stand where it is used: "pass the event to
\* the first filter plugin found in the used configuration file", "receive events
\* from the last filter plugin found" (processors/use/use.go:6).
TripsAsWritten == built.agents # <<>> => Trips(built.agents) = Written(config)
=============================================================================
