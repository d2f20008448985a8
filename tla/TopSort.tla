------------------------------ MODULE TopSort -------------------------------
(***************************************************************************)
(* The ordering of a pipeline's agents: topSortDFS of core/graph.go and    *)
(* Sort of core/util.go.  The recursion of `visit` is an explicit stack;   *)
(* the iteration order of the Go map `g` is the choice of a root.  One     *)
(* behaviour sorts one graph, chosen in the initial state.                 *)
(***************************************************************************)
EXTENDS Integers, Sequences, FiniteSets

CONSTANTS Agents,      \* agent IDs
          MaxSources   \* bound: sources of one agent

ASSUME TopSortAssumption == IsFiniteSet(Agents) /\ MaxSources \in Nat

VARIABLES
  sources,  \* the graph: sources[a] lists the agents a takes events from
  stack,    \* frames of visit: the node and the index of its next source
  temp,     \* nodes being visited
  perm,     \* nodes already placed
  order,    \* the filled suffix of L
  cyclic,   \* nodes collected while unwinding from a cycle
  cycleStart, \* {} or the singleton of the node that closes the cycle
  status    \* "run", "unwind" (cycleFound), "sorted" or "cyclic"

vars == <<sources, stack, temp, perm, order, cyclic, cycleStart, status>>

SourceLists == UNION {[1..m -> Agents] : m \in 0..MaxSources}
Frame == [node : Agents, next : Nat \ {0}]

Init ==
  /\ sources \in [Agents -> SourceLists]
  /\ stack = <<>> /\ temp = {} /\ perm = {} /\ order = <<>>
  /\ cyclic = <<>> /\ cycleStart = {}
  /\ status = "run"

Top == stack[Len(stack)]
Below == SubSeq(stack, 1, Len(stack) - 1)
AtSource == sources[Top.node][Top.next]
Enter(n) == [node |-> n, next |-> 1]

\* The range over g picks a node that is not placed yet and visits it.
PickRoot ==
  /\ status = "run" /\ stack = <<>>
  /\ \E n \in Agents \ perm :
       stack' = <<Enter(n)>> /\ temp' = {n}
  /\ UNCHANGED <<sources, perm, order, cyclic, cycleStart, status>>

\* visit(m) of the next source m, when it returns at once or goes deeper.
SkipPlaced ==
  /\ status = "run" /\ stack # <<>>
  /\ Top.next <= Len(sources[Top.node])
  /\ AtSource \notin temp /\ AtSource \in perm
  /\ stack' = Append(Below, [Top EXCEPT !.next = @ + 1])
  /\ UNCHANGED <<sources, temp, perm, order, cyclic, cycleStart, status>>

Descend ==
  /\ status = "run" /\ stack # <<>>
  /\ Top.next <= Len(sources[Top.node])
  /\ AtSource \notin temp /\ AtSource \notin perm
  /\ stack' = Append(stack, Enter(AtSource))
  /\ temp' = temp \cup {AtSource}
  /\ UNCHANGED <<sources, perm, order, cyclic, cycleStart, status>>

FindCycle ==
  /\ status = "run" /\ stack # <<>>
  /\ Top.next <= Len(sources[Top.node])
  /\ AtSource \in temp
  /\ status' = "unwind" /\ cycleStart' = {AtSource}
  /\ UNCHANGED <<sources, stack, temp, perm, order, cyclic>>

\* All sources are placed: the node goes in front of them, and its caller
\* moves on to its next source.
Leave(newOrder, placed) ==
  /\ status = "run" /\ stack # <<>>
  /\ Top.next > Len(sources[Top.node])
  /\ temp' = temp \ {Top.node}
  /\ perm' = perm \cup placed
  /\ order' = newOrder
  /\ stack' = IF Below = <<>> THEN <<>>
              ELSE [Below EXCEPT ![Len(Below)].next = @ + 1]
  /\ UNCHANGED <<sources, cyclic, cycleStart, status>>

\* Mutants: L is filled from the front; a placed node is not marked permanent.
Place_AtEnd == stack # <<>> /\ Leave(Append(order, Top.node), {Top.node})
Place_Unmarked == stack # <<>> /\ Leave(order, {})
Place == stack # <<>> /\ Leave(<<Top.node>> \o order, {Top.node})

\* The calls of visit return one after the other, the nodes of the cycle
\* being collected until the one that closes it.
UnwindWith(collect, reset) ==
  /\ status = "unwind" /\ stack # <<>>
  /\ cyclic' = IF collect THEN Append(cyclic, Top.node) ELSE cyclic
  /\ cycleStart' = IF reset THEN {} ELSE cycleStart
  /\ stack' = Below
  /\ UNCHANGED <<sources, temp, perm, order, status>>

\* Mutant: cycleStart is not reset, the path into the cycle is collected too.
Unwind_NoReset == UnwindWith(TRUE, FALSE)
Unwind == stack # <<>> /\ UnwindWith(cycleStart # {}, Top.node \in cycleStart)

Return ==
  /\ stack = <<>>
  /\ \/ status = "run" /\ perm = Agents /\ status' = "sorted"
     \/ status = "unwind" /\ status' = "cyclic"
  /\ UNCHANGED <<sources, stack, temp, perm, order, cyclic, cycleStart>>

Done == status \in {"sorted", "cyclic"} /\ UNCHANGED vars

Next == PickRoot \/ SkipPlaced \/ Descend \/ FindCycle \/ Place \/ Unwind \/ Return \/ Done

Spec == Init /\ [][Next]_vars
FairSpec == Spec /\ WF_vars(Next)

\* Sort: the agents in SortOutputsFirst and, reversed, SortInputsFirst order;
\* topSortDFS returns nil, hence no agent at all, when it met a cycle.
Reversed(s) == [i \in 1..Len(s) |-> s[Len(s) + 1 - i]]
OutputsFirst == IF status = "sorted" THEN order ELSE <<>>
InputsFirst == Reversed(OutputsFirst)
-----------------------------------------------------------------------------
SourceOf(a, b) == \E i \in DOMAIN sources[b] : sources[b][i] = a

TypeOK ==
  /\ sources \in [Agents -> SourceLists]
  /\ stack \in Seq(Frame)
  /\ temp \subseteq Agents /\ perm \subseteq Agents
  /\ order \in Seq(Agents) /\ cyclic \in Seq(Agents)
  /\ cycleStart \subseteq Agents
  /\ status \in {"run", "unwind", "sorted", "cyclic"}

\* When sorting succeeds every agent is listed exactly once, and an agent
\* comes after everything it takes events from in SortInputsFirst order.
\* AgentRuntime's OrderAssumption is this property.
SortedIsTopological ==
  status = "sorted" =>
    /\ \A a \in Agents : \E i \in DOMAIN InputsFirst : InputsFirst[i] = a
    /\ Len(InputsFirst) = Len(OutputsFirst)
    /\ \A i, j \in DOMAIN InputsFirst :
         /\ InputsFirst[i] = InputsFirst[j] => i = j
         /\ SourceOf(InputsFirst[i], InputsFirst[j]) => i < j

\* A graph is reported cyclic only if it is: what `cyclic` collects is a cycle,
\* listed from a node to the source that closes it.
CyclicIsACycle ==
  status = "cyclic" =>
    /\ cyclic # <<>>
    /\ \A i \in DOMAIN cyclic :
         SourceOf(cyclic[i], cyclic[IF i = Len(cyclic) THEN 1 ELSE i + 1])

\* Sorting ends.
Terminates == <>(status \in {"sorted", "cyclic"})
=============================================================================
