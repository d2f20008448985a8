---------------------------- MODULE TopSortProofs ---------------------------
(***************************************************************************)
(* What topSortDFS returns, for any finite graph: a topological order of   *)
(* all agents, or a cycle of the graph.  The invariant says what the call  *)
(* stack of `visit` means: it is a path against the edges, whose nodes are *)
(* not placed yet and whose sources before the current one are.            *)
(***************************************************************************)
EXTENDS TopSort, SequenceTheorems, TLAPS

Depth == 1..Len(stack)
NodeAt(k) == stack[k].node

\* Each frame waits for the visit of the source the next frame is about.
StackIsAPath ==
  \A k \in Depth : k + 1 \in Depth =>
    /\ stack[k].next \in DOMAIN sources[NodeAt(k)]
    /\ sources[NodeAt(k)][stack[k].next] = NodeAt(k + 1)

\* The nodes being visited are those on the stack, each once and none placed.
StackIsTemp ==
  status = "run" =>
    /\ \A k \in Depth : NodeAt(k) \in temp /\ NodeAt(k) \notin perm
    /\ \A k, l \in Depth : NodeAt(k) = NodeAt(l) => k = l
    /\ \A a \in temp : \E k \in Depth : NodeAt(k) = a

\* A frame has got past its placed sources only.
PassedArePlaced ==
  status = "run" =>
    \A k \in Depth : \A p \in DOMAIN sources[NodeAt(k)] :
      p < stack[k].next => sources[NodeAt(k)][p] \in perm

\* The suffix of L filled so far: the placed nodes, each once, and each ahead
\* of the agents it takes events from.
OrderIsPerm ==
  /\ \A a \in perm : \E i \in 1..Len(order) : order[i] = a
  /\ \A i \in 1..Len(order) : order[i] \in perm
  /\ \A i, j \in 1..Len(order) : order[i] = order[j] => i = j
SourcesBehind ==
  \A i \in 1..Len(order) : \A a \in Agents :
    SourceOf(a, order[i]) => \E j \in 1..Len(order) : order[j] = a /\ i < j
AllPlaced == status = "sorted" => perm = Agents

\* While unwinding, `cyclic` is a path that the rest of the stack continues to
\* the node that closes it.
Linked == \A i \in 1..Len(cyclic) - 1 : SourceOf(cyclic[i], cyclic[i + 1])
Unwinding ==
  /\ status = "run" => cyclic = <<>> /\ cycleStart = {}
  /\ Linked
  /\ status = "unwind" /\ cycleStart # {} =>
       \E c \in Agents :
         /\ cycleStart = {c}
         /\ \E k \in Depth : NodeAt(k) = c
         /\ cyclic = <<>> => SourceOf(c, NodeAt(Len(stack)))
         /\ cyclic # <<>> => /\ SourceOf(c, cyclic[1])
                             /\ SourceOf(cyclic[Len(cyclic)], NodeAt(Len(stack)))
  /\ status \in {"unwind", "cyclic"} /\ cycleStart = {} =>
       cyclic # <<>> /\ SourceOf(cyclic[Len(cyclic)], cyclic[1])
  /\ status = "cyclic" => cycleStart = {}

IInv == /\ TypeOK
        /\ StackIsAPath /\ StackIsTemp /\ PassedArePlaced
        /\ OrderIsPerm /\ SourcesBehind /\ AllPlaced
        /\ Unwinding
-----------------------------------------------------------------------------
LEMMA SourcesAreSeqs ==
  ASSUME TypeOK PROVE \A a \in Agents : sources[a] \in Seq(Agents)
<1> SUFFICES ASSUME NEW a \in Agents PROVE sources[a] \in Seq(Agents)
  OBVIOUS
<1>1. sources[a] \in SourceLists BY DEF TypeOK
<1>2. PICK m \in 0..MaxSources : sources[a] \in [1..m -> Agents]
  BY <1>1, Zenon DEF SourceLists
<1>3. m \in Nat BY TopSortAssumption
<1> QED BY <1>2, <1>3, SeqDef

\* What is left of the stack when its top frame returns.
LEMMA BelowFacts ==
  ASSUME stack \in Seq(Frame), stack # <<>>
  PROVE /\ Len(stack) \in Nat \ {0}
        /\ Below \in Seq(Frame)
        /\ Len(Below) = Len(stack) - 1
        /\ \A k \in 1..Len(stack) - 1 : Below[k] = stack[k]
        /\ Top \in Frame
<1>1. Len(stack) \in Nat \ {0} BY EmptySeq, LenProperties
<1> DEFINE n == Len(stack) - 1
<1>a. n \in Nat /\ \A i \in 1..n : i \in 1..Len(stack) BY <1>1
<1>b. \A i \in 1..n : stack[i] \in Frame BY <1>a, ElementOfSeq
<1> HIDE DEF n
<1>c. /\ SubSeq(stack, 1, n) \in Seq(Frame)
      /\ Len(SubSeq(stack, 1, n)) = IF 1 <= n THEN n - 1 + 1 ELSE 0
      /\ \A i \in 1..n - 1 + 1 : SubSeq(stack, 1, n)[i] = stack[1 + i - 1]
  BY <1>a, <1>b, SubSeqProperties
<1>d. /\ SubSeq(stack, 1, n) \in Seq(Frame)
      /\ Len(SubSeq(stack, 1, n)) = n
      /\ \A i \in 1..n : SubSeq(stack, 1, n)[i] = stack[i]
  BY <1>a, <1>c
<1>2. /\ Below \in Seq(Frame) /\ Len(Below) = Len(stack) - 1
      /\ \A k \in 1..Len(stack) - 1 : Below[k] = stack[k]
  BY <1>d DEF Below, n
<1>3. Top \in Frame BY <1>1, ElementOfSeq DEF Top
<1> QED BY <1>1, <1>2, <1>3

\* The steps that change the stack, frame by frame.
LEMMA SkipStack ==
  ASSUME TypeOK, SkipPlaced
  PROVE /\ stack' \in Seq(Frame) /\ Len(stack') = Len(stack)
        /\ \A k \in 1..Len(stack) : stack'[k].node = stack[k].node
        /\ \A k \in 1..Len(stack) - 1 : stack'[k] = stack[k]
        /\ stack'[Len(stack)].next = Top.next + 1
<1> DEFINE F == [Top EXCEPT !.next = @ + 1]
<1>1. stack \in Seq(Frame) /\ stack # <<>> /\ stack' = Append(Below, F)
  BY DEF TypeOK, SkipPlaced
<1>2. F \in Frame /\ F.node = Top.node /\ F.next = Top.next + 1
  BY <1>1, BelowFacts DEF Frame
<1> HIDE DEF F
<1>3. /\ stack' \in Seq(Frame) /\ Len(stack') = Len(Below) + 1
      /\ \A k \in 1..Len(Below) : stack'[k] = Below[k]
      /\ stack'[Len(Below) + 1] = F
  BY <1>1, <1>2, BelowFacts, AppendProperties
<1> QED BY <1>1, <1>2, <1>3, BelowFacts DEF Top

LEMMA PlaceStack ==
  ASSUME TypeOK, Place
  PROVE /\ stack' \in Seq(Frame) /\ Len(stack') = Len(stack) - 1
        /\ \A k \in 1..Len(stack) - 1 : stack'[k].node = stack[k].node
        /\ \A k \in 1..Len(stack) - 1 :
             stack'[k].next = IF k = Len(stack) - 1 THEN stack[k].next + 1 ELSE stack[k].next
<1>1. /\ stack \in Seq(Frame) /\ stack # <<>>
      /\ stack' = IF Below = <<>> THEN <<>> ELSE [Below EXCEPT ![Len(Below)].next = @ + 1]
  BY DEF TypeOK, Place, Leave
<1>2. CASE Below = <<>>
  <2>1. Len(stack) - 1 = 0 BY <1>1, <1>2, BelowFacts, EmptySeq
  <2>2. stack' = <<>> BY <1>1, <1>2
  <2>3. stack' \in Seq(Frame) /\ Len(stack') = 0 BY <2>2, EmptySeq
  <2>4. \A k \in 1..0 : FALSE OBVIOUS
  <2> QED BY <2>1, <2>3, <2>4
<1>3. CASE Below # <<>>
  <2> DEFINE n == Len(Below)
             F == [Below[n] EXCEPT !.next = @ + 1]
  <2>1. n \in 1..Len(Below) /\ Below[n] \in Frame
    BY <1>1, <1>3, BelowFacts, EmptySeq, LenProperties, ElementOfSeq
  <2>2. F \in Frame /\ F.node = Below[n].node /\ F.next = Below[n].next + 1
    BY <2>1 DEF Frame
  <2>3. stack' = [Below EXCEPT ![n] = F] BY <1>1, <1>3
  <2>4. Below \in Seq(Frame) BY <1>1, BelowFacts
  <2> HIDE DEF F, n
  <2>5. /\ [Below EXCEPT ![n] = F] \in Seq(Frame)
        /\ Len([Below EXCEPT ![n] = F]) = Len(Below)
        /\ \A k \in 1..Len(Below) : [Below EXCEPT ![n] = F][k] = IF k = n THEN F ELSE Below[k]
    BY <2>1, <2>2, <2>4, ExceptSeq
  <2>6. n = Len(Below) BY DEF n
  <2> QED BY <1>1, <2>1, <2>2, <2>3, <2>5, <2>6, BelowFacts
<1> QED BY <1>2, <1>3
-----------------------------------------------------------------------------
LEMMA InitHolds == ASSUME Init PROVE IInv
<1> USE DEF Init
<1>1. stack = <<>> /\ order = <<>> /\ cyclic = <<>> OBVIOUS
<1>2. \A S : <<>> \in Seq(S) BY EmptySeq
<1>3. TypeOK BY <1>1, <1>2 DEF TypeOK
<1>4. StackIsAPath /\ StackIsTemp /\ PassedArePlaced
  BY <1>1 DEF StackIsAPath, StackIsTemp, PassedArePlaced, Depth
<1>5. OrderIsPerm /\ SourcesBehind /\ AllPlaced
  BY <1>1 DEF OrderIsPerm, SourcesBehind, AllPlaced
<1>6. Unwinding BY <1>1 DEF Unwinding, Linked
<1> QED BY <1>3, <1>4, <1>5, <1>6 DEF IInv

-----------------------------------------------------------------------------
\* The range over g visits a first node.
LEMMA PickRootStep == ASSUME IInv, PickRoot PROVE IInv'
<1>1. PICK n \in Agents \ perm : stack' = <<Enter(n)>> /\ temp' = {n}
  BY DEF PickRoot
<1>2. Enter(n) \in Frame /\ Enter(n).node = n /\ Enter(n).next = 1
  BY <1>1 DEF Enter, Frame
<1>3. /\ stack' \in Seq(Frame) /\ Len(stack') = 1 /\ stack'[1] = Enter(n)
  BY <1>1, <1>2
<1>4. /\ status = "run" /\ UNCHANGED <<sources, perm, order, cyclic, cycleStart, status>>
  BY DEF PickRoot
<1>5. TypeOK' BY <1>1, <1>3, <1>4 DEF IInv, TypeOK
<1>6. Depth' = {1} BY <1>3 DEF Depth
<1>7. StackIsAPath' BY <1>6 DEF StackIsAPath
<1>8. StackIsTemp' BY <1>1, <1>2, <1>3, <1>4, <1>6 DEF StackIsTemp, NodeAt
<1>9. PassedArePlaced'
  <2>1. sources[n] \in Seq(Agents) BY <1>1, SourcesAreSeqs DEF IInv
  <2>2. \A p \in DOMAIN sources[n] : p \in Nat \ {0} BY <2>1, LenProperties
  <2> QED BY <1>2, <1>3, <1>4, <1>6, <2>2 DEF PassedArePlaced, NodeAt
<1>10. OrderIsPerm' /\ SourcesBehind' /\ AllPlaced'
  BY <1>4 DEF IInv, OrderIsPerm, SourcesBehind, AllPlaced, SourceOf
<1>11. Unwinding' BY <1>4 DEF IInv, Unwinding, Linked, SourceOf
<1> QED BY <1>5, <1>7, <1>8, <1>9, <1>10, <1>11 DEF IInv

\* A source that is placed already is passed.
LEMMA SkipPlacedStep == ASSUME IInv, SkipPlaced PROVE IInv'
<1>1. TypeOK /\ stack \in Seq(Frame) /\ stack # <<>> BY DEF IInv, TypeOK, SkipPlaced
<1>2. /\ stack' \in Seq(Frame) /\ Len(stack') = Len(stack)
      /\ \A k \in 1..Len(stack) : stack'[k].node = stack[k].node
      /\ \A k \in 1..Len(stack) - 1 : stack'[k] = stack[k]
      /\ stack'[Len(stack)].next = Top.next + 1
  BY <1>1, SkipStack
<1>3. /\ Len(stack) \in Nat \ {0} /\ Top \in Frame BY <1>1, BelowFacts
<1>4. /\ status = "run" /\ AtSource \in perm
      /\ UNCHANGED <<sources, temp, perm, order, cyclic, cycleStart, status>>
  BY DEF SkipPlaced
<1>5. TypeOK' BY <1>1, <1>2, <1>4 DEF TypeOK
<1>6. Depth' = Depth BY <1>2 DEF Depth
<1>7. StackIsAPath'
  <2>1. \A k \in Depth : k + 1 \in Depth => k \in 1..Len(stack) - 1 BY <1>3 DEF Depth
  <2> QED BY <1>2, <1>4, <1>6, <2>1 DEF IInv, StackIsAPath, NodeAt, Depth
<1>8. StackIsTemp' BY <1>2, <1>4, <1>6 DEF IInv, StackIsTemp, NodeAt, Depth
<1>9. PassedArePlaced'
  <2> SUFFICES ASSUME NEW k \in Depth, NEW p \in DOMAIN sources[NodeAt(k)],
                      p < stack'[k].next
               PROVE sources[NodeAt(k)][p] \in perm
    BY <1>2, <1>4, <1>6 DEF PassedArePlaced, NodeAt, Depth
  <2>1. CASE k # Len(stack)
    <3>1. k \in 1..Len(stack) - 1 BY <1>3, <2>1 DEF Depth
    <3> QED BY <1>2, <1>4, <3>1 DEF IInv, PassedArePlaced
  <2>2. CASE k = Len(stack)
    <3>1. Top.node \in Agents /\ Top.next \in Nat /\ NodeAt(k) = Top.node
      BY <1>3, <2>2 DEF Frame, NodeAt, Top
    <3>2. p \in Nat BY <1>1, <3>1, SourcesAreSeqs, LenProperties
    <3>3. CASE p = Top.next BY <1>4, <3>1, <3>3 DEF AtSource
    <3>4. CASE p # Top.next
      <4>1. p < stack[k].next BY <1>2, <2>2, <3>1, <3>2, <3>4 DEF Top
      <4> QED BY <1>4, <4>1 DEF IInv, PassedArePlaced
    <3> QED BY <3>3, <3>4
  <2> QED BY <2>1, <2>2
<1>10. OrderIsPerm' /\ SourcesBehind' /\ AllPlaced'
  BY <1>4 DEF IInv, OrderIsPerm, SourcesBehind, AllPlaced, SourceOf
<1>11. Unwinding' BY <1>4 DEF IInv, Unwinding, Linked, SourceOf
<1> QED BY <1>5, <1>7, <1>8, <1>9, <1>10, <1>11 DEF IInv

\* visit of a source that is neither placed nor being visited.
LEMMA DescendStep == ASSUME IInv, Descend PROVE IInv'
<1>1. TypeOK /\ stack \in Seq(Frame) /\ stack # <<>> BY DEF IInv, TypeOK, Descend
<1>2. /\ Len(stack) \in Nat \ {0} /\ Top \in Frame
      /\ Top.node \in Agents /\ Top.next \in Nat \ {0}
  BY <1>1, BelowFacts DEF Frame
<1>3. /\ status = "run" /\ AtSource \notin temp /\ AtSource \notin perm
      /\ Top.next <= Len(sources[Top.node])
      /\ stack' = Append(stack, Enter(AtSource))
      /\ temp' = temp \cup {AtSource}
      /\ UNCHANGED <<sources, perm, order, cyclic, cycleStart, status>>
  BY DEF Descend
<1>4. /\ sources[Top.node] \in Seq(Agents) /\ Top.next \in DOMAIN sources[Top.node]
      /\ AtSource \in Agents
  <2>1. sources[Top.node] \in Seq(Agents) BY <1>1, <1>2, SourcesAreSeqs
  <2>2. Top.next \in 1..Len(sources[Top.node]) BY <1>2, <1>3, <2>1, LenProperties
  <2> QED BY <2>1, <2>2, LenProperties, ElementOfSeq DEF AtSource
<1>5. Enter(AtSource) \in Frame /\ Enter(AtSource).node = AtSource /\ Enter(AtSource).next = 1
  BY <1>4 DEF Enter, Frame
<1>6. /\ stack' \in Seq(Frame) /\ Len(stack') = Len(stack) + 1
      /\ \A k \in Depth : stack'[k] = stack[k]
      /\ stack'[Len(stack) + 1] = Enter(AtSource)
  BY <1>1, <1>3, <1>5, AppendProperties DEF Depth
<1>7. /\ Depth' = Depth \cup {Len(stack) + 1} /\ Len(stack) + 1 \notin Depth
      /\ Len(stack) \in Depth
  BY <1>2, <1>6 DEF Depth
<1>8. TypeOK' BY <1>1, <1>3, <1>4, <1>6 DEF TypeOK
<1>9. StackIsAPath'
  <2> SUFFICES ASSUME NEW k \in Depth', k + 1 \in Depth'
               PROVE /\ stack'[k].next \in DOMAIN sources[stack'[k].node]
                     /\ sources[stack'[k].node][stack'[k].next] = stack'[k + 1].node
    BY <1>3 DEF StackIsAPath, NodeAt
  <2>1. k \in Depth BY <1>2, <1>6 DEF Depth
  <2>2. CASE k = Len(stack) BY <1>4, <1>5, <1>6, <1>7, <2>2 DEF Top, AtSource
  <2>3. CASE k # Len(stack)
    <3>1. k + 1 \in Depth BY <1>2, <2>1, <2>3 DEF Depth
    <3> QED BY <1>6, <2>1, <3>1 DEF IInv, StackIsAPath, NodeAt
  <2> QED BY <2>2, <2>3
<1>a. /\ \A k \in Depth : stack'[k].node = NodeAt(k)
      /\ stack'[Len(stack) + 1].node = AtSource
  BY <1>5, <1>6 DEF NodeAt
<1>b. /\ \A k \in Depth : NodeAt(k) \in temp /\ NodeAt(k) \notin perm
      /\ \A k, l \in Depth : NodeAt(k) = NodeAt(l) => k = l
      /\ \A a \in temp : \E k \in Depth : NodeAt(k) = a
  BY <1>3 DEF IInv, StackIsTemp
<1>10. StackIsTemp'
  <2>1. \A k \in Depth' : stack'[k].node \in temp' /\ stack'[k].node \notin perm'
    BY <1>3, <1>7, <1>a, <1>b
  <2>2. ASSUME NEW k \in Depth', NEW l \in Depth', stack'[k].node = stack'[l].node
        PROVE k = l
    <3>1. CASE k \in Depth /\ l \in Depth BY <1>a, <1>b, <2>2, <3>1
    <3>2. CASE k \notin Depth /\ l \in Depth
      <4>1. k = Len(stack) + 1 BY <1>7, <3>2
      <4> QED BY <1>3, <1>a, <1>b, <2>2, <3>2, <4>1
    <3>3. CASE k \in Depth /\ l \notin Depth
      <4>1. stack'[l].node = AtSource BY <1>7, <1>a, <3>3
      <4>2. stack'[k].node \in temp BY <1>a, <1>b, <3>3
      <4> QED BY <1>3, <2>2, <4>1, <4>2
    <3>4. CASE k \notin Depth /\ l \notin Depth BY <1>7, <3>4
    <3> QED BY <3>1, <3>2, <3>3, <3>4
  <2>3. ASSUME NEW a \in temp' PROVE \E k \in Depth' : stack'[k].node = a
    <3>1. CASE a \in temp
      <4>1. PICK k \in Depth : NodeAt(k) = a BY <1>b, <3>1
      <4>2. k \in Depth' /\ stack'[k].node = a BY <1>7, <1>a, <4>1
      <4> QED BY <4>2
    <3>2. CASE a = AtSource
      <4>1. Len(stack) + 1 \in Depth' BY <1>7
      <4> QED BY <1>a, <3>2, <4>1
    <3> QED BY <1>3, <3>1, <3>2
  <2> QED BY <2>1, <2>2, <2>3 DEF StackIsTemp, NodeAt
<1>11. PassedArePlaced'
  <2>1. \A p \in DOMAIN sources[AtSource] : p \in Nat \ {0}
    BY <1>1, <1>4, SourcesAreSeqs, LenProperties
  <2> SUFFICES ASSUME NEW k \in Depth', NEW p \in DOMAIN sources[stack'[k].node],
                      p < stack'[k].next
               PROVE sources[stack'[k].node][p] \in perm
    BY <1>3 DEF PassedArePlaced, NodeAt
  <2>2. CASE k \in Depth
    BY <1>3, <1>6, <1>a, <2>2 DEF IInv, PassedArePlaced
  <2>3. CASE k = Len(stack) + 1 BY <1>5, <1>6, <1>a, <2>1, <2>3
  <2> QED BY <1>7, <2>2, <2>3
<1>12. OrderIsPerm' /\ SourcesBehind' /\ AllPlaced'
  BY <1>3 DEF IInv, OrderIsPerm, SourcesBehind, AllPlaced, SourceOf
<1>13. Unwinding' BY <1>3 DEF IInv, Unwinding, Linked, SourceOf
<1> QED BY <1>8, <1>9, <1>10, <1>11, <1>12, <1>13 DEF IInv

\* All sources of the top node are placed: it goes in front of them.
LEMMA PlaceStep == ASSUME IInv, Place PROVE IInv'
<1>1. TypeOK /\ stack \in Seq(Frame) /\ stack # <<>> /\ order \in Seq(Agents)
  BY DEF IInv, TypeOK, Place
<1>2. /\ Len(stack) \in Nat \ {0} /\ Top \in Frame
      /\ Top.node \in Agents /\ Top.next \in Nat \ {0}
      /\ Len(order) \in Nat
  BY <1>1, BelowFacts, LenProperties DEF Frame
<1>3. /\ status = "run"
      /\ Top.next > Len(sources[Top.node])
      /\ temp' = temp \ {Top.node} /\ perm' = perm \cup {Top.node}
      /\ order' = <<Top.node>> \o order
      /\ UNCHANGED <<sources, cyclic, cycleStart, status>>
  BY DEF Place, Leave
<1>4. /\ stack' \in Seq(Frame) /\ Len(stack') = Len(stack) - 1
      /\ \A k \in Depth' : k \in Depth /\ k # Len(stack) /\ stack'[k].node = NodeAt(k)
      /\ \A k \in Depth' :
           stack'[k].next = IF k = Len(stack) - 1 THEN stack[k].next + 1 ELSE stack[k].next
  <2>1. /\ stack' \in Seq(Frame) /\ Len(stack') = Len(stack) - 1
        /\ \A k \in 1..Len(stack) - 1 : stack'[k].node = stack[k].node
        /\ \A k \in 1..Len(stack) - 1 :
             stack'[k].next = IF k = Len(stack) - 1 THEN stack[k].next + 1 ELSE stack[k].next
    BY <1>1, PlaceStack
  <2>2. Depth' = 1..Len(stack) - 1 BY <2>1 DEF Depth
  <2>3. \A k \in Depth' : k \in Depth /\ k # Len(stack)
    BY <1>2, <2>2 DEF Depth
  <2>4. QED BY <2>1, <2>2, <2>3 DEF NodeAt
<1>5. /\ Len(stack) \in Depth /\ NodeAt(Len(stack)) = Top.node
      /\ \A k \in Depth : k # Len(stack) => k \in Depth'
  BY <1>2, <1>4 DEF Depth, NodeAt, Top
<1>6. /\ \A k \in Depth : NodeAt(k) \in temp /\ NodeAt(k) \notin perm
      /\ \A k, l \in Depth : NodeAt(k) = NodeAt(l) => k = l
      /\ \A a \in temp : \E k \in Depth : NodeAt(k) = a
  BY <1>3 DEF IInv, StackIsTemp
<1>7. /\ order' \in Seq(Agents) /\ Len(order') = Len(order) + 1
      /\ order'[1] = Top.node
      /\ \A i \in 1..Len(order) : order'[i + 1] = order[i]
  <2>1. <<Top.node>> \in Seq(Agents) /\ Len(<<Top.node>>) = 1 /\ <<Top.node>>[1] = Top.node
    BY <1>2
  <2> DEFINE S1 == <<Top.node>>
  <2> HIDE DEF S1
  <2>2. /\ S1 \o order \in Seq(Agents)
        /\ Len(S1 \o order) = Len(S1) + Len(order)
        /\ \A i \in 1..Len(S1) + Len(order) :
             (S1 \o order)[i] = IF i <= Len(S1) THEN S1[i] ELSE order[i - Len(S1)]
    BY <1>1, <2>1, ConcatProperties DEF S1
  <2>3. /\ order' = S1 \o order /\ Len(S1) = 1 /\ S1[1] = Top.node
    BY <1>3, <2>1 DEF S1
  <2> QED BY <1>2, <2>2, <2>3
<1>8. TypeOK' BY <1>1, <1>2, <1>3, <1>4, <1>7 DEF TypeOK
<1>9. StackIsAPath'
  <2> SUFFICES ASSUME NEW k \in Depth', k + 1 \in Depth'
               PROVE /\ stack'[k].next \in DOMAIN sources[stack'[k].node]
                     /\ sources[stack'[k].node][stack'[k].next] = stack'[k + 1].node
    BY <1>3 DEF StackIsAPath, NodeAt
  <2>1. stack'[k].next = stack[k].next BY <1>2, <1>4 DEF Depth
  <2> QED BY <1>4, <2>1 DEF IInv, StackIsAPath, NodeAt
<1>10. StackIsTemp'
  <2>1. \A k \in Depth' : stack'[k].node \in temp' /\ stack'[k].node \notin perm'
    BY <1>3, <1>4, <1>5, <1>6
  <2>2. \A k, l \in Depth' : stack'[k].node = stack'[l].node => k = l
    BY <1>4, <1>6
  <2>3. \A a \in temp' : \E k \in Depth' : stack'[k].node = a
    BY <1>3, <1>4, <1>5, <1>6
  <2> QED BY <2>1, <2>2, <2>3 DEF StackIsTemp, NodeAt
<1>11. PassedArePlaced'
  <2> SUFFICES ASSUME NEW k \in Depth', NEW p \in DOMAIN sources[NodeAt(k)],
                      p < stack'[k].next
               PROVE sources[NodeAt(k)][p] \in perm'
    BY <1>3, <1>4 DEF PassedArePlaced, NodeAt
  <2>1. k \in Depth /\ stack[k] \in Frame BY <1>1, <1>4, ElementOfSeq DEF Depth
  <2>2. p \in Nat BY <1>1, <2>1, SourcesAreSeqs, LenProperties DEF Frame, NodeAt
  <2>3. CASE p < stack[k].next BY <1>3, <2>1, <2>3 DEF IInv, PassedArePlaced
  <2>4. CASE ~(p < stack[k].next)
    <3>1. k = Len(stack) - 1 /\ p = stack[k].next
      BY <1>4, <2>1, <2>2, <2>4 DEF Frame
    <3>2. k + 1 = Len(stack) /\ k + 1 \in Depth BY <1>2, <3>1, <1>5
    <3>3. sources[NodeAt(k)][p] = NodeAt(k + 1)
      BY <2>1, <3>1, <3>2 DEF IInv, StackIsAPath
    <3> QED BY <1>3, <1>5, <3>2, <3>3
  <2> QED BY <2>3, <2>4
<1>12. OrderIsPerm'
  <2>1. \A i \in 1..Len(order') : i = 1 \/ i - 1 \in 1..Len(order)
    BY <1>2, <1>7
  <2>2. \A i \in 1..Len(order') : i # 1 => order'[i] = order[i - 1]
    BY <1>2, <1>7, <2>1
  <2>3. Top.node \notin perm BY <1>5, <1>6
  <2>4. \A a \in perm' : \E i \in 1..Len(order') : order'[i] = a
    <3> SUFFICES ASSUME NEW a \in perm' PROVE \E i \in 1..Len(order') : order'[i] = a
      OBVIOUS
    <3>1. CASE a = Top.node BY <1>2, <1>7, <3>1
    <3>2. CASE a \in perm
      <4>1. PICK i \in 1..Len(order) : order[i] = a BY <3>2 DEF IInv, OrderIsPerm
      <4>2. i + 1 \in 1..Len(order') BY <1>2, <1>7
      <4> QED BY <1>7, <4>1, <4>2
    <3> QED BY <1>3, <3>1, <3>2
  <2>5. \A i \in 1..Len(order') : order'[i] \in perm'
    BY <1>3, <1>7, <2>1, <2>2 DEF IInv, OrderIsPerm
  <2>6. ASSUME NEW i \in 1..Len(order'), NEW j \in 1..Len(order'), order'[i] = order'[j]
        PROVE i = j
    <3>1. CASE i = 1 \/ j = 1
      BY <1>7, <2>1, <2>2, <2>3, <2>6, <3>1 DEF IInv, OrderIsPerm
    <3>2. CASE i # 1 /\ j # 1
      <4> DEFINE i1 == i - 1  j1 == j - 1
      <4>a. i1 \in 1..Len(order) /\ j1 \in 1..Len(order) BY <2>1, <3>2
      <4>b. order[i1] = order[j1] BY <2>2, <2>6, <3>2
      <4>1. i1 = j1 BY <4>a, <4>b DEF IInv, OrderIsPerm
      <4> QED BY <1>2, <1>7, <4>1
    <3> QED BY <3>1, <3>2
  <2> QED BY <2>4, <2>5, <2>6 DEF OrderIsPerm
<1>13. SourcesBehind'
  <2> SUFFICES ASSUME NEW i \in 1..Len(order'), NEW a \in Agents, SourceOf(a, order'[i])
               PROVE \E j \in 1..Len(order') : order'[j] = a /\ i < j
    BY <1>3 DEF SourcesBehind, SourceOf
  <2>1. CASE i = 1
    <3>1. sources[Top.node] \in Seq(Agents) BY <1>1, <1>2, SourcesAreSeqs
    <3>2. PICK p \in DOMAIN sources[Top.node] : sources[Top.node][p] = a
      BY <1>7, <2>1 DEF SourceOf
    <3>3. p < Top.next BY <1>2, <1>3, <3>1, LenProperties
    <3>4. a \in perm BY <1>3, <1>5, <3>2, <3>3 DEF IInv, PassedArePlaced, Top
    <3>5. PICK j \in 1..Len(order) : order[j] = a BY <3>4 DEF IInv, OrderIsPerm
    <3>6. j + 1 \in 1..Len(order') /\ 1 < j + 1 BY <1>2, <1>7
    <3> QED BY <1>7, <2>1, <3>5, <3>6
  <2>2. CASE i # 1
    <3>1. i - 1 \in 1..Len(order) /\ order'[i] = order[i - 1] BY <1>2, <1>7, <2>2
    <3>2. PICK j \in 1..Len(order) : order[j] = a /\ i - 1 < j
      BY <3>1 DEF IInv, SourcesBehind
    <3>3. j + 1 \in 1..Len(order') /\ i < j + 1 BY <1>2, <1>7, <3>2
    <3> QED BY <1>7, <3>2, <3>3
  <2> QED BY <2>1, <2>2
<1>14. AllPlaced' BY <1>3 DEF AllPlaced
<1>15. Unwinding' BY <1>3 DEF IInv, Unwinding, Linked, SourceOf
<1> QED BY <1>8, <1>9, <1>10, <1>11, <1>12, <1>13, <1>14, <1>15 DEF IInv

\* The next source is being visited: it is on the stack, and the node asking
\* for it takes events from it.
LEMMA FindCycleStep == ASSUME IInv, FindCycle PROVE IInv'
<1>1. TypeOK /\ stack \in Seq(Frame) /\ stack # <<>> BY DEF IInv, TypeOK, FindCycle
<1>2. /\ Len(stack) \in Nat \ {0} /\ Top \in Frame
      /\ Top.node \in Agents /\ Top.next \in Nat \ {0}
  BY <1>1, BelowFacts DEF Frame
<1>3. /\ status = "run" /\ status' = "unwind" /\ AtSource \in temp
      /\ Top.next <= Len(sources[Top.node])
      /\ cycleStart' = {AtSource}
      /\ UNCHANGED <<sources, stack, temp, perm, order, cyclic>>
  BY DEF FindCycle
<1>4. AtSource \in Agents BY <1>1, <1>3 DEF TypeOK
<1>5. TypeOK' BY <1>1, <1>3, <1>4 DEF TypeOK
<1>6. StackIsAPath' BY <1>3 DEF IInv, StackIsAPath, Depth, NodeAt
<1>7. StackIsTemp' /\ PassedArePlaced' BY <1>3 DEF StackIsTemp, PassedArePlaced
<1>8. OrderIsPerm' /\ SourcesBehind' /\ AllPlaced'
  BY <1>3 DEF IInv, OrderIsPerm, SourcesBehind, AllPlaced, SourceOf
<1>9. Unwinding'
  <2>1. SourceOf(AtSource, NodeAt(Len(stack)))
    <3>1. Top.next \in DOMAIN sources[Top.node]
      BY <1>1, <1>2, <1>3, SourcesAreSeqs, LenProperties
    <3> QED BY <3>1 DEF SourceOf, AtSource, NodeAt, Top
  <2>2. PICK k \in Depth : NodeAt(k) = AtSource BY <1>3 DEF IInv, StackIsTemp
  <2>3. cyclic = <<>> BY <1>3 DEF IInv, Unwinding
  <2>4. Linked' BY <1>3 DEF IInv, Unwinding, Linked, SourceOf
  <2> HIDE DEF AtSource
  <2>5. \E c \in Agents :
         /\ cycleStart' = {c} /\ cyclic' = <<>>
         /\ \E l \in Depth' : NodeAt(l)' = c
         /\ SourceOf(c, NodeAt(Len(stack)))'
    <3>1. Depth' = Depth BY <1>3 DEF Depth
    <3>2. NodeAt(k)' = NodeAt(k) BY <1>3 DEF NodeAt
    <3>3. stack'[k].node = AtSource BY <2>2, <3>2 DEF NodeAt
    <3>4. \E i \in DOMAIN sources'[stack'[Len(stack')].node] :
            sources'[stack'[Len(stack')].node][i] = AtSource
      BY <1>3, <2>1 DEF SourceOf, NodeAt
    <3> QED BY <1>3, <1>4, <2>2, <2>3, <3>1, <3>3, <3>4 DEF SourceOf, NodeAt
  <2> QED BY <1>3, <2>4, <2>5 DEF Unwinding
<1> QED BY <1>5, <1>6, <1>7, <1>8, <1>9 DEF IInv

\* A call of visit returns from a cycle.
LEMMA UnwindStep == ASSUME IInv, Unwind PROVE IInv'
<1>1. /\ TypeOK /\ stack \in Seq(Frame) /\ stack # <<>> /\ cyclic \in Seq(Agents)
      /\ cycleStart \subseteq Agents
  BY DEF IInv, TypeOK, Unwind
<1>2. /\ Len(stack) \in Nat \ {0} /\ Top \in Frame /\ Top.node \in Agents
      /\ Len(cyclic) \in Nat
  BY <1>1, BelowFacts, LenProperties DEF Frame
<1>3. /\ status = "unwind" /\ stack' = Below
      /\ cyclic' = IF cycleStart # {} THEN Append(cyclic, Top.node) ELSE cyclic
      /\ cycleStart' = IF Top.node \in cycleStart THEN {} ELSE cycleStart
      /\ UNCHANGED <<sources, temp, perm, order, status>>
  BY DEF Unwind, UnwindWith
<1>4. /\ stack' \in Seq(Frame) /\ Len(stack') = Len(stack) - 1
      /\ Depth' = 1..Len(stack) - 1
      /\ \A k \in Depth' : k \in Depth /\ stack'[k] = stack[k]
  BY <1>1, <1>2, <1>3, BelowFacts DEF Depth
<1>5. /\ Append(cyclic, Top.node) \in Seq(Agents)
      /\ Len(Append(cyclic, Top.node)) = Len(cyclic) + 1
      /\ \A i \in 1..Len(cyclic) : Append(cyclic, Top.node)[i] = cyclic[i]
      /\ Append(cyclic, Top.node)[Len(cyclic) + 1] = Top.node
  BY <1>1, <1>2, AppendProperties
<1>6. TypeOK' BY <1>1, <1>3, <1>4, <1>5 DEF TypeOK
<1>7. StackIsAPath' BY <1>3, <1>4 DEF IInv, StackIsAPath, NodeAt
<1>8. StackIsTemp' /\ PassedArePlaced' BY <1>3 DEF StackIsTemp, PassedArePlaced
<1>9. OrderIsPerm' /\ SourcesBehind' /\ AllPlaced'
  BY <1>3 DEF IInv, OrderIsPerm, SourcesBehind, AllPlaced, SourceOf
<1>10. \A a, b : SourceOf(a, b)' <=> SourceOf(a, b) BY <1>3 DEF SourceOf
<1>11. Unwinding'
  <2>1. CASE cycleStart = {}
    <3>1. cyclic' = cyclic /\ cycleStart' = {} BY <1>3, <2>1
    <3>2. Linked' BY <1>3, <3>1 DEF IInv, Unwinding, Linked, SourceOf
    <3>3. cyclic # <<>> /\ SourceOf(cyclic[Len(cyclic)], cyclic[1])
      BY <1>3, <2>1 DEF IInv, Unwinding
    <3> QED BY <1>3, <3>1, <3>2, <3>3 DEF Unwinding, SourceOf
  <2>2. CASE cycleStart # {}
    <3>1. PICK c \in Agents :
            /\ cycleStart = {c}
            /\ \E k \in Depth : NodeAt(k) = c
            /\ cyclic = <<>> => SourceOf(c, NodeAt(Len(stack)))
            /\ cyclic # <<>> => /\ SourceOf(c, cyclic[1])
                                /\ SourceOf(cyclic[Len(cyclic)], NodeAt(Len(stack)))
      BY <1>3, <2>2 DEF IInv, Unwinding
    <3>2. NodeAt(Len(stack)) = Top.node BY DEF NodeAt, Top
    <3>3. /\ Len(cyclic') = Len(cyclic) + 1 /\ cyclic' # <<>>
          /\ \A i \in 1..Len(cyclic) : cyclic'[i] = cyclic[i]
          /\ cyclic'[Len(cyclic) + 1] = Top.node
      BY <1>2, <1>3, <1>5, <2>2, EmptySeq
    <3>4. cyclic # <<>> => Len(cyclic) \in 1..Len(cyclic) /\ 1 \in 1..Len(cyclic)
      BY <1>1, EmptySeq
    <3>5. SourceOf(c, cyclic'[1])
      <4>1. CASE cyclic = <<>>
        <5>1. Len(cyclic) = 0 BY <4>1, EmptySeq
        <5> QED BY <3>1, <3>2, <3>3, <4>1, <5>1
      <4>2. CASE cyclic # <<>> BY <3>1, <3>3, <3>4, <4>2
      <4> QED BY <4>1, <4>2
    <3>6. Linked'
      <4> SUFFICES ASSUME NEW i \in 1..Len(cyclic') - 1
                   PROVE SourceOf(cyclic'[i], cyclic'[i + 1])
        BY <1>3 DEF Linked, SourceOf
      <4>1. i \in 1..Len(cyclic) BY <1>2, <3>3
      <4>2. CASE i = Len(cyclic)
        <5>1. cyclic # <<>> BY <4>1, <4>2, EmptySeq
        <5> QED BY <3>1, <3>2, <3>3, <4>1, <4>2, <5>1
      <4>3. CASE i # Len(cyclic)
        <5>1. i \in 1..Len(cyclic) - 1 /\ i + 1 \in 1..Len(cyclic) BY <1>2, <4>1, <4>3
        <5>2. SourceOf(cyclic[i], cyclic[i + 1]) BY <5>1 DEF IInv, Unwinding, Linked
        <5> QED BY <3>3, <4>1, <5>1, <5>2
      <4> QED BY <4>2, <4>3
    <3>7. CASE Top.node = c
      <4>1. cycleStart' = {} BY <1>3, <3>1, <3>7
      <4>2. SourceOf(cyclic'[Len(cyclic')], cyclic'[1]) BY <3>3, <3>5, <3>7
      <4> QED BY <1>3, <3>3, <3>6, <4>1, <4>2 DEF Unwinding, SourceOf
    <3>8. CASE Top.node # c
      <4>1. cycleStart' = {c} BY <1>3, <3>1, <3>8
      <4>2. PICK k \in Depth : NodeAt(k) = c BY <3>1
      <4>3. k \in 1..Len(stack) - 1 BY <1>2, <3>2, <3>8, <4>2 DEF Depth
      <4>4. k \in Depth' /\ stack'[k].node = c BY <1>4, <4>2, <4>3 DEF NodeAt
      <4> DEFINE t == Len(stack) - 1
      <4>5. t \in Depth /\ t + 1 \in Depth /\ t + 1 = Len(stack) /\ t \in Depth'
        BY <1>2, <1>4, <4>3 DEF Depth
      <4>6. SourceOf(Top.node, NodeAt(t))
        BY <3>2, <4>5 DEF IInv, StackIsAPath, SourceOf
      <4>7. stack'[Len(stack')].node = NodeAt(t) BY <1>4, <4>5 DEF NodeAt
      <4>8. SourceOf(cyclic'[Len(cyclic')], stack'[Len(stack')].node)
        BY <3>3, <4>6, <4>7
      <4> QED BY <1>3, <3>3, <3>5, <3>6, <4>1, <4>4, <4>8 DEF Unwinding, SourceOf, NodeAt
    <3> QED BY <3>7, <3>8
  <2> QED BY <2>1, <2>2
<1> QED BY <1>6, <1>7, <1>8, <1>9, <1>11 DEF IInv

\* topSortDFS returns: all nodes are placed, or the unwinding is over.
LEMMA ReturnStep == ASSUME IInv, Return PROVE IInv'
<1>1. /\ stack = <<>>
      /\ UNCHANGED <<sources, stack, temp, perm, order, cyclic, cycleStart>>
  BY DEF Return
<1>2. \/ status = "run" /\ perm = Agents /\ status' = "sorted"
      \/ status = "unwind" /\ status' = "cyclic"
  BY DEF Return
<1>3. TypeOK' BY <1>1, <1>2 DEF IInv, TypeOK
<1>4. Depth = {} BY <1>1, EmptySeq DEF Depth
<1>5. StackIsAPath' BY <1>1 DEF IInv, StackIsAPath, Depth, NodeAt
<1>6. StackIsTemp' /\ PassedArePlaced' BY <1>2 DEF StackIsTemp, PassedArePlaced
<1>7. OrderIsPerm' /\ SourcesBehind' /\ AllPlaced'
  BY <1>1, <1>2 DEF IInv, OrderIsPerm, SourcesBehind, AllPlaced, SourceOf
<1>8. Unwinding'
  <2>1. Linked' BY <1>1 DEF IInv, Unwinding, Linked, SourceOf
  <2>2. CASE status' = "sorted" BY <2>1, <2>2 DEF Unwinding
  <2>3. CASE status = "unwind" /\ status' = "cyclic"
    <3>1. cycleStart = {} BY <1>4, <2>3 DEF IInv, Unwinding
    <3>2. cyclic # <<>> /\ SourceOf(cyclic[Len(cyclic)], cyclic[1])
      BY <2>3, <3>1 DEF IInv, Unwinding
    <3> QED BY <1>1, <2>1, <2>3, <3>1, <3>2 DEF Unwinding, SourceOf
  <2> QED BY <1>2, <2>2, <2>3
<1> QED BY <1>3, <1>5, <1>6, <1>7, <1>8 DEF IInv

LEMMA StutterStep == ASSUME IInv, UNCHANGED vars PROVE IInv'
<1>1. UNCHANGED <<sources, stack, temp, perm, order, cyclic, cycleStart, status>> BY DEF vars
<1>2. TypeOK' BY <1>1 DEF IInv, TypeOK
<1>3. StackIsAPath' BY <1>1 DEF IInv, StackIsAPath, Depth, NodeAt
<1>4. StackIsTemp' /\ PassedArePlaced'
  BY <1>1 DEF IInv, StackIsTemp, PassedArePlaced, Depth, NodeAt
<1>5. OrderIsPerm' /\ SourcesBehind' /\ AllPlaced'
  BY <1>1 DEF IInv, OrderIsPerm, SourcesBehind, AllPlaced, SourceOf
<1>6. Unwinding' BY <1>1 DEF IInv, Unwinding, Linked, SourceOf, Depth, NodeAt
<1> QED BY <1>2, <1>3, <1>4, <1>5, <1>6 DEF IInv

\* The invariant holds for any set of agents and any number of sources.
LEMMA Inductive == Spec => []IInv
<1>1. Init => IInv BY InitHolds
<1>2. IInv /\ [Next]_vars => IInv'
  BY PickRootStep, SkipPlacedStep, DescendStep, FindCycleStep, PlaceStep, UnwindStep,
     ReturnStep, StutterStep DEF Next, Done
<1> QED BY <1>1, <1>2, PTL DEF Spec
-----------------------------------------------------------------------------
\* TypeOK: the types of the state of the sort, for any finite set of agents.
THEOREM TypeCorrect == Spec => []TypeOK
<1>1. IInv => TypeOK BY DEF IInv
<1> QED BY <1>1, Inductive, PTL

\* SortedIsTopological: when topSortDFS succeeds, every agent is listed once and
\* behind all it takes events from, whatever root the iteration over the map
\* takes next.
THEOREM SortIsTopological == Spec => []SortedIsTopological
<1>1. ASSUME IInv PROVE SortedIsTopological
  <2> SUFFICES ASSUME status = "sorted"
               PROVE /\ \A a \in Agents : \E i \in DOMAIN InputsFirst : InputsFirst[i] = a
                     /\ Len(InputsFirst) = Len(OutputsFirst)
                     /\ \A i, j \in DOMAIN InputsFirst :
                          /\ InputsFirst[i] = InputsFirst[j] => i = j
                          /\ SourceOf(InputsFirst[i], InputsFirst[j]) => i < j
    BY DEF SortedIsTopological
  <2> DEFINE L == Len(order)
  <2>1. OutputsFirst = order /\ order \in Seq(Agents) BY <1>1 DEF OutputsFirst, IInv, TypeOK
  <2>2. L \in Nat BY <2>1, LenProperties
  <2>3. /\ DOMAIN InputsFirst = 1..L
        /\ \A i \in 1..L : InputsFirst[i] = order[L + 1 - i]
    BY <2>1 DEF InputsFirst, Reversed
  <2>4. Len(InputsFirst) = Len(OutputsFirst)
    <3>1. \A i \in 1..L : L + 1 - i \in 1..L BY <2>2
    <3>2. \A i \in 1..L : order[L + 1 - i] \in Agents BY <2>1, <3>1, ElementOfSeq
    <3>3. InputsFirst = [i \in 1..L |-> order[L + 1 - i]] BY <2>1 DEF InputsFirst, Reversed
    <3>4. InputsFirst \in [1..L -> Agents] BY <3>2, <3>3
    <3>5. InputsFirst \in Seq(Agents) BY <2>2, <3>4, SeqDef
    <3>6. Len(InputsFirst) \in Nat /\ DOMAIN InputsFirst = 1..Len(InputsFirst)
      BY <3>5, LenProperties
    <3> QED BY <2>1, <2>2, <2>3, <3>6
  <2>5. \A a \in Agents : \E i \in DOMAIN InputsFirst : InputsFirst[i] = a
    <3> SUFFICES ASSUME NEW a \in Agents PROVE \E i \in 1..L : InputsFirst[i] = a
      BY <2>3
    <3>1. PICK j \in 1..L : order[j] = a BY <1>1 DEF IInv, AllPlaced, OrderIsPerm
    <3>2. L + 1 - j \in 1..L /\ L + 1 - (L + 1 - j) = j BY <2>2
    <3> QED BY <2>3, <3>1, <3>2
  <2>6. ASSUME NEW i \in 1..L, NEW j \in 1..L
        PROVE /\ InputsFirst[i] = InputsFirst[j] => i = j
              /\ SourceOf(InputsFirst[i], InputsFirst[j]) => i < j
    <3> DEFINE ri == L + 1 - i  rj == L + 1 - j
    <3>1. /\ ri \in 1..L /\ rj \in 1..L
          /\ InputsFirst[i] = order[ri] /\ InputsFirst[j] = order[rj]
      BY <2>2, <2>3
    <3>2. order[ri] = order[rj] => ri = rj BY <1>1, <3>1 DEF IInv, OrderIsPerm
    <3>3. SourceOf(order[ri], order[rj]) => rj < ri
      <4> SUFFICES ASSUME SourceOf(order[ri], order[rj]) PROVE rj < ri
        OBVIOUS
      <4>1. order[ri] \in Agents BY <2>1, <3>1, ElementOfSeq
      <4>2. PICK k \in 1..L : order[k] = order[ri] /\ rj < k
        BY <1>1, <3>1, <4>1 DEF IInv, SourcesBehind
      <4>3. k = ri BY <1>1, <3>1, <4>2 DEF IInv, OrderIsPerm
      <4> QED BY <4>2, <4>3
    <3> QED BY <2>2, <3>1, <3>2, <3>3
  <2> QED BY <2>3, <2>4, <2>5, <2>6
<1> QED BY <1>1, Inductive, PTL

\* CyclicIsACycle: what is reported as a cycle is one.
THEOREM CyclesAreReal == Spec => []CyclicIsACycle
<1>1. ASSUME IInv PROVE CyclicIsACycle
  <2> SUFFICES ASSUME status = "cyclic"
               PROVE /\ cyclic # <<>>
                     /\ \A i \in DOMAIN cyclic :
                          SourceOf(cyclic[i], cyclic[IF i = Len(cyclic) THEN 1 ELSE i + 1])
    BY DEF CyclicIsACycle
  <2>1. cyclic # <<>> /\ SourceOf(cyclic[Len(cyclic)], cyclic[1]) /\ Linked
    BY <1>1 DEF IInv, Unwinding
  <2>2. Len(cyclic) \in Nat /\ DOMAIN cyclic = 1..Len(cyclic)
    BY <1>1, LenProperties DEF IInv, TypeOK
  <2>3. ASSUME NEW i \in DOMAIN cyclic, i # Len(cyclic)
        PROVE SourceOf(cyclic[i], cyclic[i + 1])
    <3>1. i \in 1..Len(cyclic) - 1 BY <2>2, <2>3
    <3> QED BY <2>1, <3>1 DEF Linked
  <2> QED BY <2>1, <2>3
<1> QED BY <1>1, Inductive, PTL
=============================================================================
