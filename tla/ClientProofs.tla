----------------------------- MODULE ClientProofs ---------------------------
(***************************************************************************)
(* Theorems about the components that serve clients: the log hub, the      *)
(* websocket processors, webfan.  Nothing is assumed of the clients, peers *)
(* and requests, but that the bounds on queues and histories are numbers.  *)
(***************************************************************************)
EXTENDS Components, TLAPS

Bounds ==
  /\ Cap \in Nat /\ Size \in Nat /\ MaxEntries \in Nat /\ MaxTalk \in Nat
  /\ MaxReceived \in Nat /\ MaxMessages \in Nat /\ Depth \in Nat /\ MaxRecords \in Nat

-----------------------------------------------------------------------------
(***************************************************************************)
(* Sequences and the sets of their elements.                               *)
(***************************************************************************)
Elements(s) == {s[i] : i \in 1..Len(s)}

LEMMA TailElements ==
  ASSUME NEW S, NEW s \in Seq(S), s # <<>>
  PROVE  /\ Head(s) \in S /\ Tail(s) \in Seq(S) /\ Len(Tail(s)) = Len(s) - 1
         /\ Elements(s) = {Head(s)} \cup Elements(Tail(s))
BY DEF Elements

LEMMA AppendElements ==
  ASSUME NEW S, NEW s \in Seq(S), NEW x \in S
  PROVE  /\ Append(s, x) \in Seq(S) /\ Len(Append(s, x)) = Len(s) + 1
         /\ Elements(Append(s, x)) = Elements(s) \cup {x}
BY DEF Elements

-----------------------------------------------------------------------------
(***************************************************************************)
(* The hub and the handlers and pumps of its clients.                      *)
(***************************************************************************)
ClientRecords ==
  [handler : {"new", "registered", "welcome", "done", "panic"},
   welcome : Seq(Nat), queue : Seq(Nat), open : BOOLEAN, conn : BOOLEAN,
   reader : BOOLEAN, writer : BOOLEAN, got : SUBSET Nat, since : Nat, owed : SUBSET Nat]
HubRecords ==
  [at : {"select", "unregister", "broadcast", "gone", "panic"}, clients : SUBSET Clients,
   who : {0} \cup Clients, msg : Nat, left : SUBSET Clients]
Sound(q) ==
  /\ Len(q.queue) <= Cap
  /\ q.handler = "welcome" => q.welcome # <<>>
  /\ q.handler \in {"new", "registered"} => q.welcome = <<>>
HubTyped ==
  /\ hub \in HubRecords /\ cl \in [Clients -> ClientRecords]
  /\ \A c \in Clients : Sound(cl[c])

\* Who is new is unknown to the hub and its channel untouched; the hub knows
\* only clients with open channels, and broadcasts to none but those.
MapIsOpen ==
  /\ hub.at # "panic" /\ hub.left \subseteq hub.clients
  /\ hub.left # {} <=> hub.at = "broadcast"
  /\ hub.at = "unregister" => hub.who \in Clients
  /\ \A c \in hub.clients : cl[c].open /\ cl[c].handler # "new"
  /\ \A c \in Clients : cl[c].handler = "new" => cl[c].open
HubInv == HubTyped /\ MapIsOpen

\* What becomes of a client that the hub does nothing to.
Given(q) == q.got \cup Elements(q.queue) \cup Elements(q.welcome)
Goes(q, r) ==
  /\ r \in ClientRecords /\ Sound(r) /\ Given(q) \subseteq Given(r)
  /\ r.since = q.since /\ r.owed = q.owed /\ r.open = q.open
  /\ r.handler = "new" <=> q.handler = "new"
  /\ r.handler \in {"welcome", "done"} => q.handler \in {"welcome", "done"}
  /\ r.handler = "registered" => q.handler = "registered"
AllGo == \A d \in Clients : Goes(cl[d], cl'[d])

LEMMA InHandIs == \A c \in Clients : InHand(c) = Given(cl[c])
BY DEF InHand, Given, Elements

LEMMA HubStarts == ASSUME Bounds, HubInit PROVE HubInv
BY DEF Bounds, HubInit, HubInv, HubTyped, MapIsOpen, HubRecords, ClientRecords, Served, Unborn, Sound

LEMMA SetOne ==
  ASSUME HubTyped, NEW c \in Clients, NEW r, Set(c, r)
  PROVE  cl' = [cl EXCEPT ![c] = r] /\ cl'[c] = r /\ \A d \in Clients : d # c => cl'[d] = cl[d]
BY DEF HubTyped, Set

LEMMA StaysAsItIs == ASSUME NEW q \in ClientRecords, Sound(q) PROVE Goes(q, q)
BY DEF Goes

\* What a client does to itself leaves the map as it is.
LEMMA OneGoes ==
  ASSUME HubInv, NEW c \in Clients, NEW r, Goes(cl[c], r), Set(c, r)
  PROVE  AllGo /\ cl' \in [Clients -> ClientRecords]
<1>1. cl'[c] = r /\ \A d \in Clients : d # c => cl'[d] = cl[d]
  BY SetOne DEF HubInv
<1>2. cl' \in [Clients -> ClientRecords]
  BY SetOne DEF HubInv, HubTyped, Goes
<1> QED
  BY <1>1, <1>2, StaysAsItIs DEF HubInv, HubTyped, AllGo

LEMMA AllGoKeeps ==
  ASSUME HubInv, AllGo, cl' \in [Clients -> ClientRecords], UNCHANGED hub
  PROVE  HubInv'
<1> USE DEF AllGo, Goes
<1>1. HubTyped'
  BY DEF HubInv, HubTyped
<1>2. MapIsOpen'
  BY DEF HubInv, MapIsOpen, HubTyped, HubRecords
<1> QED
  BY <1>1, <1>2 DEF HubInv

LEMMA Panics ==
  ASSUME NEW q \in ClientRecords, Sound(q), q.handler = "welcome"
  PROVE  Goes(q, [q EXCEPT !.handler = "panic"])
BY DEF Goes, Given, ClientRecords, Sound

LEMMA WelcomingGoes ==
  ASSUME NEW q \in ClientRecords, q.handler = "welcome", Sound(q), Len(q.queue) < Cap, Cap \in Nat
  PROVE  Goes(q, Welcoming([q EXCEPT !.queue = Append(q.queue, Head(q.welcome))], Tail(q.welcome)))
<1> DEFINE queue == Append(q.queue, Head(q.welcome))
           rest == Tail(q.welcome)
<1>1. /\ queue \in Seq(Nat) /\ Len(queue) <= Cap /\ rest \in Seq(Nat)
      /\ Elements(q.queue) \cup Elements(q.welcome) \subseteq Elements(queue) \cup Elements(rest)
  BY TailElements, AppendElements DEF ClientRecords, Sound
<1> HIDE DEF queue, rest
<1>2. Goes(q, Welcoming([q EXCEPT !.queue = queue], rest))
  BY <1>1 DEF Goes, Given, ClientRecords, Welcoming, Sound
<1> QED
  BY <1>2 DEF queue, rest

LEMMA WriteGoes ==
  ASSUME NEW q \in ClientRecords, Sound(q), q.queue # <<>>, Cap \in Nat
  PROVE  Goes(q, [q EXCEPT !.queue = Tail(q.queue), !.got = q.got \cup {Head(q.queue)}, !.writer = q.conn])
<1> DEFINE rest == Tail(q.queue)
           got == q.got \cup {Head(q.queue)}
<1>1. /\ rest \in Seq(Nat) /\ Len(rest) <= Cap /\ got \in SUBSET Nat
      /\ q.got \cup Elements(q.queue) = got \cup Elements(rest)
  BY TailElements DEF ClientRecords, Sound
<1> HIDE DEF rest, got
<1>2. Goes(q, [q EXCEPT !.queue = rest, !.got = got, !.writer = q.conn])
  BY <1>1 DEF Goes, Given, ClientRecords, Sound
<1> QED
  BY <1>2 DEF rest, got

LEMMA PumpsStep ==
  ASSUME Bounds, HubInv, NEW c \in Clients, Pumps(c) \/ Leave(c)
  PROVE  HubInv' /\ AllGo /\ UNCHANGED hub
<1>0. cl[c] \in ClientRecords /\ Sound(cl[c]) /\ Cap \in Nat
  BY DEF Bounds, HubInv, HubTyped
<1>1. UNCHANGED hub /\ \E r : Goes(cl[c], r) /\ Set(c, r)
  <2>1. CASE SendWelcome(c)
    BY <1>0, <2>1, Panics, WelcomingGoes DEF SendWelcome, Room
  <2>2. CASE Write(c)
    <3>1. CASE cl[c].queue # <<>>
      BY <1>0, <2>2, <3>1, WriteGoes DEF Write
    <3>2. CASE cl[c].queue = <<>>
      <4>1. Goes(cl[c], [cl[c] EXCEPT !.writer = FALSE, !.conn = FALSE])
        BY <1>0 DEF Goes, Given, ClientRecords, Sound
      <4> QED
        BY <2>2, <3>2, <4>1 DEF Write
    <3> QED
      BY <3>1, <3>2
  <2>3. CASE Leave(c)
    <3>1. Goes(cl[c], [cl[c] EXCEPT !.conn = FALSE])
      BY <1>0 DEF Goes, Given, ClientRecords, Sound
    <3> QED
      BY <2>3, <3>1 DEF Leave
  <2> QED
    BY <2>1, <2>2, <2>3 DEF Pumps
<1> QED
  BY <1>1, OneGoes, AllGoKeeps

LEMMA ReaderStep ==
  ASSUME HubInv, NEW c \in Clients, ReaderUnregisters(c)
  PROVE  /\ HubInv' /\ AllGo /\ Serving
         /\ hub' = [hub EXCEPT !.at = "unregister", !.who = c]
<1>1. Goes(cl[c], [cl[c] EXCEPT !.reader = FALSE])
  BY DEF Goes, Given, ClientRecords, Sound, HubInv, HubTyped
<1>2. AllGo /\ cl' \in [Clients -> ClientRecords]
  BY <1>1, OneGoes DEF ReaderUnregisters
<1>3. Serving /\ hub' = [hub EXCEPT !.at = "unregister", !.who = c]
  BY DEF ReaderUnregisters, Unregistering
<1>4. HubTyped'
  BY <1>2, <1>3 DEF HubInv, HubTyped, HubRecords, AllGo, Goes
<1>5. MapIsOpen'
  BY <1>2, <1>3 DEF HubInv, HubTyped, HubRecords, MapIsOpen, AllGo, Goes, Serving
<1> QED
  BY <1>2, <1>3, <1>4, <1>5 DEF HubInv

LEMMA ClosedHub ==
  ASSUME NEW q \in ClientRecords, Sound(q)
  PROVE  LET r == [q EXCEPT !.open = FALSE]
         IN  r \in ClientRecords /\ Sound(r) /\ r.handler = q.handler
BY DEF ClientRecords, Sound

\* The hub takes a client out of the map with its channel.
LEMMA UnregisterStep ==
  ASSUME HubInv, HubUnregister
  PROVE  /\ HubInv' /\ hub' = Served(hub.clients \ {hub.who}) /\ hub.at = "unregister"
         /\ \A c \in Clients \ ({hub.who} \cap hub.clients) : cl'[c] = cl[c]
         /\ \A c \in Clients : cl'[c].handler = cl[c].handler
<1>1. hub.who \in Clients /\ hub.left = {} /\ hub.at = "unregister"
  BY DEF HubInv, MapIsOpen, HubUnregister
<1>2. CASE hub.who \in hub.clients
  <2> DEFINE r == [cl[hub.who] EXCEPT !.open = FALSE]
  <2>1. r \in ClientRecords /\ Sound(r) /\ r.handler = cl[hub.who].handler
    BY <1>1, ClosedHub DEF HubInv, HubTyped
  <2>2. Set(hub.who, r) /\ hub' = Served(hub.clients \ {hub.who})
    BY <1>2 DEF HubUnregister, HubInv, MapIsOpen
  <2> HIDE DEF r
  <2>3. cl' = [cl EXCEPT ![hub.who] = r] /\ cl'[hub.who] = r /\ \A c \in Clients \ {hub.who} : cl'[c] = cl[c]
    BY <1>1, <2>2, SetOne DEF HubInv
  <2>4. HubTyped'
    BY <1>1, <2>1, <2>2, <2>3 DEF HubInv, HubTyped, HubRecords, Served
  <2>5. MapIsOpen'
    BY <1>1, <1>2, <2>1, <2>2, <2>3 DEF HubInv, HubTyped, HubRecords, MapIsOpen, Served
  <2> QED
    BY <1>1, <1>2, <2>1, <2>2, <2>3, <2>4, <2>5 DEF HubInv
<1>3. CASE hub.who \notin hub.clients
  <2>1. hub' = Served(hub.clients) /\ UNCHANGED cl /\ hub.clients \ {hub.who} = hub.clients
    BY <1>3 DEF HubUnregister
  <2>2. HubTyped'
    BY <2>1 DEF HubInv, HubTyped, HubRecords, Served
  <2>3. MapIsOpen'
    BY <2>1 DEF HubInv, HubTyped, HubRecords, MapIsOpen, Served
  <2> QED
    BY <1>1, <2>1, <2>2, <2>3 DEF HubInv
<1> QED
  BY <1>2, <1>3

LEMMA Registered ==
  ASSUME NEW q \in ClientRecords, Sound(q), q.handler = "new", NEW n \in Nat
  PROVE  LET r == [q EXCEPT !.handler = "registered", !.since = n]
         IN  r \in ClientRecords /\ Sound(r) /\ r.handler = "registered" /\ r.since = n /\ r.open = q.open
BY DEF ClientRecords, Sound

LEMMA RegisterStep ==
  ASSUME HubInv, NEW c \in Clients, NEW n \in Nat, Register(c, n)
  PROVE  /\ HubInv' /\ hub' = [hub EXCEPT !.clients = hub.clients \cup {c}] /\ Serving
         /\ cl[c].handler = "new" /\ cl'[c].handler = "registered" /\ cl'[c].since = n
         /\ \A d \in Clients \ {c} : cl'[d] = cl[d]
<1> DEFINE r == [cl[c] EXCEPT !.handler = "registered", !.since = n]
<1>1. r \in ClientRecords /\ Sound(r) /\ r.handler = "registered" /\ r.since = n /\ r.open = cl[c].open
  BY Registered DEF Register, HubInv, HubTyped
<1>2. Set(c, r) /\ hub' = [hub EXCEPT !.clients = hub.clients \cup {c}] /\ Serving /\ cl[c].handler = "new"
  BY DEF Register
<1> HIDE DEF r
<1>3. cl' = [cl EXCEPT ![c] = r] /\ cl'[c] = r /\ \A d \in Clients \ {c} : cl'[d] = cl[d]
  BY <1>2, SetOne DEF HubInv
<1>4. HubTyped'
  BY <1>1, <1>2, <1>3 DEF HubInv, HubTyped, HubRecords
<1>5. MapIsOpen'
  BY <1>1, <1>2, <1>3 DEF HubInv, HubTyped, HubRecords, MapIsOpen, Serving
<1> QED
  BY <1>1, <1>2, <1>3, <1>4, <1>5 DEF HubInv

LEMMA WelcomeStep ==
  ASSUME HubInv, NEW c \in Clients, NEW msgs \in Seq(Nat), NEW owed \in SUBSET Nat, Welcome(c, msgs, owed)
  PROVE  /\ HubInv' /\ UNCHANGED hub /\ cl[c].handler = "registered"
         /\ cl'[c].handler \in {"welcome", "done"} /\ cl'[c].since = cl[c].since /\ cl'[c].owed = owed
         /\ Elements(msgs) \subseteq Given(cl'[c])
         /\ cl[c].got \cup Elements(cl[c].queue) \subseteq Given(cl'[c])
         /\ \A d \in Clients \ {c} : cl'[d] = cl[d]
<1> DEFINE r == Welcoming([cl[c] EXCEPT !.owed = owed], msgs)
<1>1. /\ r \in ClientRecords /\ Sound(r) /\ r.handler \in {"welcome", "done"} /\ r.since = cl[c].since
      /\ r.open = cl[c].open /\ r.owed = owed
      /\ Elements(msgs) \subseteq Given(r)
      /\ cl[c].got \cup Elements(cl[c].queue) \subseteq Given(r)
  BY DEF ClientRecords, Sound, HubInv, HubTyped, Welcoming, Given
<1>2. Set(c, r) /\ UNCHANGED hub /\ cl[c].handler = "registered"
  BY DEF Welcome
<1> HIDE DEF r
<1>3. cl' = [cl EXCEPT ![c] = r] /\ cl'[c] = r /\ \A d \in Clients \ {c} : cl'[d] = cl[d]
  BY <1>2, SetOne DEF HubInv
<1>4. HubTyped'
  BY <1>1, <1>2, <1>3 DEF HubInv, HubTyped, HubRecords
<1>5. MapIsOpen'
  BY <1>1, <1>2, <1>3 DEF HubInv, HubTyped, HubRecords, MapIsOpen, Serving
<1> QED
  BY <1>1, <1>2, <1>3, <1>4, <1>5 DEF HubInv

LEMMA Gives ==
  ASSUME NEW q \in ClientRecords, Sound(q), Len(q.queue) < Cap, Cap \in Nat, NEW m \in Nat
  PROVE  LET r == [q EXCEPT !.queue = Append(q.queue, m)] IN Goes(q, r) /\ m \in Given(r)
<1> DEFINE queue == Append(q.queue, m)
<1>1. queue \in Seq(Nat) /\ Len(queue) <= Cap /\ Elements(queue) = Elements(q.queue) \cup {m}
  <2>1. q.queue \in Seq(Nat)
    BY DEF ClientRecords
  <2>2. Len(q.queue) \in Nat
    BY <2>1
  <2>3. queue \in Seq(Nat) /\ Len(queue) = Len(q.queue) + 1 /\ Elements(queue) = Elements(q.queue) \cup {m}
    BY <2>1, AppendElements
  <2> QED
    BY <2>2, <2>3
<1> HIDE DEF queue
<1>2. LET r == [q EXCEPT !.queue = queue] IN Goes(q, r) /\ m \in Given(r)
  BY <1>1 DEF Goes, Given, ClientRecords, Sound
<1> QED
  BY <1>2 DEF queue

-----------------------------------------------------------------------------
(***************************************************************************)
(* The log hub.                                                            *)
(***************************************************************************)
HookTyped ==
  /\ hook \in [fired : Nat, sliced : Nat, pending : SUBSET Nat, talks : Nat]
  /\ hook.sliced <= hook.fired /\ hook.fired <= MaxEntries /\ hook.talks <= MaxTalk
  /\ hook.pending \subseteq 1..hook.fired
OnItsWay(c, e) == e \in Given(cl[c]) \cup hook.pending \/ (hub.msg = e /\ c \in hub.left)
\* Since its registration, not only since its welcome, nothing passes a client by.
NothingPassesBy ==
  \A c \in hub.clients :
    /\ cl[c].handler \in {"registered", "welcome", "done"} =>
         \A n \in 1..hook.fired : n > cl[c].since => OnItsWay(c, n)
    /\ cl[c].handler \in {"welcome", "done"} => \A e \in cl[c].owed : OnItsWay(c, e)
LHInv == HubInv /\ HookTyped /\ NothingPassesBy

LEMMA LHStarts == ASSUME Bounds, LHInit PROVE LHInv
<1>1. HubInv
  BY HubStarts DEF LHInit
<1>2. HookTyped
  BY DEF Bounds, LHInit, HookTyped
<1>3. NothingPassesBy
  BY DEF LHInit, HubInit, Served, NothingPassesBy
<1> QED
  BY <1>1, <1>2, <1>3 DEF LHInv

LEMMA RingHolds ==
  ASSUME Bounds, HookTyped
  PROVE  /\ Ring \in Seq(Nat)
         /\ {e \in 1..hook.sliced : e > hook.sliced - Size} \subseteq Elements(Ring)
<1> USE DEF Bounds, HookTyped
<1>1. Oldest \in Nat /\ Oldest >= 1 /\ hook.sliced - Oldest + 1 \in Nat
  BY DEF Oldest
<1>2. Ring \in Seq(Nat) /\ Len(Ring) = hook.sliced - Oldest + 1
  <2> DEFINE n == hook.sliced - Oldest + 1
  <2>1. Ring \in [1..n -> Nat]
    BY <1>1 DEF Ring
  <2> HIDE DEF n
  <2>2. n \in Nat => Ring \in Seq(Nat) /\ Len(Ring) = n
    BY <2>1
  <2> QED
    BY <1>1, <2>2 DEF n
<1>3. ASSUME NEW e \in 1..hook.sliced, e > hook.sliced - Size
      PROVE  e \in Elements(Ring)
  <2>0. hook.sliced \in Nat /\ Size \in Nat /\ e >= Oldest /\ e <= hook.sliced
    BY <1>3 DEF Oldest
  <2>1. e - Oldest + 1 \in 1..Len(Ring)
    <3> DEFINE o == Oldest
    <3> HIDE DEF o
    <3>1. o \in Nat /\ e >= o /\ Len(Ring) = hook.sliced - o + 1 /\ e \in Nat
      BY <1>1, <1>2, <2>0 DEF o
    <3>2. e - o + 1 \in 1..Len(Ring)
      BY <2>0, <3>1
    <3> QED
      BY <3>2 DEF o
  <2>2. Ring[e - Oldest + 1] = e
    BY <1>1, <1>2, <2>1 DEF Ring
  <2> QED
    BY <2>1, <2>2 DEF Elements
<1> QED
  BY <1>2, <1>3

\* What clients do to themselves takes nothing off its way to them.
LEMMA LHGoesOn ==
  ASSUME LHInv, HubInv', AllGo, UNCHANGED hook,
         hub'.clients = hub.clients, hub'.msg = hub.msg, hub'.left = hub.left
  PROVE  LHInv'
<1>1. HookTyped'
  BY DEF LHInv, HookTyped
<1>2. ASSUME NEW c \in hub.clients PROVE c \in Clients /\ Goes(cl[c], cl'[c])
  BY DEF LHInv, HubInv, HubTyped, HubRecords, AllGo
<1>3. NothingPassesBy'
  BY <1>2 DEF LHInv, NothingPassesBy, OnItsWay, Goes
<1> QED
  BY <1>1, <1>3 DEF LHInv

LEMMA FireStep == ASSUME Bounds, LHInv, Fire \/ Slice PROVE LHInv'
<1>1. HubInv'
  BY DEF LHInv, HubInv, HubTyped, MapIsOpen, Fire, Slice, hubVars
<1>2. /\ HookTyped'
      /\ hook.pending \subseteq hook'.pending
      /\ \A n \in 1..hook'.fired : n \in 1..hook.fired \/ n \in hook'.pending
  <2>1. CASE Fire
    <3>1. hook'.fired = hook.fired + 1 /\ hook'.pending = hook.pending \cup {hook.fired + 1}
      BY <2>1 DEF LHInv, HookTyped, Fire
    <3>2. hook' \in [fired : Nat, sliced : Nat, pending : SUBSET Nat, talks : Nat] /\ hook'.sliced = hook.sliced
      <4> DEFINE n == hook.fired + 1
                 p == hook.pending \cup {n}
      <4>1. hook' = [hook EXCEPT !.fired = n, !.pending = p]
        BY <2>1 DEF Fire
      <4>2. n \in Nat /\ p \in SUBSET Nat
        BY DEF LHInv, HookTyped
      <4> HIDE DEF n, p
      <4> QED
        BY <4>1, <4>2 DEF LHInv, HookTyped
    <3>3. hook'.talks = hook.talks /\ hook.fired + 1 <= MaxEntries
      BY <2>1 DEF Bounds, LHInv, HookTyped, Fire
    <3>4. hook.fired \in Nat /\ hook.sliced \in Nat /\ hook.sliced <= hook.fired /\ hook.pending \subseteq 1..hook.fired
      BY DEF LHInv, HookTyped
    <3>5. hook'.pending \subseteq 1..hook'.fired /\ hook'.sliced <= hook'.fired
      BY <3>1, <3>2, <3>4
    <3>6. HookTyped'
      BY <3>1, <3>2, <3>3, <3>5 DEF LHInv, HookTyped
    <3> QED
      BY <3>1, <3>4, <3>6
  <2>2. CASE Slice
    BY <2>2 DEF LHInv, HookTyped, Slice
  <2> QED
    BY <2>1, <2>2
<1>3. NothingPassesBy'
  BY <1>2 DEF LHInv, NothingPassesBy, OnItsWay, Fire, Slice, hubVars
<1> QED
  BY <1>1, <1>2, <1>3 DEF LHInv

LEMMA LHRegisterStep == ASSUME LHInv, NEW c \in Clients, LHRegister(c) PROVE LHInv'
<1>1. /\ HubInv' /\ hub' = [hub EXCEPT !.clients = hub.clients \cup {c}]
      /\ cl'[c].handler = "registered" /\ cl'[c].since = hook.fired
      /\ \A d \in Clients \ {c} : cl'[d] = cl[d]
  BY RegisterStep DEF LHInv, HookTyped, LHRegister
<1>2. HookTyped' /\ UNCHANGED hook
  BY DEF LHInv, HookTyped, LHRegister
<1>3. hub'.clients = hub.clients \cup {c} /\ hub'.msg = hub.msg /\ hub'.left = hub.left /\ hub.clients \subseteq Clients
  BY <1>1 DEF LHInv, HubInv, HubTyped, HubRecords
<1>4. NothingPassesBy'
  <2>1. \A n \in 1..hook.fired : ~(n > hook.fired)
    BY DEF LHInv, HookTyped
  <2> QED
    BY <1>1, <1>2, <1>3, <2>1 DEF LHInv, NothingPassesBy, OnItsWay
<1> QED
  BY <1>1, <1>2, <1>4 DEF LHInv

LEMMA LHWelcomeStep == ASSUME Bounds, LHInv, NEW c \in Clients, LHWelcome(c) PROVE LHInv'
<1> DEFINE owed == {e \in 1..hook.sliced : e > hook.sliced - Size}
<1>1. Ring \in Seq(Nat) /\ owed \subseteq Elements(Ring) /\ owed \in SUBSET Nat
  BY RingHolds DEF LHInv
<1>2. Welcome(c, Ring, owed) /\ UNCHANGED hook
  BY DEF LHWelcome
<1> HIDE DEF owed
<1>3. /\ HubInv' /\ UNCHANGED hub /\ cl[c].handler = "registered"
      /\ cl'[c].since = cl[c].since /\ cl'[c].owed = owed
      /\ Elements(Ring) \subseteq Given(cl'[c])
      /\ cl[c].got \cup Elements(cl[c].queue) \subseteq Given(cl'[c])
      /\ \A d \in Clients \ {c} : cl'[d] = cl[d]
  BY <1>1, <1>2, WelcomeStep DEF LHInv
<1>4. HookTyped'
  BY <1>2 DEF LHInv, HookTyped
<1>5. Given(cl[c]) \subseteq Given(cl'[c])
  <2>1. cl[c].welcome = <<>>
    BY <1>3 DEF LHInv, HubInv, HubTyped, Sound
  <2>2. Elements(cl[c].welcome) = {}
    BY <2>1 DEF Elements
  <2> QED
    BY <1>3, <2>2 DEF Given
<1>6. hub.clients \subseteq Clients
  BY DEF LHInv, HubInv, HubTyped, HubRecords
<1>7. ASSUME NEW d \in hub.clients, NEW e, OnItsWay(d, e) PROVE OnItsWay(d, e)'
  BY <1>2, <1>3, <1>5, <1>6, <1>7 DEF OnItsWay
<1>8. \A e \in owed : OnItsWay(c, e)'
  BY <1>1, <1>3 DEF OnItsWay
<1>9. NothingPassesBy'
  <2>1. ASSUME NEW d \in hub.clients
        PROVE  /\ cl'[d].handler \in {"registered", "welcome", "done"} =>
                    \A n \in 1..hook.fired : n > cl'[d].since => OnItsWay(d, n)'
               /\ cl'[d].handler \in {"welcome", "done"} => \A e \in cl'[d].owed : OnItsWay(d, e)'
    <3>1. CASE d = c
      BY <1>3, <1>7, <1>8, <3>1 DEF LHInv, NothingPassesBy
    <3>2. CASE d # c
      BY <1>3, <1>6, <1>7, <3>2 DEF LHInv, NothingPassesBy
    <3> QED
      BY <3>1, <3>2
  <2> QED
    BY <1>2, <1>3, <2>1 DEF NothingPassesBy
<1> QED
  BY <1>3, <1>4, <1>9 DEF LHInv

\* A message the hub takes, m, is on its way to all clients of the map.
LEMMA TakeStep ==
  ASSUME LHInv, HookTyped', NEW m \in Nat, Serving, UNCHANGED cl,
         hub' = Broadcasting(m, hub.clients, hub.clients),
         hook'.fired = hook.fired, hook.pending \subseteq hook'.pending \cup {m}
  PROVE  LHInv'
<1>1. hub.left = {} /\ hub.clients \subseteq Clients
  BY DEF LHInv, HubInv, HubTyped, HubRecords, MapIsOpen, Serving
<1>2. /\ hub' \in HubRecords /\ hub'.clients = hub.clients /\ hub'.left = hub.clients
      /\ hub'.at \in {"select", "broadcast"} /\ (hub'.left # {} <=> hub'.at = "broadcast")
      /\ hub'.left # {} => hub'.msg = m
  BY <1>1 DEF HubRecords, Broadcasting, Served
<1>3. HubInv'
  BY <1>1, <1>2 DEF LHInv, HubInv, HubTyped, MapIsOpen
<1>4. NothingPassesBy'
  BY <1>1, <1>2 DEF LHInv, NothingPassesBy, OnItsWay
<1> QED
  BY <1>3, <1>4 DEF LHInv

LEMMA HubTakes == ASSUME Bounds, LHInv, TakeEntry \/ \E c \in Clients : Talk(c) PROVE LHInv'
<1>1. CASE TakeEntry
  <2>1. PICK e \in hook.pending : /\ hub' = Broadcasting(e, hub.clients, hub.clients)
                                  /\ hook' = [hook EXCEPT !.pending = @ \ {e}]
    BY <1>1 DEF TakeEntry
  <2>2. e \in Nat /\ HookTyped' /\ hook'.fired = hook.fired /\ hook.pending \subseteq hook'.pending \cup {e}
    BY <2>1 DEF LHInv, HookTyped
  <2> QED
    BY <1>1, <2>1, <2>2, TakeStep DEF TakeEntry
<1>2. CASE \E c \in Clients : Talk(c)
  <2>1. /\ hub' = Broadcasting(0, hub.clients, hub.clients) /\ Serving /\ UNCHANGED cl
        /\ hook' = [hook EXCEPT !.talks = @ + 1] /\ hook.talks < MaxTalk
    BY <1>2 DEF Talk
  <2>2. HookTyped' /\ hook'.fired = hook.fired /\ hook'.pending = hook.pending
    BY <2>1 DEF Bounds, LHInv, HookTyped
  <2> QED
    BY <2>1, <2>2, TakeStep
<1> QED
  BY <1>1, <1>2

\* A client is given the message, or dropped with its channel.
LEMMA BroadcastStep == ASSUME Bounds, LHInv, NEW c \in Clients, BroadcastTo(c) PROVE LHInv'
<1> DEFINE left == hub.left \ {c}
<1>1. /\ c \in hub.left /\ hub.left \subseteq hub.clients /\ hub.clients \subseteq Clients /\ cl[c].open
      /\ UNCHANGED hook /\ hub.msg \in Nat /\ cl[c] \in ClientRecords /\ Sound(cl[c])
      /\ cl[c].handler # "new" /\ Cap \in Nat
  BY DEF BroadcastTo, LHInv, HubInv, HubTyped, HubRecords, MapIsOpen, Bounds
<1>2. HookTyped'
  BY <1>1 DEF LHInv, HookTyped
<1>3. ASSUME NEW clients, clients \subseteq hub.clients, hub' = Broadcasting(hub.msg, clients, left)
      PROVE  /\ hub' \in HubRecords /\ hub'.clients = clients /\ hub'.left = left
             /\ hub'.at \in {"select", "broadcast"} /\ (hub'.left # {} <=> hub'.at = "broadcast")
             /\ hub'.left # {} => hub'.msg = hub.msg
  BY <1>1, <1>3 DEF HubRecords, Broadcasting, Served
<1>4. CASE Room(c)
  <2> DEFINE r == [cl[c] EXCEPT !.queue = Append(cl[c].queue, hub.msg)]
  <2>1. Goes(cl[c], r) /\ hub.msg \in Given(r)
    BY <1>1, <1>4, Gives DEF Room
  <2>2. Set(c, r) /\ hub' = Broadcasting(hub.msg, hub.clients, left)
    BY <1>1, <1>4 DEF BroadcastTo
  <2> HIDE DEF r
  <2>3. cl'[c] = r /\ (\A d \in Clients : d # c => cl'[d] = cl[d]) /\ AllGo /\ cl' \in [Clients -> ClientRecords]
    BY <2>1, <2>2, SetOne, OneGoes DEF LHInv, HubInv
  <2>4. /\ hub' \in HubRecords /\ hub'.clients = hub.clients /\ hub'.left = left
        /\ hub'.at \in {"select", "broadcast"} /\ (hub'.left # {} <=> hub'.at = "broadcast")
        /\ hub'.left # {} => hub'.msg = hub.msg
    BY <1>3, <2>2
  <2>5. HubInv'
    BY <1>1, <2>3, <2>4 DEF LHInv, HubInv, HubTyped, MapIsOpen, AllGo, Goes
  <2>6. ASSUME NEW d \in hub.clients, NEW e, OnItsWay(d, e) PROVE OnItsWay(d, e)'
    BY <1>1, <2>1, <2>3, <2>4, <2>6 DEF OnItsWay, Goes
  <2>7. NothingPassesBy'
    BY <1>1, <2>1, <2>3, <2>4, <2>6 DEF LHInv, NothingPassesBy, Goes
  <2> QED
    BY <1>2, <2>5, <2>7 DEF LHInv
<1>5. CASE ~Room(c)
  <2> DEFINE r == [cl[c] EXCEPT !.open = FALSE]
             clients == hub.clients \ {c}
  <2>1. r \in ClientRecords /\ Sound(r) /\ r.handler = cl[c].handler
    BY <1>1, ClosedHub
  <2>2. Set(c, r) /\ hub' = Broadcasting(hub.msg, clients, left)
    BY <1>1, <1>5 DEF BroadcastTo
  <2> HIDE DEF r
  <2>3. cl' = [cl EXCEPT ![c] = r] /\ cl'[c] = r /\ \A d \in Clients : d # c => cl'[d] = cl[d]
    BY <2>2, SetOne DEF LHInv, HubInv
  <2>4. /\ hub' \in HubRecords /\ hub'.clients = clients /\ hub'.left = left
        /\ hub'.at \in {"select", "broadcast"} /\ (hub'.left # {} <=> hub'.at = "broadcast")
        /\ hub'.left # {} => hub'.msg = hub.msg
    BY <1>3, <2>2
  <2>5. HubInv'
    BY <1>1, <2>1, <2>3, <2>4 DEF LHInv, HubInv, HubTyped, MapIsOpen
  <2>6. NothingPassesBy'
    BY <1>1, <2>3, <2>4 DEF LHInv, NothingPassesBy, OnItsWay
  <2> QED
    BY <1>2, <2>5, <2>6 DEF LHInv
<1> QED
  BY <1>4, <1>5

LEMMA LHStep == ASSUME Bounds, LHInv, [LHNext]_lhVars PROVE LHInv'
<1>1. CASE Fire \/ Slice
  BY <1>1, FireStep
<1>2. CASE TakeEntry \/ \E c \in Clients : Talk(c)
  BY <1>2, HubTakes
<1>3. ASSUME NEW c \in Clients, BroadcastTo(c) PROVE LHInv'
  BY <1>3, BroadcastStep
<1>4. CASE HubUnregister /\ UNCHANGED hook
  <2>1. /\ HubInv' /\ hub' = Served(hub.clients \ {hub.who}) /\ hub.at = "unregister"
        /\ \A c \in Clients \ ({hub.who} \cap hub.clients) : cl'[c] = cl[c]
    BY <1>4, UnregisterStep DEF LHInv
  <2>2. hub.left = {} /\ hub.clients \subseteq Clients
    BY <2>1 DEF LHInv, HubInv, HubTyped, HubRecords, MapIsOpen
  <2>3. NothingPassesBy'
    BY <1>4, <2>1, <2>2 DEF LHInv, NothingPassesBy, OnItsWay, Served
  <2> QED
    BY <1>4, <2>1, <2>3 DEF LHInv, HookTyped
<1>5. ASSUME NEW c \in Clients, LHRegister(c) PROVE LHInv'
  BY <1>5, LHRegisterStep
<1>6. ASSUME NEW c \in Clients, LHWelcome(c) PROVE LHInv'
  BY <1>6, LHWelcomeStep
<1>7. ASSUME NEW c \in Clients, LHShared(c) PROVE LHInv'
  <2>1. CASE Pumps(c) \/ Leave(c)
    <3>1. HubInv' /\ AllGo /\ UNCHANGED hub
      BY <2>1, PumpsStep DEF LHInv
    <3> QED
      BY <1>7, <3>1, LHGoesOn DEF LHShared
  <2>2. CASE ReaderUnregisters(c)
    <3>1. HubInv' /\ AllGo /\ hub' = [hub EXCEPT !.at = "unregister", !.who = c]
      BY <2>2, ReaderStep DEF LHInv
    <3>2. hub'.clients = hub.clients /\ hub'.msg = hub.msg /\ hub'.left = hub.left
      BY <3>1 DEF LHInv, HubInv, HubTyped, HubRecords
    <3> QED
      BY <1>7, <3>1, <3>2, LHGoesOn DEF LHShared
  <2> QED
    BY <1>7, <2>1, <2>2 DEF LHShared
<1>8. CASE UNCHANGED lhVars
  BY <1>8 DEF lhVars, LHInv, HubInv, HubTyped, MapIsOpen, HookTyped, NothingPassesBy, OnItsWay
<1> QED
  BY <1>1, <1>2, <1>3, <1>4, <1>5, <1>6, <1>7, <1>8 DEF LHNext, LHHub

LEMMA LHPromises == ASSUME LHInv PROVE HubSurvives /\ EntriesReachClients
<1>1. hub.clients \subseteq Clients
  BY DEF LHInv, HubInv, HubTyped, HubRecords
<1>2. EntriesReachClients
  BY <1>1, InHandIs DEF LHInv, NothingPassesBy, OnItsWay, EntriesReachClients
<1> QED
  BY <1>2 DEF LHInv, HubInv, MapIsOpen, HubSurvives

LEMMA LHTypes == ASSUME Bounds, LHInv PROVE LHTypeOK
<1>1. HubTypeOK
  BY DEF LHInv, HubInv, HubTyped, HubRecords, ClientRecords, Sound, HubTypeOK
<1>2. hook.fired \in 0..MaxEntries /\ hook.sliced \in 0..hook.fired /\ hook.talks \in 0..MaxTalk
  BY DEF Bounds, LHInv, HookTyped
<1> QED
  BY <1>1, <1>2 DEF LHInv, HookTyped, LHTypeOK

-----------------------------------------------------------------------------
(***************************************************************************)
(* The websocket output: the worker's loops beside the hub.                *)
(***************************************************************************)
OutRecords ==
  [at : {"idle", "range", "send", "stopping", "disconnect", "stopped"}, must : SUBSET Clients,
   had : SUBSET Clients, to : {0} \cup Clients, received : Nat, last : Nat]
OutTyped ==
  /\ out \in OutRecords /\ out.last = out.received /\ out.received <= MaxReceived
  /\ out.at \in {"send", "disconnect"} => out.to \in Clients
  /\ crashed \in {"no", "send", "map"}
\* Who is in a loop's hands was registered once, and is so never again.
KnownOnce == \A c \in out.must \cup out.had : cl[c].handler # "new"
\* The loop has given the event to who it had, and still must to the others.
LatestOnItsWay ==
  (out.at \in {"idle", "range", "send"} /\ out.received > 0) =>
    \A c \in hub.clients : cl[c].handler \in {"welcome", "done"} =>
      \/ out.received \in Given(cl[c])
      \/ /\ out.at # "idle" /\ c \in out.must
         /\ c \in out.had => out.at = "send" /\ out.to = c
\* Who a stop had is gone from the map, or in the hub's hands on the way out.
HadIsGone ==
  /\ out.at \in {"stopping", "disconnect", "stopped"} =>
       \A c \in out.had \cap hub.clients : hub.at = "unregister" /\ hub.who = c
  /\ out.at = "stopped" => out.must \cap hub.clients \subseteq out.had
WOInv ==
  /\ HubInv /\ hub.left = {} /\ OutTyped /\ KnownOnce /\ LatestOnItsWay /\ HadIsGone

LEMMA WOStarts == ASSUME Bounds, WOInit PROVE WOInv
<1>1. HubInv /\ hub.left = {} /\ hub.clients = {}
  BY HubStarts DEF WOInit, HubInit, Served
<1>2. OutTyped /\ KnownOnce
  BY DEF Bounds, WOInit, OutTyped, OutRecords, KnownOnce
<1>3. LatestOnItsWay /\ HadIsGone
  BY <1>1 DEF LatestOnItsWay, HadIsGone
<1> QED
  BY <1>1, <1>2, <1>3 DEF WOInv

\* What clients do to themselves, and the hub's work for others.
LEMMA WOGoesOn ==
  ASSUME WOInv, HubInv', AllGo, UNCHANGED <<out, crashed>>,
         hub' = hub \/ (Serving /\ hub'.clients = hub.clients /\ hub'.left = hub.left)
  PROVE  WOInv'
<1>1. hub'.clients = hub.clients /\ hub'.left = {} /\ hub.clients \subseteq Clients
  BY DEF WOInv, HubInv, HubTyped, HubRecords
<1>2. OutTyped' /\ KnownOnce'
  BY DEF WOInv, OutTyped, OutRecords, KnownOnce, AllGo, Goes
<1>3. LatestOnItsWay'
  BY <1>1 DEF WOInv, LatestOnItsWay, AllGo, Goes
<1>4. HadIsGone'
  BY <1>1 DEF WOInv, HadIsGone, Serving
<1> QED
  BY <1>1, <1>2, <1>3, <1>4 DEF WOInv

\* A loop over the map begins.
LEMMA LoopBegins ==
  ASSUME Bounds, WOInv, WOReceive \/ WOStop
  PROVE  WOInv'
<1> DEFINE n == out.received + 1
           clients == hub.clients
<1>1. UNCHANGED <<hub, cl, crashed>> /\ HubInv' /\ hub'.left = {}
  BY DEF WOReceive, WOStop, WOInv, HubInv, HubTyped, HubRecords, MapIsOpen
<1>2. clients \in SUBSET Clients /\ n \in Nat /\ \A c \in clients : cl[c].handler # "new"
  BY DEF WOInv, HubInv, HubTyped, HubRecords, MapIsOpen, OutTyped, OutRecords
<1>3. \/ WOReceive /\ out' = [out EXCEPT !.at = "range", !.must = clients, !.had = {}, !.received = n, !.last = n]
      \/ WOStop /\ out' = [out EXCEPT !.at = "stopping", !.must = clients, !.had = {}]
  BY DEF WOReceive, WOStop, Ranging, Remember, WOInv, OutTyped, OutRecords
<1>4. WOReceive => n <= MaxReceived
  BY DEF Bounds, WOInv, OutTyped, OutRecords, WOReceive
<1> HIDE DEF n, clients
<1>5. /\ out' \in OutRecords /\ out'.must = clients /\ out'.had = {} /\ out'.at \in {"range", "stopping"}
      /\ out'.last = out'.received /\ out'.received <= MaxReceived
  BY <1>2, <1>3, <1>4 DEF WOInv, OutTyped, OutRecords
<1>6. OutTyped' /\ KnownOnce'
  BY <1>1, <1>2, <1>5 DEF WOInv, OutTyped, KnownOnce
<1>7. LatestOnItsWay' /\ HadIsGone'
  BY <1>1, <1>5 DEF LatestOnItsWay, HadIsGone, clients
<1> QED
  BY <1>1, <1>6, <1>7 DEF WOInv

\* It comes to a client, or to its end.
LEMMA PickStep == ASSUME Bounds, WOInv, WOPick \/ WOStopped PROVE WOInv'
<1>1. UNCHANGED <<hub, cl, crashed>> /\ HubInv' /\ hub'.left = {}
  BY DEF WOPick, WOStopped, WOInv, HubInv, HubTyped, HubRecords, MapIsOpen
<1>2. ASSUME NEW c \in Clients, Producible(c), out.at = "range",
             out' = [out EXCEPT !.at = "send", !.to = c, !.had = out.had \cup {c}]
      PROVE  WOInv'
  <2> DEFINE had == out.had \cup {c}
  <2>1. had \in SUBSET Clients /\ cl[c].handler # "new"
    BY <1>2 DEF WOInv, OutTyped, OutRecords, HubInv, MapIsOpen, Producible
  <2>2. out' = [out EXCEPT !.at = "send", !.to = c, !.had = had]
    BY <1>2
  <2>3. had = out.had \cup {c}
    OBVIOUS
  <2> HIDE DEF had
  <2>4. OutTyped' /\ out'.at = "send" /\ out'.to = c /\ out'.had = had /\ out'.must = out.must /\ out'.received = out.received
    BY <1>1, <2>1, <2>2 DEF WOInv, OutTyped, OutRecords
  <2>5. KnownOnce'
    BY <1>1, <2>1, <2>3, <2>4 DEF WOInv, KnownOnce
  <2>6. LatestOnItsWay'
    BY <1>1, <1>2, <2>3, <2>4 DEF WOInv, LatestOnItsWay
  <2>7. HadIsGone'
    BY <2>4 DEF HadIsGone
  <2> QED
    BY <1>1, <2>4, <2>5, <2>6, <2>7 DEF WOInv
<1>3. CASE WOPick /\ RangeEnds /\ out' = [out EXCEPT !.at = "idle", !.must = {}, !.had = {}]
  <2>1. OutTyped' /\ out'.at = "idle" /\ out'.had = {} /\ out'.must = {} /\ out'.received = out.received /\ out.at = "range"
    BY <1>1, <1>3 DEF WOInv, OutTyped, OutRecords, WOPick
  <2>2. LatestOnItsWay'
    BY <1>1, <1>3, <2>1 DEF WOInv, LatestOnItsWay, RangeEnds
  <2> QED
    BY <1>1, <2>1, <2>2 DEF WOInv, KnownOnce, HadIsGone
<1>4. CASE WOStopped
  <2>1. /\ OutTyped' /\ out'.at = "stopped" /\ out'.had = out.had /\ out'.must = out.must
        /\ out.at = "stopping" /\ out.must \cap hub.clients \subseteq out.had
    BY <1>1, <1>4 DEF WOInv, OutTyped, OutRecords, WOStopped, RangeEnds
  <2>2. LatestOnItsWay' /\ KnownOnce' /\ HadIsGone'
    BY <1>1, <2>1 DEF WOInv, LatestOnItsWay, KnownOnce, HadIsGone
  <2> QED
    BY <1>1, <2>1, <2>2 DEF WOInv
<1> QED
  BY <1>2, <1>3, <1>4 DEF WOPick

LEMMA SendStep == ASSUME Bounds, WOInv, WOSend PROVE WOInv'
<1>0. out.to \in Clients /\ out.at = "send" /\ UNCHANGED hub
  BY DEF WOInv, OutTyped, WOSend
<1>1. CASE cl[out.to].open /\ Room(out.to) /\ crashed' = crashed
  <2> DEFINE r == [cl[out.to] EXCEPT !.queue = Append(cl[out.to].queue, out.received)]
  <2>1. Set(out.to, r) /\ out' = [out EXCEPT !.at = "range", !.to = 0]
    BY <1>1 DEF WOSend
  <2>2. Goes(cl[out.to], r) /\ out.received \in Given(r)
    BY <1>0, <1>1, Gives DEF WOInv, HubInv, HubTyped, OutTyped, OutRecords, Room, Bounds
  <2> HIDE DEF r
  <2>3. AllGo /\ cl' \in [Clients -> ClientRecords] /\ cl'[out.to] = r
    BY <1>0, <2>1, <2>2, OneGoes, SetOne DEF WOInv, HubInv
  <2>4. HubInv' /\ hub'.left = {} /\ hub.clients \subseteq Clients
    BY <1>0, <2>3, AllGoKeeps DEF WOInv, HubInv, HubTyped, HubRecords
  <2>5. OutTyped' /\ KnownOnce'
    BY <1>0, <1>1, <2>1, <2>3 DEF WOInv, OutTyped, OutRecords, KnownOnce, AllGo, Goes
  <2>6. LatestOnItsWay'
    <3>1. out'.received = out.received /\ out'.must = out.must /\ out'.had = out.had /\ out'.at = "range"
      BY <2>1 DEF WOInv, OutTyped, OutRecords
    <3>2. ASSUME NEW c \in hub.clients, cl'[c].handler \in {"welcome", "done"}, out.received > 0
          PROVE  out.received \in Given(cl'[c]) \/ (c \in out.must /\ c \notin out.had)
      <4>1. CASE c = out.to
        BY <2>2, <2>3, <4>1
      <4>2. CASE c # out.to
        BY <1>0, <2>3, <2>4, <3>2, <4>2 DEF WOInv, LatestOnItsWay, AllGo, Goes
      <4> QED
        BY <4>1, <4>2
    <3> QED
      BY <1>0, <3>1, <3>2 DEF LatestOnItsWay
  <2>7. HadIsGone'
    BY <2>1 DEF WOInv, OutTyped, OutRecords, HadIsGone
  <2> QED
    BY <2>4, <2>5, <2>6, <2>7 DEF WOInv
<1>2. CASE crashed' = "send" /\ UNCHANGED <<cl, out>>
  BY <1>0, <1>2 DEF WOInv, HubInv, HubTyped, MapIsOpen, OutTyped, KnownOnce, LatestOnItsWay, HadIsGone
<1> QED
  BY <1>1, <1>2 DEF WOSend

LEMMA WOUnregisterStep == ASSUME WOInv, WOUnregister \/ WODisconnect PROVE WOInv'
<1>0. hub.clients \subseteq Clients
  BY DEF WOInv, HubInv, HubTyped, HubRecords
<1>1. CASE WOUnregister
  <2>1. PICK c \in Clients : /\ Producible(c) /\ Unregistering(c)
                             /\ out' = [out EXCEPT !.at = "disconnect", !.to = c, !.had = @ \cup {c}]
    BY <1>1 DEF WOUnregister
  <2>2. /\ out.at = "stopping" /\ UNCHANGED <<cl, crashed>> /\ Serving
        /\ hub' = [hub EXCEPT !.at = "unregister", !.who = c]
    BY <1>1, <2>1 DEF WOUnregister, Unregistering
  <2>3. HubInv' /\ hub'.left = {} /\ hub'.clients = hub.clients /\ hub'.at = "unregister" /\ hub'.who = c
    BY <2>2 DEF WOInv, HubInv, HubTyped, HubRecords, MapIsOpen, Serving
  <2>4. OutTyped' /\ out'.must = out.must /\ out'.had = out.had \cup {c} /\ out'.at = "disconnect"
    BY <2>1, <2>2 DEF WOInv, OutTyped, OutRecords
  <2>5. KnownOnce'
    BY <2>1, <2>2, <2>4 DEF WOInv, KnownOnce, Producible, HubInv, MapIsOpen
  <2>6. LatestOnItsWay'
    BY <2>4 DEF LatestOnItsWay
  <2>7. HadIsGone'
    BY <2>2, <2>3, <2>4 DEF WOInv, HadIsGone, Serving
  <2> QED
    BY <2>3, <2>4, <2>5, <2>6, <2>7 DEF WOInv
<1>2. CASE WODisconnect
  <2> DEFINE r == [cl[out.to] EXCEPT !.conn = FALSE]
  <2>1. /\ out.to \in Clients /\ Set(out.to, r) /\ UNCHANGED <<hub, crashed>> /\ out.at = "disconnect"
        /\ out' = [out EXCEPT !.at = "stopping", !.to = 0]
    BY <1>2 DEF WODisconnect, WOInv, OutTyped
  <2>2. Goes(cl[out.to], r)
    <3>1. cl[out.to] \in ClientRecords /\ Sound(cl[out.to])
      BY <2>1 DEF WOInv, HubInv, HubTyped
    <3> QED
      BY <3>1 DEF Goes, Given, ClientRecords, Sound
  <2> HIDE DEF r
  <2>3. AllGo /\ cl' \in [Clients -> ClientRecords]
    BY <2>1, <2>2, OneGoes DEF WOInv
  <2>4. HubInv' /\ hub'.left = {}
    BY <2>1, <2>3, AllGoKeeps DEF WOInv
  <2>5. OutTyped' /\ out'.must = out.must /\ out'.had = out.had /\ out'.at = "stopping"
    BY <2>1 DEF WOInv, OutTyped, OutRecords
  <2>6. KnownOnce'
    BY <2>3, <2>5 DEF WOInv, KnownOnce, OutTyped, OutRecords, AllGo, Goes
  <2>7. LatestOnItsWay' /\ HadIsGone'
    BY <2>1, <2>5 DEF WOInv, LatestOnItsWay, HadIsGone
  <2> QED
    BY <2>4, <2>5, <2>6, <2>7 DEF WOInv
<1> QED
  BY <1>1, <1>2

LEMMA WOHubStep == ASSUME WOInv, WOHub \/ MapRace PROVE WOInv'
<1>1. CASE HubUnregister /\ UNCHANGED <<out, crashed>>
  <2>1. /\ HubInv' /\ hub' = Served(hub.clients \ {hub.who}) /\ hub.at = "unregister"
        /\ \A c \in Clients \ ({hub.who} \cap hub.clients) : cl'[c] = cl[c]
    BY <1>1, UnregisterStep DEF WOInv
  <2>2. hub'.left = {} /\ hub'.clients = hub.clients \ {hub.who} /\ hub.clients \subseteq Clients
    BY <2>1 DEF Served, WOInv, HubInv, HubTyped, HubRecords
  <2>3. OutTyped'
    BY <1>1 DEF WOInv, OutTyped
  <2>4. KnownOnce'
    <3>1. \A c \in Clients : cl[c].handler # "new" => cl'[c].handler # "new"
      BY <1>1, UnregisterStep DEF WOInv
    <3> QED
      BY <1>1, <3>1 DEF WOInv, KnownOnce, OutTyped, OutRecords
  <2>5. LatestOnItsWay' /\ HadIsGone'
    BY <1>1, <2>1, <2>2 DEF WOInv, LatestOnItsWay, HadIsGone
  <2> QED
    BY <2>1, <2>2, <2>3, <2>4, <2>5 DEF WOInv
<1>2. CASE HubDone
  <2>1. /\ HubInv' /\ hub'.left = {} /\ hub'.clients = hub.clients /\ Serving
        /\ UNCHANGED <<cl, out, crashed>>
    BY <1>2 DEF HubDone, WOInv, HubInv, HubTyped, HubRecords, MapIsOpen, Serving
  <2> QED
    BY <2>1 DEF WOInv, OutTyped, KnownOnce, LatestOnItsWay, HadIsGone, Serving
<1>3. CASE MapRace
  BY <1>3 DEF MapRace, WOInv, HubInv, HubTyped, MapIsOpen, OutTyped, KnownOnce, LatestOnItsWay, HadIsGone
<1> QED
  BY <1>1, <1>2, <1>3 DEF WOHub

LEMMA WORegisterStep == ASSUME WOInv, NEW c \in Clients, WORegister(c) PROVE WOInv'
<1>1. /\ HubInv' /\ hub' = [hub EXCEPT !.clients = hub.clients \cup {c}] /\ Serving
      /\ cl[c].handler = "new" /\ cl'[c].handler = "registered"
      /\ \A d \in Clients \ {c} : cl'[d] = cl[d]
  BY RegisterStep DEF WOInv, OutTyped, OutRecords, WORegister
<1>2. hub'.left = {} /\ hub'.clients = hub.clients \cup {c} /\ hub.clients \subseteq Clients
  BY <1>1 DEF WOInv, HubInv, HubTyped, HubRecords
<1>3. UNCHANGED <<out, crashed>> /\ OutTyped'
  BY DEF WOInv, OutTyped, WORegister
<1>4. c \notin out.must \cup out.had /\ out.must \cup out.had \subseteq Clients
  BY <1>1 DEF WOInv, KnownOnce, OutTyped, OutRecords
<1>5. KnownOnce'
  BY <1>1, <1>3, <1>4 DEF WOInv, KnownOnce
<1>6. LatestOnItsWay'
  BY <1>1, <1>2, <1>3 DEF WOInv, LatestOnItsWay
<1>7. HadIsGone'
  BY <1>1, <1>2, <1>3, <1>4 DEF WOInv, HadIsGone, Serving
<1> QED
  BY <1>1, <1>2, <1>3, <1>5, <1>6, <1>7 DEF WOInv

\* A welcome holds the latest event, which Memory had before its loop began.
LEMMA WOWelcomeStep == ASSUME WOInv, NEW c \in Clients, WOWelcome(c) PROVE WOInv'
<1> DEFINE msgs == IF out.last = 0 THEN <<>> ELSE <<out.last>>
<1>1. msgs \in Seq(Nat) /\ (out.received > 0 => out.received \in Elements(msgs))
  BY DEF WOInv, OutTyped, OutRecords, Elements
<1>2. Welcome(c, msgs, {}) /\ UNCHANGED <<out, crashed>>
  BY DEF WOWelcome
<1> HIDE DEF msgs
<1>3. /\ HubInv' /\ UNCHANGED hub /\ cl[c].handler = "registered"
      /\ cl'[c].handler \in {"welcome", "done"} /\ Elements(msgs) \subseteq Given(cl'[c])
      /\ \A d \in Clients \ {c} : cl'[d] = cl[d]
  BY <1>1, <1>2, WelcomeStep DEF WOInv
<1>4. hub.clients \subseteq Clients /\ out.must \cup out.had \subseteq Clients
  BY DEF WOInv, HubInv, HubTyped, HubRecords, OutTyped, OutRecords
<1>5. OutTyped' /\ KnownOnce' /\ HadIsGone' /\ hub'.left = {}
  BY <1>2, <1>3, <1>4 DEF WOInv, OutTyped, KnownOnce, HadIsGone
<1>6. LatestOnItsWay'
  BY <1>1, <1>2, <1>3, <1>4 DEF WOInv, LatestOnItsWay
<1> QED
  BY <1>3, <1>5, <1>6 DEF WOInv

LEMMA WOStep == ASSUME Bounds, WOInv, [WONext]_woVars PROVE WOInv'
<1>1. CASE WOReceive \/ WOPick \/ WOStop \/ WOStopped
  BY <1>1, LoopBegins, PickStep
<1>2. CASE WOSend
  BY <1>2, SendStep
<1>3. CASE WOUnregister \/ WODisconnect
  BY <1>3, WOUnregisterStep
<1>4. CASE WOHub \/ MapRace
  BY <1>4, WOHubStep
<1>5. ASSUME NEW c \in Clients, WORegister(c) PROVE WOInv'
  BY <1>5, WORegisterStep
<1>6. ASSUME NEW c \in Clients, WOWelcome(c) PROVE WOInv'
  BY <1>6, WOWelcomeStep
<1>7. ASSUME NEW c \in Clients, WOShared(c) \/ WOLeave(c) PROVE WOInv'
  <2>1. CASE Pumps(c) \/ Leave(c)
    <3>1. HubInv' /\ AllGo /\ UNCHANGED hub
      BY <2>1, PumpsStep DEF WOInv
    <3> QED
      BY <1>7, <3>1, WOGoesOn DEF WOShared, WOLeave
  <2>2. CASE ReaderUnregisters(c)
    <3>1. HubInv' /\ AllGo /\ Serving /\ hub' = [hub EXCEPT !.at = "unregister", !.who = c]
      BY <2>2, ReaderStep DEF WOInv
    <3>2. hub'.clients = hub.clients /\ hub'.left = hub.left
      BY <3>1 DEF WOInv, HubInv, HubTyped, HubRecords
    <3> QED
      BY <1>7, <3>1, <3>2, WOGoesOn DEF WOShared, WOLeave
  <2> QED
    BY <1>7, <2>1, <2>2 DEF WOShared, WOLeave
<1>8. CASE UNCHANGED woVars
  BY <1>8 DEF woVars, WOInv, HubInv, HubTyped, MapIsOpen, OutTyped, KnownOnce, LatestOnItsWay, HadIsGone
<1> QED
  BY <1>1, <1>2, <1>3, <1>4, <1>5, <1>6, <1>7, <1>8 DEF WONext, WOWorker

LEMMA WOPromises == ASSUME WOInv PROVE HubSurvives /\ LatestReachesAll /\ StopEmptiesMap
<1>1. hub.clients \subseteq Clients
  BY DEF WOInv, HubInv, HubTyped, HubRecords
<1>2. LatestReachesAll
  BY <1>1, InHandIs DEF WOInv, LatestOnItsWay, LatestReachesAll
<1>3. StopEmptiesMap
  BY DEF WOInv, HadIsGone, StopEmptiesMap
<1> QED
  BY <1>2, <1>3 DEF WOInv, HubInv, MapIsOpen, HubSurvives

LEMMA WOTypes == ASSUME Bounds, WOInv PROVE WOTypeOK
<1>1. HubTypeOK
  BY DEF WOInv, HubInv, HubTyped, HubRecords, ClientRecords, Sound, HubTypeOK
<1>2. out.last \in 0..out.received /\ out.received \in 0..MaxReceived
  BY DEF Bounds, WOInv, OutTyped, OutRecords
<1> QED
  BY <1>1, <1>2 DEF WOInv, OutTyped, OutRecords, WOTypeOK

-----------------------------------------------------------------------------
(***************************************************************************)
(* The websocket input: its stop and the hub.                              *)
(***************************************************************************)
PeerRecords ==
  [handler : {"new", "sent", "done"}, done : {"nil", "open", "closed"}, conn : BOOLEAN,
   reader : {"none", "read", "send", "closing", "unregister", "gone"},
   writer : {"none", "loop", "wait", "wait nil", "gone"}]
RoomRecords ==
  [at : {"select", "register", "unregister", "gone"}, who : {0} \cup Peers, clients : SUBSET Peers]
QuitRecords ==
  [at : {"no", "ranging", "closed"}, must : SUBSET Peers, had : SUBSET Peers, messages : Nat,
   closed : BOOLEAN]
WITyped ==
  /\ room \in RoomRecords /\ (room.at \in {"register", "unregister"} => room.who \in Peers)
  /\ peer \in [Peers -> PeerRecords]
  /\ quit \in QuitRecords /\ quit.messages <= MaxMessages
  /\ fault \in {"no", "close of nil", "send on closed"}
InHubsHands(c) == room.at = "unregister" /\ room.who = c /\ c \in room.clients
\* Whom the stop found it still finds, or he is disconnected; whom it had is
\* disconnected, or the hub is about to; and it ends only with all of them had.
LeavesNone ==
  /\ \A c \in quit.must : c \in room.clients \/ ~peer[c].conn
  /\ \A c \in quit.had : peer[c].conn => InHubsHands(c)
  /\ quit.at = "closed" => \A c \in quit.must : peer[c].conn => InHubsHands(c)
  /\ room.at = "gone" => quit.at = "closed"
WIInv == WITyped /\ LeavesNone

\* A connection that is closed is not opened again.
PeerGoes(q, r) == r \in PeerRecords /\ (r.conn => q.conn)
PeersGo == peer' \in [Peers -> PeerRecords] /\ \A c \in Peers : peer'[c].conn => peer[c].conn

LEMMA WIStarts == ASSUME Bounds, WIInit PROVE WIInv
BY DEF Bounds, WIInit, WIInv, WITyped, RoomRecords, PeerRecords, QuitRecords, NoPeer, LeavesNone

LEMMA OnePeerGoes ==
  ASSUME WITyped, NEW c \in Peers, NEW r, PeerGoes(peer[c], r), Put(c, r)
  PROVE  PeersGo /\ peer'[c] = r
BY DEF WITyped, PeerGoes, PeersGo, Put

LEMMA PeersKeep ==
  ASSUME WIInv, PeersGo, room' \in RoomRecords, room'.clients = room.clients,
         room' = room \/ (Selecting /\ room'.at # "gone" /\ (room'.at # "select" => room'.who \in Peers)),
         quit' \in QuitRecords, quit'.messages <= MaxMessages,
         quit'.at = quit.at, quit'.must = quit.must, quit'.had = quit.had,
         fault' \in {"no", "close of nil", "send on closed"}
  PROVE  WIInv'
<1>1. WITyped'
  BY DEF WIInv, WITyped, RoomRecords, PeersGo
<1>2. quit.must \subseteq Peers /\ quit.had \subseteq Peers
  BY DEF WIInv, WITyped, QuitRecords
<1>3. LeavesNone'
  BY <1>2 DEF WIInv, LeavesNone, InHubsHands, PeersGo, Selecting
<1> QED
  BY <1>1, <1>3 DEF WIInv

\* What a peer does in its handler and pumps.
LEMMA PeerChanges ==
  ASSUME NEW q \in PeerRecords
  PROVE  /\ PeerGoes(q, q)
         /\ PeerGoes(q, [q EXCEPT !.handler = "sent"])
         /\ PeerGoes(q, [q EXCEPT !.handler = "done", !.reader = "read", !.writer = "loop"])
         /\ PeerGoes(q, [q EXCEPT !.conn = FALSE])
         /\ PeerGoes(q, [q EXCEPT !.writer = "gone", !.conn = FALSE])
         /\ PeerGoes(q, [q EXCEPT !.reader = "unregister", !.done = "closed"])
         /\ PeerGoes(q, [q EXCEPT !.done = "open"])
         /\ \A x \in {"read", "send", "closing", "gone"} : PeerGoes(q, [q EXCEPT !.reader = x])
         /\ \A x \in {"loop", "wait", "wait nil", "gone"} : PeerGoes(q, [q EXCEPT !.writer = x])
BY DEF PeerGoes, PeerRecords

LEMMA WIPeerStep ==
  ASSUME WIInv, NEW c \in Peers,
         WIPumps(c) \/ WISend(c) \/ WIReadFails(c) \/ CloseDone(c) \/ WIWriter(c) \/ WILeave(c)
  PROVE  WIInv'
<1>0. peer[c] \in PeerRecords /\ UNCHANGED <<room, quit>>
  BY DEF WIInv, WITyped, WIPumps, WISend, WIReadFails, CloseDone, WIWriter, WILoop, WIPing, WIWriterDone, WILeave
<1>1. fault' \in {"no", "close of nil", "send on closed"}
  BY DEF WIInv, WITyped, WIPumps, WISend, WIReadFails, CloseDone, WIWriter, WILoop, WIPing, WIWriterDone, WILeave
<1>2. \/ UNCHANGED peer
      \/ \E r : PeerGoes(peer[c], r) /\ Put(c, r)
  <2>1. CASE WIPumps(c) \/ WILeave(c) \/ WIReadFails(c)
    BY <1>0, <2>1, PeerChanges DEF WIPumps, WILeave, WIReadFails
  <2>2. CASE WISend(c) \/ CloseDone(c)
    BY <1>0, <2>2, PeerChanges DEF WISend, CloseDone
  <2>3. CASE WIWriter(c)
    BY <1>0, <2>3, PeerChanges DEF WIWriter, WILoop, WIPing, WIWriterDone
  <2> QED
    BY <2>1, <2>2, <2>3
<1>3. PeersGo
  BY <1>2, OnePeerGoes DEF WIInv, WITyped, PeersGo
<1> QED
  BY <1>0, <1>1, <1>3, PeersKeep DEF WIInv, WITyped

LEMMA WIMessageStep == ASSUME Bounds, WIInv, NEW c \in Peers, WIMessage(c) PROVE WIInv'
<1>1. PeersGo
  BY PeerChanges, OnePeerGoes DEF WIInv, WITyped, WIMessage
<1>2. /\ quit' \in QuitRecords /\ quit'.messages <= MaxMessages
      /\ quit'.at = quit.at /\ quit'.must = quit.must /\ quit'.had = quit.had
  <2> DEFINE n == quit.messages + 1
  <2>1. n \in Nat /\ n <= MaxMessages
    <3>1. quit.messages \in Nat /\ quit.messages < MaxMessages /\ MaxMessages \in Nat
      BY DEF Bounds, WIInv, WITyped, QuitRecords, WIMessage
    <3> QED
      BY <3>1
  <2>2. quit' = [quit EXCEPT !.messages = n]
    BY DEF WIMessage
  <2> HIDE DEF n
  <2> QED
    BY <2>1, <2>2 DEF WIInv, WITyped, QuitRecords
<1> QED
  BY <1>1, <1>2, PeersKeep DEF WIInv, WITyped, WIMessage

\* A handler or a reader goes to the hub.
LEMMA ToTheHub == ASSUME WIInv, NEW c \in Peers, WIRegister(c) \/ WIUnregister(c) PROVE WIInv'
<1>1. PeersGo
  BY PeerChanges, OnePeerGoes DEF WIInv, WITyped, WIRegister, WIUnregister
<1>2. /\ Selecting /\ room' \in RoomRecords /\ room'.clients = room.clients
      /\ room'.at # "gone" /\ room'.who = c
  BY DEF WIInv, WITyped, RoomRecords, WIRegister, WIUnregister
<1> QED
  BY <1>1, <1>2, PeersKeep DEF WIInv, WITyped, WIRegister, WIUnregister

LEMMA HubsWork == ASSUME WIInv, WIHub PROVE WIInv'
<1>1. CASE HubRegister
  <2>1. room.at = "register" /\ room.who \in Peers /\ PeersGo
    BY <1>1, PeerChanges, OnePeerGoes DEF WIInv, WITyped, HubRegister
  <2>2. room' \in RoomRecords /\ room'.at = "select" /\ room.clients \subseteq room'.clients
    BY <1>1, <2>1 DEF WIInv, WITyped, RoomRecords, HubRegister
  <2>3. quit.must \subseteq Peers /\ quit.had \subseteq Peers /\ UNCHANGED <<quit, fault>>
    BY <1>1 DEF WIInv, WITyped, QuitRecords, HubRegister
  <2>4. WITyped'
    BY <2>1, <2>2, <2>3 DEF WIInv, WITyped, PeersGo
  <2>5. LeavesNone'
    BY <2>1, <2>2, <2>3 DEF WIInv, LeavesNone, InHubsHands, PeersGo
  <2> QED
    BY <2>4, <2>5 DEF WIInv
<1>2. CASE WIHubUnregister
  <2>1. room.at = "unregister" /\ room.who \in Peers /\ UNCHANGED <<quit, fault>>
    BY <1>2 DEF WIInv, WITyped, WIHubUnregister
  <2>2. PeersGo /\ (room.who \in room.clients => ~peer'[room.who].conn)
    <3>1. CASE room.who \in room.clients
      <4> DEFINE r == [peer[room.who] EXCEPT !.conn = FALSE]
      <4>1. PeerGoes(peer[room.who], r) /\ ~r.conn /\ Put(room.who, r)
        <5>1. peer[room.who] \in PeerRecords
          BY <2>1 DEF WIInv, WITyped
        <5>2. ~r.conn
          BY <5>1 DEF PeerRecords
        <5> QED
          BY <1>2, <3>1, <5>1, <5>2, PeerChanges DEF WIHubUnregister
      <4> HIDE DEF r
      <4> QED
        BY <2>1, <4>1, OnePeerGoes DEF WIInv
    <3>2. CASE room.who \notin room.clients
      BY <1>2, <3>2 DEF WIHubUnregister, PeersGo, WIInv, WITyped
    <3> QED
      BY <3>1, <3>2
  <2>3. room' \in RoomRecords /\ room'.at = "select" /\ room'.clients = room.clients \ {room.who}
    BY <1>2 DEF WIInv, WITyped, RoomRecords, WIHubUnregister
  <2>4. quit.must \subseteq Peers /\ quit.had \subseteq Peers
    BY DEF WIInv, WITyped, QuitRecords
  <2>5. WITyped'
    BY <2>1, <2>2, <2>3 DEF WIInv, WITyped, PeersGo
  <2>6. LeavesNone'
    BY <2>1, <2>2, <2>3, <2>4 DEF WIInv, LeavesNone, InHubsHands, PeersGo
  <2> QED
    BY <2>5, <2>6 DEF WIInv
<1>3. CASE WIHubDone
  <2>1. /\ Selecting /\ quit.at = "closed" /\ UNCHANGED <<peer, quit, fault>>
        /\ room' \in RoomRecords /\ room'.at = "gone" /\ room'.clients = room.clients
    BY <1>3 DEF WIInv, WITyped, RoomRecords, WIHubDone
  <2> QED
    BY <2>1 DEF WIInv, WITyped, LeavesNone, InHubsHands, Selecting
<1> QED
  BY <1>1, <1>2, <1>3 DEF WIHub

LEMMA StopStep == ASSUME WIInv, WIStop \/ WIStopOne \/ WIStopped \/ CloseNext PROVE WIInv'
<1>0. room.clients \subseteq Peers
  BY DEF WIInv, WITyped, RoomRecords
<1>1. CASE WIStop
  <2> DEFINE clients == room.clients
  <2>1. quit' = [quit EXCEPT !.at = "ranging", !.must = clients] /\ clients \in SUBSET Peers
    BY <1>0, <1>1 DEF WIStop
  <2>2. clients = room.clients
    OBVIOUS
  <2> HIDE DEF clients
  <2>3. /\ quit' \in QuitRecords /\ quit'.messages = quit.messages /\ quit'.at = "ranging"
        /\ quit'.must = clients /\ quit'.had = quit.had /\ quit.at = "no" /\ UNCHANGED <<room, peer, fault>>
    BY <1>1, <2>1 DEF WIInv, WITyped, QuitRecords, WIStop
  <2> QED
    BY <2>2, <2>3 DEF WIInv, WITyped, LeavesNone, InHubsHands
<1>2. CASE WIStopOne
  <2>1. PICK c \in room.clients : /\ room' = [room EXCEPT !.at = "unregister", !.who = c]
                                  /\ quit' = [quit EXCEPT !.had = @ \cup {c}]
    BY <1>2 DEF WIStopOne
  <2>2. /\ room' \in RoomRecords /\ room'.at = "unregister" /\ room'.who = c /\ room'.clients = room.clients
        /\ Selecting /\ UNCHANGED <<peer, fault>>
    BY <1>0, <1>2, <2>1 DEF WIInv, WITyped, RoomRecords, WIStopOne
  <2>3. /\ quit' \in QuitRecords /\ quit'.messages = quit.messages /\ quit.at = "ranging"
        /\ quit'.at = quit.at /\ quit'.must = quit.must /\ quit'.had = quit.had \cup {c}
    BY <1>0, <1>2, <2>1 DEF WIInv, WITyped, QuitRecords, WIStopOne
  <2> QED
    BY <1>0, <2>2, <2>3 DEF WIInv, WITyped, LeavesNone, InHubsHands, Selecting
<1>3. CASE WIStopped \/ CloseNext
  <2>1. /\ quit' \in QuitRecords /\ quit'.messages = quit.messages /\ quit'.at = "closed"
        /\ quit'.must = quit.must /\ quit'.had = quit.had /\ UNCHANGED <<room, peer, fault>>
        /\ quit.at = "closed" \/ quit.must \cap room.clients \subseteq quit.had
    BY <1>3 DEF WIInv, WITyped, QuitRecords, WIStopped, CloseNext
  <2> QED
    BY <2>1 DEF WIInv, WITyped, LeavesNone, InHubsHands
<1> QED
  BY <1>1, <1>2, <1>3

LEMMA WIStep == ASSUME Bounds, WIInv, [WINext]_wiVars PROVE WIInv'
<1>1. ASSUME NEW c \in Peers, WIRegister(c) \/ WIPeer(c) \/ WIWriter(c) \/ WIMessage(c) \/ WILeave(c)
      PROVE  WIInv'
  BY <1>1, ToTheHub, WIPeerStep, WIMessageStep DEF WIPeer
<1>2. CASE UNCHANGED wiVars
  BY <1>2 DEF wiVars, WIInv, WITyped, LeavesNone, InHubsHands
<1> QED
  BY <1>1, <1>2, HubsWork, StopStep DEF WINext

LEMMA WIPromises == ASSUME WIInv PROVE StopDisconnects
BY DEF WIInv, LeavesNone, InHubsHands, StopDisconnects

LEMMA WITypes == ASSUME Bounds, WIInv PROVE WITypeOK
<1>1. quit.messages \in Nat /\ MaxMessages \in Nat /\ quit.messages <= MaxMessages
  BY DEF Bounds, WIInv, WITyped, QuitRecords
<1>2. quit.messages \in 0..MaxMessages
  BY <1>1
<1> QED
  BY <1>2 DEF WIInv, WITyped, RoomRecords, PeerRecords, QuitRecords, WITypeOK

-----------------------------------------------------------------------------
(***************************************************************************)
(* Webfan.                                                                 *)
(***************************************************************************)
RequestRecords ==
  [at : {"none", "routed", "build", "start", "decode", "feed", "send", "stop", "wait", "returned"},
   body : Int, fed : Nat, queue : Seq(Nat), pass : {"none", "idle", "hand", "stopped"}, back : BOOLEAN,
   writer : {"none", "run", "gone"}, shown : Seq(Nat), late : BOOLEAN,
   ended : {"no", "answered", "refused", "panic"}]
\* What was fed is shown, in its order, but for what is still in the queue.
InOrder(fed, shown, queue) ==
  /\ fed = Len(shown) + Len(queue)
  /\ \A i \in 1..Len(shown) : shown[i] = i
  /\ \A i \in 1..Len(queue) : queue[i] = Len(shown) + i
\* Before its pipeline is started, and after it is stopped, pass shows nothing.
Staged(q) ==
  /\ q.at \in {"none", "routed", "build", "start"} => q.pass = "none"
  /\ q.at = "wait" \/ q.ended = "answered" => q.pass = "stopped" /\ q.queue = <<>>
  /\ q.ended = "refused" => q.pass = "none"
  /\ q.ended # "no" => q.at = "returned"
Rightful(q) ==
  /\ q.body \in -1..MaxRecords /\ Len(q.queue) <= Depth
  /\ q.pass = "hand" => q.queue # <<>>
  /\ InOrder(q.fed, q.shown, q.queue) /\ Staged(q)
WFInv ==
  /\ fan \in {"running", "unplugged", "stopped", "closed"} /\ dead \in BOOLEAN
  /\ DOMAIN req = Requests /\ req = [r \in Requests |-> req[r]]
  /\ \A r \in Requests : req[r] \in RequestRecords /\ Rightful(req[r])
  /\ StopAwaitsRequests

Uncounted == {"none", "routed", "returned"}
Proceeds(q, f) ==
  /\ f \in RequestRecords /\ Rightful(f)
  /\ f.at \notin Uncounted => q.at \notin Uncounted /\ f.late = q.late
  /\ q.ended \in {"answered", "refused"} => f.shown = q.shown

LEMMA WFStarts == ASSUME Bounds, WFInit PROVE WFInv
<1>1. NoRequest \in RequestRecords /\ Rightful(NoRequest)
  BY DEF Bounds, Rightful, RequestRecords, InOrder, Staged, NoRequest
<1> QED
  BY <1>1 DEF WFInit, WFInv, StopAwaitsRequests

LEMMA FedInOrder ==
  ASSUME NEW fed \in Nat, NEW shown \in Seq(Nat), NEW queue \in Seq(Nat), InOrder(fed, shown, queue)
  PROVE  InOrder(fed + 1, shown, Append(queue, fed + 1)) /\ Len(Append(queue, fed + 1)) = Len(queue) + 1
<1> DEFINE longer == Append(queue, fed + 1)
<1>1. /\ longer \in Seq(Nat) /\ Len(longer) = Len(queue) + 1 /\ longer[Len(longer)] = fed + 1
      /\ \A i \in 1..Len(queue) : longer[i] = queue[i]
  OBVIOUS
<1>2. Len(queue) \in Nat /\ Len(shown) \in Nat
  OBVIOUS
<1> HIDE DEF longer
<1>3. ASSUME NEW i \in 1..Len(longer) PROVE longer[i] = Len(shown) + i
  <2>1. CASE i = Len(longer)
    BY <1>1, <1>2, <2>1 DEF InOrder
  <2>2. CASE i # Len(longer)
    <3>1. i \in 1..Len(queue)
      BY <1>1, <1>2, <2>2
    <3> QED
      BY <1>1, <3>1 DEF InOrder
  <2> QED
    BY <2>1, <2>2
<1>4. InOrder(fed + 1, shown, longer)
  BY <1>1, <1>2, <1>3 DEF InOrder
<1> QED
  BY <1>1, <1>4 DEF longer

LEMMA ShownInOrder ==
  ASSUME NEW fed \in Nat, NEW shown \in Seq(Nat), NEW queue \in Seq(Nat), InOrder(fed, shown, queue),
         queue # <<>>
  PROVE  InOrder(fed, Append(shown, Head(queue)), Tail(queue)) /\ Len(Tail(queue)) = Len(queue) - 1
BY DEF InOrder

LEMMA AllShown ==
  ASSUME NEW fed \in Nat, NEW shown \in Seq(Nat), InOrder(fed, shown, <<>>)
  PROVE  shown = [i \in 1..fed |-> i]
BY DEF InOrder

\* What is fed and shown stays as it is, where only the stage changes.
StageOnly(q, f) ==
  /\ f.fed = q.fed /\ f.queue = q.queue /\ f.shown = q.shown /\ f.body \in -1..MaxRecords
  /\ f.pass = "hand" => q.queue # <<>>
  /\ f.at \notin Uncounted => q.at \notin Uncounted /\ f.late = q.late

LEMMA StageChanges ==
  ASSUME NEW q \in RequestRecords, Rightful(q), NEW f \in RequestRecords, Staged(f), StageOnly(q, f)
  PROVE  Proceeds(q, f)
BY DEF Rightful, Proceeds, StageOnly

\* The handler of a request goes on, before and after its loop.
LEMMA HandlerProceeds ==
  ASSUME Bounds, NEW q \in RequestRecords, Rightful(q)
  PROVE  /\ q.at = "none" => \A n \in 0..MaxRecords : Proceeds(q, [q EXCEPT !.at = "routed", !.body = n])
         /\ q.at = "build" => Proceeds(q, [q EXCEPT !.at = "start", !.writer = "run"])
         /\ q.at = "build" =>
              \A open \in BOOLEAN : Proceeds(q, Ended([q EXCEPT !.back = open], "refused"))
         /\ q.at = "start" => Proceeds(q, [q EXCEPT !.at = "decode", !.pass = "idle"])
         /\ q.at = "start" => Proceeds(q, Ended([q EXCEPT !.back = FALSE], "refused"))
         /\ q.at = "wait" => Proceeds(q, Ended(q, "answered"))
<1>0. q.body \in -1..MaxRecords /\ Staged(q) /\ (q.pass = "hand" => q.queue # <<>>)
  BY DEF Rightful
<1>1. ASSUME NEW n \in 0..MaxRecords, q.at = "none" PROVE Proceeds(q, [q EXCEPT !.at = "routed", !.body = n])
  <2> DEFINE f == [q EXCEPT !.at = "routed", !.body = n]
  <2>1. n \in Int /\ n \in -1..MaxRecords
    BY DEF Bounds
  <2>2. f \in RequestRecords /\ Staged(f) /\ StageOnly(q, f)
    BY <1>0, <1>1, <2>1 DEF RequestRecords, Staged, StageOnly, Uncounted
  <2> HIDE DEF f
  <2>3. Proceeds(q, f)
    BY <2>2, StageChanges
  <2> QED
    BY <2>3 DEF f
<1>2. ASSUME q.at = "build" PROVE Proceeds(q, [q EXCEPT !.at = "start", !.writer = "run"])
  <2> DEFINE f == [q EXCEPT !.at = "start", !.writer = "run"]
  <2>1. f \in RequestRecords /\ Staged(f) /\ StageOnly(q, f)
    BY <1>0, <1>2 DEF RequestRecords, Staged, StageOnly, Uncounted
  <2> HIDE DEF f
  <2>2. Proceeds(q, f)
    BY <2>1, StageChanges
  <2> QED
    BY <2>2 DEF f
<1>3. ASSUME NEW open \in BOOLEAN, q.at = "build" PROVE Proceeds(q, Ended([q EXCEPT !.back = open], "refused"))
  <2> DEFINE f == Ended([q EXCEPT !.back = open], "refused")
  <2>1. f \in RequestRecords /\ Staged(f) /\ StageOnly(q, f)
    BY <1>0, <1>3 DEF RequestRecords, Staged, StageOnly, Uncounted, Ended
  <2> HIDE DEF f
  <2>2. Proceeds(q, f)
    BY <2>1, StageChanges
  <2> QED
    BY <2>2 DEF f
<1>4. ASSUME q.at = "start" PROVE Proceeds(q, [q EXCEPT !.at = "decode", !.pass = "idle"])
  <2> DEFINE f == [q EXCEPT !.at = "decode", !.pass = "idle"]
  <2>1. f \in RequestRecords /\ Staged(f) /\ StageOnly(q, f)
    BY <1>0, <1>4 DEF RequestRecords, Staged, StageOnly, Uncounted
  <2> HIDE DEF f
  <2>2. Proceeds(q, f)
    BY <2>1, StageChanges
  <2> QED
    BY <2>2 DEF f
<1>5. ASSUME q.at = "start" PROVE Proceeds(q, Ended([q EXCEPT !.back = FALSE], "refused"))
  <2> DEFINE f == Ended([q EXCEPT !.back = FALSE], "refused")
  <2>1. f \in RequestRecords /\ Staged(f) /\ StageOnly(q, f)
    BY <1>0, <1>5 DEF RequestRecords, Staged, StageOnly, Uncounted, Ended
  <2> HIDE DEF f
  <2>2. Proceeds(q, f)
    BY <2>1, StageChanges
  <2> QED
    BY <2>2 DEF f
<1>6. ASSUME q.at = "wait" PROVE Proceeds(q, Ended(q, "answered"))
  <2> DEFINE f == Ended(q, "answered")
  <2>1. f \in RequestRecords /\ Staged(f) /\ StageOnly(q, f)
    BY <1>0, <1>6 DEF RequestRecords, Staged, StageOnly, Uncounted, Ended
  <2> HIDE DEF f
  <2>2. Proceeds(q, f)
    BY <2>1, StageChanges
  <2> QED
    BY <2>2 DEF f
<1> QED
  BY <1>1, <1>2, <1>3, <1>4, <1>5, <1>6

LEMMA LoopProceeds ==
  ASSUME Bounds, NEW q \in RequestRecords, Rightful(q)
  PROVE  /\ q.at = "decode" /\ q.body > 0 => Proceeds(q, [q EXCEPT !.at = "feed", !.body = q.body - 1])
         /\ q.at \in {"decode", "send"} => Proceeds(q, Ended(q, "panic"))
         /\ q.at = "decode" => Proceeds(q, [q EXCEPT !.at = "feed", !.body = -1])
         /\ q.at = "decode" => Proceeds(q, [q EXCEPT !.at = "stop"])
         /\ q.at = "decode" => Proceeds(q, [q EXCEPT !.at = "stop", !.back = FALSE])
         /\ q.at = "send" => Proceeds(q, [q EXCEPT !.at = "decode"])
<1>0. q.body \in -1..MaxRecords /\ Staged(q) /\ (q.pass = "hand" => q.queue # <<>>)
  BY DEF Rightful
<1>1. ASSUME NEW n \in -1..MaxRecords, q.at = "decode" PROVE Proceeds(q, [q EXCEPT !.at = "feed", !.body = n])
  <2> DEFINE f == [q EXCEPT !.at = "feed", !.body = n]
  <2>1. n \in Int
    OBVIOUS
  <2>2. f \in RequestRecords /\ Staged(f) /\ StageOnly(q, f)
    BY <1>0, <1>1, <2>1 DEF RequestRecords, Staged, StageOnly, Uncounted
  <2> HIDE DEF f
  <2>3. Proceeds(q, f)
    BY <2>2, StageChanges
  <2> QED
    BY <2>3 DEF f
<1>2. ASSUME q.at \in {"decode", "send"} PROVE Proceeds(q, Ended(q, "panic"))
  <2> DEFINE f == Ended(q, "panic")
  <2>1. f \in RequestRecords /\ Staged(f) /\ StageOnly(q, f)
    BY <1>0, <1>2 DEF RequestRecords, Staged, StageOnly, Uncounted, Ended
  <2> HIDE DEF f
  <2>2. Proceeds(q, f)
    BY <2>1, StageChanges
  <2> QED
    BY <2>2 DEF f
<1>3. ASSUME q.at = "decode" PROVE Proceeds(q, [q EXCEPT !.at = "stop"])
  <2> DEFINE f == [q EXCEPT !.at = "stop"]
  <2>1. f \in RequestRecords /\ Staged(f) /\ StageOnly(q, f)
    BY <1>0, <1>3 DEF RequestRecords, Staged, StageOnly, Uncounted
  <2> HIDE DEF f
  <2>2. Proceeds(q, f)
    BY <2>1, StageChanges
  <2> QED
    BY <2>2 DEF f
<1>4. ASSUME q.at = "decode" PROVE Proceeds(q, [q EXCEPT !.at = "stop", !.back = FALSE])
  <2> DEFINE f == [q EXCEPT !.at = "stop", !.back = FALSE]
  <2>1. f \in RequestRecords /\ Staged(f) /\ StageOnly(q, f)
    BY <1>0, <1>4 DEF RequestRecords, Staged, StageOnly, Uncounted
  <2> HIDE DEF f
  <2>2. Proceeds(q, f)
    BY <2>1, StageChanges
  <2> QED
    BY <2>2 DEF f
<1>5. ASSUME q.at = "send" PROVE Proceeds(q, [q EXCEPT !.at = "decode"])
  <2> DEFINE f == [q EXCEPT !.at = "decode"]
  <2>1. f \in RequestRecords /\ Staged(f) /\ StageOnly(q, f)
    BY <1>0, <1>5 DEF RequestRecords, Staged, StageOnly, Uncounted
  <2> HIDE DEF f
  <2>2. Proceeds(q, f)
    BY <2>1, StageChanges
  <2> QED
    BY <2>2 DEF f
<1>6. -1 \in -1..MaxRecords /\ (q.body > 0 => q.body - 1 \in -1..MaxRecords)
  BY <1>0 DEF Bounds
<1> QED
  BY <1>1, <1>2, <1>3, <1>4, <1>5, <1>6

LEMMA PassProceeds ==
  ASSUME NEW q \in RequestRecords, Rightful(q)
  PROVE  /\ q.writer = "run" => Proceeds(q, [q EXCEPT !.writer = "gone"])
         /\ q.pass = "idle" /\ q.queue # <<>> => Proceeds(q, [q EXCEPT !.pass = "hand"])
         /\ q.at = "stop" /\ q.pass = "idle" /\ q.queue = <<>> =>
              Proceeds(q, [q EXCEPT !.at = "wait", !.pass = "stopped", !.back = FALSE])
<1>0. q.body \in -1..MaxRecords /\ Staged(q) /\ (q.pass = "hand" => q.queue # <<>>)
  BY DEF Rightful
<1>1. ASSUME q.writer = "run" PROVE Proceeds(q, [q EXCEPT !.writer = "gone"])
  <2> DEFINE f == [q EXCEPT !.writer = "gone"]
  <2>1. f \in RequestRecords /\ Staged(f) /\ StageOnly(q, f)
    BY <1>0, <1>1 DEF RequestRecords, Staged, StageOnly, Uncounted
  <2> HIDE DEF f
  <2>2. Proceeds(q, f)
    BY <2>1, StageChanges
  <2> QED
    BY <2>2 DEF f
<1>2. ASSUME q.pass = "idle" /\ q.queue # <<>> PROVE Proceeds(q, [q EXCEPT !.pass = "hand"])
  <2> DEFINE f == [q EXCEPT !.pass = "hand"]
  <2>1. f \in RequestRecords /\ Staged(f) /\ StageOnly(q, f)
    BY <1>0, <1>2 DEF RequestRecords, Staged, StageOnly, Uncounted
  <2> HIDE DEF f
  <2>2. Proceeds(q, f)
    BY <2>1, StageChanges
  <2> QED
    BY <2>2 DEF f
<1>3. ASSUME q.at = "stop" /\ q.pass = "idle" /\ q.queue = <<>> PROVE Proceeds(q, [q EXCEPT !.at = "wait", !.pass = "stopped", !.back = FALSE])
  <2> DEFINE f == [q EXCEPT !.at = "wait", !.pass = "stopped", !.back = FALSE]
  <2>1. f \in RequestRecords /\ Staged(f) /\ StageOnly(q, f)
    BY <1>0, <1>3 DEF RequestRecords, Staged, StageOnly, Uncounted
  <2> HIDE DEF f
  <2>2. Proceeds(q, f)
    BY <2>1, StageChanges
  <2> QED
    BY <2>2 DEF f
<1> QED
  BY <1>1, <1>2, <1>3

LEMMA FeedProceeds ==
  ASSUME Bounds, NEW q \in RequestRecords, Rightful(q), q.at = "feed", Len(q.queue) < Depth
  PROVE  Proceeds(q, [q EXCEPT !.at = "send", !.fed = q.fed + 1, !.queue = Append(q.queue, q.fed + 1)])
<1> DEFINE fed == q.fed + 1
           queue == Append(q.queue, fed)
           f == [q EXCEPT !.at = "send", !.fed = fed, !.queue = queue]
<1>1. fed \in Nat /\ queue \in Seq(Nat) /\ queue # <<>>
  BY DEF RequestRecords
<1>2. InOrder(fed, q.shown, queue) /\ Len(queue) <= Depth
  <2>1. q.fed \in Nat /\ q.shown \in Seq(Nat) /\ q.queue \in Seq(Nat) /\ InOrder(q.fed, q.shown, q.queue)
    BY DEF Rightful, RequestRecords
  <2>2. Len(q.queue) \in Nat /\ Depth \in Nat
    BY <2>1 DEF Bounds
  <2>3. Len(queue) = Len(q.queue) + 1 /\ InOrder(fed, q.shown, queue)
    BY <2>1, FedInOrder
  <2> QED
    BY <2>2, <2>3
<1> HIDE DEF fed, queue
<1>3. /\ f \in RequestRecords /\ f.body = q.body /\ f.pass = q.pass /\ f.late = q.late
      /\ f.at = "send" /\ f.fed = fed /\ f.queue = queue /\ f.shown = q.shown /\ f.ended = q.ended
  BY <1>1 DEF RequestRecords
<1> HIDE DEF f
<1>4. Rightful(f) /\ q.ended = "no"
  BY <1>1, <1>2, <1>3 DEF Rightful, Staged, RequestRecords
<1>5. Proceeds(q, f)
  BY <1>3, <1>4 DEF Proceeds, Uncounted, RequestRecords
<1> QED
  BY <1>5 DEF f, fed, queue

LEMMA HandProceeds ==
  ASSUME Bounds, NEW q \in RequestRecords, Rightful(q), q.pass = "hand"
  PROVE  Proceeds(q, [q EXCEPT !.pass = "idle", !.queue = Tail(q.queue), !.shown = Append(q.shown, Head(q.queue))])
<1> DEFINE queue == Tail(q.queue)
           shown == Append(q.shown, Head(q.queue))
           f == [q EXCEPT !.pass = "idle", !.queue = queue, !.shown = shown]
<1>0. /\ q.fed \in Nat /\ q.shown \in Seq(Nat) /\ q.queue \in Seq(Nat) /\ q.queue # <<>>
      /\ InOrder(q.fed, q.shown, q.queue) /\ Len(q.queue) <= Depth
  BY DEF Rightful, RequestRecords
<1>1. queue \in Seq(Nat) /\ shown \in Seq(Nat)
  BY <1>0
<1>2. InOrder(q.fed, shown, queue) /\ Len(queue) <= Depth
  <2>1. Len(q.queue) \in Nat /\ Depth \in Nat
    BY <1>0 DEF Bounds
  <2>2. Len(queue) = Len(q.queue) - 1 /\ InOrder(q.fed, shown, queue)
    BY <1>0, ShownInOrder
  <2> QED
    BY <1>0, <2>1, <2>2
<1> HIDE DEF queue, shown
<1>3. /\ f \in RequestRecords /\ f.body = q.body /\ f.pass = "idle" /\ f.late = q.late
      /\ f.at = q.at /\ f.fed = q.fed /\ f.queue = queue /\ f.shown = shown /\ f.ended = q.ended
  BY <1>1 DEF RequestRecords
<1> HIDE DEF f
<1>4. Rightful(f) /\ q.ended \notin {"answered", "refused"}
  BY <1>2, <1>3 DEF Rightful, Staged, RequestRecords
<1>5. Proceeds(q, f)
  BY <1>3, <1>4 DEF Proceeds, Uncounted, RequestRecords
<1> QED
  BY <1>5 DEF f, queue, shown

LEMMA Updated ==
  ASSUME WFInv, NEW r \in Requests, NEW f, Proceeds(req[r], f), Update(r, f)
  PROVE  WFInv' /\ QuietAfterReturnStep
<1>1. req'[r] = f /\ (\A s \in Requests : s # r => req'[s] = req[s]) /\ UNCHANGED <<fan, dead>>
  BY DEF WFInv, Update
<1>2. DOMAIN req' = Requests /\ req' = [s \in Requests |-> req'[s]]
  BY DEF WFInv, Update
<1>3. StopAwaitsRequests'
  BY <1>1 DEF WFInv, StopAwaitsRequests, Counted, Proceeds, Uncounted
<1> QED
  BY <1>1, <1>2, <1>3 DEF WFInv, Proceeds, QuietAfterReturnStep

LEMMA WFHandling ==
  ASSUME Bounds, WFInv, NEW r \in Requests, WFRequest(r) \/ Handling(r)
  PROVE  \E f : Proceeds(req[r], f) /\ Update(r, f)
<1>0. req[r] \in RequestRecords /\ Rightful(req[r])
  BY DEF WFInv
<1>1. CASE WFRequest(r) \/ Prepare(r) \/ StartInner(r) \/ Return(r)
  BY <1>0, <1>1, HandlerProceeds DEF WFRequest, Prepare, StartInner, Return
<1>2. CASE WFDecode(r) \/ FanSend(r)
  BY <1>0, <1>2, LoopProceeds DEF WFDecode, FanSend
<1>3. CASE FeedFirst(r)
  BY <1>0, <1>3, FeedProceeds DEF FeedFirst
<1> QED
  BY <1>1, <1>2, <1>3 DEF Handling

LEMMA WFAnswering ==
  ASSUME Bounds, WFInv, NEW r \in Requests, Answering(r)
  PROVE  \/ UNCHANGED <<fan, req>> /\ dead' = TRUE
         \/ \E f : Proceeds(req[r], f) /\ Update(r, f)
<1>0. req[r] \in RequestRecords /\ Rightful(req[r])
  BY DEF WFInv
<1>1. CASE PassTake(r) \/ PassStop(r) \/ WriterEnds(r)
  BY <1>0, <1>1, PassProceeds DEF PassTake, PassStop, WriterEnds
<1>2. CASE PassHand(r)
  BY <1>0, <1>2, HandProceeds DEF PassHand
<1> QED
  BY <1>1, <1>2 DEF Answering

LEMMA IsCounted ==
  ASSUME NEW q \in RequestRecords, NEW late \in BOOLEAN
  PROVE  LET g == [q EXCEPT !.at = "build", !.late = late]
         IN  /\ g \in RequestRecords /\ g.late = late /\ g.at = "build"
             /\ g.shown = q.shown /\ g.queue = q.queue /\ g.fed = q.fed
             /\ g.body = q.body /\ g.pass = q.pass /\ g.ended = q.ended
BY DEF RequestRecords

\* A request is counted: late, if the stop is over.
LEMMA CountStep ==
  ASSUME WFInv, NEW r \in Requests, WFCount(r)
  PROVE  WFInv' /\ QuietAfterReturnStep
<1> DEFINE f == [req[r] EXCEPT !.at = "build", !.late = fan \in {"stopped", "closed"}]
           late == fan \in {"stopped", "closed"}
<1>0. req[r] \in RequestRecords /\ Rightful(req[r]) /\ req[r].at = "routed"
  BY DEF WFInv, WFCount
<1>1. f \in RequestRecords /\ Rightful(f) /\ f.shown = req[r].shown /\ f.late = late
  <2>1. late \in BOOLEAN
    OBVIOUS
  <2> HIDE DEF late
  <2> HIDE DEF f
  <2>3. f \in RequestRecords /\ f.late = late /\ f.shown = req[r].shown /\ f.queue = req[r].queue
        /\ f.fed = req[r].fed /\ f.body = req[r].body /\ f.pass = req[r].pass /\ f.ended = req[r].ended
        /\ f.at = "build"
    BY <1>0, <2>1, IsCounted DEF f, late
  <2> QED
    BY <1>0, <2>3 DEF Rightful, InOrder, Staged
<1>2. Update(r, f)
  BY DEF WFCount
<1> HIDE DEF f
<1>3. req'[r] = f /\ (\A s \in Requests : s # r => req'[s] = req[s]) /\ UNCHANGED <<fan, dead>>
  BY <1>2 DEF WFInv, Update
<1>4. DOMAIN req' = Requests /\ req' = [s \in Requests |-> req'[s]]
  BY <1>2 DEF WFInv, Update
<1>5. StopAwaitsRequests'
  BY <1>1, <1>3 DEF WFInv, StopAwaitsRequests, Counted, late
<1> QED
  BY <1>1, <1>3, <1>4, <1>5 DEF WFInv, QuietAfterReturnStep

LEMMA WFStep == ASSUME Bounds, WFInv, [WFNext]_fanVars PROVE WFInv' /\ QuietAfterReturnStep
<1>1. CASE Unplug \/ FanStop \/ FanClose
  BY <1>1 DEF Unplug, FanStop, FanClose, WFInv, StopAwaitsRequests, Counted, QuietAfterReturnStep
<1>2. ASSUME NEW r \in Requests, WFRequest(r) \/ Handling(r) \/ Answering(r)
      PROVE  WFInv' /\ QuietAfterReturnStep
  <2>1. CASE \E f : Proceeds(req[r], f) /\ Update(r, f)
    BY <2>1, Updated
  <2>2. CASE UNCHANGED <<fan, req>> /\ dead' = TRUE
    BY <2>2 DEF WFInv, StopAwaitsRequests, Counted, QuietAfterReturnStep
  <2> QED
    BY <1>2, <2>1, <2>2, WFHandling, WFAnswering
<1>3. ASSUME NEW r \in Requests, WFCount(r) PROVE WFInv' /\ QuietAfterReturnStep
  BY <1>3, CountStep
<1>4. CASE UNCHANGED fanVars
  BY <1>4 DEF fanVars, WFInv, StopAwaitsRequests, Counted, QuietAfterReturnStep
<1> QED
  BY <1>1, <1>2, <1>3, <1>4 DEF WFNext

LEMMA WFPromises == ASSUME WFInv PROVE AnswerComplete /\ StopAwaitsRequests
<1>1. ASSUME NEW r \in Requests, req[r].ended = "answered"
      PROVE  req[r].shown = [i \in 1..req[r].fed |-> i]
  <2>1. req[r].shown \in Seq(Nat) /\ req[r].fed \in Nat /\ InOrder(req[r].fed, req[r].shown, <<>>)
    BY <1>1 DEF WFInv, Rightful, RequestRecords, Staged
  <2> QED
    BY <2>1, AllShown
<1> QED
  BY <1>1 DEF AnswerComplete, WFInv

LEMMA WFTypes == ASSUME WFInv PROVE WFTypeOK
BY DEF WFInv, Rightful, RequestRecords, WFTypeOK

-----------------------------------------------------------------------------
(***************************************************************************)
(* The theorems.                                                           *)
(***************************************************************************)
LEMMA BoundsHold == Bounds
BY ClientBounds DEF Bounds

\* Each component's state is of the kinds its module names, however many
\* clients, peers and requests there are and whatever the sizes of channels,
\* ring and histories.
THEOREM HubHolds == LHSpec => [](HubSurvives /\ LHTypeOK)
<1>1. LHInit => LHInv
  BY BoundsHold, LHStarts
<1>2. LHInv /\ [LHNext]_lhVars => LHInv'
  BY BoundsHold, LHStep
<1>3. LHInv => HubSurvives /\ LHTypeOK
  BY BoundsHold, LHPromises, LHTypes
<1> QED
  BY <1>1, <1>2, <1>3, PTL DEF LHSpec

\* EntriesReachClients of api/logs.go and logHook.go: the ring is read after the
\* registration, and nothing falls between the two.
THEOREM EntriesReachClientsHolds == LHSpec => []EntriesReachClients
<1>1. LHInit => LHInv
  BY BoundsHold, LHStarts
<1>2. LHInv /\ [LHNext]_lhVars => LHInv'
  BY BoundsHold, LHStep
<1>3. LHInv => EntriesReachClients
  BY LHPromises
<1> QED
  BY <1>1, <1>2, <1>3, PTL DEF LHSpec

\* The websocket output (processors/websocket/websocket.go): its hub neither
\* closes nor uses a closed channel; the clients that stay have the latest event
\* between two events; a stop leaves nobody in the map.
THEOREM WebsocketOutHolds ==
  WOSpec => [](HubSurvives /\ LatestReachesAll /\ StopEmptiesMap)
<1>1. WOInit => WOInv
  BY BoundsHold, WOStarts
<1>2. WOInv /\ [WONext]_woVars => WOInv'
  BY BoundsHold, WOStep
<1>3. WOInv => HubSurvives /\ LatestReachesAll /\ StopEmptiesMap
  BY WOPromises
<1> QED
  BY <1>1, <1>2, <1>3, PTL DEF WOSpec

\* The websocket input (processors/input-websocket/websocket.go): when its hub is
\* gone, whom its stop found is disconnected.
THEOREM StopDisconnectsHolds == WISpec => []StopDisconnects
<1>1. WIInit => WIInv
  BY BoundsHold, WIStarts
<1>2. WIInv /\ [WINext]_wiVars => WIInv'
  BY BoundsHold, WIStep
<1>3. WIInv => StopDisconnects
  BY WIPromises
<1> QED
  BY <1>1, <1>2, <1>3, PTL DEF WISpec

\* Webfan (processors/webfan/webfan.go, pass.go): an answer has all that was fed,
\* in order; only a request counted too late can meet closed channels.
THEOREM AnswerCompleteHolds == WFSpec => [](AnswerComplete /\ StopAwaitsRequests)
<1>1. WFInit => WFInv
  BY BoundsHold, WFStarts
<1>2. WFInv /\ [WFNext]_fanVars => WFInv'
  BY BoundsHold, WFStep
<1>3. WFInv => AnswerComplete /\ StopAwaitsRequests
  BY WFPromises
<1> QED
  BY <1>1, <1>2, <1>3, PTL DEF WFSpec

\* Nothing writes to the response of a handler of webfan.go that has returned,
\* except for one that panicked.
THEOREM QuietAfterReturnHolds == WFSpec => QuietAfterReturn
<1>1. WFInit => WFInv
  BY BoundsHold, WFStarts
<1>2. WFInv /\ [WFNext]_fanVars => WFInv' /\ QuietAfterReturnStep
  BY BoundsHold, WFStep
<1> QED
  BY <1>1, <1>2, PTL DEF WFSpec, QuietAfterReturn

-----------------------------------------------------------------------------
(***************************************************************************)
(* Side by side.  Those that rest stay as they began.                      *)
(***************************************************************************)
ClientsInv ==
  /\ at_work = "log hub" => LHInv
  /\ at_work = "websocket out" => WOInv
  /\ at_work = "websocket in" => WIInv
  /\ at_work = "webfan" => WFInv

LEMMA ClientsStep ==
  ASSUME Bounds, ClientsInv, [ClientsNext /\ UNCHANGED at_work]_<<at_work, clientVars>>
  PROVE  ClientsInv'
<1>0. UNCHANGED at_work
  OBVIOUS
<1>1. CASE at_work = "log hub"
  <2>1. LHInv /\ [LHNext]_lhVars
    BY <1>1 DEF ClientsInv, ClientsNext, clientVars, lhVars
  <2> QED
    BY <1>0, <1>1, <2>1, LHStep DEF ClientsInv
<1>2. CASE at_work = "websocket out"
  <2>1. WOInv /\ [WONext]_woVars
    BY <1>2 DEF ClientsInv, ClientsNext, clientVars, woVars
  <2> QED
    BY <1>0, <1>2, <2>1, WOStep DEF ClientsInv
<1>3. CASE at_work = "websocket in"
  <2>1. WIInv /\ [WINext]_wiVars
    BY <1>3 DEF ClientsInv, ClientsNext, clientVars, wiVars
  <2> QED
    BY <1>0, <1>3, <2>1, WIStep DEF ClientsInv
<1>4. CASE at_work = "webfan"
  <2>1. WFInv /\ [WFNext]_fanVars
    BY <1>4 DEF ClientsInv, ClientsNext, clientVars, fanVars
  <2> QED
    BY <1>0, <1>4, <2>1, WFStep DEF ClientsInv
<1> QED
  BY <1>0, <1>1, <1>2, <1>3, <1>4 DEF ClientsInv

LEMMA ClientsStart == ASSUME Bounds, ClientsInit PROVE ClientsInv
BY LHStarts, WOStarts, WIStarts, WFStarts DEF ClientsInit, ClientsInv

\* What the components of this module promise their clients, all of it and for
\* all numbers of clients, peers, requests and entries.
THEOREM ClientsSoundHolds == ClientsSpec => []ClientsSound
<1>1. ClientsInit => ClientsInv
  BY BoundsHold, ClientsStart
<1>2. ClientsInv /\ [ClientsNext /\ UNCHANGED at_work]_<<at_work, clientVars>> => ClientsInv'
  BY BoundsHold, ClientsStep
<1>3. ClientsInv => ClientsSound
  BY LHPromises, WOPromises, WIPromises, WFPromises DEF ClientsInv, ClientsSound
<1> QED
  BY <1>1, <1>2, <1>3, PTL DEF ClientsSpec

\* And their types.
THEOREM ClientsTypesHold == ClientsSpec => []ClientsTypeOK
<1>1. ClientsInit => ClientsInv
  BY BoundsHold, ClientsStart
<1>2. ClientsInv /\ [ClientsNext /\ UNCHANGED at_work]_<<at_work, clientVars>> => ClientsInv'
  BY BoundsHold, ClientsStep
<1>3. ClientsInv => ClientsTypeOK
  BY BoundsHold, LHTypes, WOTypes, WITypes, WFTypes DEF ClientsInv, ClientsTypeOK
<1> QED
  BY <1>1, <1>2, <1>3, PTL DEF ClientsSpec

=============================================================================
