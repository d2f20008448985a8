------------------------ MODULE PipelineStoreProofs -------------------------
(***************************************************************************)
(* What PipelineStore keeps, for any requests, pipelines and assets.       *)
(* Between its calls a request holds a copy of the record it will save;    *)
(* the invariant says what such a copy is worth.  While one request at a   *)
(* time is about a pipeline, the copy lists the assets that name the       *)
(* pipeline, up to those the request has yet to write or drop (Agrees).    *)
(* While nothing is deleted of a pipeline, a copy may be out of date but   *)
(* never lists an asset that is not there (Holds).  Both are of pipelines  *)
(* whose uuid and references no client writes itself (edited).             *)
(***************************************************************************)
EXTENDS PipelineStore, TLAPS

Owned(p) == {a \in DOMAIN owner : owner[a] = p}
On(t, p) == request[t] # NoRequest /\ request[t].pipe = p

\* The lists of calls a request may have left.
Creating == <<"writeAsset", "save">>
Saving   == <<"save">>
Purging  == <<"purge", "drop">>
Dropping == <<"drop">>
Writing  == <<"writeAsset", "find", "save">>
Cutting  == <<"dropAsset", "find", "save">>
Finding  == <<"find", "save">>
Lists == {Creating, Saving, Purging, Dropping, Writing, Cutting, Finding}

\* A request about one asset, that looks for the pipeline of it.
OfOneAsset(r) ==
  /\ \E a \in Assets : r.assets = {a}
  /\ r.calls = Writing => r.change \in {"none", "add"}
  /\ r.calls = Cutting => r.change = "remove"
Shape(r) ==
  /\ r.calls \in Lists
  /\ r.calls = Creating => r.change = "none" /\ r.assets # {} /\ r.assets \subseteq r.copy.refs
  /\ r.calls \in {Writing, Cutting, Finding} => OfOneAsset(r)
Shaped == \A t \in Threads : request[t] # NoRequest => Shape(request[t])

\* Pipelines are known by uuids that were drawn or named.
Drawn ==
  /\ DOMAIN pipes \subseteq issued /\ deleted \subseteq issued
  /\ \A a \in DOMAIN owner : owner[a] \in issued
  /\ \A t \in Threads : request[t] # NoRequest => request[t].pipe \in issued

Alone == \A p \in Pipelines \ mixed : \A t, u \in Threads : On(t, p) /\ On(u, p) => t = u

Agreeing(r, p) ==
  /\ r.calls = Creating => Owned(p) = r.copy.refs \ r.assets
  /\ r.calls = Saving => Owned(p) = r.copy.refs
  /\ r.calls \in {Purging, Writing, Cutting} /\ p \in DOMAIN pipes => Owned(p) = pipes[p].refs
  /\ r.calls = Writing /\ r.change = "none" => r.assets \subseteq Owned(p)
  /\ r.calls = Finding /\ p \in DOMAIN pipes => Owned(p) = ChangedRefs(r, pipes[p].refs)
Agrees ==
  \A p \in Pipelines \ (mixed \cup edited) :
    /\ p \in DOMAIN pipes /\ (\A t \in Threads : ~On(t, p)) => Owned(p) = pipes[p].refs
    /\ \A t \in Threads : On(t, p) => Agreeing(request[t], p)

\* What is left of the requests about a deleted pipeline will not find it.
Gone ==
  \A p \in deleted \ mixed :
    /\ p \notin DOMAIN pipes
    /\ \A t \in Threads : On(t, p) => request[t].calls \in {Writing, Cutting, Finding}

\* A record all of whose assets are there, one of them an entrypoint.
HasEntry(rec, p) == p \notin bare => rec.entries \cap rec.refs # {}
Whole(rec, p) == rec.refs \subseteq Owned(p) /\ HasEntry(rec, p)
Holding(r, p) ==
  /\ r.calls \in {Creating, Saving, Writing, Finding} /\ r.change \in {"none", "add"}
  /\ r.calls = Creating => r.copy.refs \ r.assets \subseteq Owned(p) /\ HasEntry(r.copy, p)
  /\ r.calls = Saving => Whole(r.copy, p)
  /\ r.calls = Finding => r.assets \subseteq Owned(p)
Holds ==
  \A p \in Pipelines \ (shrunk \cup edited) :
    /\ p \in DOMAIN pipes => Whole(pipes[p], p)
    /\ \A t \in Threads : On(t, p) => Holding(request[t], p)

Booted == phase # "up" /\ AutoStart \cap (shrunk \cup edited \cup bare) = {} => started = AutoStart

IInv == TypeOK /\ Shaped /\ Drawn /\ Alone /\ Agrees /\ Gone /\ Holds /\ Booted
-----------------------------------------------------------------------------
(* Lists of calls, requests and functions. *)

LEMMA ListFacts ==
  /\ Creating[1] = "writeAsset" /\ Len(Creating) = 2 /\ Tail(Creating) = Saving
  /\ Saving[1] = "save" /\ Len(Saving) = 1
  /\ Purging[1] = "purge" /\ Len(Purging) = 2 /\ Tail(Purging) = Dropping
  /\ Dropping[1] = "drop" /\ Len(Dropping) = 1
  /\ Writing[1] = "writeAsset" /\ Len(Writing) = 3 /\ Tail(Writing) = Finding
  /\ Cutting[1] = "dropAsset" /\ Len(Cutting) = 3 /\ Tail(Cutting) = Finding
  /\ Finding[1] = "find" /\ Len(Finding) = 2 /\ Tail(Finding) = Saving
<1>1. Creating[1] = "writeAsset" /\ Len(Creating) = 2 /\ Tail(Creating) = Saving
  BY DEF Creating, Saving
<1>2. Saving[1] = "save" /\ Len(Saving) = 1
  BY DEF Saving
<1>3. Purging[1] = "purge" /\ Len(Purging) = 2 /\ Tail(Purging) = Dropping
  BY DEF Purging, Dropping
<1>4. Dropping[1] = "drop" /\ Len(Dropping) = 1
  BY DEF Dropping
<1>5. Writing[1] = "writeAsset" /\ Len(Writing) = 3 /\ Tail(Writing) = Finding
  BY DEF Writing, Finding
<1>6. Cutting[1] = "dropAsset" /\ Len(Cutting) = 3 /\ Tail(Cutting) = Finding
  BY DEF Cutting, Finding
<1>7. Finding[1] = "find" /\ Len(Finding) = 2 /\ Tail(Finding) = Saving
  BY DEF Finding, Saving
<1> QED
  BY <1>1, <1>2, <1>3, <1>4, <1>5, <1>6, <1>7

LEMMA ListsDiffer ==
  /\ Creating \notin {Saving, Purging, Dropping, Writing, Cutting, Finding}
  /\ Saving \notin {Purging, Dropping, Writing, Cutting, Finding}
  /\ Purging \notin {Dropping, Writing, Cutting, Finding}
  /\ Dropping \notin {Writing, Cutting, Finding}
  /\ Writing \notin {Cutting, Finding} /\ Cutting # Finding
BY ListFacts

LEMMA ListsAreCalls == Lists \subseteq Seq(Calls) /\ <<>> \notin Lists
<1>1. Lists \subseteq Seq(Calls)
  BY DEF Lists, Calls, Creating, Saving, Purging, Dropping, Writing, Cutting, Finding
<1>2. \A l \in Lists : Len(l) # 0
  BY ListFacts DEF Lists
<1>3. Len(<<>>) = 0
  OBVIOUS
<1> QED
  BY <1>1, <1>2, <1>3

LEMMA RequestIsSome == ASSUME NEW r \in Request PROVE r # NoRequest
<1>1. DOMAIN r # {}
  BY DEF Request
<1>2. DOMAIN NoRequest = {}
  BY DEF NoRequest
<1> QED
  BY <1>1, <1>2
-----------------------------------------------------------------------------
(* What each step does, as the proofs below use it. *)

Others(t) == \A u \in Threads \ {t} : request'[u] = request[u]

\* Thread t begins a request about p.
Opened(t, p, calls, as, copy, change) ==
  /\ Others(t) /\ request'[t] # NoRequest
  /\ request'[t].calls = calls /\ request'[t].pipe = p /\ request'[t].assets = as
  /\ request'[t].copy = copy /\ request'[t].change = change
  /\ mixed \subseteq mixed' /\ mixed' \subseteq mixed \cup {p}
  /\ p \notin mixed' => \A u \in Threads : ~On(u, p)
  /\ shrunk' = IF calls \in {Purging, Cutting} THEN shrunk \cup {p} ELSE shrunk
Chooses(p, calls, as, copy, change) ==
  \/ /\ calls \in {Creating, Saving} /\ change = "none" /\ (calls = Saving <=> as = {}) /\ as \subseteq copy.refs
     /\ \/ p \notin issued /\ copy.refs = as /\ copy.entries \subseteq as /\ (p \notin bare' => copy.entries # {})
        \/ p \in edited' /\ deleted' = deleted \ {p}
  \/ /\ calls = Saving /\ change = "none" /\ p \in DOMAIN pipes
     /\ copy.refs = pipes[p].refs /\ copy.entries = pipes[p].entries
  \/ calls = Purging /\ change = "none" /\ p \in DOMAIN pipes
  \/ calls = Writing /\ change = "add" /\ \E a \in Assets : as = {a}
  \/ /\ calls = Writing /\ change = "none"
     /\ \E a \in Assets : as = {a} /\ (p \in edited' \/ (a \in DOMAIN owner /\ owner[a] = p))
  \/ calls = Cutting /\ change = "remove" /\ \E a \in DOMAIN owner : as = {a} /\ owner[a] = p
Opens(t, p, calls, as, copy, change) ==
  /\ phase = "up" /\ phase' = "up" /\ request[t] = NoRequest /\ p \in Pipelines
  /\ Opened(t, p, calls, as, copy, change) /\ Chooses(p, calls, as, copy, change)
  /\ pipes' = pipes /\ owner' = owner /\ started' = started /\ made' = made + 1
  /\ issued \cup {p} \subseteq issued' /\ issued' \subseteq (issued \cup {p}) \cup Assets
  /\ edited \subseteq edited' /\ edited' \subseteq edited \cup {p}
  /\ bare \subseteq bare' /\ bare' \subseteq bare \cup {p}
  /\ deleted' \in {deleted, deleted \ {p}}

\* What all the calls of thread t, whose request is about p, have in common.
Serves(t, p) ==
  /\ phase = "up" /\ phase' = "up" /\ p \in Pipelines /\ On(t, p) /\ Others(t)
  /\ issued' = issued /\ shrunk' = shrunk /\ mixed' = mixed /\ started' = started /\ made' = made
  /\ edited \subseteq edited' /\ edited' \subseteq edited \cup Pipelines
  /\ bare \subseteq bare' /\ bare' \subseteq bare \cup {p}
  /\ request'[t] # NoRequest =>
       /\ request'[t].pipe = p /\ request'[t].change = request[t].change
       /\ request'[t].assets \subseteq request[t].assets
  /\ \A q \in Pipelines \ {p} :
       /\ q \in DOMAIN pipes' <=> q \in DOMAIN pipes
       /\ q \in DOMAIN pipes => pipes'[q] = pipes[q]
       /\ q \notin edited' => Owned(q)' = Owned(q)

\* The request has the list of calls left.
Goes(t, calls) ==
  /\ request'[t] # NoRequest /\ request'[t].calls = calls
  /\ request'[t].assets = request[t].assets /\ request'[t].copy = request[t].copy
Writes(t, p, a) ==
  /\ request[t].calls \in {Creating, Writing} /\ a \in request[t].assets
  /\ pipes' = pipes /\ deleted' = deleted
  /\ DOMAIN owner' = DOMAIN owner \cup {a} /\ owner'[a] = p
  /\ \A b \in DOMAIN owner \ {a} : owner'[b] = owner[b]
  /\ Owned(p)' = Owned(p) \cup {a}
  /\ IF request[t].assets = {a} THEN Goes(t, IF request[t].calls = Creating THEN Saving ELSE Finding)
     ELSE /\ request'[t] # NoRequest /\ request'[t].calls = request[t].calls
          /\ request'[t].assets = request[t].assets \ {a} /\ request'[t].copy = request[t].copy
Finds(t, p) ==
  /\ request[t].calls = Finding
  /\ pipes' = pipes /\ owner' = owner /\ deleted' = deleted
  /\ IF p \in DOMAIN pipes
     THEN /\ request'[t] # NoRequest /\ request'[t].calls = Saving /\ request'[t].assets = request[t].assets
          /\ request'[t].copy.refs = ChangedRefs(request[t], pipes[p].refs)
          /\ request'[t].copy.entries = ChangedEntries(request[t], pipes[p])
          /\ request'[t].copy \in Record /\ (p \notin bare' => ~Retypes(request[t], pipes[p]))
     ELSE request'[t] = NoRequest
Saves(t, p) ==
  /\ request[t].calls = Saving /\ request'[t] = NoRequest
  /\ owner' = owner /\ deleted' = deleted
  /\ DOMAIN pipes' = DOMAIN pipes \cup {p} /\ pipes'[p] = request[t].copy
Purges(t, p) ==
  /\ request[t].calls = Purging /\ Goes(t, Dropping)
  /\ pipes' = pipes /\ deleted' = deleted
  /\ DOMAIN owner' = DOMAIN owner \ Owned(p) /\ \A a \in DOMAIN owner' : owner'[a] = owner[a]
Cuts(t, p) ==
  /\ request[t].calls = Cutting
  /\ pipes' = pipes /\ deleted' = deleted
  /\ DOMAIN owner' = DOMAIN owner \ request[t].assets /\ \A a \in DOMAIN owner' : owner'[a] = owner[a]
  /\ Owned(p)' = Owned(p) \ request[t].assets
  /\ IF request[t].assets \subseteq DOMAIN owner THEN Goes(t, Finding) ELSE request'[t] = NoRequest
Drops(t, p) ==
  /\ request[t].calls = Dropping /\ request'[t] = NoRequest
  /\ owner' = owner /\ deleted' = deleted \cup {p}
  /\ DOMAIN pipes' = DOMAIN pipes \ {p}
Served(t, p) ==
  \/ \E a \in Assets : Writes(t, p, a)
  \/ Finds(t, p) \/ Saves(t, p) \/ Purges(t, p) \/ Cuts(t, p) \/ Drops(t, p)

\* The process exits.
Exits ==
  /\ \A t \in Threads : request'[t] = NoRequest
  /\ phase = "up" /\ phase' # "up"
  /\ pipes' = pipes /\ owner' = owner /\ issued' = issued /\ deleted' = deleted /\ shrunk' = shrunk
  /\ edited' = edited /\ bare' = bare /\ made' = made
  /\ mixed \subseteq mixed' /\ \A p \in Pipelines \ mixed' : \A t \in Threads : ~On(t, p)

LEMMA BeginSteps ==
  ASSUME TypeOK, NEW t \in Threads, NEW calls \in Lists, NEW p \in Pipelines, NEW as \in SUBSET Assets,
         NEW entries \in SUBSET Assets, NEW copy \in Record, NEW change \in {"none", "add", "remove"},
         Begin(t, calls, p, as, entries, copy, change)
  PROVE  /\ Opened(t, p, calls, as, copy, change) /\ made' = made + 1
         /\ DOMAIN request' = Threads /\ request'[t] \in Request
<1> DEFINE r == [calls |-> calls, pipe |-> p, assets |-> as, entries |-> entries, copy |-> copy, change |-> change]
<1>1. request' = [request EXCEPT ![t] = r] /\ DOMAIN request = Threads /\ made' = made + 1
  BY DEF Begin, TypeOK
<1>2. r \in Request
  BY ListsAreCalls DEF Request
<1>3. r # NoRequest
  BY <1>2, RequestIsSome
<1>4. Others(t) /\ request'[t] = r /\ DOMAIN request' = Threads
  BY <1>1 DEF Others
<1>5. /\ mixed \subseteq mixed' /\ mixed' \subseteq mixed \cup {p}
      /\ p \notin mixed' => \A u \in Threads : ~On(u, p)
  BY DEF Begin, About, On
<1>6. calls[1] \in {"purge", "dropAsset"} <=> calls \in {Purging, Cutting}
  BY ListFacts, ListsDiffer DEF Lists
<1>7. shrunk' = IF calls \in {Purging, Cutting} THEN shrunk \cup {p} ELSE shrunk
  BY <1>6 DEF Begin
<1>8. /\ r.calls = calls /\ r.pipe = p /\ r.assets = as
      /\ r.copy = copy /\ r.change = change
  OBVIOUS
<1> HIDE DEF r
<1> QED
  BY <1>1, <1>2, <1>3, <1>4, <1>5, <1>7, <1>8 DEF Opened

LEMMA SavingCalls ==
  ASSUME NEW as
  PROVE  SaveCalls(as) \in {Creating, Saving} /\ (SaveCalls(as) = Saving <=> as = {})
BY ListsDiffer DEF SaveCalls, Creating, Saving

LEMMA ListsHeld == {Creating, Saving, Purging, Writing, Cutting} \subseteq Lists
BY DEF Lists

LEMMA EmptyIsRecord == Empty \in Record
BY DEF Empty, Record

\* What a request to begin has to show.
OpensSome(t) ==
  /\ \E p \in Pipelines, calls \in Lists, as \in SUBSET Assets, copy \in Record,
        change \in {"none", "add", "remove"} : Opens(t, p, calls, as, copy, change)
  /\ DOMAIN request' = Threads /\ request'[t] \in Request

LEMMA CreateSteps ==
  ASSUME IInv, NEW t \in Threads, CreatePipeline(t)
  PROVE  OpensSome(t)
<1>1. TypeOK /\ phase = "up" /\ request[t] = NoRequest
  BY DEF IInv, CreatePipeline, Free
<1>2a. PICK p \in Pipelines, as \in SUBSET (Assets \ issued), auto \in BOOLEAN : \E entries \in SUBSET as :
        /\ Begin(t, SaveCalls(as), p, as, entries, [refs |-> as, entries |-> entries, auto |-> auto], "none")
        /\ issued' = issued \cup as \cup {p}
        /\ bare' = IF entries = {} THEN bare \cup {p} ELSE bare
        /\ IF p \in issued THEN Rewritten(p) ELSE UNCHANGED <<edited, deleted>>
  BY DEF CreatePipeline
<1>2. PICK entries \in SUBSET as :
        /\ Begin(t, SaveCalls(as), p, as, entries, [refs |-> as, entries |-> entries, auto |-> auto], "none")
        /\ issued' = issued \cup as \cup {p}
        /\ bare' = IF entries = {} THEN bare \cup {p} ELSE bare
        /\ IF p \in issued THEN Rewritten(p) ELSE UNCHANGED <<edited, deleted>>
  BY <1>2a
<1>3. UNCHANGED <<pipes, owner, phase, started>>
  BY DEF CreatePipeline
<1> DEFINE copy == [refs |-> as, entries |-> entries, auto |-> auto]
<1>4. copy \in Record /\ copy.refs = as /\ copy.entries = entries
  BY DEF Record
<1>5. Begin(t, SaveCalls(as), p, as, entries, copy, "none")
  BY <1>2
<1> HIDE DEF copy
<1>6. SaveCalls(as) \in Lists
  BY SavingCalls, ListsHeld
<1>7. /\ Opened(t, p, SaveCalls(as), as, copy, "none") /\ made' = made + 1
      /\ DOMAIN request' = Threads /\ request'[t] \in Request
  BY <1>1, <1>4, <1>5, <1>6, BeginSteps
<1>8. Chooses(p, SaveCalls(as), as, copy, "none")
  <2>1. CASE p \in issued
    <3>1. p \in edited' /\ deleted' = deleted \ {p}
      BY <1>2, <2>1 DEF Rewritten, Edited
    <3> QED
      BY <1>4, <3>1, SavingCalls DEF Chooses
  <2>2. CASE p \notin issued
    <3>1. p \notin bare' => entries # {}
      BY <1>2
    <3> QED
      BY <1>4, <2>2, <3>1, SavingCalls DEF Chooses
  <2> QED
    BY <2>1, <2>2
<1>9. /\ edited \subseteq edited' /\ edited' \subseteq edited \cup {p}
      /\ bare \subseteq bare' /\ bare' \subseteq bare \cup {p}
      /\ deleted' \in {deleted, deleted \ {p}}
  BY <1>2 DEF Rewritten, Edited
<1>10. Opens(t, p, SaveCalls(as), as, copy, "none")
  BY <1>1, <1>2, <1>3, <1>7, <1>8, <1>9 DEF Opens
<1> QED
  BY <1>4, <1>6, <1>7, <1>10 DEF OpensSome

LEMMA UpdateSteps ==
  ASSUME IInv, NEW t \in Threads, UpdatePipeline(t)
  PROVE  OpensSome(t)
<1>1. TypeOK /\ Drawn /\ phase = "up" /\ request[t] = NoRequest
  BY DEF IInv, UpdatePipeline, Free
<1>2. PICK p \in DOMAIN pipes, auto \in BOOLEAN :
        Begin(t, SaveCalls({}), p, {}, {}, [pipes[p] EXCEPT !.auto = auto], "none")
  BY DEF UpdatePipeline
<1>3. UNCHANGED <<pipes, owner, issued, deleted, edited, bare, phase, started>>
  BY DEF UpdatePipeline
<1>4. p \in Pipelines /\ p \in issued /\ pipes[p] \in Record
  BY <1>1 DEF TypeOK, Drawn
<1> DEFINE copy == [pipes[p] EXCEPT !.auto = auto]
<1>5. copy \in Record /\ copy.refs = pipes[p].refs /\ copy.entries = pipes[p].entries
  BY <1>4 DEF Record
<1>6. SaveCalls({}) = Saving
  BY SavingCalls
<1>7. Begin(t, Saving, p, {}, {}, copy, "none")
  BY <1>2, <1>6
<1> HIDE DEF copy
<1>8. /\ Opened(t, p, Saving, {}, copy, "none") /\ made' = made + 1
      /\ DOMAIN request' = Threads /\ request'[t] \in Request
  BY <1>1, <1>4, <1>5, <1>7, BeginSteps, ListsHeld
<1>9. Chooses(p, Saving, {}, copy, "none")
  BY <1>5 DEF Chooses
<1>10. Opens(t, p, Saving, {}, copy, "none")
  BY <1>1, <1>3, <1>4, <1>8, <1>9 DEF Opens
<1> QED
  BY <1>4, <1>5, <1>8, <1>10, ListsHeld DEF OpensSome

LEMMA RewriteSteps ==
  ASSUME IInv, NEW t \in Threads, RewritePipeline(t)
  PROVE  OpensSome(t)
<1>1. TypeOK /\ phase = "up" /\ request[t] = NoRequest
  BY DEF IInv, RewritePipeline, Free
<1>2. PICK p \in Pipelines \cap (issued \cup DOMAIN pipes), q \in Pipelines, auto \in BOOLEAN :
        \E refs \in Bodies \cup {IF p \in DOMAIN pipes THEN pipes[p].refs ELSE {}} :
        \E entries \in SUBSET refs, written \in SUBSET refs :
          /\ Begin(t, SaveCalls(written), q, written, entries \cap written,
                   [refs |-> refs, entries |-> entries, auto |-> auto], "none")
          /\ issued' = issued \cup refs \cup {q}
          /\ Rewritten(q)
  BY DEF RewritePipeline
<1>3a. PICK refs \in Bodies \cup {IF p \in DOMAIN pipes THEN pipes[p].refs ELSE {}} :
        \E entries \in SUBSET refs, written \in SUBSET refs :
          /\ Begin(t, SaveCalls(written), q, written, entries \cap written,
                   [refs |-> refs, entries |-> entries, auto |-> auto], "none")
          /\ issued' = issued \cup refs \cup {q}
          /\ Rewritten(q)
  BY <1>2
<1>3. PICK entries \in SUBSET refs, written \in SUBSET refs :
        /\ Begin(t, SaveCalls(written), q, written, entries \cap written,
                 [refs |-> refs, entries |-> entries, auto |-> auto], "none")
        /\ issued' = issued \cup refs \cup {q}
        /\ Rewritten(q)
  BY <1>3a
<1>4. UNCHANGED <<pipes, owner, bare, phase, started>>
  BY DEF RewritePipeline
<1>5. refs \subseteq Assets
  <2>1. p \in DOMAIN pipes => pipes[p].refs \subseteq Assets
    BY <1>1 DEF TypeOK, Record
  <2>2. refs \in Bodies \/ refs = {} \/ (p \in DOMAIN pipes /\ refs = pipes[p].refs)
    OBVIOUS
  <2> QED
    BY <2>1, <2>2, StoreAssumption
<1> DEFINE copy == [refs |-> refs, entries |-> entries, auto |-> auto]
           es == entries \cap written
<1>6. copy \in Record /\ copy.refs = refs
  BY <1>5 DEF Record
<1>7. Begin(t, SaveCalls(written), q, written, es, copy, "none")
  BY <1>3
<1>8. es \in SUBSET Assets /\ written \in SUBSET Assets
  BY <1>5
<1> HIDE DEF copy, es
<1>9. SaveCalls(written) \in Lists
  BY SavingCalls, ListsHeld
<1>10. /\ Opened(t, q, SaveCalls(written), written, copy, "none") /\ made' = made + 1
       /\ DOMAIN request' = Threads /\ request'[t] \in Request
  BY <1>1, <1>6, <1>7, <1>8, <1>9, BeginSteps
<1>11. edited' = edited \cup {q} /\ deleted' = deleted \ {q}
  BY <1>3 DEF Rewritten, Edited
<1>12. Chooses(q, SaveCalls(written), written, copy, "none")
  BY <1>6, <1>11, SavingCalls DEF Chooses
<1>13. Opens(t, q, SaveCalls(written), written, copy, "none")
  BY <1>1, <1>3, <1>4, <1>5, <1>10, <1>11, <1>12 DEF Opens
<1> QED
  BY <1>6, <1>8, <1>9, <1>10, <1>13 DEF OpensSome

LEMMA DeleteSteps ==
  ASSUME IInv, NEW t \in Threads, DeletePipeline(t)
  PROVE  OpensSome(t)
<1>1. TypeOK /\ Drawn /\ phase = "up" /\ request[t] = NoRequest
  BY DEF IInv, DeletePipeline, Free
<1>2. PICK p \in DOMAIN pipes : Begin(t, Purging, p, {}, {}, Empty, "none")
  BY DEF DeletePipeline, Purging
<1>3. UNCHANGED <<pipes, owner, issued, deleted, edited, bare, phase, started>>
  BY DEF DeletePipeline
<1>4. p \in Pipelines /\ p \in issued
  BY <1>1 DEF TypeOK, Drawn
<1>5. /\ Opened(t, p, Purging, {}, Empty, "none") /\ made' = made + 1
      /\ DOMAIN request' = Threads /\ request'[t] \in Request
  BY <1>1, <1>2, <1>4, BeginSteps, ListsHeld, EmptyIsRecord
<1>6. Chooses(p, Purging, {}, Empty, "none")
  BY DEF Chooses
<1>7. Opens(t, p, Purging, {}, Empty, "none")
  BY <1>1, <1>3, <1>4, <1>5, <1>6 DEF Opens
<1> QED
  BY <1>4, <1>5, <1>7, ListsHeld, EmptyIsRecord DEF OpensSome

LEMMA CreateAssetSteps ==
  ASSUME IInv, NEW t \in Threads, CreateAsset(t)
  PROVE  OpensSome(t)
<1>1. TypeOK /\ phase = "up" /\ request[t] = NoRequest
  BY DEF IInv, CreateAsset, Free
<1>2a. PICK p \in Pipelines, a \in Assets \ issued : \E entries \in SUBSET {a} :
        Begin(t, Writing, p, {a}, entries, Empty, "add") /\ issued' = issued \cup {a, p}
  BY DEF CreateAsset, Writing
<1>2. PICK entries \in SUBSET {a} :
        Begin(t, Writing, p, {a}, entries, Empty, "add") /\ issued' = issued \cup {a, p}
  BY <1>2a
<1>3. UNCHANGED <<pipes, owner, deleted, edited, bare, phase, started>>
  BY DEF CreateAsset
<1>4. /\ Opened(t, p, Writing, {a}, Empty, "add") /\ made' = made + 1
      /\ DOMAIN request' = Threads /\ request'[t] \in Request
  BY <1>1, <1>2, BeginSteps, ListsHeld, EmptyIsRecord
<1>5. Chooses(p, Writing, {a}, Empty, "add")
  BY DEF Chooses
<1>6. Opens(t, p, Writing, {a}, Empty, "add")
  BY <1>1, <1>2, <1>3, <1>4, <1>5 DEF Opens
<1> QED
  BY <1>4, <1>6, ListsHeld, EmptyIsRecord DEF OpensSome

LEMMA SaveAssetSteps ==
  ASSUME IInv, NEW t \in Threads, SaveAsset(t)
  PROVE  OpensSome(t)
<1>1. TypeOK /\ phase = "up" /\ request[t] = NoRequest
  BY DEF IInv, SaveAsset, Free
<1>2a. PICK a \in DOMAIN owner, b \in Assets, q \in Pipelines : \E entries \in SUBSET {b} :
        /\ Begin(t, Writing, q, {b}, entries, Empty, "none")
        /\ issued' = issued \cup {b, q}
        /\ IF a = b /\ owner[a] = q THEN edited' = edited ELSE Edited(q)
  BY DEF SaveAsset, Writing
<1>2. PICK entries \in SUBSET {b} :
        /\ Begin(t, Writing, q, {b}, entries, Empty, "none")
        /\ issued' = issued \cup {b, q}
        /\ IF a = b /\ owner[a] = q THEN edited' = edited ELSE Edited(q)
  BY <1>2a
<1>3. UNCHANGED <<pipes, owner, deleted, bare, phase, started>>
  BY DEF SaveAsset
<1>4. /\ Opened(t, q, Writing, {b}, Empty, "none") /\ made' = made + 1
      /\ DOMAIN request' = Threads /\ request'[t] \in Request
  BY <1>1, <1>2, BeginSteps, ListsHeld, EmptyIsRecord
<1>5. q \in edited' \/ (b \in DOMAIN owner /\ owner[b] = q)
  BY <1>2 DEF Edited
<1>6. edited \subseteq edited' /\ edited' \subseteq edited \cup {q}
  BY <1>2 DEF Edited
<1>7. Chooses(q, Writing, {b}, Empty, "none")
  BY <1>5 DEF Chooses
<1>8. Opens(t, q, Writing, {b}, Empty, "none")
  BY <1>1, <1>2, <1>3, <1>4, <1>6, <1>7 DEF Opens
<1> QED
  BY <1>4, <1>8, ListsHeld, EmptyIsRecord DEF OpensSome

LEMMA DeleteAssetSteps ==
  ASSUME IInv, NEW t \in Threads, DeleteAsset(t)
  PROVE  OpensSome(t)
<1>1. TypeOK /\ Drawn /\ phase = "up" /\ request[t] = NoRequest
  BY DEF IInv, DeleteAsset, Free
<1>2. PICK a \in DOMAIN owner : Begin(t, Cutting, owner[a], {a}, {}, Empty, "remove")
  BY DEF DeleteAsset, Cutting
<1>3. UNCHANGED <<pipes, owner, issued, deleted, edited, bare, phase, started>>
  BY DEF DeleteAsset
<1>4. owner[a] \in Pipelines /\ owner[a] \in issued /\ a \in Assets
  BY <1>1 DEF TypeOK, Drawn
<1>5. /\ Opened(t, owner[a], Cutting, {a}, Empty, "remove") /\ made' = made + 1
      /\ DOMAIN request' = Threads /\ request'[t] \in Request
  BY <1>1, <1>2, <1>4, BeginSteps, ListsHeld, EmptyIsRecord
<1>6. Chooses(owner[a], Cutting, {a}, Empty, "remove")
  BY DEF Chooses
<1>7. Opens(t, owner[a], Cutting, {a}, Empty, "remove")
  BY <1>1, <1>3, <1>4, <1>5, <1>6 DEF Opens
<1> QED
  BY <1>4, <1>5, <1>7, ListsHeld, EmptyIsRecord DEF OpensSome

LEMMA OpenSteps ==
  ASSUME IInv, NEW t \in Threads,
         \/ CreatePipeline(t) \/ UpdatePipeline(t) \/ RewritePipeline(t) \/ DeletePipeline(t)
         \/ CreateAsset(t) \/ SaveAsset(t) \/ DeleteAsset(t)
  PROVE  OpensSome(t)
BY CreateSteps, UpdateSteps, RewriteSteps, DeleteSteps, CreateAssetSteps, SaveAssetSteps, DeleteAssetSteps

LEMMA AdvanceSteps ==
  ASSUME IInv, NEW t \in Threads, request[t] # NoRequest, Advance(t)
  PROVE  /\ Others(t) /\ DOMAIN request' = Threads
         /\ request[t].calls \in {Saving, Dropping} => request'[t] = NoRequest
         /\ request[t].calls \in {Creating, Purging, Writing, Cutting, Finding} =>
              /\ Goes(t, Tail(request[t].calls)) /\ request'[t] \in Request
              /\ request'[t].pipe = request[t].pipe /\ request'[t].change = request[t].change
<1> DEFINE r == request[t]
           s == [r EXCEPT !.calls = Tail(r.calls)]
           v == IF Len(r.calls) = 1 THEN NoRequest ELSE s
<1>1. DOMAIN request = Threads /\ r \in Request /\ r.calls \in Lists
  BY DEF IInv, TypeOK, Shaped, Shape
<1>2. request' = [request EXCEPT ![t] = v]
  BY DEF Advance
<1> HIDE DEF v
<1>3. Others(t) /\ DOMAIN request' = Threads /\ request'[t] = v
  BY <1>1, <1>2 DEF Others
<1>4. r.calls \in {Saving, Dropping} => request'[t] = NoRequest
  BY <1>3, ListFacts DEF v
<1>5. ASSUME r.calls \in {Creating, Purging, Writing, Cutting, Finding}
      PROVE  /\ Goes(t, Tail(r.calls)) /\ request'[t] \in Request
             /\ request'[t].pipe = r.pipe /\ request'[t].change = r.change
  <2>1. Tail(r.calls) \in {Saving, Dropping, Finding}
    BY <1>5, ListFacts
  <2>2. Len(r.calls) \in {2, 3}
    BY <1>5, ListFacts
  <2>3. request'[t] = s
    <3>1. Len(r.calls) # 1
      BY <2>2
    <3> HIDE DEF r, s
    <3> QED
      BY <1>3, <3>1 DEF v
  <2>4. Tail(r.calls) \in Seq(Calls)
    BY <2>1, ListsAreCalls DEF Lists
  <2>5. s \in Request
    BY <1>1, <2>4 DEF Request
  <2>6. /\ s.calls = Tail(r.calls) /\ s.pipe = r.pipe /\ s.assets = r.assets
        /\ s.copy = r.copy /\ s.change = r.change
    BY <1>1 DEF Request
  <2>7. s # NoRequest
    BY <2>5, RequestIsSome
  <2> HIDE DEF s
  <2> QED
    BY <2>3, <2>5, <2>6, <2>7 DEF Goes
<1> QED
  BY <1>3, <1>4, <1>5

LEMMA CallFacts ==
  ASSUME IInv, NEW t \in Threads, NEW call, At(t, call)
  PROVE  /\ phase = "up" /\ request[t] # NoRequest /\ request[t].pipe \in Pipelines
         /\ request[t].assets \subseteq Assets /\ request[t].copy \in Record
         /\ request[t] \in Request /\ Shape(request[t]) /\ DOMAIN request = Threads
         /\ call = "writeAsset" => request[t].calls \in {Creating, Writing}
         /\ call = "find" => request[t].calls = Finding
         /\ call = "save" => request[t].calls = Saving
         /\ call = "purge" => request[t].calls = Purging
         /\ call = "dropAsset" => request[t].calls = Cutting
         /\ call = "drop" => request[t].calls = Dropping
<1>1. phase = "up" /\ request[t] # NoRequest /\ request[t].calls[1] = call
  BY DEF At, Call
<1>2. request[t] \in Request /\ Shape(request[t]) /\ DOMAIN request = Threads
  BY <1>1 DEF IInv, TypeOK, Shaped
<1>3. request[t].pipe \in Pipelines /\ request[t].assets \subseteq Assets /\ request[t].copy \in Record
  BY <1>2 DEF Request
<1>4. request[t].calls \in Lists
  BY <1>2 DEF Shape
<1>5. request[t].calls[1] = call
  BY <1>1
<1>6. /\ call = "writeAsset" => request[t].calls \in {Creating, Writing}
      /\ call = "find" => request[t].calls = Finding
      /\ call = "save" => request[t].calls = Saving
      /\ call = "purge" => request[t].calls = Purging
      /\ call = "dropAsset" => request[t].calls = Cutting
      /\ call = "drop" => request[t].calls = Dropping
  BY <1>4, <1>5, ListFacts DEF Lists
<1> QED
  BY <1>1, <1>2, <1>3, <1>6

\* The types a call leaves to show.
Typed(t) == DOMAIN request' = Threads /\ (request'[t] # NoRequest => request'[t] \in Request)

\* A pipeline that is not edited lost none of the assets.
LEMMA RobbedFacts ==
  ASSUME IInv, NEW as, NEW p, edited' = edited \cup Robbed(as, p)
  PROVE  /\ edited \subseteq edited' /\ edited' \subseteq edited \cup Pipelines
         /\ \A q \in Pipelines \ {p} : q \notin edited' => as \cap Owned(q) = {}
<1>1. \A a \in DOMAIN owner : owner[a] \in Pipelines
  BY DEF IInv, TypeOK
<1> QED
  BY <1>1 DEF Robbed, Owned

LEMMA WriteSteps ==
  ASSUME IInv, NEW t \in Threads, WriteAsset(t), NEW p, request[t].pipe = p
  PROVE  Serves(t, p) /\ (\E a \in Assets : Writes(t, p, a)) /\ Typed(t)
<1>1. At(t, "writeAsset")
  BY DEF WriteAsset
<1>2. /\ phase = "up" /\ request[t] # NoRequest /\ p \in Pipelines
      /\ request[t].assets \subseteq Assets /\ request[t] \in Request
      /\ DOMAIN request = Threads /\ request[t].calls \in {Creating, Writing}
  BY <1>1, CallFacts
<1>3. PICK a \in request[t].assets :
        /\ owner' = Put(owner, a, request[t].pipe)
        /\ edited' = edited \cup Robbed({a}, request[t].pipe)
        /\ IF request[t].assets = {a} THEN Advance(t)
           ELSE request' = [request EXCEPT ![t].assets = @ \ {a}]
  BY DEF WriteAsset
<1>4. UNCHANGED <<pipes, issued, deleted, shrunk, bare, mixed, made, phase, started>>
  BY DEF WriteAsset
<1>5. /\ DOMAIN owner' = DOMAIN owner \cup {a} /\ owner'[a] = p
      /\ \A b \in DOMAIN owner \ {a} : owner'[b] = owner[b]
  BY <1>3 DEF Put
<1>6. /\ edited \subseteq edited' /\ edited' \subseteq edited \cup Pipelines
      /\ \A q \in Pipelines \ {p} : q \notin edited' => {a} \cap Owned(q) = {}
  BY <1>3, RobbedFacts
<1>7. Owned(p)' = Owned(p) \cup {a}
  BY <1>5 DEF Owned
<1>8. \A q \in Pipelines \ {p} : q \notin edited' => Owned(q)' = Owned(q)
  <2>1. ASSUME NEW q \in Pipelines \ {p}, q \notin edited'
        PROVE  Owned(q)' = Owned(q)
    <3>1. a \notin Owned(q)
      BY <1>6, <2>1
    <3> QED
      BY <1>5, <2>1, <3>1 DEF Owned
  <2> QED
    BY <2>1
<1>9. /\ Others(t) /\ Typed(t)
      /\ IF request[t].assets = {a} THEN Goes(t, IF request[t].calls = Creating THEN Saving ELSE Finding)
         ELSE /\ request'[t] # NoRequest /\ request'[t].calls = request[t].calls
              /\ request'[t].assets = request[t].assets \ {a} /\ request'[t].copy = request[t].copy
      /\ request'[t].pipe = p /\ request'[t].change = request[t].change
  <2>1. CASE request[t].assets = {a}
    <3>1. Advance(t)
      BY <1>3, <2>1
    <3>2. /\ Others(t) /\ DOMAIN request' = Threads
          /\ Goes(t, Tail(request[t].calls)) /\ request'[t] \in Request
          /\ request'[t].pipe = request[t].pipe /\ request'[t].change = request[t].change
      BY <1>2, <3>1, AdvanceSteps
    <3>3. Tail(request[t].calls) = IF request[t].calls = Creating THEN Saving ELSE Finding
      BY <1>2, ListFacts
    <3> QED
      BY <2>1, <3>2, <3>3 DEF Typed
  <2>2. CASE request[t].assets # {a}
    <3> DEFINE s == [request[t] EXCEPT !.assets = request[t].assets \ {a}]
    <3>1. request' = [request EXCEPT ![t] = s]
      BY <1>3, <2>2
    <3>2. Others(t) /\ DOMAIN request' = Threads /\ request'[t] = s
      BY <1>2, <3>1 DEF Others
    <3>3. s \in Request
      BY <1>2 DEF Request
    <3>4. s # NoRequest
      BY <3>3, RequestIsSome
    <3>5. /\ s.calls = request[t].calls /\ s.pipe = request[t].pipe /\ s.copy = request[t].copy
          /\ s.change = request[t].change /\ s.assets = request[t].assets \ {a}
      BY <1>2 DEF Request
    <3> HIDE DEF s
    <3> QED
      BY <2>2, <3>2, <3>3, <3>4, <3>5 DEF Typed
  <2> QED
    BY <2>1, <2>2
<1>10. request'[t].assets \subseteq request[t].assets
  BY <1>9 DEF Goes
<1>11. Serves(t, p)
  BY <1>2, <1>4, <1>6, <1>8, <1>9, <1>10 DEF Serves, On
<1>12. Writes(t, p, a)
  BY <1>2, <1>3, <1>4, <1>5, <1>7, <1>9 DEF Writes
<1> QED
  BY <1>2, <1>9, <1>11, <1>12

LEMMA FindSteps ==
  ASSUME IInv, NEW t \in Threads, Find(t), NEW p, request[t].pipe = p
  PROVE  Serves(t, p) /\ Finds(t, p) /\ Typed(t)
<1> DEFINE r == request[t]
<1>1. At(t, "find")
  BY DEF Find
<1>2. /\ phase = "up" /\ r # NoRequest /\ p \in Pipelines /\ r.assets \subseteq Assets
      /\ r \in Request /\ DOMAIN request = Threads /\ r.calls = Finding
  BY <1>1, CallFacts
<1>3. UNCHANGED <<pipes, owner, issued, deleted, shrunk, edited, mixed, made, phase, started>>
  BY DEF Find
<1>4. \A q \in Pipelines \ {p} : Owned(q)' = Owned(q)
  BY <1>3 DEF Owned
<1>5. CASE p \in DOMAIN pipes
  <2> DEFINE c == [pipes[p] EXCEPT !.refs = ChangedRefs(r, pipes[p].refs), !.entries = ChangedEntries(r, pipes[p])]
             s == [r EXCEPT !.calls = Tail(r.calls), !.copy = c]
  <2>1. /\ request' = [request EXCEPT ![t] = s]
        /\ bare' = IF Retypes(r, pipes[p]) THEN bare \cup {p} ELSE bare
    BY <1>5 DEF Find
  <2>2. Others(t) /\ DOMAIN request' = Threads /\ request'[t] = s
    BY <1>2, <2>1 DEF Others
  <2>3. pipes[p] \in Record
    BY <1>5 DEF IInv, TypeOK
  <2>4. c \in Record /\ c.refs = ChangedRefs(r, pipes[p].refs) /\ c.entries = ChangedEntries(r, pipes[p])
    <3>1. r.change \in {"none", "add", "remove"} /\ r.entries \subseteq Assets
      BY <1>2 DEF Request
    <3>2. pipes[p].refs \subseteq Assets /\ pipes[p].entries \subseteq Assets
      BY <2>3 DEF Record
    <3>3. ChangedRefs(r, pipes[p].refs) \in SUBSET Assets
      BY <1>2, <3>1, <3>2 DEF ChangedRefs
    <3>4. ChangedEntries(r, pipes[p]) \in SUBSET Assets
      BY <1>2, <3>1, <3>2 DEF ChangedEntries
    <3> QED
      BY <2>3, <3>3, <3>4 DEF Record
  <2> HIDE DEF c
  <2>5. Tail(r.calls) = Saving /\ Saving \in Seq(Calls)
    BY <1>2, ListFacts, ListsAreCalls DEF Lists
  <2>6. s \in Request
    BY <1>2, <2>4, <2>5 DEF Request
  <2>7. s # NoRequest
    BY <2>6, RequestIsSome
  <2>8. s.calls = Saving /\ s.pipe = r.pipe /\ s.assets = r.assets /\ s.copy = c /\ s.change = r.change
    BY <1>2, <2>5 DEF Request
  <2> HIDE DEF s
  <2>9. Finds(t, p)
    BY <1>2, <1>3, <1>5, <2>1, <2>2, <2>4, <2>7, <2>8 DEF Finds
  <2>10. Serves(t, p)
    BY <1>2, <1>3, <1>4, <2>1, <2>2, <2>7, <2>8 DEF Serves, On
  <2> QED
    BY <2>2, <2>6, <2>9, <2>10 DEF Typed
<1>6. CASE p \notin DOMAIN pipes
  <2>1. request' = [request EXCEPT ![t] = NoRequest] /\ bare' = bare
    BY <1>6 DEF Find, Answer
  <2>2. Others(t) /\ DOMAIN request' = Threads /\ request'[t] = NoRequest
    BY <1>2, <2>1 DEF Others
  <2> QED
    BY <1>2, <1>3, <1>4, <1>6, <2>1, <2>2 DEF Finds, Serves, On, Typed
<1> QED
  BY <1>5, <1>6

LEMMA SaveSteps ==
  ASSUME IInv, NEW t \in Threads, SaveRecord(t), NEW p, request[t].pipe = p
  PROVE  Serves(t, p) /\ Saves(t, p) /\ Typed(t)
<1>1. At(t, "save")
  BY DEF SaveRecord
<1>2. phase = "up" /\ request[t] # NoRequest /\ p \in Pipelines /\ request[t].calls = Saving
  BY <1>1, CallFacts
<1>3. pipes' = Put(pipes, p, request[t].copy) /\ UNCHANGED <<owner, issued, deleted, shrunk, edited, bare, mixed, made, phase, started>>
  BY DEF SaveRecord
<1>4. Others(t) /\ DOMAIN request' = Threads /\ request'[t] = NoRequest
  BY <1>2, AdvanceSteps DEF SaveRecord
<1>5. /\ DOMAIN pipes' = DOMAIN pipes \cup {p} /\ pipes'[p] = request[t].copy
      /\ \A q \in DOMAIN pipes \ {p} : pipes'[q] = pipes[q]
  BY <1>3 DEF Put
<1>6. \A q : Owned(q)' = Owned(q)
  BY <1>3 DEF Owned
<1> QED
  BY <1>2, <1>3, <1>4, <1>5, <1>6 DEF Serves, Saves, Typed, On

LEMMA PurgeSteps ==
  ASSUME IInv, NEW t \in Threads, Purge(t), NEW p, request[t].pipe = p
  PROVE  Serves(t, p) /\ Purges(t, p) /\ Typed(t)
<1>1. At(t, "purge")
  BY DEF Purge
<1>2. phase = "up" /\ request[t] # NoRequest /\ p \in Pipelines /\ request[t].calls = Purging
  BY <1>1, CallFacts
<1>3. owner' = Without(owner, Owned(p)) /\ UNCHANGED <<pipes, issued, deleted, shrunk, edited, bare, mixed, made, phase, started>>
  BY DEF Purge, Owned
<1>4. /\ Others(t) /\ Typed(t) /\ Goes(t, Dropping)
      /\ request'[t].pipe = p /\ request'[t].change = request[t].change
  BY <1>2, AdvanceSteps, ListFacts DEF Purge, Typed
<1>5. DOMAIN owner' = DOMAIN owner \ Owned(p) /\ \A a \in DOMAIN owner' : owner'[a] = owner[a]
  BY <1>3 DEF Without
<1>6. \A q \in Pipelines \ {p} : Owned(q)' = Owned(q)
  BY <1>5 DEF Owned
<1>7. request'[t].assets \subseteq request[t].assets
  BY <1>4 DEF Goes
<1>8. Serves(t, p)
  BY <1>2, <1>3, <1>4, <1>6, <1>7 DEF Serves, On
<1> QED
  BY <1>2, <1>3, <1>4, <1>5, <1>8 DEF Purges

LEMMA CutSteps ==
  ASSUME IInv, NEW t \in Threads, DropAsset(t), NEW p, request[t].pipe = p
  PROVE  Serves(t, p) /\ Cuts(t, p) /\ Typed(t)
<1>1. At(t, "dropAsset")
  BY DEF DropAsset
<1>2. /\ phase = "up" /\ request[t] # NoRequest /\ p \in Pipelines /\ request[t].calls = Cutting
      /\ DOMAIN request = Threads
  BY <1>1, CallFacts
<1>3. /\ owner' = Without(owner, request[t].assets)
      /\ edited' = edited \cup Robbed(request[t].assets, p)
      /\ UNCHANGED <<pipes, issued, deleted, shrunk, bare, mixed, made, phase, started>>
  BY DEF DropAsset
<1>4. /\ Others(t) /\ Typed(t)
      /\ IF request[t].assets \subseteq DOMAIN owner THEN Goes(t, Finding) ELSE request'[t] = NoRequest
      /\ request'[t] # NoRequest => request'[t].pipe = p /\ request'[t].change = request[t].change
  <2>1. CASE request[t].assets \subseteq DOMAIN owner
    <3>1. Advance(t)
      BY <2>1 DEF DropAsset
    <3> QED
      BY <1>2, <2>1, <3>1, AdvanceSteps, ListFacts DEF Typed
  <2>2. CASE ~(request[t].assets \subseteq DOMAIN owner)
    <3>1. request' = [request EXCEPT ![t] = NoRequest]
      BY <2>2 DEF DropAsset, Answer
    <3> QED
      BY <1>2, <2>2, <3>1 DEF Others, Typed
  <2> QED
    BY <2>1, <2>2
<1>5. DOMAIN owner' = DOMAIN owner \ request[t].assets /\ \A a \in DOMAIN owner' : owner'[a] = owner[a]
  BY <1>3 DEF Without
<1>6. Owned(p)' = Owned(p) \ request[t].assets
  BY <1>5 DEF Owned
<1>7. /\ edited \subseteq edited' /\ edited' \subseteq edited \cup Pipelines
      /\ \A q \in Pipelines \ {p} : q \notin edited' => request[t].assets \cap Owned(q) = {}
  BY <1>3, RobbedFacts
<1>8. \A q \in Pipelines \ {p} : q \notin edited' => Owned(q)' = Owned(q)
  <2>1. ASSUME NEW q \in Pipelines \ {p}, q \notin edited'
        PROVE  Owned(q)' = Owned(q)
    <3>1. request[t].assets \cap Owned(q) = {}
      BY <1>7, <2>1
    <3> QED
      BY <1>5, <2>1, <3>1 DEF Owned
  <2> QED
    BY <2>1
<1>9. request'[t] # NoRequest => request'[t].assets \subseteq request[t].assets
  BY <1>4 DEF Goes
<1>10. Serves(t, p)
  BY <1>2, <1>3, <1>4, <1>7, <1>8, <1>9 DEF Serves, On
<1> QED
  BY <1>2, <1>3, <1>4, <1>5, <1>6, <1>10 DEF Cuts

LEMMA DropSteps ==
  ASSUME IInv, NEW t \in Threads, DropRecord(t), NEW p, request[t].pipe = p
  PROVE  Serves(t, p) /\ Drops(t, p) /\ Typed(t)
<1>1. At(t, "drop")
  BY DEF DropRecord
<1>2. /\ phase = "up" /\ request[t] # NoRequest /\ p \in Pipelines /\ request[t].calls = Dropping
      /\ DOMAIN request = Threads
  BY <1>1, CallFacts
<1>3. /\ pipes' = Without(pipes, {p}) /\ deleted' = deleted \cup {p}
      /\ UNCHANGED <<owner, issued, shrunk, edited, bare, mixed, made, phase, started>>
  BY DEF DropRecord
<1>4. Others(t) /\ DOMAIN request' = Threads /\ request'[t] = NoRequest
  BY <1>2 DEF DropRecord, Answer, Others
<1>5. DOMAIN pipes' = DOMAIN pipes \ {p} /\ \A q \in DOMAIN pipes \ {p} : pipes'[q] = pipes[q]
  BY <1>3 DEF Without
<1>6. \A q : Owned(q)' = Owned(q)
  BY <1>3 DEF Owned
<1> QED
  BY <1>2, <1>3, <1>4, <1>5, <1>6 DEF Serves, Drops, Typed, On

LEMMA ServeSteps ==
  ASSUME IInv, NEW t \in Threads,
         \/ WriteAsset(t) \/ Find(t) \/ SaveRecord(t) \/ Purge(t) \/ DropAsset(t) \/ DropRecord(t)
  PROVE  (\E p \in Pipelines : Serves(t, p) /\ Served(t, p)) /\ Typed(t)
<1> DEFINE p == request[t].pipe
<1>1. Serves(t, p) /\ Served(t, p) /\ Typed(t)
  BY WriteSteps, FindSteps, SaveSteps, PurgeSteps, CutSteps, DropSteps DEF Served
<1>2. p \in Pipelines
  BY <1>1 DEF Serves
<1> QED
  BY <1>1, <1>2

LEMMA ExitSteps ==
  ASSUME IInv, NEW found, Load(found)
  PROVE  /\ Exits /\ DOMAIN request' = Threads
         /\ phase' \in {"booted", "fatal"} /\ started' \in {{}, found} /\ mixed' \subseteq mixed \cup Pipelines
         /\ (\A p \in found : HasEntryPoint(p)) => started' = found
BY DEF Load, Exits, About, On

-----------------------------------------------------------------------------
(* The parts of the invariant, one by one: a request begins, makes its next *)
(* call, or the process exits.                                              *)

LEMMA ShapedKept ==
  ASSUME IInv, NEW t \in Threads
  PROVE  /\ \A p \in Pipelines, calls \in Lists, as \in SUBSET Assets, copy \in Record,
               change \in {"none", "add", "remove"} : Opens(t, p, calls, as, copy, change) => Shaped'
         /\ \A p \in Pipelines : Serves(t, p) /\ Served(t, p) => Shaped'
         /\ Exits => Shaped'
<1> DEFINE r == request[t]
           s == request'[t]
<1>1. Shaped /\ TypeOK
  BY DEF IInv
<1>2. ASSUME Others(t), s # NoRequest => Shape(s)
      PROVE  Shaped'
  BY <1>1, <1>2 DEF Others, Shaped
<1>3. ASSUME NEW p \in Pipelines, NEW calls \in Lists, NEW as \in SUBSET Assets, NEW copy \in Record,
             NEW change \in {"none", "add", "remove"}, Opens(t, p, calls, as, copy, change)
      PROVE  Shaped'
  <2>1. s.calls = calls /\ s.assets = as /\ s.copy = copy /\ s.change = change /\ Others(t)
    BY <1>3 DEF Opens, Opened
  <2>2. calls = Creating => change = "none" /\ as # {} /\ as \subseteq copy.refs
    BY <1>3, ListsDiffer DEF Opens, Chooses
  <2>3. \A a \in DOMAIN owner : a \in Assets
    BY <1>1 DEF TypeOK
  <2>4. calls \in {Writing, Cutting, Finding} => \E a \in Assets : as = {a}
    BY <1>3, <2>3, ListsDiffer DEF Opens, Chooses
  <2>5. (calls = Writing => change \in {"none", "add"}) /\ (calls = Cutting => change = "remove")
    BY <1>3, ListsDiffer DEF Opens, Chooses
  <2>6. Shape(s)
    BY <2>1, <2>2, <2>4, <2>5 DEF Shape, OfOneAsset
  <2> QED
    BY <1>2, <2>1, <2>6
<1>4. ASSUME NEW p \in Pipelines, Serves(t, p), Served(t, p)
      PROVE  Shaped'
  <2>1. Others(t) /\ r # NoRequest
    BY <1>4 DEF Serves, On
  <2>2. Shape(r)
    BY <1>1, <2>1 DEF Shaped
  <2>3. s # NoRequest => s.change = r.change
    BY <1>4 DEF Serves
  <2>4. {Saving, Dropping, Finding} \subseteq Lists /\ Creating \in Lists
    BY DEF Lists
  <2>5. s # NoRequest => Shape(s)
    <3>1. ASSUME NEW a \in Assets, Writes(t, p, a)
          PROVE  Shape(s)
      <4>1. CASE r.assets = {a}
        <5>1. s.assets = {a} /\ s.calls \in {Saving, Finding}
          BY <3>1, <4>1 DEF Writes, Goes
        <5> QED
          BY <2>4, <5>1, ListsDiffer DEF Shape, OfOneAsset
      <4>2. CASE r.assets # {a}
        <5>1. /\ s.assets = r.assets \ {a} /\ s.calls = r.calls /\ s.copy = r.copy
              /\ a \in r.assets /\ s # NoRequest /\ r.calls \in {Creating, Writing}
          BY <3>1, <4>2 DEF Writes
        <5>2. r.calls = Creating
          BY <2>2, <4>2, <5>1 DEF Shape, OfOneAsset
        <5>3. s.assets # {} /\ s.assets \subseteq s.copy.refs /\ s.change = "none"
          BY <2>2, <2>3, <4>2, <5>1, <5>2 DEF Shape
        <5> QED
          BY <2>4, <5>1, <5>2, <5>3, ListsDiffer DEF Shape
      <4> QED
        BY <4>1, <4>2
    <3>2. Finds(t, p) /\ s # NoRequest => Shape(s)
      BY <2>4, ListsDiffer DEF Finds, Shape
    <3>3. Purges(t, p) => Shape(s)
      BY <2>4, ListsDiffer DEF Purges, Goes, Shape
    <3>4. Cuts(t, p) /\ s # NoRequest => Shape(s)
      BY <2>2, <2>4, ListsDiffer DEF Cuts, Goes, Shape, OfOneAsset
    <3>5. Saves(t, p) \/ Drops(t, p) => s = NoRequest
      BY DEF Saves, Drops
    <3> QED
      BY <1>4, <3>1, <3>2, <3>3, <3>4, <3>5 DEF Served
  <2> QED
    BY <1>2, <2>1, <2>5
<1>5. Exits => Shaped'
  BY DEF Exits, Shaped
<1> QED
  BY <1>3, <1>4, <1>5

LEMMA TypeKept ==
  ASSUME IInv, NEW t \in Threads, Shaped'
  PROVE  /\ \A p \in Pipelines, calls \in Lists, as \in SUBSET Assets, copy \in Record,
               change \in {"none", "add", "remove"} :
               Opens(t, p, calls, as, copy, change) /\ Typed(t) => TypeOK'
         /\ \A p \in Pipelines : Serves(t, p) /\ Served(t, p) /\ Typed(t) => TypeOK'
<1>1. TypeOK
  BY DEF IInv
<1>2. \A u \in Threads : request'[u] # NoRequest => request'[u].calls # <<>>
  BY ListsAreCalls DEF Shaped, Shape
<1>3. ASSUME Others(t), Typed(t)
      PROVE  /\ DOMAIN request' = Threads
             /\ \A u \in Threads : request'[u] # NoRequest => request'[u] \in Request /\ request'[u].calls # <<>>
  BY <1>1, <1>2, <1>3 DEF Others, Typed, TypeOK
<1>4. ASSUME NEW p \in Pipelines, NEW calls \in Lists, NEW as \in SUBSET Assets, NEW copy \in Record,
             NEW change \in {"none", "add", "remove"}, Opens(t, p, calls, as, copy, change), Typed(t)
      PROVE  TypeOK'
  <2>1. Others(t)
    BY <1>4 DEF Opens, Opened
  <2>2. issued' \subseteq Pipelines \cup Assets
    BY <1>1, <1>4 DEF Opens, TypeOK
  <2>3. deleted' \cup shrunk' \cup edited' \cup bare' \cup mixed' \subseteq Pipelines
    BY <1>1, <1>4 DEF Opens, Opened, TypeOK
  <2>4. pipes' = pipes /\ owner' = owner /\ started' = started /\ phase' = phase /\ made' \in Nat
    BY <1>1, <1>4 DEF Opens, TypeOK
  <2> QED
    BY <1>1, <1>3, <1>4, <2>1, <2>2, <2>3, <2>4 DEF TypeOK
<1>5. ASSUME NEW p \in Pipelines, Serves(t, p), Served(t, p), Typed(t)
      PROVE  TypeOK'
  <2>1. Others(t) /\ issued' = issued /\ shrunk' = shrunk /\ mixed' = mixed /\ started' = started /\ phase' = "up"
        /\ made' = made /\ edited' \cup bare' \subseteq edited \cup bare \cup Pipelines
    BY <1>5 DEF Serves
  <2>2. /\ request[t] # NoRequest /\ request[t].copy \in Record /\ request[t].assets \subseteq Assets
    BY <1>1, <1>5 DEF Serves, On, TypeOK, Request
  <2>3. \A q \in DOMAIN pipes' \ {p} : q \in Pipelines => q \in DOMAIN pipes /\ pipes'[q] = pipes[q]
    BY <1>5 DEF Serves
  <2>4. DOMAIN pipes' \subseteq DOMAIN pipes \cup {p}
    BY <1>5 DEF Served, Writes, Finds, Saves, Purges, Cuts, Drops
  <2>5. p \in DOMAIN pipes' => pipes'[p] \in Record
    BY <1>1, <1>5, <2>2 DEF Served, Writes, Finds, Saves, Purges, Cuts, Drops, TypeOK
  <2>6. DOMAIN pipes' \subseteq Pipelines /\ \A q \in DOMAIN pipes' : pipes'[q] \in Record
    BY <1>1, <2>3, <2>4, <2>5 DEF TypeOK
  <2>7. DOMAIN owner' \subseteq Assets /\ \A a \in DOMAIN owner' : owner'[a] \in Pipelines
    <3>1. ASSUME NEW a \in Assets, Writes(t, p, a)
          PROVE  DOMAIN owner' \subseteq Assets /\ \A b \in DOMAIN owner' : owner'[b] \in Pipelines
      BY <1>1, <3>1 DEF Writes, TypeOK
    <3>2. Finds(t, p) \/ Saves(t, p) \/ Drops(t, p) => owner' = owner
      BY DEF Finds, Saves, Drops
    <3>3. Purges(t, p) \/ Cuts(t, p) => DOMAIN owner' \subseteq DOMAIN owner /\ \A a \in DOMAIN owner' : owner'[a] = owner[a]
      BY DEF Purges, Cuts
    <3> QED
      BY <1>1, <1>5, <3>1, <3>2, <3>3 DEF Served, TypeOK
  <2>8. deleted' \subseteq Pipelines
    BY <1>1, <1>5 DEF Served, Writes, Finds, Saves, Purges, Cuts, Drops, TypeOK
  <2> QED
    BY <1>1, <1>3, <1>5, <2>1, <2>6, <2>7, <2>8 DEF TypeOK
<1> QED
  BY <1>4, <1>5

LEMMA DrawnKept ==
  ASSUME IInv, NEW t \in Threads
  PROVE  /\ \A p \in Pipelines, calls \in Lists, as \in SUBSET Assets, copy \in Record,
               change \in {"none", "add", "remove"} : Opens(t, p, calls, as, copy, change) => Drawn'
         /\ \A p \in Pipelines : Serves(t, p) /\ Served(t, p) => Drawn'
         /\ Exits => Drawn'
<1>1. Drawn
  BY DEF IInv
<1>2. ASSUME NEW p \in Pipelines, NEW calls \in Lists, NEW as \in SUBSET Assets, NEW copy \in Record,
             NEW change \in {"none", "add", "remove"}, Opens(t, p, calls, as, copy, change)
      PROVE  Drawn'
  <2>1. /\ pipes' = pipes /\ owner' = owner /\ deleted' \subseteq deleted
        /\ issued \subseteq issued' /\ p \in issued'
    BY <1>2 DEF Opens
  <2>2. Others(t) /\ request'[t].pipe = p
    BY <1>2 DEF Opens, Opened
  <2>3. \A u \in Threads : request'[u] # NoRequest => request'[u].pipe \in issued'
    BY <1>1, <2>1, <2>2 DEF Drawn, Others
  <2> QED
    BY <1>1, <2>1, <2>3 DEF Drawn
<1>3. ASSUME NEW p \in Pipelines, Serves(t, p), Served(t, p)
      PROVE  Drawn'
  <2>1. p \in issued
    BY <1>1, <1>3 DEF Drawn, Serves, On
  <2>2. /\ issued' = issued /\ Others(t)
        /\ request'[t] # NoRequest => request'[t].pipe = p
    BY <1>3 DEF Serves
  <2>3. \A u \in Threads : request'[u] # NoRequest => request'[u].pipe \in issued
    BY <1>1, <2>1, <2>2 DEF Drawn, Others
  <2>4. DOMAIN pipes' \subseteq issued /\ deleted' \subseteq issued
    BY <1>1, <1>3, <2>1 DEF Served, Writes, Finds, Saves, Purges, Cuts, Drops, Drawn
  <2>5. \A a \in DOMAIN owner' : owner'[a] \in issued
    <3>1. ASSUME NEW a \in Assets, Writes(t, p, a)
          PROVE  \A b \in DOMAIN owner' : owner'[b] \in issued
      BY <1>1, <2>1, <3>1 DEF Writes, Drawn
    <3>2. Finds(t, p) \/ Saves(t, p) \/ Drops(t, p) => owner' = owner
      BY DEF Finds, Saves, Drops
    <3>3. Purges(t, p) \/ Cuts(t, p) => DOMAIN owner' \subseteq DOMAIN owner /\ \A a \in DOMAIN owner' : owner'[a] = owner[a]
      BY DEF Purges, Cuts
    <3> QED
      BY <1>1, <1>3, <3>1, <3>2, <3>3 DEF Served, Drawn
  <2> QED
    BY <2>2, <2>3, <2>4, <2>5 DEF Drawn
<1>4. Exits => Drawn'
  BY <1>1 DEF Exits, Drawn
<1> QED
  BY <1>2, <1>3, <1>4

LEMMA AloneKept ==
  ASSUME IInv, NEW t \in Threads
  PROVE  /\ \A p \in Pipelines, calls \in Lists, as \in SUBSET Assets, copy \in Record,
               change \in {"none", "add", "remove"} : Opens(t, p, calls, as, copy, change) => Alone'
         /\ \A p \in Pipelines : Serves(t, p) /\ Served(t, p) => Alone'
         /\ Exits => Alone'
<1>1. Alone
  BY DEF IInv
<1>2. ASSUME NEW p \in Pipelines, NEW calls \in Lists, NEW as \in SUBSET Assets, NEW copy \in Record,
             NEW change \in {"none", "add", "remove"}, Opens(t, p, calls, as, copy, change)
      PROVE  Alone'
  <2>1. /\ Others(t) /\ request'[t].pipe = p /\ mixed \subseteq mixed'
        /\ p \notin mixed' => \A u \in Threads : ~On(u, p)
    BY <1>2 DEF Opens, Opened
  <2>2. ASSUME NEW q \in Pipelines \ mixed', NEW u \in Threads, NEW v \in Threads, On(u, q)', On(v, q)'
        PROVE  u = v
    <3>1. \A w \in Threads \ {t} : On(w, q)' => On(w, q)
      BY <2>1 DEF On, Others
    <3>2. On(t, q)' => q = p
      BY <2>1 DEF On
    <3> QED
      BY <1>1, <2>1, <2>2, <3>1, <3>2 DEF Alone
  <2> QED
    BY <2>2 DEF Alone
<1>3. ASSUME NEW p \in Pipelines, Serves(t, p), Served(t, p)
      PROVE  Alone'
  <2>2. ASSUME NEW q \in Pipelines \ mixed', NEW u \in Threads, NEW v \in Threads, On(u, q)', On(v, q)'
        PROVE  u = v
    <3>1. \A w \in Threads : On(w, q)' => On(w, q)
      BY <1>3 DEF On, Others, Serves
    <3>2. mixed' = mixed
      BY <1>3 DEF Serves
    <3> QED
      BY <1>1, <2>2, <3>1, <3>2 DEF Alone
  <2> QED
    BY <2>2 DEF Alone
<1>4. Exits => Alone'
  BY DEF Exits, Alone, On
<1> QED
  BY <1>2, <1>3, <1>4

LEMMA GoneKept ==
  ASSUME IInv, NEW t \in Threads
  PROVE  /\ \A p \in Pipelines, calls \in Lists, as \in SUBSET Assets, copy \in Record,
               change \in {"none", "add", "remove"} : Opens(t, p, calls, as, copy, change) => Gone'
         /\ \A p \in Pipelines : Serves(t, p) /\ Served(t, p) => Gone'
         /\ Exits => Gone'
<1>1. Gone /\ Drawn /\ Alone /\ deleted \subseteq Pipelines
  BY DEF IInv, TypeOK
<1>2. ASSUME NEW p \in Pipelines, NEW calls \in Lists, NEW as \in SUBSET Assets, NEW copy \in Record,
             NEW change \in {"none", "add", "remove"}, Opens(t, p, calls, as, copy, change)
      PROVE  Gone'
  <2>1. pipes' = pipes /\ deleted' \in {deleted, deleted \ {p}}
    BY <1>2 DEF Opens
  <2>2. Others(t) /\ request'[t].pipe = p /\ request'[t].calls = calls /\ mixed \subseteq mixed'
    BY <1>2 DEF Opens, Opened
  <2>3. p \in deleted' => p \in DOMAIN pipes \/ p \notin issued \/ calls \in {Writing, Cutting}
    BY <1>2 DEF Opens, Chooses
  <2>4. ASSUME NEW q \in deleted' \ mixed', NEW u \in Threads, On(u, q)'
        PROVE  request'[u].calls \in {Writing, Cutting, Finding}
    <3>1. q \notin DOMAIN pipes /\ q \in issued /\ q \in deleted \ mixed
      BY <1>1, <2>1, <2>2 DEF Gone, Drawn
    <3>2. CASE u = t
      BY <2>2, <2>3, <2>4, <3>1, <3>2 DEF On
    <3>3. CASE u # t
      BY <1>1, <2>2, <2>4, <3>1, <3>3 DEF On, Others, Gone
    <3> QED
      BY <3>2, <3>3
  <2> QED
    BY <1>1, <2>1, <2>2, <2>4 DEF Gone
<1>3. ASSUME NEW p \in Pipelines, Serves(t, p), Served(t, p)
      PROVE  Gone'
  <2>1. /\ Others(t) /\ On(t, p) /\ mixed' = mixed
        /\ \A q \in Pipelines \ {p} : q \in DOMAIN pipes' <=> q \in DOMAIN pipes
        /\ request'[t] # NoRequest => request'[t].pipe = p
    BY <1>3 DEF Serves
  <2>2. deleted \subseteq deleted' /\ deleted' \subseteq deleted \cup {p}
    BY <1>3 DEF Served, Writes, Finds, Saves, Purges, Cuts, Drops
  <2>3. ASSUME NEW q \in deleted' \ mixed, q # p
        PROVE  q \notin DOMAIN pipes' /\ \A u \in Threads : On(u, q)' => request'[u].calls \in {Writing, Cutting, Finding}
    <3>1. q \in deleted \ mixed
      BY <2>2, <2>3
    <3>2. \A u \in Threads : On(u, q)' => u # t
      BY <2>1, <2>3 DEF On
    <3> QED
      BY <1>1, <2>1, <2>3, <3>1, <3>2 DEF Gone, On, Others
  <2>4. ASSUME p \in deleted' \ mixed
        PROVE  p \notin DOMAIN pipes' /\ \A u \in Threads : On(u, p)' => request'[u].calls \in {Writing, Cutting, Finding}
    <3>1. \A u \in Threads : On(u, p)' => u = t
      BY <1>1, <2>1, <2>4 DEF Alone, On, Others
    <3>2. CASE Drops(t, p)
      BY <3>1, <3>2 DEF Drops, On
    <3>3. CASE ~Drops(t, p)
      <4>1. deleted' = deleted
        BY <1>3, <3>3 DEF Served, Writes, Finds, Saves, Purges, Cuts
      <4>2. p \notin DOMAIN pipes /\ request[t].calls \in {Writing, Cutting, Finding}
        BY <1>1, <2>1, <2>4, <4>1 DEF Gone
      <4>3. ~Saves(t, p) /\ ~Purges(t, p)
        BY <4>2, ListsDiffer DEF Saves, Purges
      <4>4. pipes' = pipes
        BY <1>3, <3>3, <4>3 DEF Served, Writes, Finds, Cuts
      <4>5. request'[t] # NoRequest => request'[t].calls \in {Writing, Finding}
        BY <1>3, <3>3, <4>2, <4>3, ListsDiffer DEF Served, Writes, Finds, Cuts, Goes
      <4> QED
        BY <3>1, <4>2, <4>4, <4>5 DEF On
    <3> QED
      BY <3>2, <3>3
  <2> QED
    BY <2>1, <2>3, <2>4 DEF Gone
<1>4. Exits => Gone'
  BY <1>1 DEF Exits, Gone, On
<1> QED
  BY <1>2, <1>3, <1>4

LEMMA AgreesKept ==
  ASSUME IInv, NEW t \in Threads
  PROVE  /\ \A p \in Pipelines, calls \in Lists, as \in SUBSET Assets, copy \in Record,
               change \in {"none", "add", "remove"} : Opens(t, p, calls, as, copy, change) => Agrees'
         /\ \A p \in Pipelines : Serves(t, p) /\ Served(t, p) => Agrees'
         /\ Exits => Agrees'
<1>1. Agrees /\ Drawn /\ Alone /\ Shaped /\ TypeOK
  BY DEF IInv
<1>2. ASSUME NEW p \in Pipelines, NEW calls \in Lists, NEW as \in SUBSET Assets, NEW copy \in Record,
             NEW change \in {"none", "add", "remove"}, Opens(t, p, calls, as, copy, change)
      PROVE  Agrees'
  <2>1. pipes' = pipes /\ owner' = owner /\ mixed \subseteq mixed' /\ edited \subseteq edited'
    BY <1>2 DEF Opens, Opened
  <2>2. /\ Others(t) /\ request'[t] # NoRequest /\ request'[t].pipe = p /\ request'[t].calls = calls
        /\ request'[t].assets = as /\ request'[t].copy = copy /\ request'[t].change = change
        /\ p \notin mixed' => \A u \in Threads : ~On(u, p)
    BY <1>2 DEF Opens, Opened
  <2>3. \A q : Owned(q)' = Owned(q)
    BY <2>1 DEF Owned
  <2>4. ASSUME NEW q \in Pipelines \ (mixed' \cup edited'), q # p
        PROVE  /\ q \in DOMAIN pipes' /\ (\A u \in Threads : ~On(u, q)') => Owned(q)' = pipes'[q].refs
               /\ \A u \in Threads : On(u, q)' => Agreeing(request[u], q)'
    <3>1. \A u \in Threads : On(u, q)' <=> (u # t /\ On(u, q))
      BY <1>2, <2>2, <2>4 DEF On, Others, Opens
    <3>2. \A u \in Threads : On(u, q)' => Agreeing(request[u], q)
      BY <1>1, <2>1, <2>4, <3>1 DEF Agrees
    <3>3. ASSUME NEW u \in Threads, On(u, q)' PROVE Agreeing(request[u], q)'
      <4>1. request'[u] = request[u] /\ Agreeing(request[u], q)
        BY <2>2, <3>1, <3>2, <3>3 DEF Others
      <4> QED
        BY <2>1, <2>3, <4>1 DEF Agreeing
    <3>4. ASSUME q \in DOMAIN pipes, \A u \in Threads : ~On(u, q)' PROVE Owned(q) = pipes[q].refs
      <4>1. \A u \in Threads : ~On(u, q)
        BY <1>2, <3>1, <3>4 DEF Opens, On
      <4> QED
        BY <1>1, <2>1, <2>4, <3>4, <4>1 DEF Agrees
    <3> QED
      BY <2>1, <2>3, <3>3, <3>4
  <2>5. ASSUME p \notin mixed', p \notin edited'
        PROVE  On(t, p)' /\ \A u \in Threads : On(u, p)' => Agreeing(request[u], p)'
    <3>1. \A u \in Threads : On(u, p)' <=> u = t
      BY <2>2, <2>5 DEF On, Others
    <3>2. p \in DOMAIN pipes => Owned(p) = pipes[p].refs
      BY <1>1, <2>1, <2>2, <2>5 DEF Agrees
    <3>3. p \notin issued => Owned(p) = {}
      BY <1>1 DEF Drawn, Owned
    <3>4. calls = Creating => Owned(p) = copy.refs \ as
      BY <1>2, <2>5, <3>3, ListsDiffer DEF Opens, Chooses
    <3>5. calls = Saving => Owned(p) = copy.refs
      BY <1>2, <2>5, <3>2, <3>3, ListsDiffer DEF Opens, Chooses
    <3>6. calls = Writing /\ change = "none" => as \subseteq Owned(p)
      BY <1>2, <2>5, ListsDiffer DEF Opens, Chooses, Owned
    <3>7. calls # Finding
      BY <1>2, ListsDiffer DEF Opens, Chooses
    <3>8. Agreeing(request[t], p)'
      BY <2>1, <2>2, <2>3, <3>2, <3>4, <3>5, <3>6, <3>7 DEF Agreeing
    <3> QED
      BY <3>1, <3>8
  <2> QED
    BY <2>4, <2>5 DEF Agrees
<1>3. ASSUME NEW p \in Pipelines, Serves(t, p), Served(t, p)
      PROVE  Agrees'
  <2>1. /\ Others(t) /\ On(t, p) /\ mixed' = mixed /\ edited \subseteq edited'
        /\ \A q \in Pipelines \ {p} :
             /\ q \in DOMAIN pipes' <=> q \in DOMAIN pipes
             /\ q \in DOMAIN pipes => pipes'[q] = pipes[q]
             /\ q \notin edited' => Owned(q)' = Owned(q)
        /\ request'[t] # NoRequest => request'[t].pipe = p /\ request'[t].change = request[t].change
    BY <1>3 DEF Serves
  <2>2. ASSUME NEW q \in Pipelines \ (mixed \cup edited'), q # p
        PROVE  /\ q \in DOMAIN pipes' /\ (\A u \in Threads : ~On(u, q)') => Owned(q)' = pipes'[q].refs
               /\ \A u \in Threads : On(u, q)' => Agreeing(request[u], q)'
    <3>1. \A u \in Threads : (On(u, q)' <=> On(u, q)) /\ (On(u, q) => u # t)
      BY <2>1, <2>2 DEF On, Others
    <3>2. ASSUME NEW u \in Threads, On(u, q)' PROVE Agreeing(request[u], q)'
      <4>1. request'[u] = request[u] /\ Agreeing(request[u], q)
        BY <1>1, <2>1, <2>2, <3>1, <3>2 DEF Others, Agrees
      <4> QED
        BY <2>1, <2>2, <4>1 DEF Agreeing
    <3>3. q \in DOMAIN pipes /\ (\A u \in Threads : ~On(u, q)) => Owned(q) = pipes[q].refs
      BY <1>1, <2>1, <2>2 DEF Agrees
    <3> QED
      BY <2>1, <2>2, <3>1, <3>2, <3>3
  <2>3. ASSUME p \notin mixed, p \notin edited'
        PROVE  /\ p \in DOMAIN pipes' /\ (\A u \in Threads : ~On(u, p)') => Owned(p)' = pipes'[p].refs
               /\ \A u \in Threads : On(u, p)' => Agreeing(request[u], p)'
    <3> DEFINE r == request[t]
               s == request'[t]
    <3>1. \A u \in Threads : On(u, p)' <=> (u = t /\ s # NoRequest)
      BY <1>1, <2>1, <2>3 DEF Alone, On, Others
    <3>2. Agreeing(r, p) /\ Shape(r)
      BY <1>1, <2>1, <2>3 DEF Agrees, Shaped, On
    <3>3. ASSUME s # NoRequest PROVE Agreeing(request[t], p)'
      <4>1. s.change = r.change
        BY <2>1, <3>3
      <4>2. ASSUME NEW a \in Assets, Writes(t, p, a)
            PROVE  Agreeing(request[t], p)'
        <5>1. Owned(p)' = Owned(p) \cup {a} /\ a \in r.assets /\ pipes' = pipes /\ r.calls \in {Creating, Writing}
          BY <4>2 DEF Writes
        <5>2. CASE r.assets = {a} /\ r.calls = Creating
          <6>1. s.calls = Saving /\ s.copy = r.copy
            BY <4>2, <5>2 DEF Writes, Goes
          <6>2. Owned(p) = r.copy.refs \ {a} /\ a \in r.copy.refs
            BY <3>2, <5>2 DEF Agreeing, Shape
          <6>3. Owned(p)' = s.copy.refs
            BY <5>1, <6>1, <6>2
          <6> QED
            BY <6>1, <6>3, ListsDiffer DEF Agreeing
        <5>3. CASE r.assets = {a} /\ r.calls = Writing
          <6>1. s.calls = Finding /\ s.assets = {a}
            BY <4>2, <5>3, ListsDiffer DEF Writes, Goes
          <6>2. p \in DOMAIN pipes => Owned(p) = pipes[p].refs
            BY <3>2, <5>3 DEF Agreeing
          <6>3. r.change \in {"none", "add"} /\ (r.change = "none" => a \in Owned(p))
            BY <3>2, <5>3 DEF Agreeing, Shape, OfOneAsset
          <6>4. p \in DOMAIN pipes => Owned(p)' = ChangedRefs(s, pipes[p].refs)
            BY <4>1, <5>1, <6>1, <6>2, <6>3 DEF ChangedRefs
          <6> QED
            BY <5>1, <6>1, <6>4, ListsDiffer DEF Agreeing, ChangedRefs
        <5>4. CASE r.assets # {a}
          <6>1. s.calls = r.calls /\ s.copy = r.copy /\ s.assets = r.assets \ {a}
            BY <4>2, <5>4 DEF Writes
          <6>2. r.calls = Creating
            BY <3>2, <5>1, <5>4 DEF Shape, OfOneAsset
          <6>3. Owned(p) = r.copy.refs \ r.assets /\ r.assets \subseteq r.copy.refs
            BY <3>2, <6>2 DEF Agreeing, Shape
          <6>4. Owned(p)' = s.copy.refs \ s.assets
            BY <5>1, <6>1, <6>3
          <6> QED
            BY <6>1, <6>2, <6>4, ListsDiffer DEF Agreeing
        <5> QED
          BY <5>1, <5>2, <5>3, <5>4
      <4>3. ASSUME Finds(t, p)
            PROVE  Agreeing(request[t], p)'
        <5>1. p \in DOMAIN pipes /\ owner' = owner /\ s.calls = Saving /\ s.copy.refs = ChangedRefs(r, pipes[p].refs)
          BY <3>3, <4>3 DEF Finds
        <5>2. Owned(p) = ChangedRefs(r, pipes[p].refs)
          BY <3>2, <4>3, <5>1 DEF Finds, Agreeing
        <5>3. Owned(p)' = Owned(p)
          BY <5>1 DEF Owned
        <5> QED
          BY <5>1, <5>2, <5>3, ListsDiffer DEF Agreeing
      <4>4. ASSUME Purges(t, p)
            PROVE  Agreeing(request[t], p)'
        BY <4>4, ListsDiffer DEF Purges, Goes, Agreeing
      <4>5. ASSUME Cuts(t, p)
            PROVE  Agreeing(request[t], p)'
        <5>1. /\ r.calls = Cutting /\ s.calls = Finding /\ s.assets = r.assets /\ pipes' = pipes
              /\ Owned(p)' = Owned(p) \ r.assets
          BY <3>3, <4>5 DEF Cuts, Goes
        <5>2. r.change = "remove" /\ (p \in DOMAIN pipes => Owned(p) = pipes[p].refs)
          BY <3>2, <5>1 DEF Agreeing, Shape, OfOneAsset
        <5>3. p \in DOMAIN pipes => Owned(p)' = ChangedRefs(s, pipes[p].refs)
          BY <4>1, <5>1, <5>2 DEF ChangedRefs
        <5> QED
          BY <5>1, <5>3, ListsDiffer DEF Agreeing, ChangedRefs
      <4> QED
        BY <1>3, <3>3, <4>2, <4>3, <4>4, <4>5 DEF Served, Saves, Drops
    <3>4. ASSUME s = NoRequest, p \in DOMAIN pipes' PROVE Owned(p)' = pipes'[p].refs
      <4>1. CASE Saves(t, p)
        <5>1. Owned(p) = r.copy.refs
          BY <3>2, <4>1 DEF Agreeing, Saves
        <5> QED
          BY <4>1, <5>1 DEF Saves, Owned
      <4>2. CASE Cuts(t, p)
        <5>1. r.calls = Cutting /\ pipes' = pipes /\ Owned(p)' = Owned(p) \ r.assets
          BY <4>2 DEF Cuts
        <5>2. ~(r.assets \subseteq DOMAIN owner)
          BY <3>4, <4>2 DEF Cuts, Goes
        <5>3. \E a \in Assets : r.assets = {a}
          BY <3>2, <5>1 DEF Shape, OfOneAsset
        <5>4. Owned(p)' = Owned(p)
          BY <5>1, <5>2, <5>3 DEF Owned
        <5> QED
          BY <3>2, <3>4, <5>1, <5>4 DEF Agreeing
      <4>3. ~Drops(t, p)
        BY <3>4 DEF Drops
      <4>4. ~Finds(t, p)
        BY <3>4 DEF Finds
      <4>5. ~Purges(t, p) /\ \A a \in Assets : ~Writes(t, p, a)
        BY <3>4 DEF Purges, Writes, Goes
      <4> QED
        BY <1>3, <4>1, <4>2, <4>3, <4>4, <4>5 DEF Served
    <3> QED
      BY <3>1, <3>3, <3>4
  <2> QED
    BY <2>1, <2>2, <2>3 DEF Agrees
<1>4. ASSUME Exits PROVE Agrees'
  <2>1. /\ pipes' = pipes /\ owner' = owner /\ mixed \subseteq mixed' /\ edited' = edited
        /\ \A u \in Threads : request'[u] = NoRequest
        /\ \A p \in Pipelines \ mixed' : \A u \in Threads : ~On(u, p)
    BY <1>4 DEF Exits
  <2>2. \A p \in Pipelines \ (mixed' \cup edited) : p \in DOMAIN pipes => Owned(p) = pipes[p].refs
    BY <1>1, <2>1 DEF Agrees
  <2>3. \A p : Owned(p)' = Owned(p)
    BY <2>1 DEF Owned
  <2> QED
    BY <2>1, <2>2, <2>3 DEF Agrees, On
<1> QED
  BY <1>2, <1>3, <1>4

LEMMA HoldsKept ==
  ASSUME IInv, NEW t \in Threads
  PROVE  /\ \A p \in Pipelines, calls \in Lists, as \in SUBSET Assets, copy \in Record,
               change \in {"none", "add", "remove"} : Opens(t, p, calls, as, copy, change) => Holds'
         /\ \A p \in Pipelines : Serves(t, p) /\ Served(t, p) => Holds'
         /\ Exits => Holds'
<1>1. Holds /\ Drawn /\ Shaped /\ TypeOK
  BY DEF IInv
<1>2. ASSUME NEW p \in Pipelines, NEW calls \in Lists, NEW as \in SUBSET Assets, NEW copy \in Record,
             NEW change \in {"none", "add", "remove"}, Opens(t, p, calls, as, copy, change)
      PROVE  Holds'
  <2>1. /\ pipes' = pipes /\ owner' = owner /\ shrunk \subseteq shrunk' /\ (p \notin shrunk' => calls \notin {Purging, Cutting})
        /\ edited \subseteq edited' /\ bare \subseteq bare'
    BY <1>2 DEF Opens, Opened
  <2>2. /\ Others(t) /\ request'[t] # NoRequest /\ request'[t].pipe = p /\ request'[t].calls = calls
        /\ request'[t].assets = as /\ request'[t].copy = copy /\ request'[t].change = change
    BY <1>2 DEF Opens, Opened
  <2>3. \A q : Owned(q)' = Owned(q)
    BY <2>1 DEF Owned
  <2>4. ASSUME NEW q \in Pipelines \ (shrunk' \cup edited'), NEW u \in Threads, On(u, q)'
        PROVE  Holding(request[u], q)'
    <3>1. CASE u # t
      <4>1. request'[u] = request[u] /\ Holding(request[u], q)
        BY <1>1, <2>1, <2>2, <2>4, <3>1 DEF Holds, Others, On
      <4> QED
        BY <2>1, <2>3, <4>1 DEF Holding, Whole, HasEntry
    <3>2. CASE u = t
      <4>1. q = p
        BY <2>2, <2>4, <3>2 DEF On
      <4>2. /\ calls \in {Creating, Saving, Writing} /\ change \in {"none", "add"}
            /\ calls = Creating => copy.refs = as /\ (p \notin bare' => copy.entries \cap copy.refs # {})
            /\ calls = Saving =>
                 \/ copy.refs = {} /\ (p \notin bare' => copy.entries \cap copy.refs # {})
                 \/ p \in DOMAIN pipes /\ copy.refs = pipes[p].refs /\ copy.entries = pipes[p].entries
        BY <1>2, <2>1, <2>4, <4>1, ListsDiffer DEF Opens, Chooses
      <4>3. p \in DOMAIN pipes => Whole(pipes[p], p)
        BY <1>1, <2>1, <2>4, <4>1 DEF Holds
      <4>4. calls = Saving => copy.refs \subseteq Owned(p) /\ (p \notin bare' => copy.entries \cap copy.refs # {})
        BY <2>1, <4>2, <4>3 DEF Whole, HasEntry
      <4>5. calls # Finding
        BY <4>2, ListsDiffer
      <4> QED
        BY <2>2, <2>3, <3>2, <4>1, <4>2, <4>4, <4>5 DEF Holding, Whole, HasEntry
    <3> QED
      BY <3>1, <3>2
  <2>5. ASSUME NEW q \in Pipelines \ (shrunk' \cup edited'), q \in DOMAIN pipes'
        PROVE  Whole(pipes[q], q)'
    BY <1>1, <2>1, <2>3, <2>5 DEF Holds, Whole, HasEntry
  <2> QED
    BY <2>4, <2>5 DEF Holds
<1>3. ASSUME NEW p \in Pipelines, Serves(t, p), Served(t, p)
      PROVE  Holds'
  <2>1. /\ Others(t) /\ On(t, p) /\ shrunk' = shrunk /\ edited \subseteq edited' /\ bare \subseteq bare'
        /\ \A q \in Pipelines \ {p} :
             /\ q \in DOMAIN pipes' <=> q \in DOMAIN pipes
             /\ q \in DOMAIN pipes => pipes'[q] = pipes[q]
             /\ q \notin edited' => Owned(q)' = Owned(q)
        /\ request'[t] # NoRequest => request'[t].pipe = p /\ request'[t].change = request[t].change
    BY <1>3 DEF Serves
  <2>2. ASSUME NEW q \in Pipelines \ (shrunk \cup edited'), q # p
        PROVE  /\ q \in DOMAIN pipes' => Whole(pipes[q], q)'
               /\ \A u \in Threads : On(u, q)' => Holding(request[u], q)'
    <3>1. \A u \in Threads : On(u, q)' => On(u, q) /\ u # t
      BY <2>1, <2>2 DEF On, Others
    <3>2. ASSUME NEW u \in Threads, On(u, q)' PROVE Holding(request[u], q)'
      <4>1. request'[u] = request[u] /\ Holding(request[u], q)
        BY <1>1, <2>1, <2>2, <3>1, <3>2 DEF Others, Holds
      <4> QED
        BY <2>1, <2>2, <4>1 DEF Holding, Whole, HasEntry
    <3>3. q \in DOMAIN pipes => Whole(pipes[q], q)
      BY <1>1, <2>1, <2>2 DEF Holds
    <3> QED
      BY <2>1, <2>2, <3>2, <3>3 DEF Whole, HasEntry
  <2>3. ASSUME p \notin shrunk, p \notin edited'
        PROVE  /\ p \in DOMAIN pipes' => Whole(pipes[p], p)'
               /\ \A u \in Threads : On(u, p)' => Holding(request[u], p)'
    <3> DEFINE r == request[t]
               s == request'[t]
    <3>1. Holding(r, p) /\ Shape(r)
      BY <1>1, <2>1, <2>3 DEF Holds, Shaped, On
    <3>2. ~Purges(t, p) /\ ~Cuts(t, p) /\ ~Drops(t, p)
      BY <3>1, ListsDiffer DEF Holding, Purges, Cuts, Drops
    <3>3. Owned(p) \subseteq Owned(p)'
      BY <1>3, <3>2 DEF Served, Writes, Finds, Saves, Owned
    <3>4. ASSUME NEW u \in Threads \ {t}, On(u, p)' PROVE Holding(request[u], p)'
      <4>1. request'[u] = request[u] /\ Holding(request[u], p)
        BY <1>1, <2>1, <2>3, <3>4 DEF Others, Holds, On
      <4> QED
        BY <2>1, <3>3, <4>1 DEF Holding, Whole, HasEntry
    <3>5. p \in DOMAIN pipes => Whole(pipes[p], p)
      BY <1>1, <2>1, <2>3 DEF Holds
    <3>6. ASSUME s # NoRequest PROVE Holding(request[t], p)'
      <4>1. s.change = r.change /\ s.change \in {"none", "add"}
        BY <2>1, <3>1, <3>6 DEF Holding
      <4>2. ASSUME NEW a \in Assets, Writes(t, p, a)
            PROVE  Holding(request[t], p)'
        <5>1. Owned(p)' = Owned(p) \cup {a} /\ a \in r.assets /\ r.calls \in {Creating, Writing}
          BY <4>2 DEF Writes
        <5>2. CASE r.assets = {a} /\ r.calls = Creating
          <6>1. s.calls = Saving /\ s.copy = r.copy
            BY <4>2, <5>2 DEF Writes, Goes
          <6>2. r.copy.refs \ {a} \subseteq Owned(p) /\ HasEntry(r.copy, p)
            BY <3>1, <5>2 DEF Holding
          <6> QED
            BY <2>1, <4>1, <5>1, <6>1, <6>2, ListsDiffer DEF Holding, Whole, HasEntry
        <5>3. CASE r.assets = {a} /\ r.calls = Writing
          <6>1. s.calls = Finding /\ s.assets = {a}
            BY <4>2, <5>3, ListsDiffer DEF Writes, Goes
          <6> QED
            BY <4>1, <5>1, <6>1, ListsDiffer DEF Holding
        <5>4. CASE r.assets # {a}
          <6>1. s.calls = r.calls /\ s.copy = r.copy /\ s.assets = r.assets \ {a}
            BY <4>2, <5>4 DEF Writes
          <6>2. r.calls = Creating
            BY <3>1, <5>1, <5>4 DEF Shape, OfOneAsset
          <6>3. r.copy.refs \ r.assets \subseteq Owned(p) /\ HasEntry(r.copy, p)
            BY <3>1, <6>2 DEF Holding
          <6> QED
            BY <2>1, <4>1, <5>1, <6>1, <6>2, <6>3, ListsDiffer DEF Holding, HasEntry
        <5> QED
          BY <5>1, <5>2, <5>3, <5>4
      <4>3. ASSUME Finds(t, p)
            PROVE  Holding(request[t], p)'
        <5>1. /\ p \in DOMAIN pipes /\ r.calls = Finding
              /\ s.calls = Saving /\ s.copy.refs = ChangedRefs(r, pipes[p].refs)
              /\ s.copy.entries = ChangedEntries(r, pipes[p]) /\ (p \notin bare' => ~Retypes(r, pipes[p]))
          BY <3>6, <4>3 DEF Finds
        <5>2. r.assets \subseteq Owned(p)
          BY <3>1, <5>1 DEF Holding
        <5>3. s.copy.refs \in {pipes[p].refs, pipes[p].refs \cup r.assets}
          BY <4>1, <5>1 DEF ChangedRefs
        <5>4. s.copy.refs \subseteq Owned(p)
          BY <3>5, <5>1, <5>2, <5>3 DEF Whole
        <5>5. ASSUME p \notin bare' PROVE s.copy.entries \cap s.copy.refs # {}
          <6>1. PICK e \in pipes[p].entries : e \in pipes[p].refs
            BY <2>1, <3>5, <5>1, <5>5 DEF Whole, HasEntry
          <6>2. CASE r.change = "add"
            BY <5>1, <6>1, <6>2 DEF ChangedRefs, ChangedEntries
          <6>3. CASE r.change = "none"
            <7>1. e \in r.assets => e \in r.entries
              BY <5>1, <5>5, <6>1, <6>3 DEF Retypes
            <7> QED
              BY <5>1, <6>1, <6>3, <7>1 DEF ChangedRefs, ChangedEntries
          <6> QED
            BY <4>1, <6>2, <6>3
        <5> QED
          BY <3>3, <4>1, <5>1, <5>4, <5>5, ListsDiffer DEF Holding, Whole, HasEntry
      <4> QED
        BY <1>3, <3>2, <3>6, <4>2, <4>3 DEF Served, Saves
    <3>7. ASSUME p \in DOMAIN pipes' PROVE Whole(pipes[p], p)'
      <4>1. CASE Saves(t, p)
        BY <2>1, <3>1, <3>3, <4>1 DEF Saves, Holding, Whole, HasEntry
      <4>2. CASE ~Saves(t, p)
        <5>1. pipes' = pipes
          BY <1>3, <3>2, <4>2 DEF Served, Writes, Finds
        <5> QED
          BY <2>1, <3>3, <3>5, <3>7, <5>1 DEF Whole, HasEntry
      <4> QED
        BY <4>1, <4>2
    <3>8. \A u \in Threads : On(u, p)' => Holding(request[u], p)'
      BY <3>4, <3>6 DEF On
    <3> QED
      BY <3>7, <3>8
  <2> QED
    BY <2>1, <2>2, <2>3 DEF Holds
<1>4. Exits => Holds'
  BY <1>1 DEF Exits, Holds, Whole, HasEntry, Owned, On
<1> QED
  BY <1>2, <1>3, <1>4

\* Nothing is missing of a pipeline nobody took anything from.
LEMMA UnshrunkAreWhole ==
  ASSUME TypeOK, Holds, NEW p \in DOMAIN pipes \ (shrunk \cup edited)
  PROVE  Intact(p) /\ (p \notin bare => HasEntryPoint(p))
BY DEF TypeOK, Holds, Whole, HasEntry, Owned, Intact, HasEntryPoint

LEMMA AutoAreKnown == AutoStart \subseteq DOMAIN pipes
BY DEF AutoStart

LEMMA BootedKept ==
  ASSUME IInv, NEW found, Load(found),
         (\A p \in AutoStart : Intact(p)) => found = AutoStart
  PROVE  Booted'
<1>1. Exits /\ ((\A p \in found : HasEntryPoint(p)) => started' = found)
  BY ExitSteps
<1>2. shrunk' = shrunk /\ edited' = edited /\ bare' = bare /\ AutoStart' = AutoStart
  BY <1>1 DEF Exits, AutoStart
<1>3. ASSUME AutoStart \cap (shrunk \cup edited \cup bare) = {} PROVE started' = AutoStart
  <2>1. TypeOK /\ Holds /\ AutoStart \subseteq DOMAIN pipes \ (shrunk \cup edited)
    BY <1>3, AutoAreKnown DEF IInv
  <2>2. \A p \in AutoStart : Intact(p) /\ HasEntryPoint(p)
    BY <1>3, <2>1, UnshrunkAreWhole
  <2> QED
    BY <1>1, <2>2
<1> QED
  BY <1>2, <1>3 DEF Booted
-----------------------------------------------------------------------------
LEMMA InitIInv == Init => IInv
<1> SUFFICES ASSUME Init PROVE IInv
  OBVIOUS
<1>1. DOMAIN pipes = {} /\ DOMAIN owner = {}
  BY DEF Init
<1>2. DOMAIN request = Threads /\ \A t \in Threads : request[t] = NoRequest
  BY DEF Init
<1>3. /\ issued = {} /\ deleted = {} /\ shrunk = {} /\ edited = {} /\ bare = {} /\ mixed = {}
      /\ made = 0 /\ phase = "up" /\ started = {}
  BY DEF Init
<1>4. TypeOK
  BY <1>1, <1>2, <1>3 DEF TypeOK
<1>5. Shaped /\ Alone
  BY <1>2 DEF Shaped, Alone, On
<1>6. Drawn
  BY <1>1, <1>2, <1>3 DEF Drawn
<1>7. Agrees /\ Holds
  BY <1>1, <1>2 DEF Agrees, Holds, On
<1>8. Gone /\ Booted
  BY <1>3 DEF Gone, Booted
<1> QED
  BY <1>4, <1>5, <1>6, <1>7, <1>8 DEF IInv

LEMMA NextKeepsIInv == IInv /\ [Next]_vars => IInv'
<1> SUFFICES ASSUME IInv, [Next]_vars PROVE IInv'
  OBVIOUS
<1>1. ASSUME NEW t \in Threads,
             \/ CreatePipeline(t) \/ UpdatePipeline(t) \/ RewritePipeline(t) \/ DeletePipeline(t)
             \/ CreateAsset(t) \/ SaveAsset(t) \/ DeleteAsset(t)
      PROVE  IInv'
  <2>1. PICK p \in Pipelines, calls \in Lists, as \in SUBSET Assets, copy \in Record,
             change \in {"none", "add", "remove"} : Opens(t, p, calls, as, copy, change)
    BY <1>1, OpenSteps DEF OpensSome
  <2>2. Typed(t)
    BY <1>1, OpenSteps DEF OpensSome, Typed
  <2>3. Shaped'
    BY <2>1, ShapedKept
  <2>4. TypeOK'
    BY <2>1, <2>2, <2>3, TypeKept
  <2>5. Drawn' /\ Alone'
    BY <2>1, DrawnKept, AloneKept
  <2>6. Agrees' /\ Gone' /\ Holds'
    BY <2>1, AgreesKept, GoneKept, HoldsKept
  <2>7. Booted'
    BY <2>1 DEF Opens, Booted
  <2> QED
    BY <2>3, <2>4, <2>5, <2>6, <2>7 DEF IInv
<1>2. ASSUME NEW t \in Threads,
             \/ WriteAsset(t) \/ Find(t) \/ SaveRecord(t) \/ Purge(t) \/ DropAsset(t) \/ DropRecord(t)
      PROVE  IInv'
  <2>1. PICK p \in Pipelines : Serves(t, p) /\ Served(t, p)
    BY <1>2, ServeSteps
  <2>2. Typed(t)
    BY <1>2, ServeSteps
  <2>3. Shaped'
    BY <2>1, ShapedKept
  <2>4. TypeOK'
    BY <2>1, <2>2, <2>3, TypeKept
  <2>5. Drawn' /\ Alone'
    BY <2>1, DrawnKept, AloneKept
  <2>6. Agrees' /\ Gone' /\ Holds'
    BY <2>1, AgreesKept, GoneKept, HoldsKept
  <2>7. Booted'
    BY <2>1 DEF Serves, Booted
  <2> QED
    BY <2>3, <2>4, <2>5, <2>6, <2>7 DEF IInv
<1>3. ASSUME Reboot PROVE IInv'
  <2>1. PICK found : /\ Load(found) /\ found \subseteq AutoStart
                     /\ (\A p \in AutoStart : Intact(p)) => found = AutoStart
    BY <1>3 DEF Reboot
  <2>2. /\ Exits /\ DOMAIN request' = Threads
        /\ phase' \in {"booted", "fatal"} /\ started' \in {{}, found} /\ mixed' \subseteq mixed \cup Pipelines
    BY <2>1, ExitSteps
  <2>3. TypeOK'
    <3>1. TypeOK
      BY DEF IInv
    <3>2. found \subseteq Pipelines
      BY <2>1, <3>1, AutoAreKnown DEF TypeOK
    <3> QED
      BY <2>2, <3>1, <3>2 DEF TypeOK, Exits
  <2>4. Booted'
    BY <2>1, BootedKept
  <2>5. Shaped' /\ Drawn' /\ Alone' /\ Agrees' /\ Gone' /\ Holds'
    <3>1. CASE Threads # {}
      BY <2>2, <3>1, ShapedKept, DrawnKept, AloneKept, AgreesKept, GoneKept, HoldsKept
    <3>2. CASE Threads = {}
      BY <2>2, <3>2 DEF IInv, Exits, Shaped, Drawn, Alone, Agrees, Gone, Holds, On, Whole, HasEntry, Owned
    <3> QED
      BY <3>1, <3>2
  <2> QED
    BY <2>3, <2>4, <2>5 DEF IInv
<1>4. ASSUME UNCHANGED vars PROVE IInv'
  <2>1. /\ pipes' = pipes /\ owner' = owner /\ issued' = issued /\ request' = request /\ deleted' = deleted
        /\ shrunk' = shrunk /\ edited' = edited /\ bare' = bare /\ mixed' = mixed /\ made' = made /\ phase' = phase /\ started' = started
    BY <1>4 DEF vars
  <2>2. \A p : Owned(p)' = Owned(p) /\ \A t : On(t, p)' = On(t, p)
    BY <2>1 DEF Owned, On
  <2>3. TypeOK' /\ Drawn'
    BY <2>1 DEF IInv, TypeOK, Drawn
  <2>4. Shaped' /\ Alone' /\ Gone'
    BY <2>1, <2>2 DEF IInv, Shaped, Alone, Gone
  <2>5. Agrees'
    BY <2>1, <2>2 DEF IInv, Agrees, Agreeing
  <2>6. Holds'
    BY <2>1, <2>2 DEF IInv, Holds, Holding, Whole, HasEntry
  <2>7. Booted'
    BY <2>1 DEF IInv, Booted, AutoStart
  <2> QED
    BY <2>3, <2>4, <2>5, <2>6, <2>7 DEF IInv
<1> QED
  BY <1>1, <1>2, <1>3, <1>4 DEF Next, Done

\* The invariant holds of every reachable state.
THEOREM InvariantHolds == Spec => []IInv
BY InitIInv, NextKeepsIInv, PTL DEF Spec

\* What the variables hold: records of known pipelines and assets, requests
\* that have calls left.
THEOREM TypesHold == Spec => []TypeOK
<1>1. IInv => TypeOK
  BY DEF IInv
<1> QED
  BY <1>1, InvariantHolds, PTL

\* As long as requests about a pipeline did not overlap, and no client wrote its
\* uuid or references itself or took an asset from it, its record lists exactly the
\* assets that name it, whenever no request is about it.
THEOREM RefsMatchAssetsHolds == Spec => []RefsMatchAssets
<1>1. ASSUME IInv, NEW p \in DOMAIN pipes \ (mixed \cup edited), About(p) = {}
      PROVE  pipes[p].refs = {a \in DOMAIN owner : owner[a] = p}
  <2>1. TypeOK /\ Agrees
    BY <1>1 DEF IInv
  <2>2. p \in Pipelines
    BY <2>1 DEF TypeOK
  <2>3. \A t \in Threads : ~On(t, p)
    BY <1>1 DEF About, On
  <2> QED
    BY <2>1, <2>2, <2>3 DEF Agrees, Owned
<1>2. IInv => RefsMatchAssets
  BY <1>1 DEF RefsMatchAssets
<1> QED
  BY <1>2, InvariantHolds, PTL

\* A pipeline whose DELETE was answered stays away, unless another request about it
\* overlapped, until a client makes one of its uuid.
THEOREM DeletedStaysDeletedHolds == Spec => []DeletedStaysDeleted
<1>1. IInv => DeletedStaysDeleted
  BY DEF IInv, Gone, DeletedStaysDeleted
<1> QED
  BY <1>1, InvariantHolds, PTL

\* However requests overlap, and wherever the exit cuts them short, a pipeline that
\* nothing was deleted of, and whose uuid and references no client wrote itself,
\* refers to no missing asset.
THEOREM NoDanglingRefHolds == Spec => []NoDanglingRef
<1>1. IInv => NoDanglingRef
  BY UnshrunkAreWhole DEF IInv, NoDanglingRef
<1> QED
  BY <1>1, InvariantHolds, PTL

\* A boot starts exactly the auto-start pipelines, if each was made with an
\* entrypoint that kept its type, lost nothing, and was not rewritten by a client.
THEOREM BootStartsAllHolds == Spec => []BootStartsAll
<1>1. IInv => Booted
  BY DEF IInv
<1>2. Booted => BootStartsAll
  BY DEF Booted, BootStartsAll
<1> QED
  BY <1>1, <1>2, InvariantHolds, PTL
=============================================================================
