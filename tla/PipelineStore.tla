---------------------------- MODULE PipelineStore ---------------------------
(***************************************************************************)
(* The pipelines and assets of store/ as the API handlers change them.     *)
(* Every store call is one bolt transaction, but a handler makes several:  *)
(* a request is the list of its remaining calls, and other requests run    *)
(* between two of them.  The process may exit with requests half done; at  *)
(* the next boot commands/run.go starts the pipelines with auto_start.     *)
(***************************************************************************)
EXTENDS Integers, Sequences, FiniteSets

CONSTANTS
  Threads,      \* requests served at the same time
  Pipelines,    \* pipeline uuids
  Assets,       \* asset uuids
  Bodies,       \* the sets of assets the body of a PATCH of a pipeline may list
  Kinds,        \* the kinds of request that are made
  MaxRequests,  \* bound: requests made
  MaxEdited,    \* bound: pipelines whose uuid or references clients write themselves
  BusyExit      \* whether the process may exit while a request is served

ASSUME StoreAssumption == Bodies \subseteq SUBSET Assets /\ BusyExit \in BOOLEAN

VARIABLES
  pipes,    \* StorePipeline records by uuid
  owner,    \* StoreAsset records by uuid: their PipelineUUID
  issued,   \* uuids drawn, or named by a client, so far
  request,  \* what each thread is doing
  deleted,  \* pipelines whose DELETE has been answered with 204
  shrunk,   \* history: pipelines that lose an asset, or all, by some request
  edited,   \* history: pipelines whose uuid or references a client wrote itself,
            \* or whose asset was written or deleted for another pipeline
  bare,     \* history: pipelines made without entrypoint, or that had a request
            \* give an entrypoint another type
  mixed,    \* history: pipelines that two requests were about at the same time,
            \* or that one was about when the process exited
  made,     \* number of requests made
  phase,    \* "up", "booted" (loading at boot is over) or "fatal"
  started   \* pipelines the boot has loaded

vars == <<pipes, owner, issued, request, deleted, shrunk, edited, bare, mixed, made, phase, started>>

\* A StorePipeline: the assets it refers to, which of them it refers to as
\* entrypoints, and auto_start.
Record == [refs : SUBSET Assets, entries : SUBSET Assets, auto : BOOLEAN]
Empty == [refs |-> {}, entries |-> {}, auto |-> FALSE]
Calls == {"writeAsset", "find", "save", "purge", "dropAsset", "drop"}

\* The calls left, the pipeline they are about, the assets to write or drop and
\* which of them as entrypoints, the copy of the record in hand, and what becomes
\* of the references found.
Request == [calls : Seq(Calls), pipe : Pipelines, assets : SUBSET Assets, entries : SUBSET Assets,
            copy : Record, change : {"none", "add", "remove"}]
NoRequest == <<>>

Put(f, k, v) == [x \in DOMAIN f \cup {k} |-> IF x = k THEN v ELSE f[x]]
Without(f, S) == [x \in DOMAIN f \ S |-> f[x]]

Init ==
  /\ pipes = <<>> /\ owner = <<>> /\ issued = {}
  /\ request = [t \in Threads |-> NoRequest]
  /\ deleted = {} /\ shrunk = {} /\ edited = {} /\ bare = {} /\ mixed = {} /\ made = 0
  /\ phase = "up" /\ started = {}

Free(t) == made < MaxRequests /\ phase = "up" /\ request[t] = NoRequest
About(p) == {t \in Threads : request[t] # NoRequest /\ request[t].pipe = p}
Begin(t, calls, p, as, entries, copy, change) ==
  /\ made' = made + 1
  /\ mixed' = IF About(p) # {} THEN mixed \cup {p} ELSE mixed
  /\ shrunk' = IF calls[1] \in {"purge", "dropAsset"} THEN shrunk \cup {p} ELSE shrunk
  /\ request' = [request EXCEPT ![t] = [calls |-> calls, pipe |-> p, assets |-> as,
                                        entries |-> entries, copy |-> copy, change |-> change]]
\* The calls that write the assets as, and then the record.
SaveCalls(as) == IF as = {} THEN <<"save">> ELSE <<"writeAsset", "save">>
\* A client writes the uuid p or its references itself.
Edited(p) == edited' = edited \cup {p} /\ Cardinality(edited') <= MaxEdited
\* So too when the record of p is written anew, by which a deleted pipeline comes back.
Rewritten(p) == Edited(p) /\ deleted' = deleted \ {p}

\* POST /pipelines: the handler draws the uuids of the assets, and that of the
\* pipeline when the client gives none; one the client gives may be in use.
\* CreatePipeline upserts the assets one by one, if there are any, and the record
\* last.  Nothing asks for an entrypoint.
\* Mutant: the record is written before the assets it refers to.
CreatePipeline_RecordFirst(t) ==
  /\ Free(t) /\ "create" \in Kinds
  /\ \E p \in Pipelines \ issued, a \in Assets \ issued, auto \in BOOLEAN :
       /\ Begin(t, <<"save", "writeAsset">>, p, {a}, {a},
                [refs |-> {a}, entries |-> {a}, auto |-> auto], "none")
       /\ issued' = issued \cup {p, a}
  /\ UNCHANGED <<pipes, owner, deleted, edited, bare, phase, started>>

CreatePipeline(t) ==
  /\ Free(t) /\ "create" \in Kinds
  /\ \E p \in Pipelines, as \in SUBSET (Assets \ issued), auto \in BOOLEAN : \E entries \in SUBSET as :
       /\ Begin(t, SaveCalls(as), p, as, entries, [refs |-> as, entries |-> entries, auto |-> auto], "none")
       /\ issued' = issued \cup as \cup {p}
       /\ bare' = IF entries = {} THEN bare \cup {p} ELSE bare
       /\ IF p \in issued THEN Rewritten(p) ELSE UNCHANGED <<edited, deleted>>
  /\ UNCHANGED <<pipes, owner, phase, started>>

\* PATCH /pipelines/:uuid, the body naming neither uuid nor assets: the record found
\* is saved back with the changes; its assets come back as references, so they are
\* not written.
UpdatePipeline(t) ==
  /\ Free(t) /\ "update" \in Kinds
  /\ \E p \in DOMAIN pipes, auto \in BOOLEAN :
       Begin(t, SaveCalls({}), p, {}, {}, [pipes[p] EXCEPT !.auto = auto], "none")
  /\ UNCHANGED <<pipes, owner, issued, deleted, edited, bare, phase, started>>

\* The same with a uuid or assets in the body, which are decoded over the record
\* found, or of a pipeline that runs without a record and is no playground any more:
\* the list of assets is replaced by the body's, those with a PipelineUUID are
\* written, the others only referred to, and all goes to the uuid q.
RewritePipeline(t) ==
  /\ Free(t) /\ "rewrite" \in Kinds
  /\ \E p \in Pipelines \cap (issued \cup DOMAIN pipes), q \in Pipelines, auto \in BOOLEAN :
       \E refs \in Bodies \cup {IF p \in DOMAIN pipes THEN pipes[p].refs ELSE {}} :
         \E entries \in SUBSET refs, written \in SUBSET refs :
           /\ Begin(t, SaveCalls(written), q, written, entries \cap written,
                    [refs |-> refs, entries |-> entries, auto |-> auto], "none")
           /\ issued' = issued \cup refs \cup {q}
           /\ Rewritten(q)
  /\ UNCHANGED <<pipes, owner, bare, phase, started>>

\* DELETE /pipelines/:uuid
DeletePipeline(t) ==
  /\ Free(t) /\ "delete" \in Kinds
  /\ \E p \in DOMAIN pipes : Begin(t, <<"purge", "drop">>, p, {}, {}, Empty, "none")
  /\ UNCHANGED <<pipes, owner, issued, deleted, edited, bare, phase, started>>

\* POST /assets: the uuid is drawn, the pipeline is whatever the body names.
CreateAsset(t) ==
  /\ Free(t) /\ "createAsset" \in Kinds
  /\ \E p \in Pipelines, a \in Assets \ issued : \E entries \in SUBSET {a} :
       /\ Begin(t, <<"writeAsset", "find", "save">>, p, {a}, entries, Empty, "add")
       /\ issued' = issued \cup {a, p}
  /\ UNCHANGED <<pipes, owner, deleted, edited, bare, phase, started>>

\* PATCH or PUT /assets/:uuid: a PATCH decodes the body over the record found, so
\* that type, uuid and PipelineUUID may be others.  A reference found under the uuid
\* gets the type; none is added, and none is taken from another pipeline.
SaveAsset(t) ==
  /\ Free(t) /\ "saveAsset" \in Kinds
  /\ \E a \in DOMAIN owner, b \in Assets, q \in Pipelines : \E entries \in SUBSET {b} :
       /\ Begin(t, <<"writeAsset", "find", "save">>, q, {b}, entries, Empty, "none")
       /\ issued' = issued \cup {b, q}
       /\ IF a = b /\ owner[a] = q THEN edited' = edited ELSE Edited(q)
  /\ UNCHANGED <<pipes, owner, deleted, bare, phase, started>>

\* DELETE /assets/:uuid
DeleteAsset(t) ==
  /\ Free(t) /\ "deleteAsset" \in Kinds
  /\ \E a \in DOMAIN owner :
       Begin(t, <<"dropAsset", "find", "save">>, owner[a], {a}, {}, Empty, "remove")
  /\ UNCHANGED <<pipes, owner, issued, deleted, edited, bare, phase, started>>
-----------------------------------------------------------------------------
Call(t) == request[t].calls[1]
At(t, call) == phase = "up" /\ request[t] # NoRequest /\ Call(t) = call
\* The request goes on with its next call, or is answered after the last one.
\* Mutant: it is never answered.
Advance_Unanswered(t) == request' = [request EXCEPT ![t].calls = Tail(@)]
Advance(t) ==
  LET r == request[t] IN
  request' = [request EXCEPT ![t] = IF Len(r.calls) = 1 THEN NoRequest
                                    ELSE [r EXCEPT !.calls = Tail(r.calls)]]
Answer(t) == request' = [request EXCEPT ![t] = NoRequest]

\* The other pipelines that own one of the assets a request writes or drops.
Robbed(as, p) == {owner[a] : a \in as \cap DOMAIN owner} \ {p}

\* Upsert of one StoreAsset; the loops of CreatePipeline and SavePipeline write one
\* at a time.
WriteAsset(t) ==
  /\ At(t, "writeAsset")
  /\ \E a \in request[t].assets :
       /\ owner' = Put(owner, a, request[t].pipe)
       /\ edited' = edited \cup Robbed({a}, request[t].pipe)
       /\ IF request[t].assets = {a} THEN Advance(t)
          ELSE request' = [request EXCEPT ![t].assets = @ \ {a}]
  /\ UNCHANGED <<pipes, issued, deleted, shrunk, bare, mixed, made, phase, started>>

\* The references of a record after an asset request, and which are entrypoints.
ChangedRefs(r, refs) ==
  CASE r.change = "add" -> refs \cup r.assets
    [] r.change = "remove" -> refs \ r.assets
    [] OTHER -> refs
\* Mutant: the references are built anew, with no type but that of the asset at hand.
ChangedEntries_Forgets(r, rec) == r.entries
ChangedEntries(r, rec) ==
  CASE r.change = "add" -> rec.entries \cup r.entries
    [] r.change = "remove" -> rec.entries \ r.assets
    [] OTHER -> (rec.entries \ r.assets) \cup (r.entries \cap rec.refs)

Retypes(r, rec) == r.change = "none" /\ (rec.entries \cap r.assets) \ r.entries # {}

\* Find of the pipeline an asset belongs to; when it is gone the error is logged.
\* Mutant: the reference to a deleted asset stays.
Find_KeepRef(t) ==
  /\ At(t, "find")
  /\ LET r == request[t]
         found == pipes[r.pipe]
     IN IF r.pipe \in DOMAIN pipes
        THEN request' = [request EXCEPT ![t] = [r EXCEPT !.calls = Tail(r.calls),
               !.copy = [found EXCEPT !.refs = found.refs \cup r.assets]]]
        ELSE Answer(t)
  /\ UNCHANGED <<pipes, owner, issued, deleted, shrunk, edited, bare, mixed, made, phase, started>>

Find(t) ==
  /\ At(t, "find")
  /\ LET r == request[t]
         found == pipes[r.pipe]
     IN IF r.pipe \in DOMAIN pipes
        THEN /\ request' = [request EXCEPT ![t] = [r EXCEPT !.calls = Tail(r.calls),
                  !.copy = [found EXCEPT !.refs = ChangedRefs(r, found.refs), !.entries = ChangedEntries(r, found)]]]
             /\ bare' = IF Retypes(r, found) THEN bare \cup {r.pipe} ELSE bare
        ELSE Answer(t) /\ bare' = bare
  /\ UNCHANGED <<pipes, owner, issued, deleted, shrunk, edited, mixed, made, phase, started>>

\* Upsert of the whole StorePipeline from the copy the request holds.
SaveRecord(t) ==
  /\ At(t, "save")
  /\ pipes' = Put(pipes, request[t].pipe, request[t].copy)
  /\ Advance(t)
  /\ UNCHANGED <<owner, issued, deleted, shrunk, edited, bare, mixed, made, phase, started>>

\* DeleteMatching of the assets of the pipeline.
Purge(t) ==
  /\ At(t, "purge")
  /\ owner' = Without(owner, {a \in DOMAIN owner : owner[a] = request[t].pipe})
  /\ Advance(t)
  /\ UNCHANGED <<pipes, issued, deleted, shrunk, edited, bare, mixed, made, phase, started>>

\* Delete of one asset: an error, and the end, when another request deleted it.
DropAsset(t) ==
  /\ At(t, "dropAsset")
  /\ owner' = Without(owner, request[t].assets)
  /\ edited' = edited \cup Robbed(request[t].assets, request[t].pipe)
  /\ IF request[t].assets \subseteq DOMAIN owner THEN Advance(t) ELSE Answer(t)
  /\ UNCHANGED <<pipes, issued, deleted, shrunk, bare, mixed, made, phase, started>>

\* Delete of the record; an error is logged and answered with 204 all the same.
\* Mutant: the record is never deleted.
DropRecord_Nothing(t) ==
  /\ At(t, "drop")
  /\ deleted' = deleted \cup {request[t].pipe}
  /\ Answer(t)
  /\ UNCHANGED <<pipes, owner, issued, shrunk, edited, bare, mixed, made, phase, started>>

DropRecord(t) ==
  /\ At(t, "drop")
  /\ pipes' = Without(pipes, {request[t].pipe})
  /\ deleted' = deleted \cup {request[t].pipe}
  /\ Answer(t)
  /\ UNCHANGED <<owner, issued, shrunk, edited, bare, mixed, made, phase, started>>
-----------------------------------------------------------------------------
AutoStart == {p \in DOMAIN pipes : pipes[p].auto}
Intact(p) == pipes[p].refs \subseteq DOMAIN owner
HasEntryPoint(p) == pipes[p].entries # {}

\* The process exits, dropping the requests being served, and is started again:
\* FindPipelinesWithAutoStart gives up at the first pipeline with a missing asset
\* (uuids are random: any of the intact ones may come first), and run.go ends the
\* process at the first pipeline without an entrypoint.
Load(found) ==
  /\ phase = "up"
  /\ BusyExit \/ \A t \in Threads : request[t] = NoRequest
  /\ request' = [t \in Threads |-> NoRequest]
  /\ IF \E p \in found : ~HasEntryPoint(p)
     THEN phase' = "fatal" /\ started' = {}
     ELSE phase' = "booted" /\ started' = found
  /\ mixed' = mixed \cup {p \in Pipelines : About(p) # {}}
  /\ UNCHANGED <<pipes, owner, issued, deleted, shrunk, edited, bare, made>>

Reboot ==
  \E found \in IF \A p \in AutoStart : Intact(p) THEN {AutoStart}
               ELSE SUBSET {p \in AutoStart : Intact(p)} : Load(found)

Done == phase # "up" /\ UNCHANGED vars

Next ==
  \/ \E t \in Threads :
       \/ CreatePipeline(t) \/ UpdatePipeline(t) \/ RewritePipeline(t) \/ DeletePipeline(t)
       \/ CreateAsset(t) \/ SaveAsset(t) \/ DeleteAsset(t)
       \/ WriteAsset(t) \/ Find(t) \/ SaveRecord(t) \/ Purge(t) \/ DropAsset(t) \/ DropRecord(t)
  \/ Reboot \/ Done

Spec == Init /\ [][Next]_vars
-----------------------------------------------------------------------------
TypeOK ==
  /\ DOMAIN pipes \subseteq Pipelines /\ \A p \in DOMAIN pipes : pipes[p] \in Record
  /\ DOMAIN owner \subseteq Assets /\ \A a \in DOMAIN owner : owner[a] \in Pipelines
  /\ issued \subseteq Pipelines \cup Assets
  /\ DOMAIN request = Threads
  /\ \A t \in Threads : request[t] # NoRequest => request[t] \in Request /\ request[t].calls # <<>>
  /\ deleted \cup shrunk \cup edited \cup bare \cup mixed \subseteq Pipelines /\ started \subseteq Pipelines
  /\ made \in Nat /\ phase \in {"up", "booted", "fatal"}

\* Unless requests about it overlapped, or a client wrote its uuid or references
\* itself or took one of its assets for another pipeline (edited), a pipeline that no
\* request is about has in its record exactly the assets that name it as their owner,
\* whatever was done at the same time to the other pipelines.
RefsMatchAssets ==
  \A p \in DOMAIN pipes \ (mixed \cup edited) :
    About(p) = {} => pipes[p].refs = {a \in DOMAIN owner : owner[a] = p}

\* Unless another request about it overlapped its DELETE, a pipeline whose
\* DELETE was answered does not come back before a client makes one of that uuid.
DeletedStaysDeleted == (deleted \ mixed) \cap DOMAIN pipes = {}

\* A pipeline that nobody deleted anything from, and of which no client wrote uuid or
\* references itself or took an asset away, never refers to a missing asset, however
\* its requests overlap and whichever of them the exit cut short.
NoDanglingRef == \A p \in DOMAIN pipes \ (shrunk \cup edited) : Intact(p)

\* A boot starts all pipelines with auto_start, if each of them was made with an
\* entrypoint that no request gave another type, nothing was deleted of any, and no
\* client wrote their uuid or references itself.  One pipeline that is not so may
\* keep all the others from being started.
BootStartsAll ==
  phase # "up" /\ AutoStart \cap (shrunk \cup edited \cup bare) = {} => started = AutoStart
=============================================================================
