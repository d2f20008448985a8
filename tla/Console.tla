------------------------------- MODULE Console ------------------------------
(***************************************************************************)
(* The web console (cmd/bitfanUI/server): a page makes calls of the API by *)
(* a client (api/client), which follows a redirect with a call of its own  *)
(* and makes an error of some answers.  A handler of the API is one step   *)
(* here; its own steps are those of PipelineStore and PipelineControl.     *)
(* Playgrounds have one uuid, which the browser draws.                     *)
(***************************************************************************)
EXTENDS Integers, Sequences, FiniteSets

CONSTANTS
  Browsers,   \* requests of the console at a time
  Forms,      \* what is asked: does, of which kind, the uuid, fields, file, sockets
  MaxPages    \* bound: pages

VARIABLES
  console,    \* the host its client calls, pages asked for
  stored,     \* kind -> uuid -> what is stored
  ups,        \* pipelines that run; the playground's configuration; uuids drawn; history: a playground
              \* was started while one ran
  page,       \* browser -> the form, calls to make, the one to follow, if it "fails" or
              \* "succeeds", the playground it shows; history: if its last call was served
  rivals      \* history: playgrounds asked for at a time, or a call about one lost
coVars == <<console, stored, ups, page, rivals>>

None == "none"
NoForm == [does |-> None, of |-> None, u |-> 0, fields |-> <<>>, file |-> None]
Blank == [form |-> NoForm, calls |-> <<>>, follows |-> <<>>, ends |-> None, shows |-> None, did |-> FALSE]
NewPipeline == [label |-> "new", auto_start |-> FALSE]
NewXProcessor == [label |-> "new", code |-> "c", stream |-> FALSE]
COInit ==
  /\ console = [host |-> "bitfan", pages |-> 0]
  /\ stored = [pipelines |-> <<NewPipeline>>, xprocessors |-> <<NewXProcessor>>,
               assets |-> <<[value |-> "short", size |-> "short", patched |-> FALSE, of |-> 1]>>]
  /\ ups = [pipelines |-> {}, playground |-> None, twice |-> FALSE, drawn |-> 1]
  /\ page = [b \in Browsers |-> Blank] /\ rivals = FALSE
-----------------------------------------------------------------------------
Plays(f) == f.does \in {"play", "exit"}
Call(f, does) == [f EXCEPT !.does = does]
\* Mutant: a playground is started over the one that runs.
CallsOf_Over(f) == IF f.does = "address" THEN <<>> ELSE <<f>>
\* The calls of a page: the pipeline of an asset is shown with it, and a playground that
\* runs is stopped first.
CallsOf(f) ==
  CASE f.does = "show" /\ f.of = "assets" -> <<[f EXCEPT !.of = "pipelines"], f>>
    [] f.does = "play" -> <<Call(f, "exit"), f>>
    [] f.does = "address" -> <<>>
    [] OTHER -> <<f>>
AskPage(b) ==
  /\ page[b] = Blank /\ console.pages < MaxPages
  /\ \E f \in Forms :
       /\ page' = [page EXCEPT ![b] = [Blank EXCEPT !.form = f, !.calls = CallsOf(f), !.ends = IF f.does = "address" THEN "succeeds" ELSE None]]
       /\ console' = [host |-> IF f.does = "address" THEN f.file ELSE console.host, pages |-> console.pages + 1]
       /\ rivals' = (rivals \/ (Plays(f) /\ \E c \in Browsers \ {b} : Plays(page[c].form)))
  /\ UNCHANGED <<stored, ups>>

Serving(b) == page[b].calls # <<>> /\ page[b].follows = <<>>
Has(of, u) == u \in DOMAIN stored[of]
\* Mutant: it forgets that a pipeline is not stopped, too.
Forgets_Stop(call) == call.does \in {"delete", "stop"} \/ (call.does = "create" /\ call.of = "assets")
\* The client makes an error of a status over 400, but when it creates an asset, deletes
\* or lists: there it forgets the error.
Forgets(call) == call.does = "delete" \/ (call.does = "create" /\ call.of = "assets")
\* The page goes on whatever the error.
Ignores(call) == (call.of # "assets" /\ call.does \in {"show", "create", "update"}) \/ call.does = "exit" \/ (call.of = "pipelines" /\ call.does = "show")
Rest(b, ends) == IF Len(page[b].calls) = 1 THEN ends ELSE None
\* The call at hand is answered with an error, lost or not.
Errs(b, lost) ==
  LET call == page[b].calls[1]
      ends == Ignores(call) \/ (Forgets(call) /\ ~lost)
  IN page' = [page EXCEPT ![b].calls = IF ends THEN Tail(@) ELSE <<>>, ![b].follows = <<>>,
                          ![b].ends = IF ends THEN Rest(b, "succeeds") ELSE "fails",
                          ![b].did = page[b].follows # <<>>]
Answered(b) == page' = [page EXCEPT ![b].calls = Tail(@), ![b].did = TRUE, ![b].ends = Rest(b, "succeeds")]
Redirected(b, u) == page' = [page EXCEPT ![b].follows = <<u>>, ![b].did = TRUE]
At(b, does, of) == Serving(b) /\ console.host = "bitfan" /\ page[b].calls[1].does = does /\ page[b].calls[1].of = of
U(b) == page[b].calls[1].u
Held(of, f) == stored' = [stored EXCEPT ![of] = f]
Put(f, k, v) == [x \in DOMAIN f \cup {k} |-> IF x = k THEN v ELSE f[x]]
Refused(b) == Errs(b, FALSE) /\ UNCHANGED <<stored, ups>>

\* GET of a pipeline that is stored or runs, of an asset or an xprocessor.
Show(b, of) ==
  /\ At(b, "show", of) /\ UNCHANGED <<stored, ups>>
  /\ IF Has(of, U(b)) \/ (of = "pipelines" /\ U(b) \in ups.pipelines) THEN Answered(b) ELSE Errs(b, FALSE)
\* POST: a uuid is drawn, and one redirected to it.
Made(b, of) ==
  CASE of = "pipelines" -> NewPipeline [] of = "xprocessors" -> NewXProcessor
    [] of = "assets" -> [value |-> page[b].form.file, size |-> page[b].form.file, patched |-> FALSE, of |-> U(b)]
Create(b, of) ==
  LET u == ups.drawn + 1 IN
  /\ At(b, "create", of) /\ Held(of, Put(stored[of], u, Made(b, of))) /\ Redirected(b, u)
  /\ ups' = [ups EXCEPT !.drawn = u]
Fields(f) == DOMAIN f.fields
\* Mutant: what the form does not have is empty.
Patched_Whole(b, of) ==
  LET f == page[b].form  was == stored[of][U(b)] IN
  CASE of = "pipelines" -> [label |-> f.fields.label, auto_start |-> "auto_start" \in Fields(f)]
    [] of = "xprocessors" -> [k \in DOMAIN was |-> IF k = "stream" THEN k \in Fields(f) ELSE IF k \in Fields(f) THEN f.fields[k] ELSE ""]
    [] of = "assets" -> [was EXCEPT !.value = f.file, !.patched = TRUE]
\* PATCH with what the form has; its check boxes are off when it has none.
Patched(b, of) ==
  LET f == page[b].form  was == stored[of][U(b)] IN
  CASE of = "pipelines" -> [label |-> f.fields.label, auto_start |-> "auto_start" \in Fields(f)]
    [] of = "xprocessors" -> [k \in DOMAIN was |-> IF k = "stream" THEN k \in Fields(f) ELSE IF k \in Fields(f) THEN f.fields[k] ELSE was[k]]
    [] of = "assets" -> [was EXCEPT !.value = f.file, !.patched = TRUE]
Update(b, of) ==
  /\ At(b, "update", of)
  /\ CASE Has(of, U(b)) -> /\ Held(of, Put(stored[of], U(b), Patched(b, of))) /\ UNCHANGED ups
                            /\ IF of = "assets" THEN Answered(b) ELSE Redirected(b, U(b))
       [] of = "pipelines" /\ U(b) \in ups.pipelines \ DOMAIN stored.pipelines -> Redirected(b, U(b)) /\ UNCHANGED <<stored, ups>>
       [] OTHER -> Refused(b)
\* PUT of an asset.  Mutant: the size stays.
Replace_Value(b) ==
  /\ At(b, "replace", "assets")
  /\ IF Has("assets", U(b))
     THEN /\ Held("assets", Put(stored.assets, U(b), [stored.assets[U(b)] EXCEPT !.value = page[b].form.file]))
          /\ Redirected(b, U(b)) /\ UNCHANGED ups
     ELSE Refused(b)
Replace(b) ==
  /\ At(b, "replace", "assets")
  /\ IF Has("assets", U(b))
     THEN LET file == page[b].form.file IN
          /\ Held("assets", [stored.assets EXCEPT ![U(b)].value = file, ![U(b)].size = file, ![U(b)].patched = FALSE])
          /\ Redirected(b, U(b)) /\ UNCHANGED ups
     ELSE Refused(b)
\* DELETE, of a pipeline with its assets: if it runs, it goes on.
Delete(b, of) ==
  /\ At(b, "delete", of)
  /\ IF Has(of, U(b))
     THEN /\ stored' = [k \in DOMAIN stored |-> [u \in {u \in DOMAIN stored[k] :
                ~(k = of /\ u = U(b)) /\ ~(k = "assets" /\ of = "pipelines" /\ stored[k][u].of = U(b))} |-> stored[k][u]]]
          /\ Answered(b) /\ UNCHANGED ups
     ELSE Refused(b)
\* PATCH of `active`.  One that runs is stopped before it is started again, which fails
\* if it is not stored any more, or its configuration is not one.
Start(b) ==
  LET known == Has("pipelines", U(b)) \/ U(b) \in ups.pipelines IN
  /\ At(b, "start", "pipelines") /\ UNCHANGED stored
  /\ \/ /\ Has("pipelines", U(b)) /\ ups' = [ups EXCEPT !.pipelines = @ \cup {U(b)}] /\ Redirected(b, U(b))
     \/ known /\ ups' = [ups EXCEPT !.pipelines = @ \ {U(b)}] /\ Errs(b, FALSE)
     \/ ~known /\ Errs(b, FALSE) /\ UNCHANGED ups
Stop(b) ==
  /\ At(b, "stop", "pipelines")
  /\ IF U(b) \in ups.pipelines
     THEN ups' = [ups EXCEPT !.pipelines = @ \ {U(b)}] /\ Redirected(b, U(b)) /\ UNCHANGED stored ELSE Refused(b)
\* A playground is not stored, only started: POST and PATCH of its uuid.
StopPlayground(b) ==
  /\ At(b, "exit", "playground")
  /\ IF ups.playground = None THEN Refused(b)
     ELSE ups' = [ups EXCEPT !.playground = None] /\ Redirected(b, 0) /\ UNCHANGED stored
StartPlayground(b) ==
  /\ At(b, "play", "playground")
  /\ IF page[b].form.file = "bad" THEN Refused(b)
     ELSE /\ ups' = [ups EXCEPT !.playground = page[b].form.file, !.twice = @ \/ ups.playground # None]
          /\ Redirected(b, 0) /\ UNCHANGED stored
\* The client follows the redirect, to what is there by then.
Follow(b) ==
  /\ page[b].follows # <<>> /\ console.host = "bitfan" /\ UNCHANGED <<stored, ups>>
  /\ LET of == page[b].calls[1].of
         there == IF of = "playground" THEN ups.playground # None
                  ELSE Has(of, page[b].follows[1]) \/ (of = "pipelines" /\ page[b].follows[1] \in ups.pipelines)
     IN IF there
        THEN page' = [page EXCEPT ![b].follows = <<>>, ![b].calls = Tail(@), ![b].ends = Rest(b, "succeeds"),
                        ![b].shows = IF of = "playground" THEN ups.playground ELSE @]
        ELSE Errs(b, FALSE)
\* A call does not arrive: the host is another, or it cannot be reached.
Lose(b) ==
  /\ page[b].calls # <<>> /\ console.host # "bitfan" /\ Errs(b, TRUE) /\ UNCHANGED <<stored, ups>>
  /\ rivals' = (rivals \/ Plays(page[b].form))
Leave(b) == page[b].ends # None /\ page' = [page EXCEPT ![b] = Blank] /\ UNCHANGED <<stored, ups>>
COCalls(b) ==
  \/ \E of \in DOMAIN stored : Show(b, of) \/ Create(b, of) \/ Update(b, of) \/ Delete(b, of)
  \/ Replace(b) \/ Start(b) \/ Stop(b) \/ StopPlayground(b) \/ StartPlayground(b) \/ Follow(b) \/ Leave(b)
CONext == \E b \in Browsers : AskPage(b) \/ (Lose(b) /\ UNCHANGED console) \/ (COCalls(b) /\ UNCHANGED <<console, rivals>>)
-----------------------------------------------------------------------------
\* A page that says that a pipeline was started or stopped or that an asset was changed
\* says so after the API did it.  A page that creates, saves or deletes says so always.
SuccessIsTrue ==
  \A b \in Browsers : LET f == page[b].form IN
    page[b].ends = "succeeds" /\ (f.does \in {"start", "stop", "replace"} \/ (f.does \in {"show", "update"} /\ f.of = "assets"))
      => page[b].did
\* A playground runs once and as it was asked for, and the page shows its own, unless two
\* are asked for at a time or a call is lost: then one may run that nobody can stop.
PlaysAsAsked ==
  ~rivals => /\ ~ups.twice
             /\ \A b \in Browsers : page[b].ends = "succeeds" /\ page[b].form.does = "play" =>
                  page[b].shows = page[b].form.file /\ ups.playground = page[b].form.file
\* What a form does not have stays, and the size of an asset is that of its value, unless
\* the value was patched.
SavedAsSent ==
  /\ \A u \in DOMAIN stored.xprocessors : "" \notin {stored.xprocessors[u].label, stored.xprocessors[u].code}
  /\ \A u \in DOMAIN stored.assets : stored.assets[u].patched \/ stored.assets[u].size = stored.assets[u].value
=============================================================================
