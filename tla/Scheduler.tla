------------------------------ MODULE Scheduler -----------------------------
(***************************************************************************)
(* The scheduler (core/scheduler.go): an agent with a schedule adds a job  *)
(* to the cron library (external) when it starts, and every agent removes  *)
(* one when it stops.  Jobs go by the pipeline's UUID and the agent's      *)
(* label, which others may have too.  What is planned is kept a second     *)
(* time, in scheduleMap, for those who ask for the pipeline.               *)
(* Every step here is about one UUID: its pipeline is started, stopped and *)
(* started anew, in instances.                                             *)
(***************************************************************************)
EXTENDS Integers, SequencesExt

CONSTANTS
  Instances,  \* of the pipeline
  Plans,      \* what they may be made of, each: agents, outputs first, with label and planning
  Readers,    \* requests that ask for the pipeline
  AtOnce      \* bound: instances that are being started at a time

VARIABLES
  entries,   \* jobs of the cron library
  arrays,    \* the arrays of jobs made for scheduleMap; a slice is [array, len] of one
  planned,   \* scheduleMap: the slice of the pipeline
  work,      \* by instance: what it does, at which of its agents, the slice it holds
  reading,   \* by reader: the slice it holds, the jobs it has got; what was there; an edit
             \* in between
  registry,  \* the instance that is registered, or "none"
  mixed      \* history: two instances were started at a time
scVars == <<entries, arrays, planned, work, reading, registry, mixed>>
-----------------------------------------------------------------------------
(* Plannings: one of the words for an hour; fields, with blanks more than  *)
(* those between them, -1 for a star; a time that comes again ("every");   *)
(* nothing but blanks.                                                     *)
Star == -1
Word(hour) == [kind |-> "word", hour |-> hour]
Fields(f, more) == [kind |-> "fields", fields |-> f, more |-> more]
\* Mutant: the words are left to the library.
Spec_Words(planning) == IF planning.kind = "word" THEN [kind |-> "word"] ELSE planning
\* Add: words are replaced, and four blanks make it five fields without seconds.
Spec(planning) ==
  CASE planning.kind = "word" -> Fields(<<0, 0, planning.hour, Star, Star, Star>>, 0)
    [] planning.kind = "fields" /\ Len(planning.fields) - 1 + planning.more = 4 -> Fields(<<0>> \o planning.fields, planning.more)
    [] OTHER -> planning
Ranges == <<0..59, 0..59, 0..23, 1..31, 1..12, 0..6>>
\* cron.Parse: seconds first; the last field, the day of the week, may be missing.
Parsed(spec) ==
  CASE spec.kind = "every" -> <<"every">>
    [] spec.kind = "fields" /\ Len(spec.fields) \in 5..6 /\ (\A k \in DOMAIN spec.fields : spec.fields[k] = Star \/ spec.fields[k] \in Ranges[k]) ->
         IF Len(spec.fields) = 5 THEN Append(spec.fields, Star) ELSE spec.fields
    [] OTHER -> <<"refused">>
-----------------------------------------------------------------------------
NoSlice == [array |-> 0, len |-> 0]
Jobs(slice) == IF slice.array = 0 THEN <<>> ELSE SubSeq(arrays[slice.array], 1, slice.len)
SCInit ==
  /\ entries = {} /\ arrays = <<>> /\ planned = NoSlice /\ registry = "none" /\ mixed = FALSE
  /\ \E plans \in Plans : work = [i \in Instances |-> [plan |-> plans[i], at |-> "new", agent |-> 1, held |-> NoSlice]]
  /\ reading = [r \in Readers |-> [at |-> "idle", held |-> NoSlice, got |-> <<>>, was |-> <<>>, edited |-> FALSE]]
AgentOf(i) == work[i].plan[work[i].agent]
Scheduled(a) == a.planning.kind # "none"
Turn(i, at) == work' = [work EXCEPT ![i].at = at]
Took(i, at) == work' = [work EXCEPT ![i].at = at, ![i].held = planned]
Starting == {"start", "list", "add"}

\* Pipeline.Start, unless one is registered; two may be on their way.
Begin(i) ==
  /\ work[i].at = "new" /\ registry = "none" /\ Turn(i, "start")
  /\ LET others == {j \in Instances : work[j].at \in Starting} IN
     Cardinality(others) < AtOnce /\ mixed' = (mixed \/ others # {})
  /\ UNCHANGED <<entries, arrays, planned, reading, registry>>
Begun(i) ==
  /\ work[i].at = "start" /\ work[i].agent > Len(work[i].plan)
  /\ work' = [work EXCEPT ![i].at = "running", ![i].agent = @ - 1] /\ registry' = i
  /\ UNCHANGED <<entries, arrays, planned, reading, mixed>>
StartOne(i) ==
  /\ work[i].at = "start" /\ work[i].agent <= Len(work[i].plan)
  /\ IF Scheduled(AgentOf(i)) THEN Took(i, "list") ELSE work' = [work EXCEPT ![i].agent = @ + 1]
  /\ UNCHANGED <<entries, arrays, planned, reading, registry, mixed>>
JobOf(i) == [label |-> AgentOf(i).label, spec |-> Spec(AgentOf(i).planning)]
\* Mutant: the job is put behind the others.
List_Behind(i) ==
  /\ work[i].at = "list" /\ Turn(i, "add")
  /\ LET jobs == Append(Jobs(work[i].held), JobOf(i)) IN
     arrays' = Append(arrays, jobs) /\ planned' = [array |-> Len(arrays) + 1, len |-> Len(jobs)]
  /\ UNCHANGED <<entries, reading, registry, mixed>>
\* Mutant: the array that is there is used.
List_InPlace(i) ==
  /\ work[i].at = "list" /\ Turn(i, "add")
  /\ LET held == work[i].held  jobs == <<JobOf(i)>> \o Jobs(held) IN
     /\ arrays' = IF held = NoSlice THEN Append(arrays, jobs) ELSE [arrays EXCEPT ![held.array] = jobs]
     /\ planned' = [array |-> IF held = NoSlice THEN Len(arrays) + 1 ELSE held.array, len |-> Len(jobs)]
  /\ UNCHANGED <<entries, reading, registry, mixed>>
\* The job is put before the others, in an array of its own.
List(i) ==
  /\ work[i].at = "list" /\ Turn(i, "add")
  /\ LET jobs == <<JobOf(i)>> \o Jobs(work[i].held) IN
     arrays' = Append(arrays, jobs) /\ planned' = [array |-> Len(arrays) + 1, len |-> Len(jobs)]
  /\ UNCHANGED <<entries, reading, registry, mixed>>
\* AddFunc.  A planning of blanks alone has no first character to look at: the start ends
\* there (a request recovers), with the agents before it.
Add(i) ==
  /\ work[i].at = "add"
  /\ IF AgentOf(i).planning.kind = "blank" THEN Turn(i, "broken") /\ UNCHANGED entries
     ELSE /\ work' = [work EXCEPT ![i].at = "start", ![i].agent = @ + 1]
          /\ IF Parsed(JobOf(i).spec) = <<"refused">> THEN UNCHANGED entries
             ELSE entries' = entries \cup {[of |-> i, agent |-> work[i].agent, label |-> AgentOf(i).label, fires |-> Parsed(JobOf(i).spec)]}
  /\ UNCHANGED <<arrays, planned, reading, registry, mixed>>

\* StopPipeline: agent by agent, inputs first.
Stop(i) ==
  /\ work[i].at = "running" /\ registry = i /\ Turn(i, "stop")
  /\ UNCHANGED <<entries, arrays, planned, reading, registry, mixed>>
Stopped(i) ==
  /\ work[i].at = "stop" /\ work[i].agent = 0 /\ Turn(i, "gone") /\ registry' = "none"
  /\ UNCHANGED <<entries, arrays, planned, reading, mixed>>
\* Mutant: the entry in front is not found.
DeleteJob_Front(i) ==
  /\ work[i].at = "stop" /\ work[i].agent > 0
  /\ LET named == {e \in entries : e.label = AgentOf(i).label} IN
     IF named = {} \/ Cardinality(entries) = 1 THEN UNCHANGED entries ELSE \E e \in named : entries' = entries \ {e}
  /\ Turn(i, "look") /\ UNCHANGED <<arrays, planned, reading, registry, mixed>>
\* The first entry of the name, in the order of the times they come next.
DeleteJob(i) ==
  /\ work[i].at = "stop" /\ work[i].agent > 0
  /\ LET named == {e \in entries : e.label = AgentOf(i).label} IN
     IF named = {} THEN UNCHANGED entries ELSE \E e \in named : entries' = entries \ {e}
  /\ Turn(i, "look") /\ UNCHANGED <<arrays, planned, reading, registry, mixed>>
Look(i) ==
  /\ work[i].at = "look"
  /\ IF planned = NoSlice THEN work' = [work EXCEPT ![i].at = "stop", ![i].agent = @ - 1] ELSE Took(i, "edit")
  /\ UNCHANGED <<entries, arrays, planned, reading, registry, mixed>>
\* append(jobs[:i], jobs[i+1:]...) moves the rest within the array.
Edit(i) ==
  LET held == work[i].held  jobs == Jobs(held)
      k == SelectInSeq(jobs, LAMBDA j : j.label = AgentOf(i).label)
  IN /\ work[i].at = "edit"
     /\ IF k = 0 THEN Turn(i, "store") /\ UNCHANGED <<arrays, reading>>
        ELSE /\ arrays' = [arrays EXCEPT ![held.array] = [n \in DOMAIN @ |-> IF n \in k..(held.len - 1) THEN @[n + 1] ELSE @[n]]]
             /\ work' = [work EXCEPT ![i].at = "store", ![i].held.len = @ - 1]
             /\ reading' = [r \in Readers |-> [reading[r] EXCEPT !.edited = @ \/ reading[r].at = "reading"]]
     /\ UNCHANGED <<entries, planned, registry, mixed>>
Store(i) ==
  /\ work[i].at = "store" /\ planned' = work[i].held
  /\ work' = [work EXCEPT ![i].at = "stop", ![i].agent = @ - 1]
  /\ UNCHANGED <<entries, arrays, reading, registry, mixed>>

\* GetPipeline, and the handler that goes through what it got.
Ask(r) ==
  /\ reading[r].at = "idle" /\ registry # "none"
  /\ reading' = [reading EXCEPT ![r].at = "reading", ![r].held = planned, ![r].was = Jobs(planned)]
  /\ UNCHANGED <<entries, arrays, planned, work, registry, mixed>>
Read(r) ==
  /\ reading[r].at = "reading"
  /\ LET n == Len(reading[r].got) + 1 IN
     reading' = [reading EXCEPT ![r] = IF n > reading[r].held.len THEN [@ EXCEPT !.at = "done"]
                                       ELSE [@ EXCEPT !.got = Append(@, arrays[reading[r].held.array][n])]]
  /\ UNCHANGED <<entries, arrays, planned, work, registry, mixed>>

SCStarts(i) == Begin(i) \/ Begun(i) \/ StartOne(i) \/ List(i) \/ Add(i)
SCStops(i) == Stop(i) \/ Stopped(i) \/ DeleteJob(i) \/ Look(i) \/ Edit(i) \/ Store(i)
SCNext == (\E i \in Instances : SCStarts(i) \/ SCStops(i)) \/ (\E r \in Readers : Ask(r) \/ Read(r))
SCSpec == SCInit /\ [][SCNext]_scVars
-----------------------------------------------------------------------------
Own(i) == {e \in entries : e.of = i}
ScheduledOf(i) == SelectSeq(work[i].plan, Scheduled)
BrokenOff == \E i \in Instances : work[i].at = "broken"
Alone == ~mixed /\ ~BrokenOff
\* An instance that stopped has no job left, whatever labels its agents share, and an
\* agent that stopped has none unless another scheduled one has its label, or two
\* instances were started at a time or one was broken off.
JobsEnd ==
  Alone => \A i \in Instances :
    /\ work[i].at = "gone" => Own(i) = {}
    /\ \A e \in Own(i) : work[i].at \in {"stop", "look", "edit", "store"} =>
         \/ e.agent < work[i].agent \/ (e.agent = work[i].agent /\ work[i].at = "stop")
         \/ \E a \in DOMAIN work[i].plan \ {e.agent} : work[i].plan[a].label = e.label /\ Scheduled(work[i].plan[a])
\* While an instance runs, what is listed are its schedules, the last that was started
\* first, those that were refused too; when it is gone, nothing.
ListedAsPlanned ==
  Alone =>
    /\ \A i \in Instances : work[i].at = "running" =>
         LET s == ScheduledOf(i) IN Jobs(planned) = Reverse([k \in DOMAIN s |-> [label |-> s[k].label, spec |-> Spec(s[k].planning)]])
    /\ (\A i \in Instances : work[i].at \in {"new", "gone"}) => Jobs(planned) = <<>>
\* Who asks gets what is listed as it asks, unless a job is removed from under it: then
\* the jobs behind it move, and the last is got twice.
ReadAsListed ==
  \A r \in Readers : reading[r].at = "done" /\ ~reading[r].edited => reading[r].got = reading[r].was
\* A job comes at the seconds, minutes and hours its planning says: a word at the full
\* hour, five fields at the full minute; and no such planning is refused.  But with blanks
\* too many among its fields a planning is read as another.
Meant(p) ==
  CASE p.kind = "word" -> <<0, 0, p.hour, Star, Star, Star>>
    [] p.kind = "fields" -> IF Len(p.fields) = 5 THEN <<0>> \o p.fields ELSE p.fields
    [] OTHER -> <<"every">>
Odd(p) == p.kind \in {"none", "blank"} \/ (p.kind = "fields" /\ p.more > 0)
FiresAsMeant ==
  /\ \A e \in entries : LET p == work[e.of].plan[e.agent].planning IN Odd(p) \/ e.fires = Meant(p)
  /\ \A i \in Instances : Alone /\ work[i].at = "running" => LET plan == work[i].plan IN
       \A k \in DOMAIN plan : \/ Odd(plan[k].planning) \/ Parsed(Fields(Meant(plan[k].planning), 0)) = <<"refused">>
                              \/ \E e \in Own(i) : e.agent = k
=============================================================================
