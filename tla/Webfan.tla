-------------------------------- MODULE Webfan ------------------------------
(***************************************************************************)
(* The webfan processor (processors/webfan/webfan.go, pass.go): every HTTP *)
(* request builds and starts a pipeline of its own, feeds it the records   *)
(* of its body, stops it, and answers with what the agent "pass" at its    *)
(* end hands over on the channel back.  That pipeline is here its channels *)
(* and the worker of pass; what Pipeline.stop promises is AgentRuntime's.  *)
(***************************************************************************)
EXTENDS Integers, Sequences

CONSTANTS
  Requests,
  Depth,      \* events the channels of a request's pipeline hold
  MaxRecords  \* bound: records of a body

VARIABLES
  fan,  \* the agent: "running", "unplugged" (no route leads to it), "stopped", "closed":
        \* the channels behind it
  req,  \* the requests, see NoRequest
  dead  \* the process ended: pass used back after it was closed
fanVars == <<fan, req, dead>>

NoRequest ==
  [at |-> "none",     \* where HttpHandler is, in the order of the actions below
   body |-> 0,        \* records still to be read
   fed |-> 0,         \* events given to the first agent
   queue |-> <<>>,    \* events between the first agent and pass
   pass |-> "none",   \* its worker: "none", "idle", "hand" (it has the head of queue), "stopped"
   back |-> TRUE,     \* back is open
   writer |-> "none", \* the goroutine that answers: "none", "run", "gone"
   shown |-> <<>>,    \* events in the answer
   late |-> FALSE,    \* wg.Add came when Stop had seen no request
   ended |-> "no"]    \* how the handler ended: "answered", "refused", "panic" (recovered)

WFInit == fan = "running" /\ req = [r \in Requests |-> NoRequest] /\ dead = FALSE

Update(r, f) == req' = [req EXCEPT ![r] = f] /\ UNCHANGED <<fan, dead>>
Ended(f, how) == [f EXCEPT !.at = "returned", !.ended = how]
Counted(r) == req[r].at \notin {"none", "routed", "returned"}
-----------------------------------------------------------------------------
WFRequest(r) ==
  /\ fan = "running" /\ req[r].at = "none"
  /\ \E n \in 0..MaxRecords : Update(r, [req[r] EXCEPT !.at = "routed", !.body = n])
\* wg.Add
WFCount(r) ==
  /\ req[r].at = "routed"
  /\ Update(r, [req[r] EXCEPT !.at = "build", !.late = fan \in {"stopped", "closed"}])

\* ep.Pipeline, NewDecoder and NewEncoder; the second failure closes back.
Prepare(r) ==
  /\ req[r].at = "build"
  /\ \/ Update(r, [req[r] EXCEPT !.at = "start", !.writer = "run"])
     \/ \E open \in BOOLEAN : Update(r, Ended([req[r] EXCEPT !.back = open], "refused"))

\* ppl.Start; its failure closes back, and nobody waits for the writer.
StartInner(r) ==
  /\ req[r].at = "start"
  /\ \/ Update(r, [req[r] EXCEPT !.at = "decode", !.pass = "idle"])
     \/ Update(r, Ended([req[r] EXCEPT !.back = FALSE], "refused"))

\* One round of the loop: a record, one of an unknown structure (nil is
\* dereferenced), the end of the body, which a codec may report by an event of
\* its own, or an error, on which back is closed.
WFDecode(r) ==
  /\ req[r].at = "decode"
  /\ \/ req[r].body > 0 /\ Update(r, [req[r] EXCEPT !.at = "feed", !.body = @ - 1])
     \/ req[r].body > 0 /\ Update(r, Ended(req[r], "panic"))
     \/ req[r].body = 0 /\ Update(r, [req[r] EXCEPT !.at = "feed", !.body = -1])
     \/ req[r].body <= 0 /\ Update(r, [req[r] EXCEPT !.at = "stop"])
     \/ req[r].body > 0 /\ Update(r, [req[r] EXCEPT !.at = "stop", !.back = FALSE])

\* firstAgent.Processor().Receive, in the handler's goroutine.
FeedFirst(r) ==
  /\ req[r].at = "feed" /\ Len(req[r].queue) < Depth
  /\ Update(r, [req[r] EXCEPT !.at = "send", !.fed = @ + 1, !.queue = Append(@, req[r].fed + 1)])
\* p.Send, to the agents behind the webfan.
FanSend(r) ==
  /\ req[r].at = "send"
  /\ Update(r, IF fan = "closed" THEN Ended(req[r], "panic") ELSE [req[r] EXCEPT !.at = "decode"])
-----------------------------------------------------------------------------
\* pass: Receive hands the event to the writer.
PassTake(r) ==
  /\ req[r].pass = "idle" /\ req[r].queue # <<>>
  /\ Update(r, [req[r] EXCEPT !.pass = "hand"])
PassHand(r) ==
  /\ req[r].pass = "hand"
  /\ \/ /\ req[r].back /\ req[r].writer = "run"
        /\ Update(r, [req[r] EXCEPT !.pass = "idle", !.queue = Tail(@), !.shown = Append(@, Head(req[r].queue))])
     \/ ~req[r].back /\ dead' = TRUE /\ UNCHANGED <<fan, req>>

\* Mutant: pass does not wait for what is still on its way.
PassStop_Undrained(r) ==
  /\ req[r].at = "stop" /\ req[r].pass = "idle"
  /\ Update(r, [req[r] EXCEPT !.at = "wait", !.pass = "stopped", !.back = FALSE])
\* Mutant: pass does not close back.
PassStop_KeepsBack(r) ==
  /\ req[r].at = "stop" /\ req[r].pass = "idle" /\ req[r].queue = <<>>
  /\ Update(r, [req[r] EXCEPT !.at = "wait", !.pass = "stopped"])
\* ppl.Stop: when all is drained, Stop of pass closes back, perhaps again.
PassStop(r) ==
  /\ req[r].at = "stop" /\ req[r].pass = "idle" /\ req[r].queue = <<>>
  /\ IF req[r].back THEN Update(r, [req[r] EXCEPT !.at = "wait", !.pass = "stopped", !.back = FALSE])
                    ELSE dead' = TRUE /\ UNCHANGED <<fan, req>>

\* The writer's range ends, which closes done.
WriterEnds(r) ==
  /\ req[r].writer = "run" /\ ~req[r].back
  /\ Update(r, [req[r] EXCEPT !.writer = "gone"])
\* Mutant: the handler does not wait for done.
Return_Early(r) ==
  /\ req[r].at \in {"stop", "wait"}
  /\ Update(r, Ended(req[r], "answered"))
Return(r) ==
  /\ req[r].at = "wait" /\ req[r].writer = "gone"
  /\ Update(r, Ended(req[r], "answered"))
-----------------------------------------------------------------------------
\* The agent's stop: routes removed, then wg.Wait; later the next agents' stop.
Unplug == fan = "running" /\ fan' = "unplugged" /\ UNCHANGED <<req, dead>>
\* Mutant: requests are not waited for.
FanStop_AtOnce == fan = "unplugged" /\ fan' = "stopped" /\ UNCHANGED <<req, dead>>
FanStop ==
  /\ fan = "unplugged" /\ \A r \in Requests : ~Counted(r)
  /\ fan' = "stopped" /\ UNCHANGED <<req, dead>>
FanClose == fan = "stopped" /\ fan' = "closed" /\ UNCHANGED <<req, dead>>

Handling(r) == Prepare(r) \/ StartInner(r) \/ WFDecode(r) \/ FeedFirst(r) \/ FanSend(r) \/ Return(r)
Answering(r) == PassTake(r) \/ PassHand(r) \/ PassStop(r) \/ WriterEnds(r)
WFNext ==
  /\ ~dead
  /\ \/ Unplug \/ FanStop \/ FanClose
     \/ \E r \in Requests : WFRequest(r) \/ WFCount(r) \/ Handling(r) \/ Answering(r)
WFSpec == WFInit /\ [][WFNext]_fanVars
WFFairSpec ==
  /\ WFSpec /\ WF_fanVars(~dead /\ FanStop)
  /\ \A r \in Requests : WF_fanVars(~dead /\ Handling(r)) /\ WF_fanVars(~dead /\ Answering(r))
-----------------------------------------------------------------------------
WFTypeOK ==
  /\ fan \in {"running", "unplugged", "stopped", "closed"} /\ dead \in BOOLEAN
  /\ \A r \in Requests :
       /\ req[r].at \in {"none", "routed", "build", "start", "decode", "feed", "send", "stop", "wait", "returned"}
       /\ req[r].pass \in {"none", "idle", "hand", "stopped"} /\ req[r].writer \in {"none", "run", "gone"}
       /\ req[r].ended \in {"no", "answered", "refused", "panic"}
       /\ req[r].body \in -1..MaxRecords /\ Len(req[r].queue) <= Depth

\* The answer to a request that was read to its end holds an event for each that
\* was fed, in order: the handler waits for the pipeline, pass and the writer.
AnswerComplete ==
  \A r \in Requests : req[r].ended = "answered" => req[r].shown = [i \in 1..req[r].fed |-> i]

\* Nothing writes to the response of a handler that has returned, except for one
\* that panicked and left its pipeline behind.
QuietAfterReturnStep ==
  \A r \in Requests : req[r].ended \in {"answered", "refused"} => req[r].shown' = req[r].shown
QuietAfterReturn == [][QuietAfterReturnStep]_fanVars

\* Only a request that came to be counted when Stop had already found none can
\* meet closed channels behind the webfan.
StopAwaitsRequests ==
  fan \in {"stopped", "closed"} => \A r \in Requests : Counted(r) => req[r].late

\* A pass that is stopped ends its request, and so every request is answered.
RequestsEnd == \A r \in Requests : req[r].at = "build" ~> req[r].at = "returned" \/ dead

\* The request with an error in its body is to be answered 500
\* (webfan.go:242); closing back again ends the process instead.
PassNeverDies == ~dead
=============================================================================
