--------------------------- MODULE MCAgentRuntime ---------------------------
(***************************************************************************)
(* Small pipelines for TLC.  Diamond: an input feeds a two-worker route    *)
(* that either forks (Clone to port 1, then the event to port 0) or drops; *)
(* port 0 goes to a filter, and the output is fed by the filter and by     *)
(* port 1.                                                                 *)
(***************************************************************************)
EXTENDS RuntimeDelivery, TLC

CONSTANTS in, route, filter, outp,          \* agents
          rd, tk, wi, r1, r2, wf, wo        \* goroutines

mcAgents == {in, route, filter, outp}
mcPorts  == {0, 1}
mcOwner  ==
  [t \in {rd, tk, wi, r1, r2, wf, wo} |->
     CASE t \in {rd, tk, wi} -> in
       [] t \in {r1, r2} -> route
       [] t = wf -> filter
       [] t = wo -> outp]
OwnerOf(S) == [t \in S |-> mcOwner[t]]

mcOutputs ==
  [a \in mcAgents |->
     CASE a = in     -> (0 :> <<route>>) @@ (1 :> <<>>)
       [] a = route  -> (0 :> <<filter>>) @@ (1 :> <<outp>>)
       [] a = filter -> (0 :> <<outp>>) @@ (1 :> <<>>)
       [] a = outp   -> (0 :> <<>>) @@ (1 :> <<>>)]
mcCalls ==
  [a \in mcAgents |->
     CASE a = route -> {<<1, 0>>, <<>>}
       [] a = outp  -> {<<>>}
       [] OTHER     -> {<<0>>}]
mcStopOrder  == <<in, route, filter, outp>>
mcStartOrder == <<outp, filter, route, in>>

\* Goroutine sets of the runs.
mcWorkers == {wi, r1, r2, wf, wo}
serialWorkers == {wi, r1, wf, wo}
mcOwnerDiamond == OwnerOf({rd, wi, r1, r2, wf, wo})
mcOwnerTick    == OwnerOf({tk, wi, r1, r2, wf, wo})
mcOwnerUnjoined == OwnerOf({rd, tk, wi, r1, r2, wf, wo})
mcOwnerSerial  == OwnerOf({rd, wi, r1, wf, wo})

\* The fan-out pipeline of the serial run: no agent has two feeders.
serialOutputs ==
  [a \in mcAgents |->
     CASE a = in     -> (0 :> <<route>>) @@ (1 :> <<>>)
       [] a = route  -> (0 :> <<filter, outp>>) @@ (1 :> <<>>)
       [] OTHER      -> (0 :> <<>>) @@ (1 :> <<>>)]
serialCalls ==
  [a \in mcAgents |->
     CASE a = in -> {<<0>>}
       [] a = route -> {<<0>>, <<0, 0>>, <<>>}
       [] OTHER -> {<<>>}]
=============================================================================
