--------------------------- MODULE MCPipelineControl ------------------------
(***************************************************************************)
(* Two pipelines of two agents.  One has an HTTP server and a scheduled    *)
(* agent, the other a short hook.                                          *)
(***************************************************************************)
EXTENDS PipelineControl, TLC
CONSTANTS u1, u2, c1, c2
mcHooks == u1 :> <<"events", NoHook>> @@ u2 :> <<"web", NoHook>>
mcShort == {<<u2, 1>>}
mcScheduled == {<<u1, 1>>, <<u1, 2>>}
Symmetry == Permutations({c1, c2})
mcLabels == u1 :> <<"in", "out">> @@ u2 :> <<"in", "out">>
=============================================================================
