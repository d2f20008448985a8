---------------------------- MODULE MCPipelineStore -------------------------
(* Two pipelines with two assets between them; a body lists one asset or none. *)
EXTENDS PipelineStore, TLC
CONSTANTS t1, t2, p1, p2, a1, a2
OneOrNone == {{}} \cup {{a} : a \in Assets}
Symmetry == Permutations({t1, t2}) \cup Permutations({p1, p2}) \cup Permutations({a1, a2})
=============================================================================
