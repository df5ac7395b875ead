-------------------------- MODULE MCResolvedParams --------------------------
(***************************************************************************)
(* The two nodes that call resolve_yaml_vars: in the monolithic program,   *)
(* and beside a third one like them that has a process of its own, as each *)
(* node has in the federation.                                             *)
(***************************************************************************)
EXTENDS ResolvedParams

CONSTANT Lone    \* the nodes with a process of their own

LonersApart == [n \in Nodes |-> IF n \in Lone THEN n ELSE "mono"]
=============================================================================
