------------------------ MODULE MCFederationStartup -------------------------
(***************************************************************************)
(* The startup of the connected federates of the generated federation, and *)
(* of one that has no connection.                                          *)
(***************************************************************************)
EXTENDS FederationStartup, Federation

ConnectedFederates == {f \in AllFederates : f.inbound > 0 \/ f.outbound # {}}
SomeFederates == ConnectedFederates \cup {mp}
=============================================================================
