--------------------------- MODULE MCCommandPath ----------------------------
(***************************************************************************)
(* The command path with three of the generated senders of vcg: ports      *)
(* 0 control_cmd, 1 gear_cmd, 2 turn_indicators_cmd.                       *)
(***************************************************************************)
EXTENDS CommandPath

ThreePorts == 0..2
=============================================================================
