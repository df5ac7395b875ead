----------------------------- MODULE MCMonoPath -----------------------------
(***************************************************************************)
(* The monolithic command path with the bridge's four inputs, in order:    *)
(* control_cmd, gear_cmd, turn_indicators_cmd, hazard_lights_cmd.          *)
(***************************************************************************)
EXTENDS MonoPath

FourPorts == 0..3
=============================================================================
