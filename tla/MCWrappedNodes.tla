--------------------------- MODULE MCWrappedNodes ---------------------------
(***************************************************************************)
(* Programs small enough to explore: three wrappers of the monolithic      *)
(* program, one of each kind, and main reactors without a timer.           *)
(***************************************************************************)
EXTENDS WrappedNodes, ParameterFiles

SmallPrograms ==
  {{lanelet2_map_loader, shift_decider, velocity_smoother},
   {mission_planner}, {robot_state_publisher}, {carla_interface}, {system_monitor}}

PassiveProgram == {{crop_box_filter}}
ExecutorProgram == {{default_adapi}}

\* What the theorems assume of a program holds of every program there is.
ASSUME CatalogueAssumption ==
  \A p \in {AutowareMono} \cup AutowareFederated \cup Standalone : \A w \in p : WellFormed(w)
=============================================================================
