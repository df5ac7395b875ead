--------------------------- MODULE ParameterFiles ---------------------------
(***************************************************************************)
(* The parameter files the wrappers of NodeCatalogue load at startup, as   *)
(* constants.hpp names them.  A wrapper with one file only has the one     *)
(* named after it.                                                         *)
(***************************************************************************)
EXTENDS NodeCatalogue, FiniteSets

\* Files that several wrappers load.
VehicleInfo == {"vehicle_info"}
PlanningCommon == {"planning_common", "planning_nearest_search"}
ControlCommon == {"control_nearest_search"}
Smoother == {"velocity_smoother", "velocity_smoother_algorithm"}
CropBox == {"crop_box_filter"}

\* Files of one wrapper, where it has several.
SmootherCommon == {"velocity_smoother_common"}
BehaviorPath ==
  {"behavior_path_planner", "drivable_area", "scene_manager", "side_shift", "avoidance",
   "avoidance_by_lane_change", "dynamic_avoidance", "lane_change", "goal_planner",
   "start_planner", "bidirectional_traffic", "sampling_planner"}
BehaviorVelocity ==
  {"behavior_velocity_planner", "behavior_velocity_common", "blind_spot", "crosswalk", "walkway",
   "detection_area", "intersection", "roundabout", "stop_line", "traffic_light",
   "virtual_traffic_light", "occlusion_spot", "no_stopping_area", "speed_bump",
   "no_drivable_lane"}
MotionVelocity ==
  {"motion_velocity_planner", "obstacle_stop", "obstacle_slow_down", "obstacle_cruise",
   "dynamic_obstacle_stop", "out_of_lane", "obstacle_velocity_limiter", "run_out",
   "boundary_departure_prevention", "road_user_stop"}
Validator ==
  {"planning_validator", "latency_checker", "trajectory_checker",
   "intersection_collision_checker", "rear_collision_checker"}
Mission == {"mission_planner", "mission_planner_default"}
Follower == {"trajectory_follower", "mpc_lateral", "pid_longitudinal"}
VelocityLimit == {"velocity_limit_common", "velocity_limit"}
Fusion == {"roi_cluster_fusion", "fusion_common"}
Tracker == {"multi_object_tracker", "data_association", "input_channels"}
GridMap == {"occupancy_grid_map", "occupancy_grid_map_updater"}
Centerpoint == {"centerpoint", "centerpoint_common"}
CenterpointData == {"centerpoint_ml_package", "centerpoint_class_remapper"}
Monitors == {"cpu", "gpu", "hdd", "mem", "net", "ntp", "process", "voltage"}

\* The only file of its wrapper, or the only one no other wrapper loads.
OwnFile(w) == {w.name}

\* Those that load the vehicle's dimensions, besides what they have of their own.
LoadVehicleInfo ==
  {autonomous_emergency_braking, behavior_path_planner, behavior_velocity_planner,
   collision_detector, costmap_generator, crop_box_filter, crop_box_filter_mirror,
   freespace_planner, ground_segmentation, lane_departure_checker, mission_planner,
   motion_velocity_planner, obstacle_collision_checker, operation_mode_transition_manager,
   path_generator, path_optimizer, path_sampler, path_smoother, planning_validator,
   predicted_path_checker, surround_obstacle_checker, trajectory_follower, vehicle_cmd_gate,
   velocity_smoother}

LoadPlanningCommon ==
  {behavior_path_planner, behavior_velocity_planner, motion_velocity_planner, path_optimizer,
   path_smoother, surround_obstacle_checker}

LoadControlCommon ==
  {lane_departure_checker, operation_mode_transition_manager, trajectory_follower}

SharedFiles(w) ==
  (IF w \in LoadVehicleInfo THEN VehicleInfo ELSE {})
    \cup (IF w \in LoadPlanningCommon THEN PlanningCommon ELSE {})
    \cup (IF w \in LoadControlCommon THEN ControlCommon ELSE {})

\* The files that w's startup reaction loads.
Files(w) ==
  SharedFiles(w) \cup
    CASE w.params = Unread -> {}
      [] w = behavior_path_planner -> BehaviorPath
      [] w = behavior_velocity_planner -> BehaviorVelocity \cup Smoother
      [] w = motion_velocity_planner -> MotionVelocity \cup Smoother
      [] w = velocity_smoother -> Smoother \cup SmootherCommon \cup {"planning_nearest_search"}
      [] w = planning_validator -> Validator
      [] w = mission_planner -> Mission
      [] w = trajectory_follower -> Follower
      [] w = external_velocity_limit_selector -> VelocityLimit
      [] w = camera_lidar_fusion -> Fusion
      [] w = multi_object_tracker -> Tracker
      [] w = occupancy_grid_map -> GridMap
      [] w = lidar_centerpoint -> Centerpoint \cup CenterpointData
      [] w = system_monitor -> Monitors
      [] w = crop_box_filter_mirror -> CropBox \cup {"mirror"}
      [] OTHER -> OwnFile(w)

Loads(f) == {w \in Catalogue : f \in Files(w)}

\* A wrapper that reads parameters has a file, and only lidar_centerpoint and
\* system_monitor end their process for one of several.  A file that several
\* wrappers load ends none of their processes: so a file that does not load
\* ends those of one wrapper at most.
ASSUME FilesAssumption ==
  /\ \A w \in Catalogue :
       /\ w.params = Unread <=> Files(w) = {}
       /\ w.params = Strict /\ Cardinality(Files(w)) > 1 => w \in {lidar_centerpoint, system_monitor}
  /\ \A f \in UNION {Files(w) : w \in Catalogue} :
       Cardinality(Loads(f)) > 1 => \A w \in Loads(f) : w.params = Lenient
=============================================================================
