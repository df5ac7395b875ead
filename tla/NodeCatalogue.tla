---------------------------- MODULE NodeCatalogue ---------------------------
(***************************************************************************)
(* The wrappers of ROS nodes, lf-src/<node>/<node>_main.lf, each as its    *)
(* reactor and its startup reaction set it up:                             *)
(*   params     what a parameter file that does not load does: Strict ends *)
(*              the process, Lenient is passed over, Unread reads none;    *)
(*   host       what the spin thread is given: the node, an executor with  *)
(*              several nodes, or nothing;                                 *)
(*   cancels    the node's own ROS timer is cancelled;                     *)
(*   period     of the LF timer, in ms, 0 without one;                     *)
(*   mayGiveUp  the startup reaction may return before there is a node.    *)
(***************************************************************************)
EXTENDS Naturals

Strict == "strict"
Lenient == "lenient"
Unread == "unread"

\* Nothing but a startup reaction: the node lives on the spin thread.
Passive(name, params) ==
  [name |-> name, params |-> params, host |-> "node", cancels |-> FALSE,
   period |-> 0, inputs |-> {}, outputs |-> {}, mayGiveUp |-> FALSE]

\* An LF timer whose reaction only looks for outputs.
Polled(name, params, period, outputs) ==
  [Passive(name, params) EXCEPT !.period = period, !.outputs = outputs]

\* An LF timer whose reaction runs the callback of the cancelled ROS timer.
Timed(name, params, period, outputs) ==
  [Polled(name, params, period, outputs) EXCEPT !.cancels = TRUE]

automatic_pose_initializer == Timed("automatic_pose_initializer", Unread, 1000, {})
behavior_path_planner == Timed("behavior_path_planner", Lenient, 100, {"path_out", "turn_signal_out", "hazard_signal_out"})
component_state_monitor == Timed("component_state_monitor", Strict, 1000, {})
costmap_generator == Timed("costmap_generator", Lenient, 200, {"occupancy_grid_out"})
duplicated_node_checker == Timed("duplicated_node_checker", Strict, 1000, {})
external_cmd_selector == Timed("external_cmd_selector", Strict, 100, {})
freespace_planner == Timed("freespace_planner", Lenient, 100, {"trajectory_out", "is_completed"})
mission_planner == Polled("mission_planner", Lenient, 100, {"route_out"})
mrm_comfortable_stop_operator == Timed("mrm_comfortable_stop_operator", Strict, 100, {})
mrm_emergency_stop_operator == Timed("mrm_emergency_stop_operator", Strict, 100, {})
mrm_handler == Timed("mrm_handler", Strict, 100, {})
obstacle_collision_checker == Timed("obstacle_collision_checker", Lenient, 100, {})
path_generator == Timed("path_generator", Lenient, 100, {})
pipeline_latency_monitor == Timed("pipeline_latency_monitor", Strict, 1000, {})
pose_instability_detector == Timed("pose_instability_detector", Strict, 100, {})
predicted_path_checker == Timed("predicted_path_checker", Lenient, 100, {})
processing_time_checker == Timed("processing_time_checker", Strict, 1000, {})
scenario_selector == Timed("scenario_selector", Strict, 100, {"trajectory_out", "scenario_out"})
shift_decider == Timed("shift_decider", Strict, 100, {"gear_cmd"})
trajectory_follower == Timed("trajectory_follower", Lenient, 30, {"control_cmd"})
vehicle_cmd_gate == Timed("vehicle_cmd_gate", Lenient, 50, {"control_cmd", "gear_cmd", "turn_indicators_cmd", "hazard_lights_cmd"})

bridge_interface == [Passive("bridge_interface", Unread) EXCEPT
                         !.inputs = {"control_cmd_in", "gear_cmd_in", "turn_indicators_cmd_in", "hazard_lights_cmd_in"}]
carla_interface == [Passive("carla_interface", Unread) EXCEPT !.host = "nothing", !.period = 50]
default_adapi == [Passive("default_adapi", Strict) EXCEPT !.host = "executor"]
image_transport_relay == [Passive("image_transport_relay", Unread) EXCEPT !.host = "executor"]
robot_state_publisher == [Passive("robot_state_publisher", Unread) EXCEPT !.mayGiveUp = TRUE]
system_monitor == [Passive("system_monitor", Strict) EXCEPT !.host = "executor"]
velocity_smoother == [Passive("velocity_smoother", Lenient) EXCEPT
                          !.inputs = {"trajectory_in"}, !.outputs = {"trajectory_out"}]

approximate_downsample_filter == Passive("approximate_downsample_filter", Strict)
autonomous_emergency_braking == Passive("autonomous_emergency_braking", Lenient)
behavior_velocity_planner == Passive("behavior_velocity_planner", Lenient)
camera_lidar_fusion == Passive("camera_lidar_fusion", Lenient)
collision_detector == Passive("collision_detector", Lenient)
control_validator == Passive("control_validator", Strict)
crop_box_filter == Passive("crop_box_filter", Lenient)
crop_box_filter_mirror == Passive("crop_box_filter_mirror", Lenient)
crosswalk_traffic_light_estimator == Passive("crosswalk_traffic_light_estimator", Strict)
detection_by_tracker == Passive("detection_by_tracker", Strict)
diagnostic_aggregator == Passive("diagnostic_aggregator", Strict)
ekf_localizer == Passive("ekf_localizer", Strict)
euclidean_cluster == Passive("euclidean_cluster", Strict)
external_velocity_limit_selector == Passive("external_velocity_limit_selector", Lenient)
ground_segmentation == Passive("ground_segmentation", Lenient)
gyro_odometer == Passive("gyro_odometer", Strict)
hazard_status_converter == Passive("hazard_status_converter", Strict)
image_decompressor == Passive("image_decompressor", Strict)
imu_corrector == Passive("imu_corrector", Strict)
lane_departure_checker == Passive("lane_departure_checker", Lenient)
lanelet2_map_loader == Passive("lanelet2_map_loader", Strict)
lidar_centerpoint == Passive("lidar_centerpoint", Strict)
localization_error_monitor == Passive("localization_error_monitor", Strict)
map_based_prediction == Passive("map_based_prediction", Strict)
map_projection_loader == Passive("map_projection_loader", Strict)
map_tf_generator == Passive("map_tf_generator", Strict)
motion_velocity_planner == Passive("motion_velocity_planner", Lenient)
multi_object_tracker == Passive("multi_object_tracker", Lenient)
ndt_scan_matcher == Passive("ndt_scan_matcher", Strict)
object_filter == Passive("object_filter", Strict)
object_range_splitter == Passive("object_range_splitter", Strict)
object_validator == Passive("object_validator", Strict)
occupancy_grid_map == Passive("occupancy_grid_map", Lenient)
occupancy_grid_map_outlier_filter == Passive("occupancy_grid_map_outlier_filter", Strict)
operation_mode_transition_manager == Passive("operation_mode_transition_manager", Lenient)
passthrough_filter == Passive("passthrough_filter", Strict)
path_optimizer == Passive("path_optimizer", Lenient)
path_sampler == Passive("path_sampler", Lenient)
path_smoother == Passive("path_smoother", Lenient)
planning_validator == Passive("planning_validator", Lenient)
pointcloud_concatenator == Passive("pointcloud_concatenator", Strict)
pointcloud_downsampling == Passive("pointcloud_downsampling", Strict)
pointcloud_map_filter == Passive("pointcloud_map_filter", Strict)
pointcloud_map_loader == Passive("pointcloud_map_loader", Strict)
pose_initializer == Passive("pose_initializer", Strict)
random_downsample_filter == Passive("random_downsample_filter", Strict)
simple_object_merger == Passive("simple_object_merger", Strict)
stop_filter == Passive("stop_filter", Strict)
surround_obstacle_checker == Passive("surround_obstacle_checker", Lenient)
tensorrt_yolox == Passive("tensorrt_yolox", Strict)
traffic_light_arbiter == Passive("traffic_light_arbiter", Strict)
traffic_light_category_merger == Passive("traffic_light_category_merger", Unread)
traffic_light_classifier == Passive("traffic_light_classifier", Strict)
traffic_light_fine_detector == Passive("traffic_light_fine_detector", Strict)
traffic_light_map_based_detector == Passive("traffic_light_map_based_detector", Strict)
traffic_light_occlusion_predictor == Passive("traffic_light_occlusion_predictor", Strict)
traffic_light_selector == Passive("traffic_light_selector", Unread)
vehicle_velocity_converter == Passive("vehicle_velocity_converter", Strict)
voxel_grid_outlier_filter == Passive("voxel_grid_outlier_filter", Strict)

-----------------------------------------------------------------------------
Catalogue ==
  {approximate_downsample_filter, automatic_pose_initializer,
  autonomous_emergency_braking, behavior_path_planner,
  behavior_velocity_planner, bridge_interface, camera_lidar_fusion,
  carla_interface, collision_detector, component_state_monitor,
  control_validator, costmap_generator, crop_box_filter,
  crop_box_filter_mirror, crosswalk_traffic_light_estimator,
  default_adapi, detection_by_tracker, diagnostic_aggregator,
  duplicated_node_checker, ekf_localizer, euclidean_cluster,
  external_cmd_selector, external_velocity_limit_selector,
  freespace_planner, ground_segmentation, gyro_odometer,
  hazard_status_converter, image_decompressor, image_transport_relay,
  imu_corrector, lane_departure_checker, lanelet2_map_loader,
  lidar_centerpoint, localization_error_monitor, map_based_prediction,
  map_projection_loader, map_tf_generator, mission_planner,
  motion_velocity_planner, mrm_comfortable_stop_operator,
  mrm_emergency_stop_operator, mrm_handler, multi_object_tracker,
  ndt_scan_matcher, object_filter, object_range_splitter,
  object_validator, obstacle_collision_checker, occupancy_grid_map,
  occupancy_grid_map_outlier_filter, operation_mode_transition_manager,
  passthrough_filter, path_generator, path_optimizer, path_sampler,
  path_smoother, pipeline_latency_monitor, planning_validator,
  pointcloud_concatenator, pointcloud_downsampling, pointcloud_map_filter,
  pointcloud_map_loader, pose_initializer, pose_instability_detector,
  predicted_path_checker, processing_time_checker,
  random_downsample_filter, robot_state_publisher, scenario_selector,
  shift_decider, simple_object_merger, stop_filter,
  surround_obstacle_checker, system_monitor, tensorrt_yolox,
  traffic_light_arbiter, traffic_light_category_merger,
  traffic_light_classifier, traffic_light_fine_detector,
  traffic_light_map_based_detector, traffic_light_occlusion_predictor,
  traffic_light_selector, trajectory_follower, vehicle_cmd_gate,
  vehicle_velocity_converter, velocity_smoother,
  voxel_grid_outlier_filter}

Sensing ==
  {crop_box_filter, imu_corrector, vehicle_velocity_converter}

Localization ==
  {ndt_scan_matcher, gyro_odometer, ekf_localizer}

Perception ==
  {ground_segmentation, lidar_centerpoint, euclidean_cluster,
  pointcloud_map_filter, detection_by_tracker, object_validator,
  object_filter, camera_lidar_fusion, multi_object_tracker,
  map_based_prediction, occupancy_grid_map,
  traffic_light_map_based_detector, traffic_light_classifier,
  traffic_light_arbiter, traffic_light_occlusion_predictor,
  crosswalk_traffic_light_estimator}

Map ==
  {pointcloud_map_loader, lanelet2_map_loader}

Planning ==
  {mission_planner, behavior_path_planner, behavior_velocity_planner,
  path_smoother, path_optimizer, motion_velocity_planner,
  surround_obstacle_checker, scenario_selector, velocity_smoother,
  freespace_planner, costmap_generator, planning_validator,
  external_velocity_limit_selector}

Control ==
  {trajectory_follower, shift_decider, vehicle_cmd_gate,
  operation_mode_transition_manager, lane_departure_checker,
  control_validator, autonomous_emergency_braking, collision_detector}

\* The programs: everything in one process, one process per wrapper, and the
\* main reactor of each wrapper's file.
AutowareMono ==
  Sensing \cup Localization \cup Perception \cup Map \cup Planning \cup Control
    \cup {bridge_interface}

NotFederated ==
  {automatic_pose_initializer, crop_box_filter_mirror, default_adapi,
  diagnostic_aggregator, image_transport_relay, map_projection_loader,
  map_tf_generator, mrm_emergency_stop_operator, mrm_handler,
  pointcloud_concatenator, pointcloud_downsampling, pose_initializer,
  robot_state_publisher, system_monitor, traffic_light_fine_detector}

AutowareFederated == {{w} : w \in Catalogue \ NotFederated}

Standalone == {{w} : w \in Catalogue}
=============================================================================
