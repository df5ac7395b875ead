# LF-Autoware: models, checks and proofs

LF-Autoware runs the Autoware driving stack under Lingua Franca (LF).  Each
Autoware ROS 2 node is wrapped in a reactor; the reactors run in one process
(`AutowareMono.lf`) or in one process each (`AutowareFederated.lf`, whose
generated federates are under `lf-src/fed-gen`).  A reactor's timer calls the
node's callback, so LF decides when control and planning compute; most data
still travels over ROS topics, which a *spin thread* per node serves.  The last
stretch, from `vehicle_cmd_gate` to the publishers of `bridge_interface`, runs
over LF ports, and a Python program steps the CARLA simulator in a loop.

All source paths below are relative to `src/`.

## 1. Inventory

| part | source | state | operations |
|---|---|---|---|
| gate | `lf-src/vehicle_cmd_gate` | four outputs and their flags in the node | 50 ms timer: `onTimer`, forward what is flagged, `publishStatus` |
| bridge | `lf-src/bridge_interface` | four publishers, `QoS{1}` | one reaction per input: publish |
| physical connection | `fed-gen/.../federate__vcg.lf`, `federate__bridge.lf`, preambles | socket, table of network actions | four senders, a listener thread, four receivers |
| monolithic connection | `AutowareMono.lf`, `Packages/Control.lf` | ports | logical connections, one tag |
| output handoff | every wrapper with a timer | `lf_output_X`, `lf_X_is_set` | callback stores and raises; reaction checks, copies, sets, clears |
| CARLA loop | `lf-src/carla_interface` | `current_control`, `latest_control`, the simulator | `initialize`, `step`, `apply_control`, `cleanup`; two reactors |
| parameter files | `lf-include/utils.hpp` | a static counter, files in `/tmp` | `resolve_yaml_vars`, two parsers |
| spin threads | `lf-include/utils.hpp` | a reference to the node | `spin_node`, until `rclcpp::ok()` is false |
| federation startup | `run_federation.sh`, 46 preambles | processes and their recorded IDs, connections | launch, connect, serve, synchronise at the RTI; wait, kill |
| trajectory connection | `scenario_selector`, `velocity_smoother`, `Packages/Planning.lf`, `federate__ss.lf`, `federate__vs.lf` | as the gate and the bridge | 100 ms timer; reaction to the input |
| timer schedule | the `timer` of 22 wrappers, both programs; `lf_types.h`, `environment.h` | per program: tag, event queue, reaction states | fire, advance the tag when all reactions have returned |
| wrappers | 87 `lf-src/<node>/<node>_main.lf` | the node | startup; a timer in 22 of them |
| package reactors | `Packages/*.lf` | none | composition |
| launch and test scripts | `test_lf_*.sh`, `carla_interface/*.sh` | processes | start, sleep, kill |
| runtime headers | `fed-gen/.../include` | | vendored headers of the LF runtime, without its sources |
| infrastructure | Ansible, Docker, CI, setup scripts | | none of the program's logic |

How they interact.  Within a process, reactors meet through ports: everything at
one tag finishes before the next tag begins.  Between federates, messages cross
a TCP socket and get the physical time of arrival as their tag.  A wrapped node
is shared by its reactor (an LF worker thread) and its spin thread (topics,
services), without a lock.  The CARLA program and the rest meet over ROS topics.

What is hard to get right, and what must hold:

* *Command path.*  The four senders of a tick run in parallel and share one
  socket; messages carry no tag; a full socket blocks the gate; a broken one
  loses what it held; topics keep one message.  Yet no command may be repeated,
  be published after one of a later tick, or take the vehicle back in time.
* *Output handoff.*  Two unprotected fields and two threads: outputs lost,
  forwarded twice, or torn.
* *CARLA loop.*  One token goes round two reactors, and a thread replaces the
  command beside them.  Every frame must have exactly one answer, and each
  command must reach the vehicle one frame later.  Startup and cleanup can fail
  half-way.
* *Parameter files.*  Startup reactions run in parallel, and share a counter
  when they share a process.  The YAML may be missing and the temporary file may
  fail to open, to be written or to parse, some of which nobody checks; no node
  may then get the parameters of another.
* *Wrapped nodes.*  Startup reactions, spin threads, timer reactions and a
  shutdown of rclcpp come in any order, on one node that nobody locks.  The node
  must outlive all callbacks, a timer callback must run on one thread only, and
  the timers of a program wait for its slowest startup.
* *Timer schedule.*  The monolithic program has one tag for all its nodes: a
  slow callback makes all timers late, and one that hangs stops them.  No firing
  may be skipped, repeated or drift, and a reaction to an input must find the
  output of the present tick, or, over the physical connection, every trajectory
  in its order.
* *Startup.*  Federates are launched in a fixed order, connect to servers that
  may not exist yet, and wait at a barrier without a timeout.  Processes end in
  any order, and a signal may end the launcher between two commands, with a
  federate it has started and not recorded.

`PROJECT.json` lists these hazards at their lines, with the properties that
cover each, or why none does yet.

## 2. Modules

| module | models | abstraction |
|---|---|---|
| `CommandChannel` | what any command path promises: emit, publish in order of ticks, break | abstract specification |
| `PhysicalLink` | one physical connection: senders, socket, listener, receivers | a message is its port and its tick |
| `CommandPath` | gate, link, bridge, topics, vehicle | extends `PhysicalLink`, implements `CommandChannel` |
| `MonoPath` | the same over logical connections | implements `CommandChannel` |
| `Mailbox` | what the handoff promises of a node whose reaction runs the callback: a box for one output, filled when empty, emptied once per output | abstract specification |
| `OutputHandoff` | flag and output of one node, statement by statement | implements `Mailbox`; an output is its number, or torn |
| `CarlaLoop` | both reactors, the bridge object, ROS thread, startup and cleanup | a command is its number, 0 is neutral |
| `ResolvedParams` | `resolve_yaml_vars` and both reads of its file, per node | a file's content is whose parameters it holds |
| `NodeCatalogue` | the 87 wrappers, the packages and the programs | a record: parameters, host of the node, ROS timer, LF timer, ports |
| `ParameterFiles` | the files of `constants.hpp` that each wrapper loads | a file is its name |
| `WrappedNodes` | startup reactions, spin threads, reactions and the end of one program | who holds a pointer to the node, where each thread is |
| `Federation` | the 46 generated federates: ID, connections, network actions with their sources, nothing over the RTI | a catalogue of records |
| `FederationStartup` | launcher and its trap, preambles, RTI barrier, exits | a federate is its record |
| `PeriodicTimers` | what LF timers promise: fire at each multiple of the period, in order within a program | abstract specification |
| `TimerSchedule` | physical time, tags, timers, reactions, workers, and the trajectory path in both programs | extends `PhysicalLink`, implements `PeriodicTimers`; a trajectory is its tick |

Each component's theorems are in a module `...Proofs` that extends it;
`MC...` modules give the constants their values where a `.cfg` cannot.

### Correspondence to the code

*PhysicalLink.*  `wire` is the socket with its buffers, `events` the network
actions that are scheduled, `now` the last reading of the clock.  `NetworkSend`
is the reaction of a `NetworkSender_i`: the call blocks while the socket is full
(the action is disabled), and its error is ignored when the connection is gone.
`ScheduleArrival` is the listener thread: no two events have one tag, since the
runtime's clock never returns a value twice.  `NetworkReceive` handles the
earliest event: deserialise, `lf_set`, pass through the generated `_bridge..._in`
reactor.  `alive` is the receiving process and `up` the connection to it.
`LinkDown` breaks the connection: what the socket holds and what is sent
afterwards is lost, since nothing in the code reconnects, but the receiver still
handles what has arrived.  `ReceiverEnds` ends the process with its connection
and its events.

*CommandPath.*  `GateTick(outputs)` is the gate's reaction with the set of
outputs that `onTimer` flagged; it needs `present = {}` because the runtime
starts no tag before the senders of the last one are through.  `BridgePublish`
is the reaction to an input, on a topic of depth one.  `VehicleRead` is the
vehicle.  `ConnectionBreaks` and `BridgeEnds` are the two failures of the link.  `published` and `applied` are histories the code does not keep.

*MonoPath.*  `GateTick` opens a tag, `GateSets` ends the gate's reaction, and
the bridge's reactions follow at the same tag in the order of their declaration.

*OutputHandoff.*  One action per statement of the reaction; the callback stores
in two steps so that a copy may be taken in between.  `caller = "reaction"` is a
node whose timer reaction calls the callback (`trajectory_follower`,
`vehicle_cmd_gate`, the planners); `caller = "spin"` is `mission_planner`, whose
services run on the spin thread.  An output is posted to `Mailbox` when its flag
is raised (`Announced`) and delivered by `lf_set`; a polled node implements no
mailbox, and the mapping leaves it out.

*CarlaLoop.*  `stage` counts the numbered steps of `initialize()`; `FirstStep`
ends the startup tag; `ControlReact` and `CarlaReact` are the two reactions of
the loop.  `passed` counts the stages of `cleanup()` that are over; `released` and
`raised` are the objects they have released or reported an exception for, and a
stage whose object `initialize()` had not made (`Made`) is skipped.  `ros` is the last command of
the ROS interface, which another thread writes; `run_step()` returns it.
`federate__ci.lf` is the same program with federation settings.

*ResolvedParams.*  `ReadCounter` and `BumpCounter` are the two halves of
`counter++`; `OpenFile` truncates, `WriteFile` writes; `ParseFile` gives the
overrides, and `Construct` is rclcpp's own reading of `--params-file`.
`NoYaml` is the exit of `resolve_yaml_vars` when it cannot read the YAML.
`OpenFails` and `WriteFails` are what the code does not notice: it goes on with
whatever the path names, be it nothing, a part of the text or the `Stale` file of
an earlier process with the same ID.  Any file, a whole one too, may fail to
parse (`ParseFails`: one parser exits, the other warns and goes on) or make the
constructor throw (`ConstructFails`).  `failed` is a history the code does not
keep: the nodes whose own YAML or file has failed them in one of these ways.

*WrappedNodes.*  A program is a set of wrappers of the catalogue.  `startup[w]`
is the statement its startup reaction has reached: parameters loaded (with
`rclcpp::init`), node constructed, ROS timer cancelled, thread started, returned.
`owners[w]` is the reference count of the node, by name: `reactor` is
`self->node` or `node_shared_ptr`, `handle` the pointer on the heap that
`pthread_create` passes on, `thread` the copy `spin_node` makes, and `startup`
the locals of the reactions that fill an executor.  `SpinSome` is one round of
the loop, with a topic or the ROS timer; `React` needs `AllStarted` because the
scheduler handles the startup reactions of a tag before those of its timers.
`Shutdown` is rclcpp's own handler of signals, `ProgramEnds` the runtime that has
no event left (`reactor_threaded.h:175-178`).  `HomeUnset` is the
exit of the first wrapper that asks for `LF_AUTOWARE_HOME` where it is not set
(`ReadsHome`: those that look for their files below it).

*FederationStartup.*  The phases of a federate are those of
`_lf_executable_preamble` and of the runtime's start: connect to the RTI, create
a server if there are inbound connections, connect to the servers of the
outbound ones, propose a start time, run.  `Agree` is the RTI, started with `-n`.
`launcher` is the place in `run_federation.sh`: `Launch` and `RecordPid` are the
two halves of `... & pids[$i]=$!`, `RtiReturns` is `fg %1`, `AllWaited` the loop of
`wait`, and `KillFederates` and `KillRti` are the trap, which also runs at the
normal end.  `Interrupt` is any signal that bash ends on, except SIGKILL, which
leaves everything running.  `LosesRti` is the runtime's exit when it cannot reach
the RTI (`CONNECT_TIMEOUT`) before the start; a federate that runs may or may not
end on SIGTERM (`Exit`), since rclcpp has replaced its handler.

*TimerSchedule.*  A program is an `environment_t`: `tag` is `current_tag`, `next`
the events of its timers in `event_q`, `status` the reactions' `status`, with
`startup`, `posted` and `sending` for the two other reactions of a reactor that
matter (the startup reaction, and the network sender behind the selector).  `Begin` takes a
reaction after those of earlier levels, `End` returns from it, `Advance` is the
end of a tag and the pop of the next one's events; it waits until the physical
time has come.  The network sender is taken by a worker (`BeginSend`) and keeps it
until the socket has room (`SendTrajectory`): `HasWorker` counts what runs, what
sends and what hangs.  `ConnectionBreaks` and `ReceiverDown` are the failures of
the link.  `Hang` is a callback or a constructor that never returns, for
which the code has no timeout.  The clock `now` is that of `PhysicalLink`, in
units of 50 ms in the run; `ScheduleArrival` moves it on, since no two readings
are equal, so an arrival stands for one within the next unit.

## 3. Runs

| run | instance | shows |
|---|---|---|
| `command_path` | 3 ports, socket of 2, 2 ticks; the connection may break, the bridge may end | invariant (the vehicle's newest command among it), order, refinement of `CommandChannel`, no regress of the vehicle; the gate unblocks, commands take effect |
| `mono_path` | 4 ports, 2 ticks | invariant with the order of ports, refinement |
| `handoff` | both kinds of caller, 6 outputs | each output forwarded exactly once by a node the reaction calls, refinement of `Mailbox`; no regress and at most twice for a polled one; an output announced at the check gets through for both; a polled one whose callbacks keep out of its reaction tears, repeats and loses nothing |
| `handoff_lost` | 2 outputs | counterexample (section 6) |
| `params_mixed` | 2 nodes in one process and a lone third; any file may fail | a lone node never gets another's parameters, and its own unless its own YAML or file fails, the only thing that ends its process; with an atomic counter the failures of all nodes are contained like that |
| `params_mono` | 2 nodes in one process | counterexample |
| `carla_loop` | 5 frames, 3 commands, traffic manager | lock step, one frame late, no stall; cleanup releases, or reports, just what a startup that may have failed had made |
| `node_life` | a program of 3 wrappers (passive, timed, reactive) and 4 of one | ownership, one thread per timer callback, timers start, threads end |
| `passive_ends`, `executor_nodes` | `crop_box_filter`; `default_adapi` | counterexamples |
| `federation_startup` | the 4 connected federates and `mp`, launcher, RTI | connected start, barrier, nobody waits in a circle, everybody starts; the launcher waits for all and leaves nobody behind |
| `timer_schedule` | the gate, the selector and the smoother in one program on 2 workers; the selector and the smoother as federates, socket of 1; 100 ms | timers fire at every instant and stay periodic, only a hang in the own program stops them; no program stalls, though a sender keeps its worker while the socket is full; trajectories are handled in order, of the latest tick over a logical connection, each one over the physical unless it breaks |

The bounds.  Three senders and a socket of two messages let every sender of one
tick race every message of the other, and make the gate block in the middle of a
tick; the second tick supersedes a command that is still unread.  The theorems
are for any number of ports.  A lost update of the handoff needs two outputs, a
double forwarding and a recovery need four; two more show that it stays so.
Five frames are two rounds of the loop beyond the first frame that can see a
command.  Two nodes suffice for the race of the counter, and the third stands
for a federate beside them.  Unconnected federates differ only in their ID, so
one of the 42 stands for all.  Two units of time are two ticks of the gate and
the second one of the selector, so a program can be one tick late, and the
selector's second trajectory can meet its first on the link, whose socket holds
one; two workers are fewer than the three nodes of the program.  Wrappers of one kind behave alike in
`WrappedNodes`: the five programs have one of each kind (passive with a strict
reader, timed, with an input, polled, giving up, without a node, with an
executor), and three in one process let one still start up while another has
returned, failed or been shut down.  Symmetry is not used: ports are ordered, and the
IDs are, too.

`CatalogueAssumption` of `MCWrappedNodes` is evaluated by `node_life`: every
wrapper of every program in the catalogue is what `WrappedNodesProofs` assumes.
`FilesAssumption` of `ParameterFiles` is, too: every wrapper that reads parameters
has a file, and a file that several wrappers load ends the process of none of them
when it does not parse.  `WiringAssumption` of `Federation` is evaluated by
`federation_startup`: the 46 IDs are consecutive, for each connection the source
opens what the destination counts and names in its action table, a federate
has network actions just when somebody connects to it, and none receives anything
through the RTI.

### Fairness

*CommandPath*: weak fairness of each sender as a group, the listener, the
bridge's reactions and each reader: the worker threads run what is triggered,
the listener thread loops, and the vehicle polls its topics.  Neither the timer
(an action the bound stops) nor a failure is fair.  *OutputHandoff*: the timer
keeps firing and a reaction or callback that began ends; no callback has to
produce anything.  *CarlaLoop*: reactions that are triggered run, and cleanup
runs to its end; commands, failures and the shutdown are not fair.
*WrappedNodes*: what a startup
reaction does next, each spin thread, and each timer and its reaction are fair;
callbacks return.  Failures and the shutdown of rclcpp are not fair, nor is an
input.  *FederationStartup*: the launcher, the RTI and the federates that have not
exited go on; exits and the interruption are not fair.  *TimerSchedule*: time goes
on, workers take reactions, a reaction that has not been left hanging returns, the
network sender sends once there is room, the listener listens, and each program
advances its tag; hangs, a break of the connection and the end of the receiver are
not fair.

## 4. Proofs

The proofs hold for every value of the constants, given the `ASSUME`s of the
modules (ports and IDs are natural numbers, capacities positive, the values that
mark "nothing" distinct from the others), which the runs evaluate too.

*Command path.*  `PublishedInOrder` is not inductive.  `FlowInv` adds why it
holds: tags follow arrival (`TagsFollowArrival`), ticks never decrease from
events through the socket to the senders (`TicksInOrder`), no command is in two
of those places (`InOnePlace`), and the vehicle and its topics are behind all of
them (`VehicleBehind`).  With it, `PathImplementsChannel` maps every step to a
step or a stutter of the channel, whose pending commands are those in flight;
`ChannelInOrder` shows once that the channel publishes in order, and `BridgePublishesInOrder` carries that over.
`VehicleMovesForward` follows from `VehicleBehind`.  `PathInv` is `FlowInv` with
`VehicleHoldsNewest`, what the vehicle may miss: each topic's newest command is
on the topic or applied, since the bridge publishes behind all the vehicle has
(`PublishesNewest`) and a read takes what the topic holds (`ReadsNewest`).
`VehicleMissesNoNewest` states that part by itself.

*Monolithic path.*  `MonoInv` relates what is published to the tag that is being
handled and to what is still present at it; with it the path refines the channel
(`MonoPathImplementsChannel`).

*Handoff.*  `HandoffInv` is `TimerInv` or `PollInv`, after the caller.
`TimerInv` says, for each place of the reaction, whether the last
output waits or has been forwarded.  `PollInv` counts: an output can be
forwarded a second time only while its first copy was taken before its flag
rose, and after that the flag is down (`FlagSpent`).  From `TimerInv` follows the
refinement (`HandoffImplementsMailbox`): raising the flag finds the box empty,
`lf_set` finds the announced output in it, and every other step is a stutter.
`LockMakesPollingSafe` says what the race of a polled node costs: in every
behaviour whose callbacks never write while a reaction is between its check and
its clearing (`Exclusive`, an assumption on the behaviour that `handoff_lost`
violates), the node tears, repeats and loses nothing.  Its invariant
`LockedInv` says that the last output is `Pending`, and newer than all that was
forwarded, or the last one forwarded; the step needs `Exclusive` on both sides.

*CARLA loop.*  `LoopInv`: exactly one of `sensor_tick` and `control_cmd` is on
its way, the simulator has been ticked once per tag plus once, and the control
to apply is what the last `run_step()` returned.  `OneFrameLate` follows with it.
`CleanupReleases` holds of every startup that has failed somewhere and every set
of stages that raise.  Its invariant, `CleanupInv`, says that what the stages that
are over (`Passed`) have released or reported is just what they had to deal with,
and that the program is over before the first stage or after the last;
`initialize()` makes nothing more by then.

*Parameter files.*  `Contained` says what a failure may do: a node never has
another's parameters, runs with its own unless its own YAML or file has failed,
and exits only with a process in which one has.  It does not say that every node
starts, which the code cannot promise.  `ParamsInv` has the reason for a node
alone in its process (`LoneNodesStart`): file names contain the process, so nobody
else writes its file, which holds its own parameters from when it is written
until a failure of its own.  `AtomicCounterGivesOwnParameters` is about the
others: in every behaviour where the two halves of `counter++` are not interleaved
(`CountsAlone`), no two nodes of a process have one number (`SeparateFiles` in
`AtomicInv`) and a number not yet taken names a file nobody has touched
(`UnusedFiles`), so every startup is contained: the race is the only way in which
nodes disturb each other's parameters.  `params_mono` shows that the hypothesis
is needed.

*Wrapped nodes.*  `NodesOutliveCallbacks` is not inductive: that a node has an
owner while it is called says nothing of who that is.  `NodeInv` says that the
reactor is one, from the construction on, so that it does not matter when the
startup reaction, the thread and its handle let go; that a thread is started
only after the ROS timer is cancelled; and that a reaction runs only after its
own startup.  A step of one wrapper leaves the others' parts alone
(`WrapperStep`), whatever the program is.

*Startup.*  `StartupInv`: a proposal comes after the proposer's connections, the
agreement after all proposals, a start after the agreement.  `StartsConnected`
and `AllOrNobody` follow for any set of federates and connections.  Its second
part is about the launcher: federates are launched in order and all but the last
are recorded, so that `DoneMeansAllEnded` follows once it has waited for them,
and that its trap misses at most one federate (`TrapMissesAtMostOne`).
`StartupNeverStalls` is the safety half of `EverybodyStarts`: who is stuck before
a server would have to wait for a federate whose port is not advertised, but a
federate advertises it before it connects itself, so there is no circle.  It
needs that a federate with a connection to it counts it as inbound, the last
part of `FederatesAssumption`, and `WiringAssumption` has it for the generated
federates.

*Timer schedule.*  `ScheduleInv`: the pending event of a timer is one period
after its last firing, or after its program's tag while its reaction waits
(`TimersInStep`); an input is newer than what its reactor has reacted to
(`InputsInStep`) and, on a wire, of the present tag while there is a reaction to
it (`WiresInStep`); what is on the link is ordered by its arrival and behind its
sender (`LinkInStep`, `SenderInStep`).  `ScheduleImplementsTimers` maps `Begin` of
a timer's reaction to a firing and every other step to the clock or a stutter;
the hard case is that the firing is not later than any other timer of its
program allows.  From the same invariant, `TimersOfProgramStayTogether`: no timer
has fired for an instant later than the next one of another of its program.
`ProgramsNeverStall` is the safety half of `KeepsFiring`.  If a reaction runs, it
can return; one that sends can when the socket has room, and when it has none
the listener of the other program, which needs no worker, has something to read
(`SendOrListen`).  If none runs and nothing hangs, a worker is free (`FreeWorker`,
one is enough), and of what is queued something is ready, as levels are those of the
wires and a wire's source is timed (`SomeReady`); if nothing is left, the queue
has a least tag (`SomeTagIsNext`, from `LeastNumber`), which time has reached or
has not.

Only model-checked: the liveness properties (`GateUnblocks`,
`CommandTakesEffect`, `QuietOutputIsForwarded`, `SimulationAdvances`,
`TimersStart`, `ThreadsEnd`, `EverybodyStarts`, `NobodyIsLeft`, `KeepsFiring`,
`TrajectoryIsSmoothed`), which are beyond the prover.  The theorems on stalls say
that some step is possible, not that it is taken; that is left to the fairness
of the runs.  Three theorems (`VehicleMissesNoNewest`, `TrapMissesAtMostOne`,
`TimersOfProgramStayTogether`) state consequences of inductive invariants that
the runs check, and no run checks the last two by themselves.

## 5. Not modelled

The wrapped Autoware nodes, ROS, CARLA and the LF runtime are other projects;
what the code relies on is a definition marked external, and of the runtime's
headers only the data that `TimerSchedule` needs is translated.  The data of
messages, maps and parameters makes no difference to the properties.  The test
scripts start processes one after the other and sleep; they wait for nothing
that could fail to come.  The infrastructure is not part of the program.  What
the callbacks of two threads do to one node at the same time is code of the
node.  How long a callback takes is not known: `TimerSchedule` lets it take any
time, so it shows the order of what happens and not that a deadline is met.

## 6. Where the code and its texts disagree

* `mission_planner` loses a route announced between lines 59 and 62 of its
  reaction (`handoff_lost`); its header says that the timer polls for new
  outputs.
* Two nodes of the monolithic program may get one parameter file
  (`params_mono`), although `resolve_yaml_vars` is said to write a copy for its
  caller: `lidar_centerpoint` has taken its overrides from its own copy, but the
  file its `--params-file` names holds the text of `pointcloud_map_loader` when
  the node is constructed, and nothing has failed.
* The main reactor of a passive wrapper ends after startup (`passive_ends`),
  although its header says that it runs on its spin thread, and
  `test_lf_full_stack.sh` launches it.
* The nodes of `default_adapi` (and of `system_monitor` and
  `image_transport_relay`) are gone when the startup reaction returns
  (`executor_nodes`); a comment says that a thread spins them all.

Seen while modelling, with no run of their own:

* `ControlBridge.latest_control` is never assigned after startup (`LoopInv` says
  that it stays `None`), while the comment at `CarlaInterface.lf:112` says that it
  is updated asynchronously.  Commands reach the vehicle all the same, one frame
  late.
* `resolve_yaml_vars` checks neither the opening nor the writing of its temporary
  file, so a node may read the file that an earlier process with the same ID has
  left in `/tmp` (`Stale` in `ResolvedParams`).
* `mission_planner` may copy a route that a service is storing.
* `default_adapi` creates 14 of the 15 nodes its header lists (`ManualControl` is
  missing).
* The CARLA loop advances microsteps only (`LockStep` says so), while
  `LAUNCH_README.md` lists a period of 50 ms.
* The vehicles that `_setup_traffic_manager` spawns are never destroyed, and
  `cleanup()` leaves the simulator in synchronous mode.
* The comments of `run_federation.sh` count 47, 72 and 73 federates, its loop
  launches 71 and the Python one, and the generated federates are 46.
* `run_federation.sh` exits with 1 at its normal end too, after killing process
  IDs it has already waited for; and a signal between lines 29 and 30 leaves the
  RTI running, the only process that `NobodyIsLeft` does not speak of.
* `test_lf_planning_control.sh:65` says "Wait for any process to exit"; `wait`
  waits for all.
* `LAUNCH_README.md` says that logical time tracks wall-clock time; after a slow
  startup or callback a program makes up for the missed ticks in a burst, as fast
  as it can (`ImplementsTimers`: none is skipped).

## 7. Plan

Done: the command paths, the handoff with its mailbox, the CARLA loop, the
parameter files, the wrapped nodes with their catalogues, the federation from
launch to shutdown, and the schedule of the timers with the trajectory path, with
their proofs.  What is left out, and why, is section 5.
