------------------------------ MODULE CarlaLoop ------------------------------
(***************************************************************************)
(* The Python federate that drives the CARLA simulator: the reactors Carla *)
(* and ControlBridge, closed into a loop by a connection `after 0', and    *)
(* the CarlaBridge object they call.                                       *)
(*                                                                         *)
(* At each tag either Carla reacts (it applies the control, ticks the      *)
(* world and sets sensor_tick) and then, at the same tag, ControlBridge    *)
(* (it sets control_cmd, which arrives at a later tag), or the program     *)
(* shuts down.  Beside them the thread of the ROS interface receives       *)
(* control commands.  A command is its number; 0 is the neutral control.   *)
(***************************************************************************)
EXTENDS Integers, Sequences

CONSTANTS
  UseTrafficManager, \* CARLA_USE_TM
  None,           \* Python's None
  MaxFrames,      \* bound: steps of the simulation
  MaxCommands     \* bound: control commands received over ROS

Tag == [time : Nat, micro : Nat]
Message == [value : Nat \cup {None}, tag : Tag]

ASSUME CarlaAssumption ==
  /\ UseTrafficManager \in BOOLEAN
  /\ None \notin Nat /\ None \notin Message
  /\ MaxFrames \in Nat \ {0} /\ MaxCommands \in Nat

VARIABLES
  phase,          \* "initialize", "loop", "cleanup" or "over"
  stage,          \* the steps of initialize() that have created what they create
  passed,         \* how many stages of cleanup() are over
  released,       \* what cleanup() has released ...
  raised,         \* ... and what it could not: an exception was printed
  ros,            \* last control command the ROS interface has received
  current,        \* self.current_control of the bridge
  latest,         \* self.latest_control of ControlBridge
  worldTicks,     \* calls of world.tick()
  frames,         \* history of step(): control applied, control that
                  \* run_step() returned
  tag,            \* current tag of the program: [time, micro]
  sensorTick,     \* sensor_tick is present and ControlBridge has not reacted
  control         \* control_cmd on its way, [value, tag], or None

cleanupVars == <<passed, released, raised>>
lifeVars == <<phase, stage, cleanupVars>>
loopVars == <<current, latest, worldTicks, frames, tag, sensorTick, control>>
vars == <<phase, stage, passed, released, raised, ros, current, latest,
          worldTicks, frames, tag, sensorTick, control>>

\* What the numbered steps of initialize() create, in their order.
InitStages ==
  <<"interface", "world", "synchronous", "ego", "sensors">>
  \o IF UseTrafficManager THEN <<"npcs">> ELSE <<>>

Made == {InitStages[i] : i \in 1..stage}

\* What the stages of cleanup() release, in their order.
CleanupStages == <<"sensors", "interface", "ego", "provider">>

Init ==
  /\ phase = "initialize"
  /\ stage = 0
  /\ passed = 0 /\ released = {} /\ raised = {}
  /\ ros = 0 /\ current = 0
  /\ latest = None
  /\ worldTicks = 0
  /\ frames = <<>>
  /\ tag = [time |-> 0, micro |-> 0]
  /\ sensorTick = FALSE
  /\ control = None

\* The tag at which a value sent at tag t over a connection `after 0` arrives.
AfterZero(t) == [t EXCEPT !.micro = @ + 1]

-----------------------------------------------------------------------------
\* A control command arrives on the thread of the ROS interface, until the
\* interface is shut down.
RosCommand ==
  /\ phase # "over"
  /\ "interface" \in Made \ released
  /\ ros < MaxCommands
  /\ ros' = ros + 1
  /\ UNCHANGED <<lifeVars, loopVars>>

\* One numbered step of initialize(), called by Carla's startup reaction.
InitializeStep ==
  /\ phase = "initialize"
  /\ stage < Len(InitStages)
  /\ stage' = stage + 1
  /\ UNCHANGED <<phase, cleanupVars, ros, loopVars>>

\* A step of initialize() raises (no map, no free spawn point, no sensors),
\* before or after it has created something.  Nothing catches it; the runtime
\* may or may not run the shutdown reactions before the process ends.
InitializeFails ==
  /\ phase = "initialize"
  /\ phase' \in {"cleanup", "over"}
  /\ \/ UNCHANGED stage
     \/ stage < Len(InitStages) /\ stage' = stage + 1
  /\ UNCHANGED <<cleanupVars, ros, loopVars>>

-----------------------------------------------------------------------------
\* step() with c the control to apply, and t calls of world.tick().  The ROS
\* interface's run_step() returns the last command it has received, the
\* control of the next step.
Step(c, t) ==
  /\ frames' = Append(frames, [applied |-> c, read |-> ros])
  /\ current' = ros
  /\ worldTicks' = worldTicks + t

\* The end of the startup tag: the initial world.tick() of initialize(), the
\* first step(), sensor_tick.set, and ControlBridge's startup reaction.
FirstStep ==
  /\ phase = "initialize"
  /\ stage = Len(InitStages)
  /\ phase' = "loop"
  /\ tag' = tag
  /\ Step(current, 2)
  /\ sensorTick' = TRUE
  /\ latest' = None
  /\ UNCHANGED <<stage, cleanupVars, ros, control>>

\* Mutated form of ControlReact: a control is forwarded only if there is one.
ControlReactWhenSet ==
  /\ phase = "loop"
  /\ sensorTick
  /\ sensorTick' = FALSE
  /\ control' = IF latest = None THEN None ELSE [value |-> latest, tag |-> AfterZero(tag)]
  /\ UNCHANGED <<lifeVars, ros, current, latest, worldTicks, frames, tag>>

\* ControlBridge's reaction to sensor_tick; control_cmd is connected `after 0`.
ControlReact ==
  /\ phase = "loop"
  /\ sensorTick
  /\ sensorTick' = FALSE
  /\ control' = [value |-> latest, tag |-> AfterZero(tag)]
  /\ UNCHANGED <<lifeVars, ros, current, latest, worldTicks, frames, tag>>

\* Mutated form of CarlaReact: None is applied like any other control.
CarlaReactUnguarded ==
  /\ phase = "loop"
  /\ control # None
  /\ Len(frames) < MaxFrames
  /\ tag' = control.tag
  /\ Step(control.value, 1)
  /\ control' = None
  /\ sensorTick' = TRUE
  /\ UNCHANGED <<lifeVars, ros, latest>>

\* Mutated form of CarlaReact: a step that fails is tried again.
CarlaReactTwice ==
  /\ phase = "loop"
  /\ control # None
  /\ Len(frames) < MaxFrames
  /\ tag' = control.tag
  /\ Step(IF control.value = None THEN current ELSE control.value, 1)
  /\ sensorTick' = TRUE
  /\ control' = None \/ UNCHANGED control
  /\ UNCHANGED <<lifeVars, ros, latest>>

\* Carla's reaction to control_cmd: apply_control unless it is None, step(),
\* sensor_tick.set.
CarlaReact ==
  /\ phase = "loop"
  /\ control # None
  /\ Len(frames) < MaxFrames
  /\ tag' = control.tag
  /\ Step(IF control.value = None THEN current ELSE control.value, 1)
  /\ control' = None
  /\ sensorTick' = TRUE
  /\ UNCHANGED <<lifeVars, ros, latest>>

-----------------------------------------------------------------------------
\* The program is stopped: Carla's shutdown reaction calls cleanup().  An
\* event left for the last tag may be handled before it, or be discarded.
Shutdown ==
  /\ phase = "loop"
  /\ phase' = "cleanup"
  /\ UNCHANGED <<stage, cleanupVars, ros, loopVars>>

\* step() raises: the simulator does not answer in time, or a sensor's data
\* does not come.
StepFails ==
  /\ phase = "loop"
  /\ control # None
  /\ phase' \in {"cleanup", "over"}
  /\ worldTicks' \in {worldTicks, worldTicks + 1}
  /\ UNCHANGED <<stage, cleanupVars, ros, current, latest, frames, tag, sensorTick, control>>

\* Mutated form of CleanupStage: an exception leaves cleanup().
CleanupStageUnguarded ==
  /\ phase = "cleanup"
  /\ passed < Len(CleanupStages)
  /\ passed' = passed + 1
  /\ LET object == CleanupStages[passed + 1]
     IN  \/ /\ object \notin Made \cup {"provider"}
            /\ UNCHANGED <<phase, released, raised>>
         \/ /\ object \in Made \cup {"provider"}
            /\ released' = released \cup {object}
            /\ UNCHANGED <<phase, raised>>
         \/ /\ object \in Made \cup {"provider"}
            /\ raised' = raised \cup {object}
            /\ phase' = "over"
            /\ UNCHANGED released
  /\ UNCHANGED <<stage, ros, loopVars>>

\* A stage of cleanup(): it is skipped if initialize() has not made its object
\* (the data provider is a class, always there); else the object is released,
\* or an exception is printed, and in any case the next stage follows.
CleanupStage ==
  /\ phase = "cleanup"
  /\ passed < Len(CleanupStages)
  /\ passed' = passed + 1
  /\ LET object == CleanupStages[passed + 1]
     IN  \/ /\ object \notin Made \cup {"provider"}
            /\ UNCHANGED <<released, raised>>
         \/ /\ object \in Made \cup {"provider"}
            /\ released' = released \cup {object}
            /\ UNCHANGED raised
         \/ /\ object \in Made \cup {"provider"}
            /\ raised' = raised \cup {object}
            /\ UNCHANGED released
  /\ UNCHANGED <<phase, stage, ros, loopVars>>

CleanupEnds ==
  /\ phase = "cleanup"
  /\ passed = Len(CleanupStages)
  /\ phase' = "over"
  /\ UNCHANGED <<stage, cleanupVars, ros, loopVars>>

Ended ==
  /\ phase = "over"
  /\ UNCHANGED vars

Next ==
  \/ RosCommand
  \/ InitializeStep \/ InitializeFails \/ FirstStep
  \/ ControlReact \/ CarlaReact
  \/ StepFails \/ Shutdown
  \/ CleanupStage \/ CleanupEnds \/ Ended

Spec == Init /\ [][Next]_vars

\* The worker thread runs what is triggered and cleanup() runs to its end.
\* Commands, failures and the shutdown need not happen.
Fairness ==
  /\ WF_vars(InitializeStep) /\ WF_vars(FirstStep)
  /\ WF_vars(ControlReact) /\ WF_vars(CarlaReact)
  /\ WF_vars(CleanupStage) /\ WF_vars(CleanupEnds)

FairSpec == Spec /\ Fairness
-----------------------------------------------------------------------------
Frame == [applied : Nat, read : Nat]

TypeOK ==
  /\ phase \in {"initialize", "loop", "cleanup", "over"}
  /\ stage \in Nat
  /\ passed \in Nat
  /\ released \cup raised \subseteq {"sensors", "interface", "ego", "provider"}
  /\ ros \in Nat /\ current \in Nat
  /\ worldTicks \in Nat
  /\ frames \in Seq(Frame)
  /\ tag \in Tag
  /\ sensorTick \in BOOLEAN
  /\ control \in Message \cup {None}

(***************************************************************************)
(* Every frame applies exactly the command that was the ROS interface's    *)
(* last one when the frame before it ended, the first frame the neutral    *)
(* control: four assignments in two reactors and the bridge, and a thread  *)
(* that receives commands in between, neither lose nor repeat a step.      *)
(***************************************************************************)
OneFrameLate ==
  \A n \in DOMAIN frames :
    frames[n].applied = IF n = 1 THEN 0 ELSE frames[n - 1].read

\* The loop holds exactly one token, so the simulator is ticked once per tag,
\* plus once at the start: either ControlBridge has a sensor_tick to answer or
\* one control_cmd is on its way, to the next microstep.
LockStep ==
  phase = "loop" =>
    /\ sensorTick <=> control = None
    /\ control # None => control.tag = AfterZero(tag)
    /\ Len(frames) > 0
    /\ worldTicks = Len(frames) + 1
    /\ tag = [time |-> 0, micro |-> Len(frames) - 1]

\* Before the first frame nothing has moved.
BeforeLoop ==
  phase = "initialize" =>
    frames = <<>> /\ current = 0 /\ control = None /\ ~sensorTick
      /\ worldTicks = 0 /\ tag = [time |-> 0, micro |-> 0]

\* The bridge holds what the last run_step() returned, and ControlBridge
\* nothing that could replace it.
CurrentIsLastRead ==
  /\ frames # <<>> => current = frames[Len(frames)].read
  /\ latest = None
  /\ control # None => control.value = None

(***************************************************************************)
(* The two reactors run in lock step with the simulator, and between two   *)
(* tags the control to apply is in exactly one place.                      *)
(***************************************************************************)
LoopInv ==
  /\ TypeOK
  /\ BeforeLoop
  /\ LockStep
  /\ CurrentIsLastRead

(***************************************************************************)
(* The simulation never stalls: each frame is followed by another one,     *)
(* unless the program stops.                                               *)
(***************************************************************************)
SimulationAdvances ==
  \A n \in 0..MaxFrames - 1 :
    (phase \in {"initialize", "loop"} /\ Len(frames) = n)
      ~> (Len(frames) > n \/ phase \in {"cleanup", "over"})

(***************************************************************************)
(* A startup may fail after any of its steps, and so may any stage of the  *)
(* cleanup.  When the program ends by way of cleanup(), exactly what       *)
(* initialize() had made, and the data provider, has been released or has  *)
(* raised an exception; and the vehicle is not destroyed before the        *)
(* sensors on it and the ROS interface that drives it have had their turn. *)
(***************************************************************************)
CleanupReleases ==
  /\ phase = "over" /\ passed > 0 =>
       released \cup raised = (Made \cup {"provider"}) \cap {"sensors", "interface", "ego", "provider"}
  /\ released \cap raised = {}
  /\ "ego" \in released \cup raised =>
       Made \cap {"sensors", "interface"} \subseteq released \cup raised

\* Why: what the stages that are over have released or failed to is what
\* there was of theirs, and initialize() makes no more.
Passed == {CleanupStages[i] : i \in 1..passed}

CleanupInv ==
  /\ stage \in Nat /\ passed \in 0..Len(CleanupStages)
  /\ released \cup raised = (Made \cup {"provider"}) \cap Passed
  /\ released \cap raised = {}
  /\ phase \in {"initialize", "loop"} => passed = 0
  /\ phase = "over" => passed \in {0, Len(CleanupStages)}

=============================================================================
