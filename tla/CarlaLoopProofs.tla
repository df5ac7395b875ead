-------------------------- MODULE CarlaLoopProofs ---------------------------
(***************************************************************************)
(* Proofs about CarlaLoop, for any bounds and with or without traffic:     *)
(* LoopInv is inductive, OneFrameLate follows along with it, and cleanup() *)
(* releases what was made, however the startup and its stages fail.        *)
(***************************************************************************)
EXTENDS CarlaLoop, TLAPS

\* What step() leaves in the history and the bridge, whatever its arguments.
LEMMA StepAppends ==
  ASSUME TypeOK, NEW c \in Nat, NEW t \in Nat, Step(c, t)
  PROVE  /\ frames' \in Seq(Frame)
         /\ current' \in Nat
         /\ worldTicks' \in Nat
         /\ Len(frames') = Len(frames) + 1
         /\ DOMAIN frames' = 1..Len(frames) + 1
         /\ \A n \in DOMAIN frames : frames'[n] = frames[n]
         /\ frames'[Len(frames')].applied = c
         /\ current' = frames'[Len(frames')].read
<1> DEFINE f == [applied |-> c, read |-> ros]
<1>1. f \in Frame
  BY DEF TypeOK, Frame
<1>2. frames \in Seq(Frame) /\ frames' = Append(frames, f)
  BY DEF TypeOK, Step
<1>3. current' = f.read /\ f.applied = c
  BY DEF Step
<1>4. current' \in Nat /\ worldTicks' \in Nat
  BY DEF Step, TypeOK
<1> HIDE DEF f
<1>5. QED
  BY <1>1, <1>2, <1>3, <1>4

\* The control that CarlaReact applies.
LEMMA ReactStep ==
  ASSUME LoopInv, CarlaReact
  PROVE  /\ Step(current, 1)
         /\ tag' = AfterZero(tag)
         /\ tag' \in Tag
<1>1. control.value = None /\ control.tag = AfterZero(tag)
  BY DEF CarlaReact, LoopInv, LockStep, CurrentIsLastRead
<1>2. AfterZero(tag) \in Tag
  BY DEF AfterZero, Tag, LoopInv, TypeOK
<1>3. QED
  BY <1>1, <1>2 DEF CarlaReact

-----------------------------------------------------------------------------
LEMMA LoopInit == Init => LoopInv /\ OneFrameLate
<1> SUFFICES ASSUME Init
             PROVE  LoopInv /\ OneFrameLate
  OBVIOUS
<1>1. TypeOK
  <2>1. tag \in Tag
    BY DEF Init, Tag
  <2>2. frames \in Seq(Frame)
    BY DEF Init
  <2>3. sensorTick \in BOOLEAN
    BY DEF Init
  <2>4. QED
    BY <2>1, <2>2, <2>3 DEF Init, TypeOK
<1>2. BeforeLoop
  BY DEF Init, BeforeLoop
<1>3. LockStep /\ CurrentIsLastRead /\ OneFrameLate
  BY DEF Init, LockStep, CurrentIsLastRead, OneFrameLate
<1>4. QED
  BY <1>1, <1>2, <1>3 DEF LoopInv

\* The two steps that call step(), and the one that sets control_cmd.
LEMMA FirstStepInductive ==
  ASSUME LoopInv, OneFrameLate, FirstStep
  PROVE  LoopInv' /\ OneFrameLate'
<1>1. Step(0, 2) /\ tag' \in Tag /\ frames = <<>> /\ worldTicks = 0 /\ control = None
      /\ tag = [time |-> 0, micro |-> 0] /\ TypeOK
  BY DEF LoopInv, FirstStep, BeforeLoop, TypeOK
<1>2. /\ frames' \in Seq(Frame) /\ current' \in Nat /\ worldTicks' \in Nat
      /\ Len(frames') = Len(frames) + 1 /\ DOMAIN frames' = 1..Len(frames) + 1
      /\ frames'[Len(frames')].applied = 0 /\ current' = frames'[Len(frames')].read
  <2>1. None \in Nat \cup {None} /\ 0 \in Nat /\ 2 \in Nat
    OBVIOUS
  <2>2. QED
    BY <1>1, <2>1, StepAppends
<1>3. Len(frames') = 1 /\ DOMAIN frames' = 1..1 /\ frames' # <<>>
  <2>1. Len(frames) = 0
    BY <1>1
  <2>2. Len(frames') = 1 /\ DOMAIN frames' = 1..1
    BY <1>2, <2>1
  <2>3. frames' # <<>>
    BY <2>2
  <2>4. QED
    BY <2>2, <2>3
<1>4. phase' = "loop" /\ tag' = tag /\ sensorTick' = TRUE /\ control' = None /\ latest' = None
      /\ worldTicks' = 2 /\ stage' = stage /\ UNCHANGED cleanupVars /\ ros' = ros
  BY <1>1 DEF FirstStep, Step
<1>5. TypeOK'
  BY <1>1, <1>2, <1>4 DEF TypeOK, cleanupVars
<1>6. BeforeLoop' /\ LockStep'
  <2>1. Len(frames') > 0 /\ worldTicks' = Len(frames') + 1 /\ Len(frames') - 1 = 0
    BY <1>3, <1>4
  <2>2. tag' = [time |-> 0, micro |-> Len(frames') - 1]
    BY <1>1, <1>4, <2>1
  <2>3. (sensorTick <=> control = None)' /\ (control # None => control.tag = AfterZero(tag))'
    BY <1>4
  <2>4. BeforeLoop'
    BY <1>4 DEF BeforeLoop
  <2>5. LockStep'
    BY <2>1, <2>2, <2>3 DEF LockStep
  <2>6. QED
    BY <2>4, <2>5
<1>7. CurrentIsLastRead' /\ OneFrameLate'
  <2>1. CurrentIsLastRead'
    BY <1>2, <1>4 DEF CurrentIsLastRead
  <2>2. frames'[1].applied = 0
    BY <1>2, <1>3
  <2>3. OneFrameLate'
    BY <1>3, <2>2 DEF OneFrameLate
  <2>4. QED
    BY <2>1, <2>3
<1>8. QED
  BY <1>5, <1>6, <1>7 DEF LoopInv

LEMMA CarlaReactInductive ==
  ASSUME LoopInv, OneFrameLate, CarlaReact
  PROVE  LoopInv' /\ OneFrameLate'
<1>1. /\ Step(current, 1) /\ tag' = AfterZero(tag) /\ tag' \in Tag
      /\ TypeOK /\ phase = "loop" /\ current \in Nat /\ Len(frames) \in Nat /\ Len(frames) > 0
      /\ tag = [time |-> 0, micro |-> Len(frames) - 1]
      /\ current = frames[Len(frames)].read
  BY ReactStep DEF LoopInv, CarlaReact, LockStep, CurrentIsLastRead, TypeOK
<1>2. /\ frames' \in Seq(Frame) /\ current' \in Nat /\ worldTicks' \in Nat
      /\ Len(frames') = Len(frames) + 1 /\ DOMAIN frames' = 1..Len(frames) + 1
      /\ \A n \in DOMAIN frames : frames'[n] = frames[n]
      /\ frames'[Len(frames')].applied = current /\ current' = frames'[Len(frames')].read
  <2>1. None \in Nat \cup {None} /\ 1 \in Nat
    OBVIOUS
  <2>2. QED
    BY <1>1, <2>1, StepAppends
<1>3. phase' = "loop" /\ sensorTick' = TRUE /\ control' = None /\ latest' = None
      /\ worldTicks' = worldTicks + 1 /\ stage' = stage /\ UNCHANGED cleanupVars /\ ros' = ros
  BY <1>1 DEF CarlaReact, Step, LoopInv, CurrentIsLastRead, lifeVars
<1>4. TypeOK'
  BY <1>1, <1>2, <1>3 DEF TypeOK, cleanupVars
<1>5. tag' = [time |-> 0, micro |-> Len(frames')  - 1] /\ worldTicks' = Len(frames') + 1
  BY <1>1, <1>2, <1>3 DEF AfterZero, LoopInv, LockStep, TypeOK
<1>6. BeforeLoop' /\ LockStep'
  BY <1>1, <1>2, <1>3, <1>5 DEF BeforeLoop, LockStep
<1>7. CurrentIsLastRead'
  BY <1>1, <1>2, <1>3 DEF CurrentIsLastRead
<1>8. OneFrameLate'
  <2> SUFFICES ASSUME NEW n \in DOMAIN frames'
               PROVE  frames'[n].applied = IF n = 1 THEN 0 ELSE frames'[n - 1].read
    BY DEF OneFrameLate
  <2>1. DOMAIN frames = 1..Len(frames)
    BY DEF LoopInv, TypeOK
  <2>2. CASE n \in DOMAIN frames
    BY <1>2, <2>1, <2>2 DEF OneFrameLate
  <2>3. CASE n = Len(frames')
    BY <1>1, <1>2, <2>1, <2>3
  <2>4. QED
    BY <1>2, <2>1, <2>2, <2>3
<1>9. QED
  BY <1>4, <1>6, <1>7, <1>8 DEF LoopInv

LEMMA ControlReactInductive ==
  ASSUME LoopInv, OneFrameLate, ControlReact
  PROVE  LoopInv' /\ OneFrameLate'
<1> DEFINE m == [value |-> latest, tag |-> AfterZero(tag)]
<1>1. latest = None /\ TypeOK /\ LockStep /\ phase = "loop"
  BY DEF LoopInv, CurrentIsLastRead, ControlReact
<1>2. m \in Message /\ m.value = None /\ m.tag = AfterZero(tag) /\ AfterZero(tag) \in Tag
  BY <1>1 DEF Message, TypeOK, AfterZero, Tag
<1>3. None \notin Message
  BY CarlaAssumption
<1>4. control' = m /\ sensorTick' = FALSE
      /\ UNCHANGED <<lifeVars, ros, current, latest, worldTicks, frames, tag>>
  BY DEF ControlReact
<1> HIDE DEF m
<1>5. control' # None
  BY <1>2, <1>3, <1>4
<1>6. TypeOK'
  BY <1>1, <1>2, <1>4 DEF TypeOK, lifeVars, cleanupVars
<1>7. BeforeLoop' /\ OneFrameLate' /\ CurrentIsLastRead'
  BY <1>1, <1>2, <1>4 DEF BeforeLoop, OneFrameLate, lifeVars, LoopInv, CurrentIsLastRead
<1>8. LockStep'
  BY <1>1, <1>2, <1>4, <1>5 DEF LockStep, lifeVars, AfterZero
<1>9. QED
  BY <1>6, <1>7, <1>8 DEF LoopInv

\* The steps outside the loop, and the arrival of a command, leave it alone.
LEMMA OtherStepInductive ==
  ASSUME LoopInv, OneFrameLate,
         \/ RosCommand \/ InitializeStep \/ InitializeFails \/ StepFails \/ Shutdown
         \/ CleanupStage \/ CleanupEnds \/ Ended \/ UNCHANGED vars
  PROVE  LoopInv' /\ OneFrameLate'
<1>1. UNCHANGED <<current, latest, frames, tag, sensorTick, control>>
  BY DEF RosCommand, InitializeStep, InitializeFails, StepFails, Shutdown, CleanupStage,
         CleanupEnds, Ended, vars, loopVars
<1>2. stage' \in Nat
  BY DEF RosCommand, InitializeStep, InitializeFails, StepFails, Shutdown, CleanupStage,
         CleanupEnds, Ended, vars, lifeVars, LoopInv, TypeOK
<1>3. /\ passed' \in Nat
      /\ (released \cup raised)' \subseteq {"sensors", "interface", "ego", "provider"}
  <2>1. passed \in Nat /\ released \cup raised \subseteq {"sensors", "interface", "ego", "provider"}
    BY DEF LoopInv, TypeOK
  <2>2. CASE CleanupStage
    <3>1. CleanupStages[passed + 1] \in {"sensors", "interface", "ego", "provider"}
      BY <2>1, <2>2 DEF CleanupStage, CleanupStages
    <3>2. QED
      BY <2>1, <2>2, <3>1 DEF CleanupStage
  <2>3. CASE ~CleanupStage
    <3>1. UNCHANGED cleanupVars
      BY <2>3 DEF RosCommand, InitializeStep, InitializeFails, StepFails, Shutdown,
                  CleanupEnds, Ended, vars, lifeVars, cleanupVars
    <3>2. QED
      BY <2>1, <3>1 DEF cleanupVars
  <2>4. QED
    BY <2>2, <2>3
<1>4. /\ phase' \in {"initialize", "loop", "cleanup", "over"}
      /\ phase' = "initialize" \/ phase' = "loop" => phase' = phase /\ worldTicks' = worldTicks
  BY DEF RosCommand, InitializeStep, InitializeFails, StepFails, Shutdown, CleanupStage,
         CleanupEnds, Ended, vars, lifeVars, loopVars, LoopInv, TypeOK
<1>5. ros' \in Nat /\ worldTicks' \in Nat
  BY DEF RosCommand, InitializeStep, InitializeFails, StepFails, Shutdown, CleanupStage,
         CleanupEnds, Ended, vars, lifeVars, loopVars, LoopInv, TypeOK
<1>6. TypeOK'
  BY <1>1, <1>2, <1>3, <1>4, <1>5 DEF LoopInv, TypeOK
<1>7. BeforeLoop' /\ LockStep' /\ CurrentIsLastRead' /\ OneFrameLate'
  BY <1>1, <1>4 DEF LoopInv, BeforeLoop, LockStep, CurrentIsLastRead, OneFrameLate
<1>8. QED
  BY <1>6, <1>7 DEF LoopInv

-----------------------------------------------------------------------------
(***************************************************************************)
(* Carla, ControlBridge and the simulator run in lock step: one token in   *)
(* the loop, one world tick per tag, and the command last read in the      *)
(* bridge.                                                                 *)
(***************************************************************************)
THEOREM LoopInvariant == Spec => [](LoopInv /\ OneFrameLate)
<1>1. Init => LoopInv /\ OneFrameLate
  BY LoopInit
<1>2. (LoopInv /\ OneFrameLate) /\ [Next]_vars => (LoopInv /\ OneFrameLate)'
  BY FirstStepInductive, CarlaReactInductive, ControlReactInductive, OtherStepInductive DEF Next
<1>3. QED
  BY <1>1, <1>2, PTL DEF Spec

(***************************************************************************)
(* The control a frame applies is the one read at the end of the frame     *)
(* before it, however commands arrive in between.                          *)
(***************************************************************************)
THEOREM AppliedOneFrameLate == Spec => []OneFrameLate
  BY LoopInvariant, PTL

\* The steps outside cleanup() leave its variables alone.
LEMMA CleanupUntouched ==
  ASSUME Next, ~CleanupStage, ~CleanupEnds
  PROVE  /\ UNCHANGED cleanupVars
         /\ phase' \in {"initialize", "loop"} => phase \in {"initialize", "loop"}
         /\ phase' = "over" => phase \in {"initialize", "loop", "over"}
         /\ \/ stage' = stage
            \/ phase = "initialize" /\ stage < Len(InitStages) /\ stage' = stage + 1
BY DEF Next, RosCommand, InitializeStep, InitializeFails, FirstStep, ControlReact, CarlaReact,
       StepFails, Shutdown, Ended, vars, lifeVars, cleanupVars

\* A stage of cleanup() adds its object to what the stages before it had.
LEMMA StageKeepsInv ==
  ASSUME CleanupInv, CleanupStage
  PROVE  CleanupInv'
<1> DEFINE o == CleanupStages[passed + 1]
<1>1. /\ passed \in 0..3 /\ passed' = passed + 1 /\ stage' = stage /\ phase' = phase
      /\ phase = "cleanup" /\ Made' = Made /\ Len(CleanupStages) = 4
  BY DEF CleanupStage, CleanupInv, CleanupStages, Made
<1>2. 1..passed' = (1..passed) \cup {passed + 1}
  BY <1>1
<1>3. Passed' = Passed \cup {o}
  BY <1>1, <1>2 DEF Passed
<1>4. o \notin Passed
  BY <1>1 DEF Passed, CleanupStages
<1>5. /\ released \cup raised = (Made \cup {"provider"}) \cap Passed
      /\ released \cap raised = {}
  BY DEF CleanupInv
<1>6. \/ o \notin Made \cup {"provider"} /\ released' = released /\ raised' = raised
      \/ o \in Made \cup {"provider"} /\ released' = released \cup {o} /\ raised' = raised
      \/ o \in Made \cup {"provider"} /\ released' = released /\ raised' = raised \cup {o}
  BY DEF CleanupStage
<1> HIDE DEF o
<1>7. /\ (released \cup raised)' = (Made' \cup {"provider"}) \cap Passed'
      /\ (released \cap raised)' = {}
  BY <1>1, <1>3, <1>4, <1>5, <1>6
<1>8. QED
  BY <1>1, <1>7 DEF CleanupInv

\* What the stages that are over can have released, in their order.
LEMMA InvGivesReleases == CleanupInv => CleanupReleases
<1> SUFFICES ASSUME CleanupInv
             PROVE  CleanupReleases
  OBVIOUS
<1> DEFINE All == {"sensors", "interface", "ego", "provider"}
<1>1. /\ released \cup raised = (Made \cup {"provider"}) \cap Passed
      /\ released \cap raised = {} /\ passed \in 0..4
      /\ phase = "over" => passed \in {0, 4}
  BY DEF CleanupInv, CleanupStages
<1>2. passed = 4 => Passed = All
  BY DEF Passed, CleanupStages
<1>3. "ego" \in Passed => {"sensors", "interface"} \subseteq Passed
  <2>1. CASE passed < 3
    BY <1>1, <2>1 DEF Passed, CleanupStages
  <2>2. CASE passed >= 3
    <3>1. 1 \in 1..passed /\ 2 \in 1..passed
      BY <1>1, <2>2
    <3>2. QED
      BY <3>1 DEF Passed, CleanupStages
  <2>3. QED
    BY <1>1, <2>1, <2>2
<1>4. QED
  BY <1>1, <1>2, <1>3 DEF CleanupReleases

(***************************************************************************)
(* However far initialize() came and whichever stages of cleanup() raise,  *)
(* a program that ends by way of cleanup() has released, or printed an     *)
(* exception for, exactly what it had made, the vehicle after its sensors  *)
(* and interface.                                                          *)
(***************************************************************************)
THEOREM CleanupCompletes == Spec => []CleanupReleases
<1>1. Init => CleanupInv
  BY DEF Init, CleanupInv, CleanupStages, Passed, Made
<1>2. CleanupInv /\ [Next]_vars => CleanupInv'
  <2> SUFFICES ASSUME CleanupInv, [Next]_vars
               PROVE  CleanupInv'
    OBVIOUS
  <2>1. CASE CleanupStage
    BY <2>1, StageKeepsInv
  <2>2. CASE CleanupEnds
    BY <2>2 DEF CleanupEnds, CleanupInv, cleanupVars, Made, Passed
  <2>3. CASE UNCHANGED vars
    BY <2>3 DEF vars, CleanupInv, Made, Passed
  <2>4. CASE Next /\ ~CleanupStage /\ ~CleanupEnds
    <3>1. CASE stage' = stage
      BY <2>4, <3>1, CleanupUntouched DEF CleanupInv, cleanupVars, Made, Passed
    <3>2. CASE phase = "initialize" /\ stage' = stage + 1
      <4>1. Passed = {} /\ Passed' = {}
        BY <2>4, <3>2, CleanupUntouched DEF CleanupInv, cleanupVars, Passed
      <4>2. QED
        BY <2>4, <3>2, <4>1, CleanupUntouched DEF CleanupInv, cleanupVars
    <3>3. QED
      BY <2>4, <3>1, <3>2, CleanupUntouched
  <2>5. QED
    BY <2>1, <2>2, <2>3, <2>4
<1>3. QED
  BY <1>1, <1>2, InvGivesReleases, PTL DEF Spec
=============================================================================
