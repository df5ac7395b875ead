------------------------- MODULE WrappedNodesProofs -------------------------
(***************************************************************************)
(* What holds of the wrapped nodes of every program: any set of wrappers   *)
(* in one process, with any timers, inputs and parameter files.            *)
(***************************************************************************)
EXTENDS WrappedNodes, TLAPS

\* What the proofs use of a wrapper.
LEMMA WrapperFacts ==
  ASSUME TypeOK, NEW w \in wrappers
  PROVE  /\ w.cancels \in BOOLEAN
         /\ w.mayGiveUp => ~Reacts(w)
         /\ Reacts(w) => HasNode(w)
         /\ HasNode(w) => w.host # "nothing"
BY ProgramAssumption DEF TypeOK, WellFormed, Reacts, HasNode

\* The part of NodeInv that is about one wrapper.
WrapperInv(w) ==
  /\ startup[w] \in {"constructed", "cancelled", "handed"} /\ HasNode(w) => "reactor" \in owners[w]
  /\ startup[w] = "returned" /\ Reacts(w) => "reactor" \in owners[w]
  /\ startup[w] = "cancelled" => ~armed[w]
  /\ spinner[w] # "none" =>
       /\ startup[w] \in {"handed", "returned"}
       /\ w.cancels => ~armed[w]
       /\ HasNode(w) => "reactor" \in owners[w]
  /\ w.cancels => spinner[w] # "timer"
  /\ worker[w] = "reacting" => Reacts(w) /\ startup[w] = "returned"

\* A step of a wrapper keeps the types.
LEMMA TypeStep ==
  ASSUME TypeOK, UNCHANGED program, NEW w \in wrappers,
         Startup(w) \/ Spin(w) \/ React(w) \/ ReactionReturns(w)
  PROVE  TypeOK'
<1> USE DEF TypeOK, program, Owner, Place
<1>1. CASE LoadOptions(w) BY <1>1 DEF LoadOptions, StartupGoes
<1>2. CASE LoadFails(w) BY <1>2 DEF LoadFails
<1>2a. CASE HomeUnset(w) BY <1>2a DEF HomeUnset
<1>3. CASE ReturnsWithoutNode(w) BY <1>3 DEF ReturnsWithoutNode, StartupGoes
<1>4. CASE ConstructNode(w) BY <1>4 DEF ConstructNode, StartupGoes
<1>5. CASE ConstructionThrows(w) BY <1>5 DEF ConstructionThrows
<1>6. CASE CancelTimer(w) BY <1>6 DEF CancelTimer, StartupGoes
<1>7. CASE StartSpinner(w) BY <1>7 DEF StartSpinner, Spawn, StartupGoes
<1>8. CASE ReturnFromStartup(w) BY <1>8 DEF ReturnFromStartup, StartupGoes
<1>9. CASE SpinnerBegins(w) BY <1>9 DEF SpinnerBegins, SpinnerGoes
<1>10. CASE SpinSome(w) BY <1>10 DEF SpinSome, SpinnerGoes
<1>11. CASE SpinnerCallbackReturns(w) BY <1>11 DEF SpinnerCallbackReturns, SpinnerGoes
<1>12. CASE SpinnerEnds(w) BY <1>12 DEF SpinnerEnds, SpinnerGoes
<1>13. CASE React(w) BY <1>13 DEF React
<1>14. CASE ReactionReturns(w) BY <1>14 DEF ReactionReturns
<1> QED
  BY <1>1, <1>2, <1>2a, <1>3, <1>4, <1>5, <1>6, <1>7, <1>8, <1>9, <1>10, <1>11, <1>12, <1>13, <1>14
  DEF Startup, Spin

\* A step of a wrapper leaves the others alone: whoever is concerned, the
\* wrapper itself or another, keeps its part of the invariant.
LEMMA WrapperStep ==
  ASSUME TypeOK, NEW w \in wrappers, NEW v \in wrappers, WrapperInv(v),
         Startup(w) \/ Spin(w) \/ React(w) \/ ReactionReturns(w)
  PROVE  WrapperInv(v)'
<1>0. /\ v.cancels \in BOOLEAN
      /\ v.mayGiveUp => ~Reacts(v)
      /\ Reacts(v) => HasNode(v)
      /\ HasNode(v) => v.host # "nothing"
  BY WrapperFacts
<1> USE DEF WrapperInv, TypeOK
<1>1. CASE LoadOptions(w) BY <1>1 DEF LoadOptions, StartupGoes
<1>2. CASE LoadFails(w) BY <1>2 DEF LoadFails
<1>2a. CASE HomeUnset(w) BY <1>2a DEF HomeUnset
<1>3. CASE ReturnsWithoutNode(w) BY <1>0, <1>3 DEF ReturnsWithoutNode, StartupGoes
<1>4. CASE ConstructNode(w) BY <1>4 DEF ConstructNode, StartupGoes
<1>5. CASE ConstructionThrows(w) BY <1>5 DEF ConstructionThrows
<1>6. CASE CancelTimer(w) BY <1>6 DEF CancelTimer, StartupGoes
<1>7. CASE StartSpinner(w) BY <1>0, <1>7 DEF StartSpinner, Spawn, StartupGoes
<1>8. CASE ReturnFromStartup(w) BY <1>0, <1>8 DEF ReturnFromStartup, StartupGoes
<1>9. CASE SpinnerBegins(w) BY <1>9 DEF SpinnerBegins, SpinnerGoes
<1>10. CASE SpinSome(w) BY <1>10 DEF SpinSome, SpinnerGoes
<1>11. CASE SpinnerCallbackReturns(w) BY <1>11 DEF SpinnerCallbackReturns, SpinnerGoes
<1>12. CASE SpinnerEnds(w) BY <1>12 DEF SpinnerEnds, SpinnerGoes
<1>13. CASE React(w) BY <1>13 DEF React, AllStarted
<1>14. CASE ReactionReturns(w) BY <1>14 DEF ReactionReturns
<1> QED
  BY <1>1, <1>2, <1>2a, <1>3, <1>4, <1>5, <1>6, <1>7, <1>8, <1>9, <1>10, <1>11, <1>12, <1>13, <1>14
  DEF Startup, Spin

\* The invariant by itself: TypeOK and every wrapper's part.
LEMMA NodeInvByWrapper == NodeInv <=> TypeOK /\ \A w \in wrappers : WrapperInv(w)
BY DEF NodeInv, WrapperInv

LEMMA NodeInvStep == NodeInv /\ [Next]_vars => NodeInv'
<1> SUFFICES ASSUME NodeInv, [Next]_vars PROVE NodeInv'
  OBVIOUS
<1>0. TypeOK /\ \A w \in wrappers : WrapperInv(w)
  BY NodeInvByWrapper
<1>1. ASSUME NEW w \in wrappers, UNCHANGED program,
             Startup(w) \/ Spin(w) \/ React(w) \/ ReactionReturns(w)
      PROVE  NodeInv'
  <2>1. TypeOK'
    BY <1>0, <1>1, TypeStep
  <2>2. \A v \in wrappers : WrapperInv(v)'
    BY <1>0, <1>1, WrapperStep
  <2>3. wrappers' = wrappers
    BY <1>1 DEF program
  <2> QED
    BY <2>1, <2>2, <2>3 DEF NodeInv, WrapperInv
<1>2. CASE (Shutdown \/ ProgramEnds \/ UNCHANGED vars) /\ UNCHANGED program
  BY <1>2 DEF NodeInv, TypeOK, Shutdown, ProgramEnds, vars, program
<1> QED
  BY <1>1, <1>2 DEF Next, vars, program

(***************************************************************************)
(* The inductive invariant of the wrapped nodes, for every program.        *)
(***************************************************************************)
THEOREM NodeInvariant == Spec => []NodeInv
<1>1. Init => NodeInv
  BY DEF Init, NodeInv, TypeOK, Owner, Place
<1> QED
  BY <1>1, NodeInvStep, PTL DEF Spec

(***************************************************************************)
(* The spin thread never runs the callback that the wrapper runs from its  *)
(* LF timer.                                                               *)
(***************************************************************************)
THEOREM CancelledTimerIsLeftToLF == Spec => []TimerLeftToLF
<1>1. NodeInv => TimerLeftToLF
  BY DEF NodeInv, TimerLeftToLF
<1> QED
  BY <1>1, NodeInvariant, PTL

(***************************************************************************)
(* No callback uses a node that is gone.                                   *)
(***************************************************************************)
THEOREM NodesOutliveTheirCallbacks == Spec => []NodesOutliveCallbacks
<1>1. NodeInv => NodesOutliveCallbacks
  BY DEF NodeInv, NodesOutliveCallbacks, InCallback
<1> QED
  BY <1>1, NodeInvariant, PTL
=============================================================================
