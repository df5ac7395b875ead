--------------------------- MODULE MCTimerSchedule ----------------------------
(***************************************************************************)
(* A monolithic program with the vehicle command gate, the scenario         *)
(* selector and the velocity smoother, and two federates: the scenario     *)
(* selector and the velocity smoother.  The unit of time is 50 ms.         *)
(***************************************************************************)
EXTENDS TimerSchedule

CONSTANTS vcg, ss, vs, ss_fed, vs_fed
CONSTANTS mono, federate__ss, federate__vs

MCReactors == {vcg, ss, vs, ss_fed, vs_fed}
MCTimed == {vcg, ss, ss_fed}
MCPeriod == [r \in MCTimed |-> IF r = vcg THEN 1 ELSE 2]
MCProgram == [r \in MCReactors |-> CASE r = ss_fed -> federate__ss
                                     [] r = vs_fed -> federate__vs
                                     [] OTHER -> mono]
MCWires == {<<ss, vs>>}
=============================================================================
