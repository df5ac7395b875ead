----------------------- MODULE FederationStartupProofs -----------------------
(***************************************************************************)
(* The startup barrier and the launcher, for any set of federates and any  *)
(* connections between them.                                               *)
(***************************************************************************)
EXTENDS FederationStartup, TLAPS

\* What a step of the launcher does to what the federates share.
LEMMA LauncherFrame ==
  ASSUME Launcher
  PROVE  UNCHANGED <<served, open, proposals, agreed>>
  BY DEF Launcher, StartRti, RecordRti, Launch, RecordPid, RtiReturns, AllWaited,
         KillFederates, KillRti, startVars

\* And a step of a federate to what the launcher has.
LEMMA FederateFrame ==
  ASSUME NEW f \in Federates, Step(f) \/ Exit(f)
  PROVE  UNCHANGED launcherVars
  BY DEF Step, Preamble, ConnectToRti, CreateServer, ConnectToFederate, Propose, Start,
         LosesRti, Exit

LEMMA Frame ==
  ASSUME [Next]_vars
  PROVE  /\ served' = served \/ \E f \in Federates : served' = served \cup {f.id}
         /\ open' = open \/ \E f, g \in Federates : ConnectToFederate(f, g)
         /\ proposals' = proposals \/ \E f \in Federates : Propose(f)
         /\ agreed' = agreed \/ Agree
<1>1. CASE Launcher
  BY <1>1, LauncherFrame
<1>2. CASE Interrupt \/ RtiEnds \/ Settled \/ UNCHANGED vars
  BY <1>2 DEF Interrupt, RtiEnds, Settled, vars, startVars
<1>3. CASE Agree
  BY <1>3 DEF Agree
<1>4. ASSUME NEW f \in Federates, Step(f) \/ Exit(f)
      PROVE  /\ served' = served \/ \E g \in Federates : served' = served \cup {g.id}
             /\ open' = open \/ \E g \in Federates : ConnectToFederate(f, g)
             /\ proposals' = proposals \/ Propose(f)
             /\ agreed' = agreed
  <2>1. CASE ConnectToRti(f) \/ Start(f) \/ LosesRti(f) \/ Exit(f)
    BY <2>1 DEF ConnectToRti, Start, LosesRti, Exit
  <2>2. CASE CreateServer(f)
    BY <2>2 DEF CreateServer
  <2>3. CASE \E g \in Federates : ConnectToFederate(f, g)
    BY <2>3 DEF ConnectToFederate
  <2>4. CASE Propose(f)
    BY <2>4 DEF Propose
  <2>5. QED
    BY <1>4, <2>1, <2>2, <2>3, <2>4 DEF Step, Preamble
<1>5. QED
  BY <1>1, <1>2, <1>3, <1>4 DEF Next

\* Nothing that has been opened, proposed or agreed upon is taken back.
LEMMA Monotone ==
  ASSUME [Next]_vars
  PROVE  /\ open \subseteq open' /\ proposals \subseteq proposals' /\ served \subseteq served'
         /\ agreed => agreed'
<1>1. open \subseteq open'
  <2>1. ASSUME NEW f \in Federates, NEW g \in Federates, ConnectToFederate(f, g)
        PROVE  open \subseteq open'
    BY <2>1 DEF ConnectToFederate
  <2>2. QED
    BY <2>1, Frame
<1>2. proposals \subseteq proposals'
  <2>1. ASSUME NEW f \in Federates, Propose(f)
        PROVE  proposals \subseteq proposals'
    BY <2>1 DEF Propose
  <2>2. QED
    BY <2>1, Frame
<1>3. agreed => agreed'
  BY Frame DEF Agree
<1>4. served \subseteq served'
  BY Frame
<1>5. QED
  BY <1>1, <1>2, <1>3, <1>4

\* How a federate gets to its next phase.
LEMMA PhaseStep ==
  ASSUME TypeOK, [Next]_vars, NEW f \in Federates
  PROVE  \/ phase'[f] = phase[f]
         \/ Launch(f)
         \/ phase'[f] = "joined" /\ phase[f] = "launched"
         \/ CreateServer(f) /\ phase'[f] = "connecting"
         \/ Propose(f) /\ phase'[f] = "waiting"
         \/ Start(f) /\ phase'[f] = "running"
         \/ phase'[f] = "exited" /\ (phase[f] # "off" \/ f.id \in pids)
<1>1. ASSUME NEW g \in Federates, Step(g) \/ Exit(g)
      PROVE  \/ phase'[f] = phase[f]
             \/ phase'[f] = "joined" /\ phase[f] = "launched"
             \/ CreateServer(f) /\ phase'[f] = "connecting"
             \/ Propose(f) /\ phase'[f] = "waiting"
             \/ Start(f) /\ phase'[f] = "running"
             \/ phase'[f] = "exited" /\ phase[f] # "off"
  <2>1. CASE ConnectToRti(g) \/ CreateServer(g)
    <3>1. \/ phase[g] = "launched" /\ phase' = [phase EXCEPT ![g] = "joined"]
          \/ CreateServer(g) /\ phase' = [phase EXCEPT ![g] = "connecting"]
      BY <2>1 DEF ConnectToRti, CreateServer, Goto
    <3>2. QED
      BY <3>1 DEF TypeOK
  <2>2. CASE \E h \in Federates : ConnectToFederate(g, h)
    BY <2>2 DEF ConnectToFederate
  <2>3. CASE Propose(g)
    <3>1. phase' = [phase EXCEPT ![g] = "waiting"]
      BY <2>3 DEF Propose, Goto
    <3>2. QED
      BY <2>3, <3>1 DEF TypeOK
  <2>4. CASE Start(g)
    <3>1. phase' = [phase EXCEPT ![g] = "running"]
      BY <2>4 DEF Start, Goto
    <3>2. QED
      BY <2>4, <3>1 DEF TypeOK
  <2>5. CASE LosesRti(g) \/ Exit(g)
    BY <2>5 DEF TypeOK, LosesRti, Exit
  <2>6. QED
    BY <1>1, <2>1, <2>2, <2>3, <2>4, <2>5 DEF Step, Preamble
<1>2. CASE Launcher
  <2>1. ASSUME NEW g \in Federates, Launch(g)
        PROVE  phase'[f] = phase[f] \/ Launch(f)
    <3>1. phase' = [phase EXCEPT ![g] = "launched"]
      BY <2>1 DEF Launch, Goto
    <3>2. QED
      BY <2>1, <3>1 DEF TypeOK
  <2>2. CASE KillFederates
    BY <2>2 DEF KillFederates
  <2>3. CASE StartRti \/ RecordRti \/ RtiReturns \/ AllWaited \/ KillRti
    BY <2>3 DEF StartRti, RecordRti, RtiReturns, AllWaited, KillRti, startVars
  <2>4. ASSUME NEW g \in Federates, RecordPid(g)
        PROVE  phase' = phase
    BY <2>4 DEF RecordPid, startVars
  <2>5. QED
    BY <1>2, <2>1, <2>2, <2>3, <2>4 DEF Launcher
<1>3. CASE Interrupt \/ RtiEnds \/ Settled \/ Agree \/ UNCHANGED vars
  BY <1>3 DEF Interrupt, RtiEnds, Settled, Agree, vars, startVars
<1>4. QED
  BY <1>1, <1>2, <1>3 DEF Next

LEMMA TypeNext == TypeOK /\ [Next]_vars => TypeOK'
<1> SUFFICES ASSUME TypeOK, [Next]_vars
             PROVE  TypeOK'
  OBVIOUS
<1>1. phase' \in [Federates -> Phases]
  <2>1. CASE Launcher
    BY <2>1 DEF TypeOK, Launcher, StartRti, RecordRti, Launch, RecordPid, RtiReturns, AllWaited,
                KillFederates, KillRti, Goto, startVars, Phases
  <2>2. CASE ~Launcher
    BY <2>2 DEF TypeOK, Next, Step, Preamble, ConnectToRti, CreateServer, ConnectToFederate,
         Propose, Start, LosesRti, Exit, Agree, Interrupt, RtiEnds, Settled, Goto, vars,
         startVars, Phases
  <2>3. QED
    BY <2>1, <2>2
<1>2. /\ served' \subseteq Ids /\ open' \subseteq Ids \X Ids /\ proposals' \subseteq Ids
      /\ agreed' \in BOOLEAN
  <2>1. \A f \in Federates : f.id \in Ids
    BY DEF Ids
  <2>2. served' \subseteq Ids
    BY <2>1, Frame DEF TypeOK
  <2>3. open' \subseteq Ids \X Ids
    <3>1. ASSUME NEW f \in Federates, NEW g \in Federates, ConnectToFederate(f, g)
          PROVE  open' \subseteq Ids \X Ids
      <4>1. open' = open \cup {<<f.id, g.id>>}
        BY <3>1 DEF ConnectToFederate
      <4>2. QED
        BY <2>1, <4>1 DEF TypeOK
    <3>2. QED
      BY <3>1, Frame DEF TypeOK
  <2>4. proposals' \subseteq Ids
    <3>1. ASSUME NEW f \in Federates, Propose(f)
          PROVE  proposals' \subseteq Ids
      BY <2>1, <3>1 DEF Propose, TypeOK
    <3>2. QED
      BY <3>1, Frame DEF TypeOK
  <2>5. agreed' \in BOOLEAN
    BY Frame DEF TypeOK, Agree
  <2>6. QED
    BY <2>2, <2>3, <2>4, <2>5
<1>3. /\ rti' \in {"off", "up", "gone"} /\ launcher' \in LauncherSteps
      /\ pids' \subseteq Ids /\ rtiPid' \in BOOLEAN
  <2>1. CASE Launcher
    <3>1. \A f \in Federates : f.id \in Ids
      BY DEF Ids
    <3>2. ASSUME NEW f \in Federates, RecordPid(f)
          PROVE  /\ pids' \subseteq Ids /\ launcher' \in LauncherSteps
                 /\ rti' = rti /\ rtiPid' = rtiPid
      BY <3>1, <3>2 DEF RecordPid, AfterRecord, LauncherSteps, TypeOK
    <3>3. CASE ~\E f \in Federates : RecordPid(f)
      BY <2>1, <3>3 DEF TypeOK, Launcher, StartRti, RecordRti, Launch, RtiReturns,
             AllWaited, KillFederates, KillRti, LauncherSteps
    <3>4. QED
      BY <3>2, <3>3 DEF TypeOK
  <2>2. ASSUME NEW f \in Federates, Step(f) \/ Exit(f)
        PROVE  UNCHANGED launcherVars
    BY <2>2, FederateFrame
  <2>3. CASE Interrupt \/ RtiEnds \/ Settled \/ Agree \/ UNCHANGED vars
    BY <2>3 DEF TypeOK, Interrupt, RtiEnds, Settled, Agree, vars, launcherVars, LauncherSteps
  <2>4. QED
    BY <2>1, <2>2, <2>3 DEF TypeOK, Next, launcherVars
<1>4. QED
  BY <1>1, <1>2, <1>3 DEF TypeOK

-----------------------------------------------------------------------------
LEMMA OpensWires ==
  ASSUME open \subseteq Wires, [Next]_vars
  PROVE  open' \subseteq Wires
<1>1. CASE \E f, g \in Federates : ConnectToFederate(f, g)
  BY <1>1 DEF ConnectToFederate, CanConnect, Wires
<1>2. CASE open' = open
  BY <1>2
<1>3. QED
  BY <1>1, <1>2, Frame

\* Who is at the barrier has proposed, and who is through it was let through.
LEMMA AtBarrier ==
  ASSUME StartupInv, [Next]_vars, NEW f \in Federates
  PROVE  /\ phase'[f] \in {"waiting", "running"} => f.id \in proposals'
         /\ phase'[f] = "running" => agreed'
<1>1. CASE phase'[f] = phase[f]
  BY <1>1, Monotone DEF StartupInv, BarrierInv
<1>2. CASE Launch(f)
  BY <1>2 DEF Launch, Goto, StartupInv, TypeOK
<1>3. CASE Propose(f) /\ phase'[f] = "waiting"
  BY <1>3 DEF Propose
<1>4. CASE Start(f)
  BY <1>4, Monotone DEF Start, Goto, StartupInv, BarrierInv
<1>5. QED
  BY <1>1, <1>2, <1>3, <1>4, PhaseStep DEF StartupInv

\* Who has connections to open, or had them, serves its own.
LEMMA AdvertisedBefore ==
  ASSUME StartupInv, [Next]_vars, NEW f \in Federates,
         phase'[f] \in {"connecting", "waiting", "running"}, f.inbound > 0
  PROVE  f.id \in served'
<1>1. CASE phase[f] \in {"connecting", "waiting", "running"}
  BY <1>1, Monotone DEF StartupInv, BarrierInv
<1>2. CASE CreateServer(f)
  BY <1>2 DEF CreateServer
<1>3. CASE Launch(f)
  BY <1>3 DEF Launch, Goto, StartupInv, TypeOK
<1>4. Propose(f) \/ Start(f) => phase[f] \in {"connecting", "waiting"}
  BY DEF Propose, Start, Goto
<1>5. QED
  BY <1>1, <1>2, <1>3, <1>4, PhaseStep DEF StartupInv

\* Who has proposed has all its connections.
LEMMA ProposedConnected ==
  ASSUME StartupInv, [Next]_vars, NEW f \in Federates, f.id \in proposals'
  PROVE  Connected(f)'
<1> USE DEF Connected
<1>1. CASE f.id \in proposals
  BY <1>1, Monotone DEF StartupInv, BarrierInv
<1>2. CASE f.id \notin proposals
  <2>1. PICK g \in Federates : Propose(g)
    BY <1>2, Frame
  <2>2. g = f
    BY <1>2, <2>1, FederatesAssumption DEF Propose
  <2>3. QED
    BY <2>1, <2>2 DEF Propose
<1>3. QED
  BY <1>1, <1>2

LEMMA AgreedNext ==
  ASSUME StartupInv, [Next]_vars, agreed'
  PROVE  proposals' = Ids
<1>1. CASE Agree
  BY <1>1 DEF Agree
<1>2. CASE agreed
  <2>1. proposals = Ids /\ proposals' \subseteq Ids
    BY <1>2, TypeNext DEF StartupInv, TypeOK, BarrierInv
  <2>2. QED
    BY <2>1, Monotone
<1>3. QED
  BY <1>1, <1>2, Frame

LEMMA BarrierNext ==
  ASSUME StartupInv, [Next]_vars
  PROVE  BarrierInv'
<1>1. open' \subseteq Wires
  BY OpensWires DEF StartupInv, BarrierInv
<1>2. ASSUME NEW f \in Federates
      PROVE  /\ phase'[f] \in {"waiting", "running"} => f.id \in proposals'
             /\ f.id \in proposals' => Connected(f)'
             /\ phase'[f] \in {"connecting", "waiting", "running"} /\ f.inbound > 0 => f.id \in served'
             /\ phase'[f] = "running" => agreed'
  BY AtBarrier, ProposedConnected, AdvertisedBefore
<1>3. Wires' = Wires
  BY DEF Wires
<1>4. QED
  BY <1>1, <1>2, <1>3, AgreedNext DEF BarrierInv

-----------------------------------------------------------------------------
\* Steps that launch no federate keep the launcher's invariant if they keep
\* its variables.
LEMMA LauncherKept ==
  ASSUME StartupInv, [Next]_vars, ~\E f \in Federates : Launch(f),
         UNCHANGED <<launcher, pids>>, rti = "gone" => rti' = "gone"
  PROVE  LauncherInv'
<1>1. \A f \in Federates : phase'[f] # "off" <=> phase[f] # "off"
  <2> SUFFICES ASSUME NEW f \in Federates
               PROVE  phase'[f] # "off" <=> phase[f] # "off"
    OBVIOUS
  <2>1. f.id \in pids => phase[f] # "off"
    BY DEF StartupInv, LauncherInv
  <2>2. Propose(f) \/ Start(f) \/ CreateServer(f) => phase[f] # "off"
    BY DEF Propose, Start, CreateServer, Goto
  <2>3. QED
    BY <2>1, <2>2, PhaseStep DEF StartupInv
<1>2. \A f \in Federates :
        /\ phase[f] = "exited" => phase'[f] = "exited"
        /\ phase[f] = "running" => phase'[f] \in {"running", "exited"}
  <2> SUFFICES ASSUME NEW f \in Federates, phase[f] \in {"running", "exited"}
               PROVE  phase'[f] = phase[f] \/ phase'[f] = "exited"
    OBVIOUS
  <2>1. ~Propose(f) /\ ~Start(f) /\ ~CreateServer(f)
    BY DEF Propose, Start, CreateServer, Goto
  <2>2. QED
    BY <2>1, PhaseStep DEF StartupInv
<1>3. /\ \A f, g \in Federates :
           phase'[g] # "off" /\ f.id < g.id => phase'[f] # "off" /\ f.id \in pids'
      /\ \A f \in Federates : f.id \in pids' => phase'[f] # "off"
  BY <1>1 DEF StartupInv, LauncherInv
<1>4. ASSUME launcher' \in {"killing", "ended"}, NEW f \in Federates, f.id \in pids'
      PROVE  phase'[f] \in {"running", "exited"}
  <2>1. phase[f] \in {"running", "exited"}
    BY <1>4 DEF StartupInv, LauncherInv
  <2>2. QED
    BY <1>2, <2>1
<1>5. /\ launcher' \in {"begin", "rti started"} => \A f \in Federates : phase'[f] = "off"
      /\ launcher' = "loop" => \A f \in Federates : phase'[f] # "off" => f.id \in pids'
  BY <1>1 DEF StartupInv, LauncherInv
<1>6. /\ launcher' \in {"foreground", "waiting", "done"} => pids' = Ids
      /\ launcher' \in {"waiting", "done"} => rti' = "gone"
  BY DEF StartupInv, LauncherInv
<1>7. ASSUME launcher' = "done"
      PROVE  \A f \in Federates : phase'[f] = "exited"
  <2>1. \A f \in Federates : phase[f] = "exited"
    BY <1>7 DEF StartupInv, LauncherInv
  <2>2. QED
    BY <1>2, <2>1
<1>8. Ids' = Ids
  BY DEF Ids
<1>9. QED
  BY <1>3, <1>4, <1>5, <1>6, <1>7, <1>8 DEF LauncherInv

\* The launch of a federate: those before it have been launched and recorded.
LEMMA LaunchNext ==
  ASSUME StartupInv, NEW h \in Federates, Launch(h)
  PROVE  LauncherInv'
<1>1. /\ launcher = "loop" /\ launcher' = "federate started" /\ pids' = pids
      /\ phase[h] = "off"
      /\ \A g \in Federates : g.id < h.id => phase[g] # "off"
      /\ \A f \in Federates : phase'[f] # "off" <=> phase[f] # "off" \/ f = h
  BY DEF Launch, Goto, StartupInv, TypeOK
<1>2. \A f \in Federates : phase[f] # "off" => f.id \in pids
  BY <1>1 DEF StartupInv, LauncherInv
<1>3. \A f, g \in Federates : phase[g] # "off" /\ f.id < g.id => phase[f] # "off"
  BY DEF StartupInv, LauncherInv
<1>4. \A f, g \in Federates : phase'[g] # "off" /\ f.id < g.id => phase'[f] # "off" /\ f.id \in pids'
  BY <1>1, <1>2, <1>3
<1>5. \A f \in Federates : f.id \in pids' => phase'[f] # "off"
  BY <1>1 DEF StartupInv, LauncherInv
<1>6. QED
  BY <1>1, <1>4, <1>5 DEF LauncherInv

\* With its process recorded, every launched federate's is.
LEMMA RecordNext ==
  ASSUME StartupInv, NEW h \in Federates, RecordPid(h)
  PROVE  LauncherInv'
<1>1. /\ launcher = "federate started" /\ launcher' = AfterRecord /\ phase' = phase
      /\ pids' = pids \cup {h.id}
      /\ phase[h] # "off"
      /\ \A g \in Federates : phase[g] # "off" => g.id <= h.id
  BY DEF RecordPid, IsLast, startVars
<1>2. \A f \in Federates : phase[f] # "off" => f.id \in pids'
  <2> SUFFICES ASSUME NEW f \in Federates, phase[f] # "off", f.id # h.id
               PROVE  f.id \in pids
    BY <1>1
  <2>1. f.id <= h.id /\ f.id \in Nat /\ h.id \in Nat
    BY <1>1, FederatesAssumption
  <2>2. f.id < h.id
    BY <2>1
  <2>3. QED
    BY <1>1, <2>2 DEF StartupInv, LauncherInv
<1>3. \A f \in Federates : f.id \in pids' => phase[f] # "off"
  BY <1>1, FederatesAssumption DEF StartupInv, LauncherInv
<1>4. CASE \E f \in Federates : phase[f] = "off"
  <2>1. launcher' = "loop"
    BY <1>1, <1>4 DEF AfterRecord
  <2>2. \A f, g \in Federates : phase[g] # "off" /\ f.id < g.id => phase[f] # "off"
    BY DEF StartupInv, LauncherInv
  <2>3. QED
    BY <1>1, <1>2, <1>3, <2>1, <2>2 DEF LauncherInv
<1>5. CASE ~\E f \in Federates : phase[f] = "off"
  <2>1. launcher' = "foreground"
    BY <1>1, <1>5 DEF AfterRecord
  <2>2. pids' = Ids
    <3>1. Ids \subseteq pids'
      BY <1>2, <1>5 DEF Ids
    <3>2. pids' \subseteq Ids
      BY <1>1 DEF StartupInv, TypeOK, Ids
    <3>3. QED
      BY <3>1, <3>2
  <2>3. QED
    BY <1>1, <1>2, <1>3, <1>5, <2>1, <2>2 DEF LauncherInv
<1>6. QED
  BY <1>4, <1>5

\* The launcher's other steps.
LEMMA OtherLauncherSteps ==
  ASSUME StartupInv, StartRti \/ RecordRti \/ RtiReturns \/ AllWaited \/ KillFederates \/ KillRti
  PROVE  LauncherInv'
<1>1. CASE StartRti \/ RecordRti \/ RtiReturns \/ AllWaited \/ KillRti
  <2>1. phase' = phase /\ pids' = pids
    BY <1>1 DEF StartRti, RecordRti, RtiReturns, AllWaited, KillRti, startVars
  <2>2. CASE StartRti
    BY <2>1, <2>2 DEF StartRti, StartupInv, LauncherInv
  <2>3. CASE RecordRti
    BY <2>1, <2>3 DEF RecordRti, StartupInv, LauncherInv
  <2>4. CASE RtiReturns
    BY <2>1, <2>4 DEF RtiReturns, StartupInv, LauncherInv
  <2>5. CASE AllWaited
    <3>1. \A f \in Federates : phase[f] = "exited"
      BY <2>5 DEF AllWaited, StartupInv, LauncherInv, Ids
    <3>2. QED
      BY <2>1, <2>5, <3>1 DEF AllWaited, StartupInv, LauncherInv
  <2>6. CASE KillRti
    BY <2>1, <2>6 DEF KillRti, StartupInv, LauncherInv
  <2>7. QED
    BY <1>1, <2>2, <2>3, <2>4, <2>5, <2>6
<1>2. CASE KillFederates
  <2>1. /\ launcher' = "killing" /\ pids' = pids
        /\ \A f \in Federates : phase'[f] # "off" <=> phase[f] # "off"
        /\ \A f \in Federates : f.id \in pids => phase'[f] \in {"running", "exited"}
    BY <1>2 DEF KillFederates, StartupInv, LauncherInv
  <2>2. QED
    BY <2>1 DEF StartupInv, LauncherInv
<1>3. QED
  BY <1>1, <1>2

LEMMA LauncherNext ==
  ASSUME StartupInv, [Next]_vars
  PROVE  LauncherInv'
<1>1. CASE Launcher
  BY <1>1, LaunchNext, RecordNext, OtherLauncherSteps DEF Launcher
<1>2. CASE Interrupt
  <2>1. phase' = phase /\ pids' = pids /\ launcher' = "interrupted"
    BY <1>2 DEF Interrupt, startVars
  <2>2. QED
    BY <2>1 DEF StartupInv, LauncherInv
<1>3. ASSUME NEW f \in Federates, Step(f) \/ Exit(f)
      PROVE  UNCHANGED launcherVars /\ ~\E g \in Federates : Launch(g)
  <2>1. UNCHANGED launcherVars
    BY <1>3, FederateFrame
  <2>2. QED
    BY <2>1 DEF Launch, launcherVars
<1>4. CASE Agree \/ RtiEnds \/ Settled \/ UNCHANGED vars
  <2>1. phase' = phase /\ pids' = pids /\ launcher' = launcher /\ (rti = "gone" => rti' = "gone")
    BY <1>4 DEF Agree, RtiEnds, Settled, vars, startVars, launcherVars
  <2>2. QED
    BY <2>1 DEF StartupInv, LauncherInv
<1>5. CASE \E f \in Federates : Step(f) \/ Exit(f)
  <2>1. UNCHANGED launcherVars /\ ~\E g \in Federates : Launch(g)
    BY <1>3, <1>5
  <2>2. QED
    BY <2>1, LauncherKept DEF launcherVars
<1>6. QED
  BY <1>1, <1>2, <1>4, <1>5 DEF Next

-----------------------------------------------------------------------------
(***************************************************************************)
(* A federate proposes a start time only with all its connections open,    *)
(* and runs only when all federates have proposed theirs; the launcher has *)
(* recorded all it has launched but the last.                              *)
(***************************************************************************)
THEOREM StartupInvariant == Spec => []StartupInv
<1>1. Init => StartupInv
  <2> SUFFICES ASSUME Init
               PROVE  StartupInv
    OBVIOUS
  <2>1. TypeOK
    BY DEF Init, TypeOK, Phases, LauncherSteps
  <2>2. BarrierInv
    BY DEF Init, BarrierInv
  <2>3. LauncherInv
    BY DEF Init, LauncherInv
  <2>4. QED
    BY <2>1, <2>2, <2>3 DEF StartupInv
<1>2. StartupInv /\ [Next]_vars => StartupInv'
  BY TypeNext, BarrierNext, LauncherNext DEF StartupInv
<1>3. QED
  BY <1>1, <1>2, PTL DEF Spec

(***************************************************************************)
(* No federate runs before every connection of the federation is open.     *)
(***************************************************************************)
THEOREM FederationStartsConnected == Spec => []StartsConnected
<1>1. StartupInv => StartsConnected
  <2> SUFFICES ASSUME StartupInv, NEW f \in Federates, phase[f] = "running"
               PROVE  open = Wires
    BY DEF StartsConnected
  <2>1. \A g \in Federates : g.id \in proposals
    BY DEF StartupInv, BarrierInv, Ids
  <2>2. Wires \subseteq open
    BY <2>1 DEF StartupInv, BarrierInv, Connected, Wires
  <2>3. QED
    BY <2>2 DEF StartupInv, BarrierInv
<1>2. QED
  BY <1>1, StartupInvariant, PTL

(***************************************************************************)
(* A federate missing at the barrier stops all the others there.           *)
(***************************************************************************)
THEOREM MissingFederateStopsAll == Spec => []AllOrNobody
<1>1. StartupInv => AllOrNobody
  BY DEF StartupInv, BarrierInv, AllOrNobody, Ids
<1>2. QED
  BY <1>1, StartupInvariant, PTL

(***************************************************************************)
(* The launcher's last message is true of the RTI and of every federate.   *)
(***************************************************************************)
THEOREM LauncherWaitsForAll == Spec => []DoneMeansAllEnded
<1>1. StartupInv => DoneMeansAllEnded
  BY DEF StartupInv, LauncherInv, DoneMeansAllEnded
<1>2. QED
  BY <1>1, StartupInvariant, PTL

(***************************************************************************)
(* No connections between the federates, circular ones included, make them *)
(* wait for each other at startup: each serves before it connects.         *)
(***************************************************************************)
THEOREM StartupNeverStalls == Spec => []BarrierNeverStalls
<1>1. StartupInv => BarrierNeverStalls
  <2> SUFFICES ASSUME StartupInv, rti = "up",
                      \A f \in Federates : phase[f] \notin {"off", "exited", "launched", "joined"},
                      ~\E f \in Federates : phase[f] = "connecting" /\ Connected(f),
                      ~\E f, g \in Federates : CanConnect(f, g)
               PROVE  \/ \A f \in Federates : phase[f] = "running"
                      \/ proposals = Ids /\ ~agreed
                      \/ agreed /\ \E f \in Federates : phase[f] = "waiting"
    BY DEF BarrierNeverStalls
  <2>1. \A f \in Federates : phase[f] \in {"connecting", "waiting", "running"}
    BY DEF StartupInv, TypeOK, Phases
  <2>2. \A f \in Federates : phase[f] # "connecting"
    <3> SUFFICES ASSUME NEW f \in Federates, phase[f] = "connecting"
                 PROVE  FALSE
      OBVIOUS
    <3>1. PICK id \in f.outbound : <<f.id, id>> \notin open
      BY DEF Connected
    <3>2. PICK g \in Federates : g.id = id
      BY <3>1, FederatesAssumption DEF Ids
    <3>3. g.id \in served
      BY <2>1, <3>1, <3>2, FederatesAssumption DEF StartupInv, BarrierInv
    <3>4. CanConnect(f, g)
      BY <2>1, <3>1, <3>2, <3>3 DEF CanConnect
    <3>5. QED
      BY <3>4
  <2>3. proposals = Ids
    <3>1. \A f \in Federates : f.id \in proposals
      BY <2>1, <2>2 DEF StartupInv, BarrierInv
    <3>2. QED
      BY <3>1 DEF StartupInv, TypeOK, Ids
  <2>4. QED
    BY <2>1, <2>2, <2>3
<1>2. QED
  BY <1>1, StartupInvariant, PTL

(***************************************************************************)
(* Wherever a signal ends the launcher, at most one of the federates that  *)
(* it has started escapes its trap.                                        *)
(***************************************************************************)
THEOREM TrapMissesAtMostOne == Spec => []AtMostOneEscapes
<1>1. StartupInv => AtMostOneEscapes
  <2> SUFFICES ASSUME StartupInv, launcher \in {"killing", "ended"},
                      NEW f \in Federates, NEW g \in Federates, Escapes(f), Escapes(g)
               PROVE  f = g
    BY DEF AtMostOneEscapes
  <2>1. phase[f] # "off" /\ phase[g] # "off" /\ f.id \notin pids /\ g.id \notin pids
    BY DEF Escapes, StartupInv, LauncherInv
  <2>2. ~(f.id < g.id) /\ ~(g.id < f.id)
    BY <2>1 DEF StartupInv, LauncherInv
  <2>3. f.id \in Nat /\ g.id \in Nat
    BY FederatesAssumption
  <2>4. f.id = g.id
    BY <2>2, <2>3
  <2>5. QED
    BY <2>4, FederatesAssumption
<1>2. QED
  BY <1>1, StartupInvariant, PTL
=============================================================================
