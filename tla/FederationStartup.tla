-------------------------- MODULE FederationStartup --------------------------
(***************************************************************************)
(* How the federation starts, and how the launcher ends it.  The launcher, *)
(* run_federation.sh, starts the RTI and then the federates, one after the *)
(* other; each runs the preamble generated for it (connect to the RTI,     *)
(* serve inbound and open outbound connections), proposes a start time,    *)
(* and starts when the RTI has all proposals.  A federate may exit on its  *)
(* way, and no other waits with a timeout for it.                          *)
(*                                                                         *)
(* The launcher then waits for the RTI and for the federates.  Whenever    *)
(* and however it ends, its trap kills the processes it has recorded.      *)
(***************************************************************************)
EXTENDS Naturals

CONSTANT Federates    \* records with an id, and the ids of outbound connections

Ids == {f.id : f \in Federates}

ASSUME FederatesAssumption ==
  /\ \A f \in Federates : f.id \in Nat /\ f.outbound \subseteq Ids /\ f.inbound \in Nat
  /\ \A f, g \in Federates : f.id = g.id => f = g
  /\ \A f, g \in Federates : g.id \in f.outbound => g.inbound > 0

VARIABLES
  phase,          \* where each federate is
  served,         \* the federates whose server port the RTI knows
  open,           \* the connections opened so far, as pairs of ids
  proposals,      \* the federates whose start time the RTI has
  agreed,         \* the RTI has announced the start time
  rti,            \* "off", "up" or "gone"
  launcher,       \* where the script is
  pids,           \* the federates whose process it has recorded
  rtiPid          \* it has recorded the RTI's

startVars == <<phase, served, open, proposals, agreed>>
launcherVars == <<rti, launcher, pids, rtiPid>>
vars == <<startVars, launcherVars>>

Phases == {"off", "launched", "joined", "connecting", "waiting", "running", "exited"}

LauncherSteps == {"begin", "rti started", "loop", "federate started", "foreground",
                  "waiting", "done", "interrupted", "killing", "ended"}

Init ==
  /\ phase = [f \in Federates |-> "off"]
  /\ served = {}
  /\ open = {}
  /\ proposals = {}
  /\ agreed = FALSE
  /\ rti = "off"
  /\ launcher = "begin"
  /\ pids = {}
  /\ rtiPid = FALSE

Goto(f, from, to) ==
  /\ phase[f] = from
  /\ phase' = [phase EXCEPT ![f] = to]

-----------------------------------------------------------------------------
\* "RTI" ... &
StartRti ==
  /\ launcher = "begin"
  /\ launcher' = "rti started"
  /\ rti' = "up"
  /\ UNCHANGED <<startVars, pids, rtiPid>>

\* RTI=$!
RecordRti ==
  /\ launcher = "rti started"
  /\ launcher' = "loop"
  /\ rtiPid' = TRUE
  /\ UNCHANGED <<startVars, rti, pids>>

\* The loop, in the order of the ids: "federate__${fed}" ... &
Launch(f) ==
  /\ launcher = "loop"
  /\ \A g \in Federates : g.id < f.id => phase[g] # "off"
  /\ Goto(f, "off", "launched")
  /\ launcher' = "federate started"
  /\ UNCHANGED <<served, open, proposals, agreed, rti, pids, rtiPid>>

\* The process launched last.
IsLast(f) == phase[f] # "off" /\ \A g \in Federates : phase[g] # "off" => g.id <= f.id

\* After the last federate the RTI is brought to the foreground.
AfterRecord == IF \E f \in Federates : phase[f] = "off" THEN "loop" ELSE "foreground"

\* Mutated form of RecordPid: the index is not incremented.
RecordPidOver(f) ==
  /\ launcher = "federate started"
  /\ IsLast(f)
  /\ pids' = {f.id}
  /\ launcher' = AfterRecord
  /\ UNCHANGED <<startVars, rti, rtiPid>>

\* pids[$i]=$!; i=$((i+1))
RecordPid(f) ==
  /\ launcher = "federate started"
  /\ IsLast(f)
  /\ pids' = pids \cup {f.id}
  /\ launcher' = AfterRecord
  /\ UNCHANGED <<startVars, rti, rtiPid>>

\* fg %1 returns when the RTI has ended.
RtiReturns ==
  /\ launcher = "foreground"
  /\ rti = "gone"
  /\ launcher' = "waiting"
  /\ UNCHANGED <<startVars, rti, pids, rtiPid>>

\* wait has returned for each recorded process: "All done."
AllWaited ==
  /\ launcher = "waiting"
  /\ \A f \in Federates : f.id \in pids => phase[f] = "exited"
  /\ launcher' = "done"
  /\ UNCHANGED <<startVars, rti, pids, rtiPid>>

\* A signal ends the script; what is left of it is its trap.
Interrupt ==
  /\ launcher \notin {"done", "interrupted", "killing", "ended"}
  /\ launcher' = "interrupted"
  /\ UNCHANGED <<startVars, rti, pids, rtiPid>>

(***************************************************************************)
(* cleanup() kills the recorded federates.  One that has not started its   *)
(* reactions ends; the ROS nodes of one that runs have handlers of their   *)
(* own, and whether it ends (Exit) is up to them.                          *)
(***************************************************************************)
KillFederates ==
  /\ launcher \in {"done", "interrupted"}
  /\ phase' = [f \in Federates |->
                 IF f.id \in pids /\ phase[f] # "running" THEN "exited" ELSE phase[f]]
  /\ launcher' = "killing"
  /\ UNCHANGED <<served, open, proposals, agreed, rti, pids, rtiPid>>

\* Mutated form of KillRti: only the federates are killed.
KillRtiForgotten ==
  /\ launcher = "killing"
  /\ launcher' = "ended"
  /\ UNCHANGED <<startVars, rti, pids, rtiPid>>

\* cleanup() kills the RTI and exits.
KillRti ==
  /\ launcher = "killing"
  /\ launcher' = "ended"
  /\ rti' = IF rtiPid THEN "gone" ELSE rti
  /\ UNCHANGED <<startVars, pids, rtiPid>>

-----------------------------------------------------------------------------
\* lf_connect_to_rti, which tries again until the RTI answers.
ConnectToRti(f) ==
  /\ rti = "up"
  /\ Goto(f, "launched", "joined")
  /\ UNCHANGED <<served, open, proposals, agreed, launcherVars>>

\* Mutated form of CreateServer: the port is not advertised to the RTI.
CreateServerUnadvertised(f) ==
  /\ rti = "up"
  /\ Goto(f, "joined", "connecting")
  /\ UNCHANGED <<served, open, proposals, agreed, launcherVars>>

\* lf_create_server and the thread that accepts connections, if any is due.
CreateServer(f) ==
  /\ rti = "up"
  /\ Goto(f, "joined", "connecting")
  /\ served' = IF f.inbound > 0 THEN served \cup {f.id} ELSE served
  /\ UNCHANGED <<open, proposals, agreed, launcherVars>>

\* f's next connection is to g, whose port the RTI knows and which serves it.
CanConnect(f, g) ==
  /\ phase[f] = "connecting"
  /\ g.id \in f.outbound \cap served
  /\ <<f.id, g.id>> \notin open
  /\ phase[g] # "exited"

\* lf_connect_to_federate: the RTI is asked again until it knows the port.
ConnectToFederate(f, g) ==
  /\ rti = "up"
  /\ CanConnect(f, g)
  /\ open' = open \cup {<<f.id, g.id>>}
  /\ UNCHANGED <<phase, served, proposals, agreed, launcherVars>>

\* All outbound connections of f are open.
Connected(f) == \A id \in f.outbound : <<f.id, id>> \in open

\* Mutated form of Propose: the connections are not waited for.
ProposeUnconnected(f) ==
  /\ rti = "up"
  /\ Goto(f, "connecting", "waiting")
  /\ proposals' = proposals \cup {f.id}
  /\ UNCHANGED <<served, open, agreed, launcherVars>>

\* The preamble is done: lf_synchronize_with_other_federates.
Propose(f) ==
  /\ rti = "up"
  /\ Connected(f)
  /\ Goto(f, "connecting", "waiting")
  /\ proposals' = proposals \cup {f.id}
  /\ UNCHANGED <<served, open, agreed, launcherVars>>

\* Mutated form of Agree: the RTI is started for fewer federates.
AgreeWithoutOne ==
  /\ rti = "up"
  /\ ~agreed
  /\ \E id \in Ids : Ids \ {id} \subseteq proposals
  /\ agreed' = TRUE
  /\ UNCHANGED <<phase, served, open, proposals, launcherVars>>

\* The RTI waits for as many proposals as its option -n says.
Agree ==
  /\ rti = "up"
  /\ ~agreed
  /\ proposals = Ids
  /\ agreed' = TRUE
  /\ UNCHANGED <<phase, served, open, proposals, launcherVars>>

Start(f) ==
  /\ agreed
  /\ Goto(f, "waiting", "running")
  /\ UNCHANGED <<served, open, proposals, agreed, launcherVars>>

\* The connection to the RTI cannot be made (CONNECT_TIMEOUT) or breaks
\* before the start time has come: the runtime exits.
LosesRti(f) ==
  /\ rti = "gone" /\ ~agreed
  /\ phase[f] \notin {"off", "exited"}
  /\ phase' = [phase EXCEPT ![f] = "exited"]
  /\ UNCHANGED <<served, open, proposals, agreed, launcherVars>>

\* A federate ends: its program is missing, it cannot connect or bind a port,
\* or it is killed.  The launcher does not notice.
Exit(f) ==
  /\ phase[f] \notin {"off", "exited"}
  /\ phase' = [phase EXCEPT ![f] = "exited"]
  /\ UNCHANGED <<served, open, proposals, agreed, launcherVars>>

\* The RTI ends: all federates have, it fails, or it is killed.
RtiEnds ==
  /\ rti = "up"
  /\ rti' = "gone"
  /\ UNCHANGED <<startVars, launcher, pids, rtiPid>>

\* The launcher has ended; federates may run or wait on.
Settled == launcher = "ended" /\ UNCHANGED vars

Launcher ==
  \/ StartRti
  \/ RecordRti
  \/ \E f \in Federates : Launch(f) \/ RecordPid(f)
  \/ RtiReturns
  \/ AllWaited
  \/ KillFederates
  \/ KillRti

Preamble(f) ==
  \/ ConnectToRti(f)
  \/ CreateServer(f)
  \/ \E g \in Federates : ConnectToFederate(f, g)

Step(f) == Preamble(f) \/ Propose(f) \/ Start(f) \/ LosesRti(f)

Next ==
  \/ Launcher
  \/ Interrupt
  \/ \E f \in Federates : Step(f)
  \/ \E f \in Federates : Exit(f)
  \/ Agree
  \/ RtiEnds
  \/ Settled

Spec == Init /\ [][Next]_vars

\* The launcher, the RTI and the federates that have not exited go on.
FairSpec ==
  /\ Spec
  /\ WF_vars(Launcher)
  /\ WF_vars(Agree)
  /\ \A f \in Federates : WF_vars(Step(f))

-----------------------------------------------------------------------------
TypeOK ==
  /\ phase \in [Federates -> Phases]
  /\ served \subseteq Ids
  /\ open \subseteq Ids \X Ids
  /\ proposals \subseteq Ids
  /\ agreed \in BOOLEAN
  /\ rti \in {"off", "up", "gone"}
  /\ launcher \in LauncherSteps
  /\ pids \subseteq Ids
  /\ rtiPid \in BOOLEAN

Wires == UNION {{<<f.id, id>> : id \in f.outbound} : f \in Federates}

(***************************************************************************)
(* When the first federate runs, every connection of the federation has    *)
(* been opened: the gate's first tick finds the bridge listening, although *)
(* the launcher starts the gate first.                                     *)
(***************************************************************************)
StartsConnected ==
  (\E f \in Federates : phase[f] = "running") => open = Wires

(***************************************************************************)
(* A federate that exits before it has proposed a start time keeps all the *)
(* others from running, for ever.                                          *)
(***************************************************************************)
AllOrNobody ==
  \A f, g \in Federates :
    phase[f] = "exited" /\ f.id \notin proposals => phase[g] # "running"

(***************************************************************************)
(* When the launcher says "All done." the RTI and every federate have      *)
(* ended, in whatever order they did, before and after the RTI.            *)
(***************************************************************************)
DoneMeansAllEnded ==
  launcher = "done" => rti = "gone" /\ \A f \in Federates : phase[f] = "exited"

(***************************************************************************)
(* The federates never wait for each other in a circle, however they are   *)
(* connected: while the RTI is up and nobody has exited, one of them or    *)
(* the RTI has a step to take until all of them run.                       *)
(***************************************************************************)
BarrierNeverStalls ==
  rti = "up" /\ (\A f \in Federates : phase[f] \notin {"off", "exited"}) =>
    \/ \A f \in Federates : phase[f] = "running"
    \/ \E f \in Federates : phase[f] \in {"launched", "joined"}
    \/ \E f, g \in Federates : CanConnect(f, g)
    \/ \E f \in Federates : phase[f] = "connecting" /\ Connected(f)
    \/ proposals = Ids /\ ~agreed
    \/ agreed /\ \E f \in Federates : phase[f] = "waiting"

\* A proposal comes after the proposer's connections, a start after the
\* agreement, and the agreement after all proposals.  Who has connections to
\* open has advertised its own port before.
BarrierInv ==
  /\ open \subseteq Wires
  /\ \A f \in Federates :
       /\ phase[f] \in {"waiting", "running"} => f.id \in proposals
       /\ f.id \in proposals => Connected(f)
       /\ phase[f] \in {"connecting", "waiting", "running"} /\ f.inbound > 0 => f.id \in served
       /\ phase[f] = "running" => agreed
  /\ agreed => proposals = Ids

\* The federates are launched in order, and at any time all but the last are
\* recorded; of those the launcher has killed only the running ones may go on.
LauncherInv ==
  /\ \A f, g \in Federates :
       phase[g] # "off" /\ f.id < g.id => phase[f] # "off" /\ f.id \in pids
  /\ launcher \in {"begin", "rti started"} => \A f \in Federates : phase[f] = "off"
  /\ launcher = "loop" => \A f \in Federates : phase[f] # "off" => f.id \in pids
  /\ launcher \in {"foreground", "waiting", "done"} => pids = Ids
  /\ launcher \in {"waiting", "done"} => rti = "gone"
  /\ launcher = "done" => \A f \in Federates : phase[f] = "exited"
  /\ launcher \in {"killing", "ended"} =>
       \A f \in Federates : f.id \in pids => phase[f] \in {"running", "exited"}
  /\ \A f \in Federates : f.id \in pids => phase[f] # "off"

StartupInv == TypeOK /\ BarrierInv /\ LauncherInv

(***************************************************************************)
(* The trap reaches every federate the launcher has started but one: only  *)
(* the last may be without a record.  (Those that run decide for           *)
(* themselves whether they end.)                                           *)
(***************************************************************************)
Escapes(f) == phase[f] \notin {"off", "exited"} /\ (f.id \in pids => phase[f] # "running")

AtMostOneEscapes ==
  launcher \in {"killing", "ended"} =>
    \A f, g \in Federates : Escapes(f) /\ Escapes(g) => f = g

(***************************************************************************)
(* All federates get to run, in whatever order they reach the RTI and each *)
(* other, unless one exits, the RTI does or the launcher is interrupted.   *)
(***************************************************************************)
EverybodyStarts ==
  <>(\/ \A f \in Federates : phase[f] = "running"
     \/ \E f \in Federates : phase[f] = "exited"
     \/ rti = "gone"
     \/ launcher = "ended")

(***************************************************************************)
(* When the launcher ends before the federation has agreed on its start    *)
(* time, every federate ends, also one that is not recorded because the    *)
(* signal came between its launch and the assignment to pids.              *)
(***************************************************************************)
NobodyIsLeft ==
  launcher = "ended" /\ ~agreed ~> \A f \in Federates : phase[f] \in {"off", "exited"}
=============================================================================
