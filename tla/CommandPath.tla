----------------------------- MODULE CommandPath ----------------------------
(***************************************************************************)
(* The command path of the federation: the vehicle_cmd_gate federate (vcg) *)
(* ticks every 50 ms and sets up to four outputs, the bridge federate      *)
(* publishes each on its ROS topic, and the vehicle (CARLA or AWSIM) reads *)
(* the topics.                                                             *)
(***************************************************************************)
EXTENDS PhysicalLink

CONSTANT MaxTick  \* bound: ticks of the gate that are explored

ASSUME TickAssumption == MaxTick \in Nat

VARIABLES
  tick,           \* ticks of the gate's LF timer so far
  present,        \* outputs set at the current tag and not yet sent
  published,      \* what the bridge published, in order (history)
  topic,          \* unread message of each topic, 0 if none
  applied         \* last command of each topic the vehicle has read

pathVars == <<tick, present, published, topic, applied>>
vars == <<alive, up, wire, now, events, tick, present, published, topic, applied>>

Command == [port : Ports, gen : Nat]

Init ==
  /\ LinkInit
  /\ tick = 0
  /\ present = {}
  /\ published = <<>>
  /\ topic = [p \in Ports |-> 0]
  /\ applied = [p \in Ports |-> 0]

(***************************************************************************)
(* The timer reaction of the gate.  onTimer decides which outputs it       *)
(* produces; the reaction forwards exactly those whose flag it finds set   *)
(* and clears the flag.  The runtime starts no new tag before the senders  *)
(* of the last one have run.                                               *)
(***************************************************************************)
GateTick(outputs) ==
  /\ present = {}
  /\ tick < MaxTick
  /\ tick' = tick + 1
  /\ present' = outputs
  /\ UNCHANGED <<linkVars, published, topic, applied>>

\* Mutated form of SendOutput: the port is numbered as its receiver reactor.
SendOutputMisnumbered(p) ==
  /\ p \in present
  /\ NetworkSend([port |-> p + 1, gen |-> tick])
  /\ present' = present \ {p}
  /\ UNCHANGED <<tick, published, topic, applied>>

\* The four network senders react at the same tag, on any worker threads.
SendOutput(p) ==
  /\ p \in present
  /\ NetworkSend([port |-> p, gen |-> tick])
  /\ present' = present \ {p}
  /\ UNCHANGED <<tick, published, topic, applied>>

Listen ==
  /\ ScheduleArrival
  /\ UNCHANGED pathVars

(***************************************************************************)
(* One input reaction of bridge_interface: publish on a topic that keeps   *)
(* the last message only (QoS{1}), so an unread one is overwritten.        *)
(***************************************************************************)
BridgePublish(e) ==
  /\ NetworkReceive(e)
  /\ published' = Append(published, [port |-> e.port, gen |-> e.gen])
  /\ topic' = [topic EXCEPT ![e.port] = e.gen]
  /\ UNCHANGED <<tick, present, applied>>

\* The vehicle takes the unread message of a topic.
VehicleRead(p) ==
  /\ topic[p] # 0
  /\ applied' = [applied EXCEPT ![p] = topic[p]]
  /\ topic' = [topic EXCEPT ![p] = 0]
  /\ UNCHANGED <<linkVars, tick, present, published>>

ConnectionBreaks ==
  /\ LinkDown
  /\ UNCHANGED pathVars

BridgeEnds ==
  /\ ReceiverEnds
  /\ UNCHANGED pathVars

\* The bound is reached and nothing is in flight.
Quiescent ==
  /\ tick = MaxTick
  /\ present = {}
  /\ wire = <<>>
  /\ events = {}
  /\ \A p \in Ports : topic[p] = 0
  /\ UNCHANGED vars

Next ==
  \/ \E outputs \in SUBSET Ports : GateTick(outputs)
  \/ \E p \in present : SendOutput(p)
  \/ Listen
  \/ \E e \in events : BridgePublish(e)
  \/ \E p \in Ports : VehicleRead(p)
  \/ ConnectionBreaks
  \/ BridgeEnds
  \/ Quiescent

Spec == Init /\ [][Next]_vars

(***************************************************************************)
(* The worker threads run every reaction of a tag, the listener thread     *)
(* reads the socket, and the bridge and the vehicle keep reading.  Neither *)
(* the timer nor a failure has to happen.                                  *)
(***************************************************************************)
Fairness ==
  /\ WF_vars(\E p \in present : SendOutput(p))
  /\ WF_vars(Listen)
  /\ WF_vars(\E e \in events : BridgePublish(e))
  /\ \A p \in Ports : WF_vars(VehicleRead(p))

FairSpec == Spec /\ Fairness
-----------------------------------------------------------------------------
TypeOK ==
  /\ alive \in BOOLEAN /\ up \in BOOLEAN
  /\ wire \in Seq(Command)
  /\ now \in Nat
  /\ events \subseteq [port : Ports, gen : Nat, tag : Nat]
  /\ tick \in Nat
  /\ present \subseteq Ports
  /\ published \in Seq(Command)
  /\ topic \in [Ports -> Nat]
  /\ applied \in [Ports -> Nat]

(***************************************************************************)
(* The bridge publishes no command twice, and never a command of a gate    *)
(* tick after a command of a later one, on whatever topics: the four       *)
(* senders run in parallel and each message gets a tag of its own, so      *)
(* nothing but the one socket and the clock keeps the ticks apart.         *)
(***************************************************************************)
PublishedInOrder ==
  \A i, j \in DOMAIN published :
    i < j => /\ published[i].gen <= published[j].gen
             /\ published[i] # published[j]

\* The commands between the gate's outputs and the bridge's topics: without
\* the connection, only those that have arrived.
InFlight ==
  (IF up THEN {[port |-> p, gen |-> tick] : p \in present}
              \cup {wire[i] : i \in DOMAIN wire}
         ELSE {})
  \cup {[port |-> e.port, gen |-> e.gen] : e \in events}

Channel == INSTANCE CommandChannel
             WITH gen <- tick, pending <- InFlight, broken <- ~up

(***************************************************************************)
(* The federated path implements the channel: while the connection stands  *)
(* no output of the gate is lost, invented, repeated or overtaken by one   *)
(* of a later tick; once it has broken, the bridge publishes at most what  *)
(* has arrived, still in order, and nothing the gate puts out from then    *)
(* on.                                                                     *)
(***************************************************************************)
ImplementsChannel == Channel!ChannelSpec

(***************************************************************************)
(* Why the path implements the channel: the tags follow the order of the   *)
(* socket, the ticks in events, socket and senders never decrease, and no  *)
(* command is in two of these places.                                      *)
(***************************************************************************)
TagsFollowArrival ==
  /\ \A e \in events : e.tag <= now
  /\ \A e, f \in events : e.tag = f.tag => e = f

TicksInOrder ==
  /\ \A e \in events : e.gen <= tick
  /\ \A i \in DOMAIN wire : wire[i].gen <= tick
  /\ \A e, f \in events : e.tag < f.tag => e.gen <= f.gen
  /\ \A e \in events, i \in DOMAIN wire : e.gen <= wire[i].gen
  /\ \A i, j \in DOMAIN wire : i < j => wire[i].gen <= wire[j].gen

Carries(e, c) == e.port = c.port /\ e.gen = c.gen

InOnePlace ==
  /\ \A e, f \in events : Carries(e, f) => e = f
  /\ \A e \in events, i \in DOMAIN wire : ~Carries(e, wire[i])
  /\ \A i, j \in DOMAIN wire : Carries(wire[i], wire[j]) => i = j
  /\ \A e \in events : e.gen = tick => e.port \notin present
  /\ \A i \in DOMAIN wire : wire[i].gen = tick => wire[i].port \notin present

\* The vehicle and its topics are behind everything still on its way.
VehicleBehind ==
  \A p \in Ports :
    /\ topic[p] # 0 => applied[p] < topic[p]
    /\ applied[p] <= tick /\ topic[p] <= tick
    /\ p \in present => applied[p] < tick /\ topic[p] < tick
    /\ \A e \in events : e.port = p => applied[p] < e.gen /\ topic[p] < e.gen
    /\ \A i \in DOMAIN wire :
         wire[i].port = p => applied[p] < wire[i].gen /\ topic[p] < wire[i].gen

\* Without a connection there is nothing in the socket, and without the bridge
\* neither a connection nor an event.
NothingWhenDown ==
  /\ ~up => wire = <<>>
  /\ ~alive => ~up /\ events = {}

FlowInv ==
  /\ TypeOK
  /\ NothingWhenDown
  /\ TagsFollowArrival
  /\ TicksInOrder
  /\ InOnePlace
  /\ VehicleBehind

\* The command of a topic that the vehicle has applied or is going to read.
Newest(p) == IF topic[p] # 0 THEN topic[p] ELSE applied[p]

(***************************************************************************)
(* What the vehicle misses on a topic is outdated: the command it has, or  *)
(* will read, is the newest one the bridge has published there, and none   *)
(* that was not published.                                                 *)
(***************************************************************************)
VehicleHoldsNewest ==
  \A p \in Ports :
    /\ Newest(p) # 0 => \E i \in DOMAIN published : published[i] = [port |-> p, gen |-> Newest(p)]
    /\ \A i \in DOMAIN published : published[i].port = p => published[i].gen <= Newest(p)

\* All of it, for the check and the proof.
PathInv == FlowInv /\ VehicleHoldsNewest

(***************************************************************************)
(* A topic keeps one message and the vehicle reads it when it likes, yet   *)
(* the command the vehicle applies never goes back to an older tick.       *)
(***************************************************************************)
VehicleNeverRegresses ==
  [][\A p \in Ports : applied'[p] # applied[p] => applied'[p] > applied[p]]_vars

(***************************************************************************)
(* The gate is never blocked for good: a full socket drains, and a broken  *)
(* one lets the send fail, so the reactions of a tag all finish.           *)
(***************************************************************************)
GateUnblocks == present # {} ~> present = {}

(***************************************************************************)
(* A command the gate put out is applied, or superseded on its topic by a  *)
(* later one that is, unless the connection breaks or the bridge ends.     *)
(***************************************************************************)
CommandTakesEffect ==
  \A p \in Ports, g \in 1..MaxTick :
    (p \in present /\ tick = g /\ up) ~> (applied[p] >= g \/ ~up)
=============================================================================
