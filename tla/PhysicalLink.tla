---------------------------- MODULE PhysicalLink ----------------------------
(***************************************************************************)
(* One physical connection (~>) of the federation: the network senders of  *)
(* the source federate, the TCP socket to the destination federate, the    *)
(* thread that listens to it there, and the network receivers.             *)
(*                                                                         *)
(* A message carries no tag (MSG_TYPE_P2P_MESSAGE): the listener schedules *)
(* a physical action, whose tag is the physical time of arrival.  The      *)
(* runtime's clock returns a larger value on every reading, so no two      *)
(* messages of a link get the same tag.                                    *)
(***************************************************************************)
EXTENDS Naturals, Sequences

CONSTANTS
  Ports,          \* ports of the link, numbered as lf_send_message's port
  SocketCap       \* messages the socket buffers hold before a send blocks

ASSUME LinkAssumption == Ports \subseteq Nat /\ SocketCap \in Nat \ {0}

VARIABLES
  alive,          \* the receiving federate runs
  up,             \* the socket to it is open
  wire,           \* messages in the socket, oldest first
  now,            \* last reading of the receiver's physical clock
  events          \* network actions scheduled at the receiver

linkVars == <<alive, up, wire, now, events>>

LinkInit ==
  /\ alive = TRUE /\ up = TRUE
  /\ wire = <<>>
  /\ now = 0
  /\ events = {}

\* A send does not block.
CanSend == ~up \/ Len(wire) < SocketCap

\* Mutated form of NetworkSend: a full socket drops the message.
NetworkSendLossy(msg) ==
  /\ wire' = IF up /\ Len(wire) < SocketCap THEN Append(wire, msg) ELSE wire
  /\ UNCHANGED <<alive, up, now, events>>

\* Mutated form of NetworkSend: a broken socket blocks the sender.
NetworkSendStuck(msg) ==
  /\ up
  /\ Len(wire) < SocketCap
  /\ wire' = Append(wire, msg)
  /\ UNCHANGED <<alive, up, now, events>>

(***************************************************************************)
(* The reaction of NetworkSender_i: serialise and lf_send_message.  The    *)
(* call blocks on a full socket, and returns -1 on a broken one, which the *)
(* reaction ignores.                                                       *)
(***************************************************************************)
NetworkSend(msg) ==
  /\ CanSend
  /\ wire' = IF up THEN Append(wire, msg) ELSE wire
  /\ UNCHANGED <<alive, up, now, events>>

\* A reading of the clock: larger than every earlier one.
ReadClock == now + 1

\* There is a message for the listener to read.
CanListen == up /\ wire # <<>>

\* The listener thread takes the oldest message and schedules its action.
ScheduleArrival ==
  /\ CanListen
  /\ now' = ReadClock
  /\ events' = events \cup {[port |-> Head(wire).port, gen |-> Head(wire).gen, tag |-> now']}
  /\ wire' = Tail(wire)
  /\ UNCHANGED <<alive, up>>

\* e is handled before f: an earlier tag, or the same tag and an earlier
\* declaration of the reaction in the receiving reactor.
Before(e, f) == e.tag < f.tag \/ (e.tag = f.tag /\ e.port <= f.port)

\* Mutated form of NetworkReceive: the event stays in the queue.
NetworkReceiveKept(e) ==
  /\ alive
  /\ e \in events
  /\ \A f \in events : Before(e, f)
  /\ UNCHANGED <<alive, up, wire, now, events>>

\* Mutated form of NetworkReceive: the events are handled in any order.
NetworkReceiveUnordered(e) ==
  /\ alive
  /\ e \in events
  /\ events' = events \ {e}
  /\ UNCHANGED <<alive, up, wire, now>>

\* The receiver handles e: NetworkReceiver_i deserialises the message and
\* sets its port, which triggers the reactor's reaction at the same tag.
NetworkReceive(e) ==
  /\ alive
  /\ e \in events
  /\ \A f \in events : Before(e, f)
  /\ events' = events \ {e}
  /\ UNCHANGED <<alive, up, wire, now>>

\* The connection breaks.  No code reconnects, so what the socket holds is
\* lost; the receiver still handles what has arrived.
LinkDown ==
  /\ up
  /\ up' = FALSE
  /\ wire' = <<>>
  /\ UNCHANGED <<alive, now, events>>

\* The receiving federate ends, and its end of the connection with it.
ReceiverEnds ==
  /\ alive
  /\ alive' = FALSE
  /\ up' = FALSE
  /\ wire' = <<>>
  /\ events' = {}
  /\ UNCHANGED now
=============================================================================
