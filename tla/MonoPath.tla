------------------------------ MODULE MonoPath ------------------------------
(***************************************************************************)
(* The command path of the monolithic program: the outputs of the gate are *)
(* connected through the reactor Control to the inputs of the bridge by    *)
(* logical connections, so the bridge reacts at the tag of the gate's      *)
(* tick, and no reactor of the program sees a later tag before.            *)
(***************************************************************************)
EXTENDS Naturals, Sequences

CONSTANTS
  Ports,          \* the gate's outputs, numbered in the bridge's order of inputs
  MaxTick         \* bound: ticks of the gate that are explored

ASSUME MonoAssumption == Ports \subseteq Nat /\ MaxTick \in Nat

VARIABLES
  tick,           \* ticks of the gate's LF timer so far
  ticking,        \* the gate's timer reaction is running
  present,        \* outputs set at the current tag and not yet reacted to
  published       \* what the bridge published, in order (history)

vars == <<tick, ticking, present, published>>

Init ==
  /\ tick = 0
  /\ ticking = FALSE
  /\ present = {}
  /\ published = <<>>

\* The tag of the timer: everything that reacts at the last one has ended.
GateTick ==
  /\ ~ticking /\ present = {}
  /\ tick < MaxTick
  /\ tick' = tick + 1
  /\ ticking' = TRUE
  /\ UNCHANGED <<present, published>>

\* The reaction forwards the outputs whose flag it finds set.
GateSets(outputs) ==
  /\ ticking
  /\ ticking' = FALSE
  /\ present' = outputs
  /\ UNCHANGED <<tick, published>>

\* Mutated form of BridgePublish: the inputs are handled in any order, and
\* may be handled twice.
BridgePublishAgain(p) ==
  /\ ~ticking
  /\ p \in present
  /\ published' = Append(published, [port |-> p, gen |-> tick])
  /\ present' = present \ {p} \/ UNCHANGED present
  /\ UNCHANGED <<tick, ticking>>

\* The reactions of one reactor run in the order of their declaration, each
\* when its input is present.
BridgePublish(p) ==
  /\ ~ticking
  /\ p \in present
  /\ \A q \in present : p <= q
  /\ published' = Append(published, [port |-> p, gen |-> tick])
  /\ present' = present \ {p}
  /\ UNCHANGED <<tick, ticking>>

Quiescent ==
  /\ tick = MaxTick /\ ~ticking /\ present = {}
  /\ UNCHANGED vars

Next ==
  \/ GateTick
  \/ \E outputs \in SUBSET Ports : GateSets(outputs)
  \/ \E p \in Ports : BridgePublish(p)
  \/ Quiescent

Spec == Init /\ [][Next]_vars
-----------------------------------------------------------------------------
Command == [port : Ports, gen : Nat]

TypeOK ==
  /\ tick \in Nat /\ ticking \in BOOLEAN
  /\ present \subseteq Ports
  /\ published \in Seq(Command)

(***************************************************************************)
(* The bridge publishes the commands of a tick in the order of its inputs  *)
(* and before those of the next tick.  In the federation only the second   *)
(* half holds: the four senders race for the socket there.                 *)
(***************************************************************************)
PublishedInPortOrder ==
  \A i, j \in DOMAIN published :
    i < j => \/ published[i].gen < published[j].gen
             \/ /\ published[i].gen = published[j].gen
                /\ published[i].port < published[j].port

\* What has been published is behind what is still present at the tag.
PublishedBehind ==
  \A i \in DOMAIN published :
    /\ published[i].gen <= tick
    /\ ticking => published[i].gen < tick
    /\ \A p \in present : published[i].gen = tick => published[i].port < p

(***************************************************************************)
(* A tick begins only when the one before it is over, and its commands are *)
(* published from the lowest port up.                                      *)
(***************************************************************************)
MonoInv ==
  /\ TypeOK
  /\ ticking => present = {}
  /\ PublishedBehind
  /\ PublishedInPortOrder

Channel == INSTANCE CommandChannel
             WITH gen <- IF ticking THEN tick - 1 ELSE tick,
                  pending <- {[port |-> p, gen |-> tick] : p \in present},
                  broken <- FALSE

(***************************************************************************)
(* The path implements the channel that the federated path implements, one *)
(* that never breaks: each output of the gate is published once.           *)
(***************************************************************************)
ImplementsChannel == Channel!ChannelSpec
=============================================================================
