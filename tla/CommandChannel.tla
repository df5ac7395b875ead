--------------------------- MODULE CommandChannel ---------------------------
(***************************************************************************)
(* What the path from a sending reactor to a publishing one promises, with *)
(* no network in sight.  A tick of the sender emits at most one command    *)
(* per port, stamped with the number of the tick (its generation).  The    *)
(* receiver publishes every pending command once, and nothing of a tick    *)
(* before everything of the earlier ticks.  When the channel breaks, any   *)
(* part of what is pending is lost, at once or later, and all that is      *)
(* emitted from then on.                                                   *)
(***************************************************************************)
EXTENDS Naturals, Sequences

CONSTANT Ports    \* the output ports of the sender

VARIABLES
  gen,            \* generation of the last tick
  pending,        \* commands emitted and not yet published
  published,      \* commands published so far, in order
  broken          \* TRUE once the connection is lost

channelVars == <<gen, pending, published, broken>>

Command == [port : Ports, gen : Nat]

ChannelInit ==
  /\ gen = 0
  /\ pending = {}
  /\ published = <<>>
  /\ broken = FALSE

Emit(outputs) ==
  /\ gen' = gen + 1
  /\ pending' = IF broken THEN pending
                ELSE pending \cup {[port |-> p, gen |-> gen + 1] : p \in outputs}
  /\ UNCHANGED <<published, broken>>

Publish(c) ==
  /\ c \in pending
  /\ \A d \in pending : c.gen <= d.gen
  /\ pending' = pending \ {c}
  /\ published' = Append(published, c)
  /\ UNCHANGED <<gen, broken>>

Break ==
  /\ broken' = TRUE
  /\ pending' \subseteq pending
  /\ UNCHANGED <<gen, published>>

ChannelNext ==
  \/ \E outputs \in SUBSET Ports : Emit(outputs)
  \/ \E c \in pending : Publish(c)
  \/ Break

ChannelSpec == ChannelInit /\ [][ChannelNext]_channelVars
-----------------------------------------------------------------------------
ChannelTypeOK ==
  /\ gen \in Nat
  /\ pending \subseteq Command
  /\ published \in Seq(Command)
  /\ broken \in BOOLEAN

\* No command is published twice, nor after one of a later generation.
InOrder ==
  \A i, j \in DOMAIN published :
    i < j => /\ published[i].gen <= published[j].gen
             /\ published[i] # published[j]

(***************************************************************************)
(* InOrder is not inductive: a publication must also be known to differ    *)
(* from, and to be no younger than, everything that is still pending.      *)
(***************************************************************************)
PublishedBeforePending ==
  \A i \in DOMAIN published :
    /\ published[i].gen <= gen
    /\ \A c \in pending : published[i] # c /\ published[i].gen <= c.gen

ChannelInv ==
  /\ ChannelTypeOK
  /\ \A c \in pending : c.gen <= gen
  /\ PublishedBeforePending
  /\ InOrder
=============================================================================
