--------------------------- MODULE MonoPathProofs ---------------------------
(***************************************************************************)
(* The monolithic command path, for any ports and any number of ticks.     *)
(***************************************************************************)
EXTENDS MonoPath, TLAPS

\* A published command has a tick's number.
LEMMA GenType ==
  ASSUME TypeOK
  PROVE  \A i \in DOMAIN published : published[i].gen \in Nat /\ published[i].port \in Nat
<1>1. \A i \in DOMAIN published : published[i] \in Command
  BY DEF TypeOK
<1>2. QED
  BY <1>1, MonoAssumption DEF Command

\* What BridgePublish appends comes after everything published before.
LEMMA PublishKeepsOrder ==
  ASSUME MonoInv, NEW p \in Ports, BridgePublish(p)
  PROVE  PublishedBehind' /\ PublishedInPortOrder'
<1> DEFINE c == [port |-> p, gen |-> tick]
<1>1. /\ published \in Seq(Command) /\ tick \in Nat
      /\ p \in Nat /\ present \subseteq Nat /\ p \in present
      /\ \A q \in present : p <= q
      /\ present' = present \ {p} /\ tick' = tick /\ ticking' = ticking /\ ~ticking
      /\ published' = Append(published, c)
  BY MonoAssumption DEF MonoInv, TypeOK, BridgePublish
<1>2. c.port = p /\ c.gen = tick /\ c \in Command
  BY <1>1 DEF Command
<1> HIDE DEF c
<1>3. /\ Len(published) \in Nat
      /\ DOMAIN published = 1..Len(published)
      /\ DOMAIN published' = 1..Len(published) + 1
      /\ \A i \in DOMAIN published : published'[i] = published[i]
      /\ published'[Len(published) + 1] = c
  BY <1>1, <1>2
<1>4. \A i \in DOMAIN published :
        published[i].gen <= tick /\ (published[i].gen = tick => published[i].port < p)
  BY <1>1 DEF MonoInv, PublishedBehind
<1>5. \A i \in DOMAIN published : published[i].gen \in Nat /\ published[i].port \in Nat
  BY GenType DEF MonoInv
<1>6. PublishedBehind'
  <2> SUFFICES ASSUME NEW i \in DOMAIN published'
               PROVE  /\ published'[i].gen <= tick
                      /\ \A q \in present' : published'[i].gen = tick => published'[i].port < q
    BY <1>1 DEF PublishedBehind
  <2>1. CASE i \in DOMAIN published
    BY <1>1, <1>3, <1>4, <2>1 DEF MonoInv, PublishedBehind
  <2>2. CASE i = Len(published) + 1
    BY <1>1, <1>2, <1>3, <2>2
  <2>3. QED
    BY <1>3, <2>1, <2>2
<1>7. PublishedInPortOrder'
  <2> SUFFICES ASSUME NEW i \in DOMAIN published', NEW j \in DOMAIN published', i < j
               PROVE  \/ published'[i].gen < published'[j].gen
                      \/ /\ published'[i].gen = published'[j].gen
                         /\ published'[i].port < published'[j].port
    BY DEF PublishedInPortOrder
  <2>1. CASE j \in DOMAIN published
    BY <1>3, <2>1 DEF MonoInv, PublishedInPortOrder
  <2>2. CASE j = Len(published) + 1
    BY <1>1, <1>2, <1>3, <1>4, <1>5, <2>2
  <2>3. QED
    BY <1>3, <2>1, <2>2
<1>8. QED
  BY <1>6, <1>7

(***************************************************************************)
(* The commands are published tick by tick, and those of a tick in the     *)
(* order of the bridge's inputs.                                           *)
(***************************************************************************)
THEOREM MonoInvariant == Spec => []MonoInv
<1>1. Init => MonoInv
  <2> SUFFICES ASSUME Init
               PROVE  MonoInv
    OBVIOUS
  <2>1. TypeOK
    <3>1. ticking \in BOOLEAN
      BY DEF Init
    <3>2. QED
      BY <3>1 DEF Init, TypeOK
  <2>2. DOMAIN published = {} /\ present = {}
    BY DEF Init
  <2>3. QED
    BY <2>1, <2>2 DEF MonoInv, PublishedBehind, PublishedInPortOrder
<1>2. MonoInv /\ [Next]_vars => MonoInv'
  <2> SUFFICES ASSUME MonoInv, [Next]_vars
               PROVE  MonoInv'
    OBVIOUS
  <2>1. CASE GateTick
    <3>1. TypeOK'
      BY <2>1 DEF GateTick, MonoInv, TypeOK
    <3>2. PublishedBehind'
      <4>1. /\ published' = published /\ tick' = tick + 1 /\ tick \in Nat /\ present' = {}
            /\ \A i \in DOMAIN published : published[i].gen \in Nat /\ published[i].gen <= tick
        BY <2>1, GenType DEF GateTick, MonoInv, TypeOK, PublishedBehind
      <4>2. QED
        BY <4>1 DEF PublishedBehind
    <3>3. PublishedInPortOrder' /\ present' = {}
      BY <2>1 DEF GateTick, MonoInv, PublishedInPortOrder
    <3>4. QED
      BY <3>1, <3>2, <3>3 DEF MonoInv
  <2>2. CASE \E outputs \in SUBSET Ports : GateSets(outputs)
    <3>1. TypeOK' /\ ~ticking'
      BY <2>2 DEF GateSets, MonoInv, TypeOK
    <3>2. PublishedBehind'
      <4>1. /\ published' = published /\ tick' = tick /\ tick \in Nat
            /\ \A i \in DOMAIN published : published[i].gen \in Nat /\ published[i].gen < tick
        BY <2>2, GenType DEF GateSets, MonoInv, TypeOK, PublishedBehind
      <4>2. QED
        BY <3>1, <4>1 DEF PublishedBehind
    <3>3. PublishedInPortOrder'
      BY <2>2 DEF GateSets, MonoInv, PublishedInPortOrder
    <3>4. QED
      BY <3>1, <3>2, <3>3 DEF MonoInv
  <2>3. ASSUME NEW p \in Ports, BridgePublish(p)
        PROVE  MonoInv'
    <3>1. TypeOK' /\ ~ticking'
      <4>1. [port |-> p, gen |-> tick] \in Command
        BY DEF Command, MonoInv, TypeOK
      <4>2. QED
        BY <2>3, <4>1 DEF BridgePublish, MonoInv, TypeOK
    <3>2. QED
      BY <2>3, <3>1, PublishKeepsOrder DEF MonoInv
  <2>4. CASE Quiescent \/ UNCHANGED vars
    BY <2>4 DEF Quiescent, vars, MonoInv, TypeOK, PublishedBehind, PublishedInPortOrder
  <2>5. QED
    BY <2>1, <2>2, <2>3, <2>4 DEF Next
<1>3. QED
  BY <1>1, <1>2, PTL DEF Spec

-----------------------------------------------------------------------------
\* What the channel has pending: the outputs present at the tag of the tick.
LEMMA PendingOf ==
  ASSUME NEW S, NEW g, NEW p,
         \A q \in S : p <= q, p \in S, S \subseteq Nat, g \in Nat
  PROVE  LET pending == {[port |-> q, gen |-> g] : q \in S}
             c == [port |-> p, gen |-> g]
         IN  /\ c \in pending
             /\ \A d \in pending : c.gen <= d.gen
             /\ {[port |-> q, gen |-> g] : q \in S \ {p}} = pending \ {c}
<1> DEFINE pending == {[port |-> q, gen |-> g] : q \in S}
           c == [port |-> p, gen |-> g]
<1>1. c \in pending /\ \A d \in pending : c.gen <= d.gen
  OBVIOUS
<1>2. \A q \in S \ {p} : [port |-> q, gen |-> g] \in pending \ {c}
  <2> SUFFICES ASSUME NEW q \in S \ {p}
               PROVE  [port |-> q, gen |-> g] # c
    OBVIOUS
  <2>1. [port |-> q, gen |-> g].port # c.port
    OBVIOUS
  <2>2. QED
    BY <2>1
<1>3. \A d \in pending \ {c} : \E q \in S \ {p} : d = [port |-> q, gen |-> g]
  OBVIOUS
<1>4. {[port |-> q, gen |-> g] : q \in S \ {p}} = pending \ {c}
  BY <1>2, <1>3
<1>5. QED
  BY <1>1, <1>4

(***************************************************************************)
(* The monolithic path implements the channel: the end of the gate's       *)
(* reaction emits what it has set, and each reaction of the bridge         *)
(* publishes one of it.                                                    *)
(***************************************************************************)
THEOREM MonoPathImplementsChannel == Spec => ImplementsChannel
<1> DEFINE pendingOf == {[port |-> p, gen |-> tick] : p \in present}
           genOf == IF ticking THEN tick - 1 ELSE tick
<1>1. Init => Channel!ChannelInit
  BY DEF Init, Channel!ChannelInit
<1>2. MonoInv /\ [Next]_vars => [Channel!ChannelNext]_(Channel!channelVars)
  <2> SUFFICES ASSUME MonoInv, [Next]_vars
               PROVE  [Channel!ChannelNext]_(Channel!channelVars)
    OBVIOUS
  <2>1. CASE GateTick
    <3>1. present = {} /\ present' = {} /\ published' = published
      BY <2>1 DEF GateTick
    <3>2. genOf' = genOf
      BY <2>1 DEF GateTick, MonoInv, TypeOK
    <3>3. QED
      BY <3>1, <3>2 DEF Channel!channelVars
  <2>2. ASSUME NEW outputs \in SUBSET Ports, GateSets(outputs)
        PROVE  Channel!ChannelNext
    <3>1. /\ ticking /\ ~ticking' /\ present = {} /\ present' = outputs
          /\ tick' = tick /\ tick \in Nat /\ published' = published
      BY <2>2 DEF GateSets, MonoInv, TypeOK
    <3>2. genOf' = genOf + 1 /\ genOf + 1 = tick
      BY <3>1
    <3>3. pendingOf' = pendingOf \cup {[port |-> p, gen |-> genOf + 1] : p \in outputs}
      BY <3>1, <3>2
    <3>4. Channel!Emit(outputs)
      BY <3>1, <3>2, <3>3 DEF Channel!Emit
    <3>5. QED
      BY <3>4 DEF Channel!ChannelNext
  <2>3. ASSUME NEW p \in Ports, BridgePublish(p)
        PROVE  Channel!ChannelNext
    <3> DEFINE c == [port |-> p, gen |-> tick]
    <3>1. /\ p \in present /\ \A q \in present : p <= q
          /\ present \subseteq Nat /\ tick \in Nat /\ tick' = tick
          /\ ~ticking /\ ~ticking' /\ present' = present \ {p}
          /\ published' = Append(published, c)
      BY <2>3, MonoAssumption DEF BridgePublish, MonoInv, TypeOK
    <3>2. /\ c \in pendingOf
          /\ \A d \in pendingOf : c.gen <= d.gen
          /\ pendingOf' = pendingOf \ {c}
      BY <3>1, PendingOf
    <3>3. \E d \in pendingOf : Channel!Publish(d)
      <4>1. c \in pendingOf /\ Channel!Publish(c)
        BY <3>1, <3>2 DEF Channel!Publish
      <4>2. QED
        BY <4>1 DEF Channel!Publish
    <3>4. QED
      BY <3>3 DEF Channel!ChannelNext
  <2>4. CASE Quiescent \/ UNCHANGED vars
    BY <2>4 DEF Quiescent, vars, Channel!channelVars
  <2>5. QED
    BY <2>1, <2>2, <2>3, <2>4 DEF Next
<1>3. QED
  BY <1>1, <1>2, MonoInvariant, PTL DEF Spec, ImplementsChannel, Channel!ChannelSpec
=============================================================================
