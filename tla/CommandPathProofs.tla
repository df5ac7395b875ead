------------------------- MODULE CommandPathProofs --------------------------
(***************************************************************************)
(* The federated command path implements the channel for any ports, any    *)
(* socket capacity and any number of ticks, and hence publishes in order   *)
(* and at most once.                                                       *)
(***************************************************************************)
EXTENDS CommandPath, TLAPS

\* Shape of the messages on the path.
LEMMA MessageFields ==
  /\ \A c \in Command : c.port \in Ports /\ c.gen \in Nat
  /\ \A c, d \in Command : c.port = d.port /\ c.gen = d.gen => c = d
  BY DEF Command

\* Taking the oldest message leaves the others where they were, shifted.
LEMMA TailOfWire ==
  ASSUME wire \in Seq(Command), wire # <<>>
  PROVE  /\ Tail(wire) \in Seq(Command)
         /\ Head(wire) = wire[1] /\ 1 \in DOMAIN wire
         /\ wire[1] \in Command
         /\ \A i \in DOMAIN Tail(wire) :
              i + 1 \in DOMAIN wire /\ Tail(wire)[i] = wire[i + 1] /\ i \in Nat \ {0}
         /\ \A i \in DOMAIN wire : i = 1 \/ (i - 1 \in DOMAIN Tail(wire) /\ wire[i] = Tail(wire)[i - 1])
  OBVIOUS

\* Sending appends the message and moves no other.
LEMMA AppendToWire ==
  ASSUME wire \in Seq(Command), NEW c \in Command
  PROVE  /\ Append(wire, c) \in Seq(Command)
         /\ DOMAIN Append(wire, c) = DOMAIN wire \cup {Len(wire) + 1}
         /\ \A i \in DOMAIN wire : Append(wire, c)[i] = wire[i] /\ i < Len(wire) + 1
         /\ Append(wire, c)[Len(wire) + 1] = c
         /\ Len(wire) \in Nat
  OBVIOUS

\* The invariant holds when the federation starts.
LEMMA FlowInvInit == Init => FlowInv
<1> SUFFICES ASSUME Init
             PROVE  FlowInv
  OBVIOUS
<1>1. wire = <<>> /\ DOMAIN wire = {} /\ events = {} /\ <<>> \in Seq(Command)
  BY DEF Init, LinkInit
<1>2. TypeOK
  BY <1>1 DEF Init, LinkInit, TypeOK
<1>3. QED
  BY <1>1, <1>2 DEF Init, LinkInit, FlowInv, NothingWhenDown, TagsFollowArrival, TicksInOrder, InOnePlace, VehicleBehind

\* The invariant survives a tick of the gate.
LEMMA FlowInvGateTick ==
  ASSUME FlowInv, NEW outputs \in SUBSET Ports, GateTick(outputs)
  PROVE  FlowInv'
<1> USE DEF FlowInv
<1>1. TypeOK'
  BY DEF TypeOK, linkVars, GateTick
<1>2. NothingWhenDown' /\ TagsFollowArrival'
  BY DEF NothingWhenDown, linkVars, GateTick, TagsFollowArrival
<1>3. \A e \in events : e.gen \in Nat /\ e.gen <= tick
  BY DEF TypeOK, TicksInOrder
<1>4. \A i \in DOMAIN wire : wire[i].gen \in Nat /\ wire[i].gen <= tick
  BY MessageFields DEF TypeOK, TicksInOrder
<1>5. tick \in Nat /\ tick' = tick + 1 /\ UNCHANGED <<alive, up, wire, now, events, topic, applied>>
  BY DEF linkVars, GateTick, TypeOK
<1>6. TicksInOrder'
  BY <1>3, <1>4, <1>5 DEF TicksInOrder
<1>7. InOnePlace'
  BY <1>3, <1>4, <1>5 DEF InOnePlace, Carries
<1>8. VehicleBehind'
  <2>1. topic \in [Ports -> Nat] /\ applied \in [Ports -> Nat]
    BY DEF TypeOK
  <2>2. QED
    BY <2>1, <1>5 DEF VehicleBehind
<1>9. QED
  BY <1>1, <1>2, <1>6, <1>7, <1>8

\* The invariant survives a network send, whether it succeeds or not.
LEMMA FlowInvSendOutput ==
  ASSUME FlowInv, NEW p \in present, SendOutput(p)
  PROVE  FlowInv'
<1> USE DEF FlowInv
<1> DEFINE msg == [port |-> p, gen |-> tick]
<1>1. p \in Ports /\ msg \in Command /\ msg.port = p /\ msg.gen = tick /\ tick \in Nat
  BY DEF TypeOK, Command
<1> HIDE DEF msg
<1>2. present' = present \ {p} /\ UNCHANGED <<alive, up, now, events, tick, published, topic, applied>>
  BY DEF SendOutput, NetworkSend
<1>3. wire \in Seq(Command)
  BY DEF TypeOK
<1>4. CASE wire' = wire
  BY <1>2, <1>4 DEF TypeOK, NothingWhenDown, TagsFollowArrival, TicksInOrder, InOnePlace, VehicleBehind
<1>5. CASE up /\ wire' = Append(wire, msg)
  <2>1. /\ wire' \in Seq(Command)
        /\ DOMAIN wire' = DOMAIN wire \cup {Len(wire) + 1}
        /\ \A i \in DOMAIN wire : wire'[i] = wire[i] /\ i < Len(wire) + 1
        /\ wire'[Len(wire) + 1] = msg
        /\ Len(wire) \in Nat
    BY <1>1, <1>3, <1>5, AppendToWire
  <2>2. TypeOK' /\ NothingWhenDown' /\ TagsFollowArrival'
    BY <1>2, <1>5, <2>1 DEF NothingWhenDown, TypeOK, TagsFollowArrival
  <2>3. TicksInOrder'
    <3>1. \A i \in DOMAIN wire' : wire'[i].gen <= tick
      BY <2>1, <1>1 DEF TicksInOrder
    <3>2. \A e \in events, i \in DOMAIN wire' : e.gen <= wire'[i].gen
      BY <2>1, <1>1 DEF TicksInOrder
    <3>3. \A i, j \in DOMAIN wire' : i < j => wire'[i].gen <= wire'[j].gen
      <4> SUFFICES ASSUME NEW i \in DOMAIN wire', NEW j \in DOMAIN wire', i < j
                   PROVE  wire'[i].gen <= wire'[j].gen
        OBVIOUS
      <4>1. i \in DOMAIN wire
        BY <2>1
      <4>2. QED
        BY <4>1, <2>1, <1>1 DEF TicksInOrder
    <3>4. QED
      BY <3>1, <3>2, <3>3, <1>2 DEF TicksInOrder
  <2>4. InOnePlace'
    <3>1. \A e \in events : ~Carries(e, msg)
      BY <1>1 DEF InOnePlace, Carries
    <3>2. \A i \in DOMAIN wire : ~Carries(wire[i], msg) /\ ~Carries(msg, wire[i])
      BY <1>1 DEF InOnePlace, Carries
    <3>3. \A e \in events, i \in DOMAIN wire' : ~Carries(e, wire'[i])
      BY <2>1, <3>1 DEF InOnePlace
    <3>4. \A i, j \in DOMAIN wire' : Carries(wire'[i], wire'[j]) => i = j
      BY <2>1, <3>2 DEF InOnePlace
    <3>5. \A i \in DOMAIN wire' : wire'[i].gen = tick => wire'[i].port \notin present'
      BY <2>1, <1>1, <1>2 DEF InOnePlace
    <3>6. QED
      BY <3>3, <3>4, <3>5, <1>2 DEF InOnePlace, Carries
  <2>5. VehicleBehind'
    <3>1. applied[p] < tick /\ topic[p] < tick
      BY <1>1 DEF VehicleBehind
    <3>2. QED
      BY <3>1, <1>1, <1>2, <2>1 DEF VehicleBehind
  <2>6. QED
    BY <2>2, <2>3, <2>4, <2>5
<1>6. QED
  BY <1>4, <1>5 DEF SendOutput, NetworkSend, msg

\* The invariant survives the arrival of a message.
LEMMA FlowInvListen ==
  ASSUME FlowInv, Listen
  PROVE  FlowInv'
<1> USE DEF FlowInv
<1> DEFINE new == [port |-> wire[1].port, gen |-> wire[1].gen, tag |-> now + 1]
<1>1. wire \in Seq(Command) /\ wire # <<>> /\ up /\ now \in Nat
  BY DEF Listen, CanListen, ScheduleArrival, TypeOK
<1>2. /\ wire' = Tail(wire) /\ wire' \in Seq(Command)
      /\ 1 \in DOMAIN wire /\ wire[1] \in Command
      /\ \A i \in DOMAIN wire' : i + 1 \in DOMAIN wire /\ wire'[i] = wire[i + 1] /\ i \in Nat \ {0}
  BY <1>1, TailOfWire DEF Listen, CanListen, ScheduleArrival
<1>3. /\ events' = events \cup {new} /\ now' = now + 1
      /\ UNCHANGED <<alive, up, tick, present, published, topic, applied>>
  BY <1>1, TailOfWire DEF Listen, CanListen, ScheduleArrival, ReadClock, pathVars
<1>4. /\ new.port = wire[1].port /\ new.gen = wire[1].gen /\ new.tag = now + 1
      /\ new \in [port : Ports, gen : Nat, tag : Nat]
  BY <1>1, <1>2, MessageFields
<1>5. \A e \in events : e.gen \in Nat /\ e.tag \in Nat /\ e.tag <= now
  BY DEF TypeOK, TagsFollowArrival
<1>6. \A i \in DOMAIN wire : wire[i].gen \in Nat /\ wire[i] \in Command
  BY <1>1, MessageFields
<1> HIDE DEF new
<1>7. TypeOK' /\ NothingWhenDown'
  BY <1>1, <1>2, <1>3, <1>4 DEF NothingWhenDown, TypeOK
<1>8. TagsFollowArrival'
  BY <1>1, <1>3, <1>4, <1>5 DEF TagsFollowArrival
<1>9. TicksInOrder'
  <2>1. \A e \in events' : e.gen <= tick
    BY <1>2, <1>3, <1>4 DEF TicksInOrder
  <2>2. \A i \in DOMAIN wire' : wire'[i].gen <= tick
    BY <1>2 DEF TicksInOrder
  <2>3. \A e, f \in events' : e.tag < f.tag => e.gen <= f.gen
    <3> SUFFICES ASSUME NEW e \in events', NEW f \in events', e.tag < f.tag
                 PROVE  e.gen <= f.gen
      OBVIOUS
    <3>1. e \in events
      BY <1>1, <1>3, <1>4, <1>5
    <3>2. QED
      BY <3>1, <1>2, <1>3, <1>4 DEF TicksInOrder
  <2>4. \A e \in events', i \in DOMAIN wire' : e.gen <= wire'[i].gen
    <3> SUFFICES ASSUME NEW e \in events', NEW i \in DOMAIN wire'
                 PROVE  e.gen <= wire'[i].gen
      OBVIOUS
    <3>1. i + 1 \in DOMAIN wire /\ wire'[i] = wire[i + 1] /\ 1 < i + 1
      BY <1>2
    <3>2. QED
      BY <3>1, <1>2, <1>3, <1>4 DEF TicksInOrder
  <2>5. \A i, j \in DOMAIN wire' : i < j => wire'[i].gen <= wire'[j].gen
    <3> SUFFICES ASSUME NEW i \in DOMAIN wire', NEW j \in DOMAIN wire', i < j
                 PROVE  wire'[i].gen <= wire'[j].gen
      OBVIOUS
    <3>1. i + 1 \in DOMAIN wire /\ j + 1 \in DOMAIN wire /\ i + 1 < j + 1
      BY <1>2
    <3>2. QED
      BY <3>1, <1>2 DEF TicksInOrder
  <2>6. QED
    BY <2>1, <2>2, <2>3, <2>4, <2>5, <1>3 DEF TicksInOrder
<1>10. InOnePlace'
  <2>1. \A e \in events : ~Carries(e, new) /\ ~Carries(new, e)
    BY <1>2, <1>4 DEF InOnePlace, Carries
  <2>2. \A e, f \in events' : Carries(e, f) => e = f
    BY <2>1, <1>3 DEF InOnePlace
  <2>3. \A e \in events', i \in DOMAIN wire' : ~Carries(e, wire'[i])
    <3> SUFFICES ASSUME NEW e \in events', NEW i \in DOMAIN wire'
                 PROVE  ~Carries(e, wire'[i])
      OBVIOUS
    <3>1. i + 1 \in DOMAIN wire /\ wire'[i] = wire[i + 1] /\ i + 1 # 1
      BY <1>2
    <3>2. ~Carries(wire[1], wire[i + 1])
      BY <3>1, <1>2 DEF InOnePlace
    <3>3. CASE e = new
      BY <3>1, <3>2, <3>3, <1>4 DEF Carries
    <3>4. CASE e \in events
      BY <3>1, <3>4 DEF InOnePlace
    <3>5. QED
      BY <3>3, <3>4, <1>3
  <2>4. \A i, j \in DOMAIN wire' : Carries(wire'[i], wire'[j]) => i = j
    <3> SUFFICES ASSUME NEW i \in DOMAIN wire', NEW j \in DOMAIN wire', Carries(wire'[i], wire'[j])
                 PROVE  i = j
      OBVIOUS
    <3>1. i + 1 = j + 1
      BY <1>2 DEF InOnePlace
    <3>2. QED
      BY <3>1, <1>2
  <2>5. \A e \in events' : e.gen = tick => e.port \notin present
    BY <1>2, <1>3, <1>4 DEF InOnePlace
  <2>6. \A i \in DOMAIN wire' : wire'[i].gen = tick => wire'[i].port \notin present
    BY <1>2 DEF InOnePlace
  <2>7. QED
    BY <2>2, <2>3, <2>4, <2>5, <2>6, <1>3 DEF InOnePlace
<1>11. VehicleBehind'
  BY <1>2, <1>3, <1>4 DEF VehicleBehind
<1>12. QED
  BY <1>7, <1>8, <1>9, <1>10, <1>11

\* The invariant survives a publication of the bridge.
LEMMA FlowInvBridgePublish ==
  ASSUME FlowInv, NEW e \in events, BridgePublish(e)
  PROVE  FlowInv'
<1> USE DEF FlowInv
<1>1. /\ alive /\ events' = events \ {e} /\ \A f \in events : Before(e, f)
      /\ published' = Append(published, [port |-> e.port, gen |-> e.gen])
      /\ topic' = [topic EXCEPT ![e.port] = e.gen]
      /\ UNCHANGED <<alive, up, wire, now, tick, present, applied>>
  BY DEF BridgePublish, NetworkReceive
<1>2. /\ e.port \in Ports /\ e.gen \in Nat
      /\ [port |-> e.port, gen |-> e.gen] \in Command
      /\ published \in Seq(Command) /\ topic \in [Ports -> Nat] /\ applied \in [Ports -> Nat]
      /\ tick \in Nat
  BY DEF TypeOK, Command
<1>3. \A f \in events : f.gen \in Nat /\ f.tag \in Nat
  BY DEF TypeOK
<1>4. \A i \in DOMAIN wire : wire[i].gen \in Nat
  BY MessageFields DEF TypeOK
<1>5. published' \in Seq(Command)
  BY <1>1, <1>2
<1>6. TypeOK' /\ NothingWhenDown' /\ TagsFollowArrival'
  BY <1>1, <1>2, <1>5 DEF NothingWhenDown, TypeOK, TagsFollowArrival
<1>7. TicksInOrder' /\ InOnePlace'
  BY <1>1 DEF TicksInOrder, InOnePlace, Carries
<1>8. VehicleBehind'
  <2>1. applied[e.port] < e.gen /\ e.gen <= tick
    BY <1>2 DEF VehicleBehind, TicksInOrder
  <2>2. e.port \in present => e.gen < tick
    BY <2>1, <1>2 DEF InOnePlace
  <2>3. \A f \in events' : f.port = e.port => e.gen < f.gen
    <3> SUFFICES ASSUME NEW f \in events', f.port = e.port
                 PROVE  e.gen < f.gen
      OBVIOUS
    <3>1. f \in events /\ f # e /\ Before(e, f)
      BY <1>1
    <3>2. e.tag < f.tag
      BY <3>1, <1>3 DEF Before, TagsFollowArrival
    <3>3. e.gen <= f.gen /\ e.gen # f.gen
      BY <3>1, <3>2 DEF TicksInOrder, InOnePlace, Carries
    <3>4. QED
      BY <3>1, <3>3, <1>2, <1>3
  <2>4. \A i \in DOMAIN wire : wire[i].port = e.port => e.gen < wire[i].gen
    BY <1>2, <1>4 DEF TicksInOrder, InOnePlace, Carries
  <2>5. topic'[e.port] = e.gen /\ \A p \in Ports : p # e.port => topic'[p] = topic[p]
    BY <1>1, <1>2
  <2>6. QED
    BY <2>1, <2>2, <2>3, <2>4, <2>5, <1>1, <1>2 DEF VehicleBehind
<1>9. QED
  BY <1>6, <1>7, <1>8

\* The invariant survives every step, whoever takes it.
LEMMA FlowInvNext == FlowInv /\ [Next]_vars => FlowInv'
<1> SUFFICES ASSUME FlowInv, [Next]_vars
             PROVE  FlowInv'
  OBVIOUS
<1>1. ASSUME NEW p \in Ports, VehicleRead(p)
      PROVE  FlowInv'
  <2>1. /\ topic[p] # 0 /\ applied' = [applied EXCEPT ![p] = topic[p]]
        /\ topic' = [topic EXCEPT ![p] = 0]
        /\ UNCHANGED <<alive, up, wire, now, events, tick, present, published>>
    BY <1>1 DEF linkVars, VehicleRead
  <2>2. topic \in [Ports -> Nat] /\ applied \in [Ports -> Nat] /\ tick \in Nat
    BY DEF FlowInv, TypeOK
  <2>3. TypeOK' /\ NothingWhenDown'
    BY <2>1, <2>2 DEF NothingWhenDown, FlowInv, TypeOK
  <2>4. TagsFollowArrival' /\ TicksInOrder' /\ InOnePlace'
    BY <2>1 DEF FlowInv, TagsFollowArrival, TicksInOrder, InOnePlace, Carries
  <2>5. VehicleBehind'
    <3>1. \A q \in Ports : /\ applied'[q] = IF q = p THEN topic[p] ELSE applied[q]
                           /\ topic'[q] = IF q = p THEN 0 ELSE topic[q]
      BY <2>1, <2>2
    <3>2. \A q \in Ports : topic[q] \in Nat /\ applied[q] \in Nat
      BY <2>2
    <3>3. 0 < topic[p] /\ topic[p] <= tick /\ applied[p] < topic[p]
      BY <2>1, <3>2 DEF FlowInv, VehicleBehind
    <3>4. /\ p \in present => topic[p] < tick /\ 0 < tick
          /\ 0 <= tick
          /\ \A e \in events : e.port = p => topic[p] < e.gen
          /\ \A i \in DOMAIN wire : wire[i].port = p => topic[p] < wire[i].gen
      BY <3>2, <3>3, <2>2 DEF FlowInv, VehicleBehind
    <3>5. /\ \A e \in events : e.gen \in Nat
          /\ \A i \in DOMAIN wire : wire[i].gen \in Nat
      BY MessageFields DEF FlowInv, TypeOK
    <3>6. /\ \A e \in events : e.port = p => 0 < e.gen
          /\ \A i \in DOMAIN wire : wire[i].port = p => 0 < wire[i].gen
      BY <3>2, <3>4, <3>5
    <3> SUFFICES ASSUME NEW q \in Ports
                 PROVE  /\ topic'[q] # 0 => applied'[q] < topic'[q]
                        /\ applied'[q] <= tick /\ topic'[q] <= tick
                        /\ q \in present => applied'[q] < tick /\ topic'[q] < tick
                        /\ \A e \in events :
                             e.port = q => applied'[q] < e.gen /\ topic'[q] < e.gen
                        /\ \A i \in DOMAIN wire :
                             wire[i].port = q => applied'[q] < wire[i].gen /\ topic'[q] < wire[i].gen
      BY <2>1 DEF VehicleBehind
    <3>7. CASE q = p
      BY <3>1, <3>3, <3>4, <3>6, <3>7
    <3>8. CASE q # p
      BY <3>1, <3>8 DEF FlowInv, VehicleBehind
    <3>9. QED
      BY <3>7, <3>8
  <2>6. QED
    BY <2>3, <2>4, <2>5 DEF FlowInv
<1>2. CASE ConnectionBreaks \/ BridgeEnds
  <2>1. /\ wire' = <<>> /\ <<>> \in Seq(Command) /\ DOMAIN wire' = {}
        /\ up' = FALSE
    BY <1>2 DEF ConnectionBreaks, BridgeEnds, LinkDown, ReceiverEnds
  <2>2. events' \subseteq events /\ alive' \in BOOLEAN /\ (~alive' => events' = {})
    <3>1. alive \in BOOLEAN /\ (~alive => events = {})
      BY DEF FlowInv, TypeOK, NothingWhenDown
    <3>2. QED
      BY <1>2, <3>1 DEF ConnectionBreaks, BridgeEnds, LinkDown, ReceiverEnds
  <2>3. UNCHANGED <<now, tick, present, published, topic, applied>>
    BY <1>2 DEF ConnectionBreaks, BridgeEnds, LinkDown, ReceiverEnds, pathVars
  <2>4. TypeOK' /\ NothingWhenDown' /\ TagsFollowArrival'
    BY <2>1, <2>3, <2>2 DEF FlowInv, TypeOK, NothingWhenDown, TagsFollowArrival
  <2>5. TicksInOrder' /\ InOnePlace' /\ VehicleBehind'
    BY <2>1, <2>3, <2>2 DEF FlowInv, TicksInOrder, InOnePlace, VehicleBehind, Carries
  <2>6. QED
    BY <2>4, <2>5 DEF FlowInv
<1>3. CASE UNCHANGED vars
  BY <1>3 DEF vars, linkVars, FlowInv, TypeOK, NothingWhenDown, TagsFollowArrival, TicksInOrder, InOnePlace,
              VehicleBehind, Carries
<1>4. QED
  BY <1>1, <1>2, <1>3, FlowInvGateTick, FlowInvSendOutput, FlowInvListen, FlowInvBridgePublish
  DEF Next, Quiescent

\* The flow of the commands is in order at all times.
LEMMA FlowInvariant == Spec => []FlowInv
  BY FlowInvInit, FlowInvNext, PTL DEF Spec

\* A publication is newer than what its topic and the vehicle have.
LEMMA PublishesNewest ==
  ASSUME FlowInv, VehicleHoldsNewest, NEW e \in events, BridgePublish(e)
  PROVE  VehicleHoldsNewest'
<1> DEFINE q == e.port
           n == Len(published) + 1
<1>1. /\ q \in Ports /\ e.gen \in Nat /\ topic \in [Ports -> Nat] /\ applied \in [Ports -> Nat]
      /\ published \in Seq(Command) /\ n \in Nat
      /\ applied[q] < e.gen /\ topic[q] < e.gen
  BY DEF FlowInv, TypeOK, VehicleBehind
<1>2. /\ published' = Append(published, [port |-> q, gen |-> e.gen])
      /\ topic' = [topic EXCEPT ![q] = e.gen] /\ applied' = applied
  BY DEF BridgePublish
<1>3. /\ n \in DOMAIN published' /\ published'[n] = [port |-> q, gen |-> e.gen]
      /\ \A i \in DOMAIN published : i \in DOMAIN published' /\ published'[i] = published[i]
      /\ \A i \in DOMAIN published' : i = n \/ i \in DOMAIN published
  BY <1>1, <1>2
<1>4. Newest(q)' = e.gen /\ Newest(q) \in Nat /\ Newest(q) < e.gen
  BY <1>1, <1>2 DEF Newest
<1>5. ASSUME NEW p \in Ports
      PROVE  /\ Newest(p)' # 0 =>
                 \E i \in DOMAIN published' : published'[i] = [port |-> p, gen |-> Newest(p)']
             /\ \A i \in DOMAIN published' : published'[i].port = p => published'[i].gen <= Newest(p)'
  <2>1. CASE p = q
    <3>1. ASSUME NEW i \in DOMAIN published', published'[i].port = p
          PROVE  published'[i].gen <= Newest(p)'
      <4>1. CASE i = n
        BY <1>1, <1>3, <1>4, <2>1, <4>1
      <4>2. CASE i \in DOMAIN published
        <5>1. published[i].gen <= Newest(q) /\ published'[i] = published[i]
          BY <1>1, <1>3, <2>1, <3>1, <4>2 DEF VehicleHoldsNewest
        <5>2. published[i].gen \in Nat
          BY <1>1, <4>2, MessageFields
        <5>3. QED
          BY <1>1, <1>4, <2>1, <5>1, <5>2
      <4>3. QED
        BY <1>3, <4>1, <4>2
    <3>2. QED
      BY <1>3, <1>4, <2>1, <3>1
  <2>2. CASE p # q
    <3>1. Newest(p)' = Newest(p)
      BY <1>1, <1>2, <2>2 DEF Newest
    <3>2. \A i \in DOMAIN published' :
            published'[i].port = p => i \in DOMAIN published /\ published'[i] = published[i]
      BY <1>3, <2>2
    <3>3. QED
      BY <1>3, <3>1, <3>2 DEF VehicleHoldsNewest
  <2>3. QED
    BY <2>1, <2>2
<1>6. QED
  BY <1>5 DEF VehicleHoldsNewest

\* Reading a topic does not change what the vehicle has or will read.
LEMMA ReadsNewest ==
  ASSUME FlowInv, VehicleHoldsNewest, NEW q \in Ports, VehicleRead(q)
  PROVE  VehicleHoldsNewest'
<1>1. /\ topic[q] # 0 /\ published' = published
      /\ topic \in [Ports -> Nat] /\ applied \in [Ports -> Nat]
      /\ applied' = [applied EXCEPT ![q] = topic[q]]
      /\ topic' = [topic EXCEPT ![q] = 0]
  BY DEF linkVars, VehicleRead, FlowInv, TypeOK
<1>2. \A p \in Ports : Newest(p)' = Newest(p)
  BY <1>1 DEF Newest
<1>3. QED
  BY <1>1, <1>2 DEF VehicleHoldsNewest

(***************************************************************************)
(* The inductive invariant of the path: tags follow the order of arrival,  *)
(* the ticks in flight and the places of the commands are as FlowInv says, *)
(* and the vehicle has or will read the newest command of each topic.      *)
(***************************************************************************)
THEOREM PathInvariant == Spec => []PathInv
<1>1. Init => VehicleHoldsNewest
  <2> SUFFICES ASSUME Init
               PROVE  VehicleHoldsNewest
    OBVIOUS
  <2>1. DOMAIN published = {}
    BY DEF Init
  <2>2. \A p \in Ports : Newest(p) = 0
    BY DEF Init, Newest
  <2>3. QED
    BY <2>1, <2>2 DEF VehicleHoldsNewest
<1>2. FlowInv /\ VehicleHoldsNewest /\ [Next]_vars => VehicleHoldsNewest'
  <2> SUFFICES ASSUME FlowInv, VehicleHoldsNewest, [Next]_vars,
                      ~\E e \in events : BridgePublish(e), ~\E p \in Ports : VehicleRead(p)
               PROVE  VehicleHoldsNewest'
    BY PublishesNewest, ReadsNewest
  <2>1. UNCHANGED <<published, topic, applied>>
    BY DEF Next, linkVars, GateTick, SendOutput, Listen, ConnectionBreaks, BridgeEnds, LinkDown, ReceiverEnds, Quiescent, pathVars, vars
  <2>2. QED
    BY <2>1 DEF VehicleHoldsNewest, Newest
<1>3. QED
  BY <1>1, <1>2, FlowInvariant, PTL DEF Spec, PathInv

(***************************************************************************)
(* Whatever the vehicle misses on a topic that keeps one message, and for  *)
(* any ports and socket: it has, or is going to read, the newest command   *)
(* published there.                                                        *)
(***************************************************************************)
THEOREM VehicleMissesNoNewest == Spec => []VehicleHoldsNewest
<1>1. PathInv => VehicleHoldsNewest
  BY DEF PathInv
<1>2. QED
  BY <1>1, PathInvariant, PTL

(***************************************************************************)
(* The command a vehicle applies on a topic never goes back to an older    *)
(* tick, although topics keep one message and drop the rest.               *)
(***************************************************************************)
THEOREM VehicleMovesForward == Spec => VehicleNeverRegresses
<1>1. FlowInv /\ [Next]_vars =>
        [\A p \in Ports : applied'[p] # applied[p] => applied'[p] > applied[p]]_vars
  <2> SUFFICES ASSUME FlowInv, Next, NEW p \in Ports, applied'[p] # applied[p]
               PROVE  applied'[p] > applied[p]
    OBVIOUS
  <2>1. PICK q \in Ports : VehicleRead(q)
    BY DEF Next, linkVars, GateTick, SendOutput, Listen, BridgePublish, ConnectionBreaks, BridgeEnds, LinkDown, ReceiverEnds, Quiescent, pathVars, vars
  <2>2. applied \in [Ports -> Nat] /\ topic \in [Ports -> Nat]
    BY DEF FlowInv, TypeOK
  <2>3. QED
    BY <2>1, <2>2 DEF linkVars, VehicleRead, FlowInv, VehicleBehind
<1>2. QED
  BY <1>1, FlowInvariant, PTL DEF Spec, VehicleNeverRegresses

-----------------------------------------------------------------------------
\* What it means to be in flight, element by element.
LEMMA InFlightMembers ==
  \A c : c \in InFlight <=>
    \/ up /\ \/ \E p \in present : c = [port |-> p, gen |-> tick]
             \/ \E i \in DOMAIN wire : c = wire[i]
    \/ \E e \in events : c = [port |-> e.port, gen |-> e.gen]
  BY DEF InFlight

\* A send moves a command from the senders to the socket.
LEMMA SendKeepsInFlight ==
  ASSUME FlowInv, NEW p \in present, SendOutput(p)
  PROVE  InFlight' = InFlight
<1> DEFINE msg == [port |-> p, gen |-> tick]
<1>1. wire \in Seq(Command) /\ msg \in Command
  BY DEF FlowInv, TypeOK, Command
<1>2. present' = present \ {p} /\ UNCHANGED <<alive, up, events, tick>>
  BY DEF SendOutput, NetworkSend
<1>3. CASE ~up
  BY <1>2, <1>3 DEF InFlight
<1>4. CASE up
  <2>1. wire' = Append(wire, msg)
    BY <1>4 DEF SendOutput, NetworkSend
  <2>2. {wire'[i] : i \in DOMAIN wire'} = {wire[i] : i \in DOMAIN wire} \cup {msg}
    BY <1>1, <2>1, AppendToWire
  <2>3. {[port |-> q, gen |-> tick] : q \in present}
          = {[port |-> q, gen |-> tick] : q \in present'} \cup {msg}
    BY <1>2
  <2>4. QED
    BY <1>2, <2>2, <2>3 DEF InFlight
<1>5. QED
  BY <1>3, <1>4

\* An arrival moves a command from the socket to the event queue.
LEMMA ListenKeepsInFlight ==
  ASSUME FlowInv, Listen
  PROVE  InFlight' = InFlight
<1>1. /\ wire \in Seq(Command) /\ wire # <<>> /\ wire' = Tail(wire) /\ up
      /\ events' = events \cup {[port |-> Head(wire).port, gen |-> Head(wire).gen, tag |-> now']}
      /\ UNCHANGED <<alive, up, present, tick>>
  BY DEF FlowInv, TypeOK, Listen, CanListen, ScheduleArrival, pathVars
<1>2. Head(wire) = wire[1] /\ wire[1] = [port |-> wire[1].port, gen |-> wire[1].gen]
  BY <1>1, TailOfWire DEF Command
<1>3. {wire[i] : i \in DOMAIN wire} = {wire'[i] : i \in DOMAIN wire'} \cup {wire[1]}
  BY <1>1, TailOfWire
<1>4. {[port |-> e.port, gen |-> e.gen] : e \in events'}
        = {[port |-> e.port, gen |-> e.gen] : e \in events} \cup {wire[1]}
  <2> DEFINE new == [port |-> wire[1].port, gen |-> wire[1].gen, tag |-> now']
  <2>1. events' = events \cup {new} /\ [port |-> new.port, gen |-> new.gen] = wire[1]
    BY <1>1, <1>2
  <2> HIDE DEF new
  <2>2. QED
    BY <2>1
<1>5. QED
  BY <1>1, <1>3, <1>4 DEF InFlight

\* A publication of the bridge is a publication of the channel.
LEMMA BridgePublishIsPublish ==
  ASSUME FlowInv, NEW e \in events, BridgePublish(e)
  PROVE  [port |-> e.port, gen |-> e.gen] \in InFlight
         /\ Channel!Publish([port |-> e.port, gen |-> e.gen])
<1> DEFINE c == [port |-> e.port, gen |-> e.gen]
<1>1. /\ alive /\ events' = events \ {e} /\ \A f \in events : Before(e, f)
      /\ published' = Append(published, c)
      /\ UNCHANGED <<alive, up, wire, tick, present>>
  BY DEF BridgePublish, NetworkReceive
<1>2. /\ \A f \in events : f.gen \in Nat /\ f.tag \in Nat
      /\ \A i \in DOMAIN wire : wire[i].gen \in Nat
      /\ tick \in Nat
  BY MessageFields DEF FlowInv, TypeOK
<1>3. c \in InFlight
  BY <1>1, InFlightMembers
<1>4. \A d \in InFlight : c.gen <= d.gen
  <2> SUFFICES ASSUME NEW d \in InFlight
               PROVE  e.gen <= d.gen
    OBVIOUS
  <2>1. CASE \E p \in present : d = [port |-> p, gen |-> tick]
    BY <2>1 DEF FlowInv, TicksInOrder
  <2>2. CASE \E i \in DOMAIN wire : d = wire[i]
    BY <2>2 DEF FlowInv, TicksInOrder
  <2>3. ASSUME NEW f \in events, d = [port |-> f.port, gen |-> f.gen]
        PROVE  e.gen <= d.gen
    <3>1. e.tag < f.tag \/ e = f
      BY <1>1, <1>2 DEF Before, FlowInv, TagsFollowArrival
    <3>2. QED
      BY <3>1, <2>3, <1>2 DEF FlowInv, TicksInOrder
  <2>4. QED
    BY <2>1, <2>2, <2>3, InFlightMembers
<1>5. InFlight' = InFlight \ {c}
  <2>1. \A p \in present : [port |-> p, gen |-> tick] # c
    BY DEF FlowInv, InOnePlace
  <2>2. \A i \in DOMAIN wire : wire[i] # c
    BY DEF FlowInv, InOnePlace, Carries
  <2>3. \A f \in events : [port |-> f.port, gen |-> f.gen] = c => f = e
    BY DEF FlowInv, InOnePlace, Carries
  <2>4. {[port |-> p, gen |-> tick] : p \in present} \cap {c} = {}
    BY <2>1
  <2>5. {[port |-> f.port, gen |-> f.gen] : f \in events'}
          = {[port |-> f.port, gen |-> f.gen] : f \in events} \ {c}
    BY <1>1, <2>3
  <2>6. QED
    BY <1>1, <2>2, <2>4, <2>5 DEF InFlight
<1>6. QED
  BY <1>1, <1>3, <1>4, <1>5 DEF Channel!Publish

(***************************************************************************)
(* The path through the senders, the socket, the listener and the bridge   *)
(* implements the channel of CommandChannel.                               *)
(***************************************************************************)
THEOREM PathImplementsChannel == Spec => ImplementsChannel
<1>1. Init => Channel!ChannelInit
  <2> SUFFICES ASSUME Init
               PROVE  Channel!ChannelInit
    OBVIOUS
  <2>1. present = {} /\ wire = <<>> /\ events = {} /\ DOMAIN wire = {}
    BY DEF Init, LinkInit
  <2>2. InFlight = {}
    BY <2>1, InFlightMembers
  <2>3. QED
    BY <2>2 DEF Init, LinkInit, Channel!ChannelInit
<1>2. FlowInv /\ [Next]_vars => [Channel!ChannelNext]_Channel!channelVars
  <2> SUFFICES ASSUME FlowInv, [Next]_vars
               PROVE  [Channel!ChannelNext]_Channel!channelVars
    OBVIOUS
  <2>1. ASSUME NEW outputs \in SUBSET Ports, GateTick(outputs)
        PROVE  Channel!Emit(outputs)
    <3>1. /\ present = {} /\ tick' = tick + 1 /\ present' = outputs
          /\ UNCHANGED <<alive, up, wire, events, published>>
      BY <2>1 DEF linkVars, GateTick
    <3>2. {[port |-> p, gen |-> tick] : p \in present} = {}
      BY <3>1
    <3>3. InFlight' = IF ~up THEN InFlight ELSE InFlight \cup {[port |-> p, gen |-> tick + 1] : p \in outputs}
      BY <3>1, <3>2 DEF InFlight
    <3>4. QED
      BY <3>1, <3>3 DEF Channel!Emit
  <2>2. ASSUME NEW p \in present, SendOutput(p)
        PROVE  UNCHANGED Channel!channelVars
    BY <2>2, SendKeepsInFlight DEF SendOutput, NetworkSend, Channel!channelVars
  <2>3. CASE Listen
    BY <2>3, ListenKeepsInFlight DEF Listen, CanListen, ScheduleArrival, pathVars, Channel!channelVars
  <2>4. CASE ConnectionBreaks \/ BridgeEnds
    <3>1. up' = FALSE /\ events' \subseteq events /\ UNCHANGED <<tick, published>>
      BY <2>4 DEF ConnectionBreaks, BridgeEnds, LinkDown, ReceiverEnds, pathVars
    <3>2. InFlight' = {[port |-> e.port, gen |-> e.gen] : e \in events'}
      BY <3>1 DEF InFlight
    <3>3. InFlight' \subseteq InFlight
      BY <3>1, <3>2 DEF InFlight
    <3>4. QED
      BY <3>1, <3>3 DEF Channel!Break, Channel!ChannelNext
  <2>5. ASSUME NEW p \in Ports, VehicleRead(p)
        PROVE  UNCHANGED Channel!channelVars
    BY <2>5 DEF linkVars, VehicleRead, InFlight, Channel!channelVars
  <2>6. CASE UNCHANGED vars
    BY <2>6 DEF vars, InFlight, Channel!channelVars
  <2>7. QED
    BY <2>1, <2>2, <2>3, <2>4, <2>5, <2>6, BridgePublishIsPublish
    DEF Next, Quiescent, Channel!ChannelNext
<1>3. QED
  BY <1>1, <1>2, FlowInvariant, PTL DEF Spec, ImplementsChannel, Channel!ChannelSpec

-----------------------------------------------------------------------------
\* The generation of a command is a number.
LEMMA ChannelCommandGen == \A c \in Channel!Command : c.gen \in Nat
  BY DEF Channel!Command

\* The strengthened invariant holds initially.
LEMMA ChannelInvInit == Channel!ChannelInit => Channel!ChannelInv
<1> SUFFICES ASSUME Channel!ChannelInit
             PROVE  Channel!ChannelInv
  OBVIOUS
<1>1. published = <<>> /\ DOMAIN published = {}
  BY DEF Channel!ChannelInit
<1>2. <<>> \in Seq(Channel!Command)
  OBVIOUS
<1>3. Channel!ChannelTypeOK
  BY <1>1, <1>2 DEF Channel!ChannelInit, Channel!ChannelTypeOK
<1>4. QED
  BY <1>1, <1>3 DEF Channel!ChannelInit, Channel!ChannelInv, Channel!PublishedBeforePending, Channel!InOrder

\* Every step of the channel keeps the strengthened invariant.
LEMMA ChannelInvNext == Channel!ChannelInv /\ [Channel!ChannelNext]_Channel!channelVars => Channel!ChannelInv'
<1> SUFFICES ASSUME Channel!ChannelInv, [Channel!ChannelNext]_Channel!channelVars
             PROVE  Channel!ChannelInv'
  OBVIOUS
<1> USE ChannelCommandGen DEF Channel!ChannelInv, Channel!ChannelTypeOK
<1>1. ASSUME NEW outputs \in SUBSET Ports, Channel!Emit(outputs)
      PROVE  Channel!ChannelInv'
  <2> DEFINE new == {[port |-> p, gen |-> tick + 1] : p \in outputs}
  <2>1. new \subseteq Channel!Command /\ \A c \in new : c.gen = tick + 1
    BY DEF Channel!Command
  <2>2. InFlight' \subseteq InFlight \cup new /\ tick' = tick + 1 /\ UNCHANGED published
    BY <1>1 DEF Channel!Emit
  <2> HIDE DEF new
  <2>3. Channel!ChannelTypeOK' /\ \A c \in InFlight' : c.gen <= tick'
    BY <2>1, <2>2
  <2>4. Channel!PublishedBeforePending'
    <3> SUFFICES ASSUME NEW i \in DOMAIN published
                 PROVE  /\ published[i].gen <= tick'
                        /\ \A c \in InFlight' : published[i] # c /\ published[i].gen <= c.gen
      BY <2>2 DEF Channel!PublishedBeforePending
    <3>1. published[i] \in Channel!Command /\ published[i].gen <= tick
      BY DEF Channel!PublishedBeforePending
    <3>2. ASSUME NEW c \in InFlight'
          PROVE  published[i] # c /\ published[i].gen <= c.gen
      <4>1. CASE c \in InFlight
        BY <4>1 DEF Channel!PublishedBeforePending
      <4>2. CASE c \in new
        BY <4>2, <3>1, <2>1
      <4>3. QED
        BY <4>1, <4>2, <2>2, <3>2
    <3>3. QED
      BY <3>1, <3>2, <2>2
  <2>5. Channel!InOrder'
    BY <2>2 DEF Channel!InOrder
  <2>6. QED
    BY <2>3, <2>4, <2>5
<1>2. ASSUME NEW c \in InFlight, Channel!Publish(c)
      PROVE  Channel!ChannelInv'
  <2>1. /\ published' = Append(published, c)
        /\ InFlight' = InFlight \ {c}
        /\ \A d \in InFlight : c.gen <= d.gen
        /\ UNCHANGED tick
    BY <1>2 DEF Channel!Publish
  <2>2. c \in Channel!Command /\ c.gen <= tick
    OBVIOUS
  <2>3. Channel!ChannelTypeOK' /\ \A d \in InFlight' : d.gen <= tick'
    BY <2>1, <2>2
  <2>4. /\ DOMAIN published' = DOMAIN published \cup {Len(published) + 1}
        /\ \A i \in DOMAIN published : published'[i] = published[i] /\ i < Len(published) + 1
        /\ published'[Len(published) + 1] = c
    BY <2>1, <2>2
  <2>5. Channel!PublishedBeforePending'
    <3> SUFFICES ASSUME NEW i \in DOMAIN published'
                 PROVE  /\ published'[i].gen <= tick
                        /\ \A d \in InFlight' : published'[i] # d /\ published'[i].gen <= d.gen
      BY <2>1 DEF Channel!PublishedBeforePending
    <3>1. CASE i \in DOMAIN published
      BY <3>1, <2>1, <2>4 DEF Channel!PublishedBeforePending
    <3>2. CASE i = Len(published) + 1
      BY <3>2, <2>1, <2>2, <2>4
    <3>3. QED
      BY <3>1, <3>2, <2>4
  <2>6. Channel!InOrder'
    <3> SUFFICES ASSUME NEW i \in DOMAIN published', NEW j \in DOMAIN published', i < j
                 PROVE  published'[i].gen <= published'[j].gen /\ published'[i] # published'[j]
      BY DEF Channel!InOrder
    <3>1. i \in DOMAIN published
      BY <2>4
    <3>2. CASE j \in DOMAIN published
      BY <3>1, <3>2, <2>4 DEF Channel!InOrder
    <3>3. CASE j = Len(published) + 1
      BY <3>1, <3>3, <2>4 DEF Channel!PublishedBeforePending
    <3>4. QED
      BY <3>2, <3>3, <2>4
  <2>7. QED
    BY <2>3, <2>5, <2>6, <2>1
<1>3. CASE Channel!Break
  BY <1>3 DEF Channel!Break, Channel!PublishedBeforePending, Channel!InOrder
<1>4. CASE UNCHANGED Channel!channelVars
  BY <1>4 DEF Channel!channelVars, Channel!PublishedBeforePending, Channel!InOrder
<1>5. QED
  BY <1>1, <1>2, <1>3, <1>4 DEF Channel!ChannelNext

\* A behaviour of the channel satisfies the strengthened invariant.
THEOREM ChannelInvariant == Channel!ChannelSpec => []Channel!ChannelInv
  BY ChannelInvInit, ChannelInvNext, PTL DEF Channel!ChannelSpec

(***************************************************************************)
(* Whatever the ports, no command is published twice, nor after one of a   *)
(* later generation.                                                       *)
(***************************************************************************)
THEOREM ChannelInOrder == Channel!ChannelSpec => []Channel!InOrder
<1>1. Channel!ChannelInv => Channel!InOrder
  BY DEF Channel!ChannelInv
<1>2. QED
  BY <1>1, ChannelInvariant, PTL

(***************************************************************************)
(* The bridge publishes no command twice and none after a command of a     *)
(* later tick, on any topics.                                              *)
(***************************************************************************)
THEOREM BridgePublishesInOrder == Spec => []PublishedInOrder
<1>1. Channel!InOrder => PublishedInOrder
  BY DEF Channel!InOrder, PublishedInOrder
<1>2. QED
  BY <1>1, ChannelInOrder, PathImplementsChannel, PTL DEF ImplementsChannel
=============================================================================
