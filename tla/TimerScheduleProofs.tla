------------------------- MODULE TimerScheduleProofs -------------------------
(***************************************************************************)
(* The timers, the inputs on logical connections and the trajectories on   *)
(* the physical one are in step with the tags, for any programs, periods,  *)
(* numbers of workers and socket capacity.  So the reactions to the timers *)
(* are the firings of PeriodicTimers, and no program stalls.               *)
(***************************************************************************)
EXTENDS TimerSchedule, FiniteSetTheorems, TLAPS

\* What the assumptions say of the constants, place by place.
LEMMA Constants ==
  /\ Timed \subseteq Reactors /\ Untimed \subseteq Reactors /\ Timed \cap Untimed = {}
  /\ Sender \in Timed /\ Receiver \in Untimed /\ Sender \in Reactors /\ Receiver \in Reactors
  /\ \A r \in Reactors : Program[r] \in Programs
  /\ \A r \in Timed : Period[r] \in Nat \ {0}
  /\ \A w \in Wires : /\ w[1] \in Timed /\ w[2] \in Untimed
                      /\ w[1] \in Reactors /\ w[2] \in Reactors
                      /\ w = <<w[1], w[2]>>
                      /\ Program[w[1]] = Program[w[2]] /\ w[2] # Receiver
  /\ \A v, w \in Wires : v[2] = w[2] => v = w
  /\ Program[Sender] # Program[Receiver]
  BY TimerAssumption DEF Untimed, Programs

\* Fields of the messages and of the network events.
LEMMA Fields ==
  /\ \A m \in Message : m.gen \in Nat /\ m.port = 0
  /\ \A e \in Arrival : e.gen \in Nat /\ e.tag \in Nat /\ e.port = 0
  BY DEF Message, Arrival

\* What stands in the socket is numbered.
LEMMA WireGens ==
  ASSUME TypeOK
  PROVE  /\ \A i \in DOMAIN wire : wire[i] \in Message /\ wire[i].gen \in Nat
         /\ \A e \in events : e.gen \in Nat /\ e.tag \in Nat /\ e.port = 0
  BY Fields DEF TypeOK

\* One more firing is one more period.
LEMMA OneMorePeriod == \A k, n \in Nat : k * (n + 1) = k * n + k /\ k * n \in Nat
  OBVIOUS

\* The invariant holds initially.
LEMMA ScheduleInit == Init => ScheduleInv
<1> SUFFICES ASSUME Init
             PROVE  ScheduleInv
  OBVIOUS
<1> USE Constants DEF Init, LinkInit
<1>1. wire = <<>> /\ wire \in Seq(Message) /\ DOMAIN wire = {} /\ events = {}
  OBVIOUS
<1>2. TypeOK
  <2>1. next \in [Timed -> Nat] /\ alive \in BOOLEAN /\ up \in BOOLEAN
    BY TimerAssumption
  <2>2. QED
    BY <1>1, <2>1 DEF TypeOK, Statuses
<1>3. TimersInStep
  <2>1. \A r \in Timed : Period[r] * (0 + 1) = Period[r]
    OBVIOUS
  <2>2. QED
    BY <2>1 DEF TimersInStep, AtTag
<1>4. InputsInStep /\ WiresInStep
  BY DEF InputsInStep, WiresInStep
<1>5. LinkInStep /\ SenderInStep
  BY <1>1 DEF LinkInStep, SenderInStep, AtTag
<1>6. QED
  BY <1>2, <1>3, <1>4, <1>5 DEF ScheduleInv

-----------------------------------------------------------------------------
\* The clock and the listener: no reaction, tag or timer changes.
LEMMA ScheduleTick == ScheduleInv /\ Tick => ScheduleInv'
<1> SUFFICES ASSUME ScheduleInv, Tick
             PROVE  ScheduleInv'
  OBVIOUS
<1> USE DEF ScheduleInv, Tick, scheduleVars
<1>1. TypeOK'
  BY DEF TypeOK
<1>2. TimersInStep'
  BY DEF TimersInStep, TypeOK, AtTag
<1>3. InputsInStep' /\ WiresInStep'
  BY DEF InputsInStep, WiresInStep
<1>4. LinkInStep' /\ SenderInStep'
  BY WireGens DEF LinkInStep, SenderInStep, AtTag, TypeOK
<1>5. QED
  BY <1>1, <1>2, <1>3, <1>4

\* A startup reaction that returns queues the first reaction to the timer.
LEMMA ScheduleStartup == \A r \in Reactors : ScheduleInv /\ Startup(r) => ScheduleInv'
<1> SUFFICES ASSUME NEW r \in Reactors, ScheduleInv, Startup(r)
             PROVE  ScheduleInv'
  OBVIOUS
<1>1. /\ status[r] = "startup"
      /\ status' = [status EXCEPT ![r] = IF r \in Timed THEN "queued" ELSE "inactive"]
      /\ UNCHANGED <<alive, up, wire, now, events, tag, next, input, fired, last, hung>>
  BY DEF Startup, linkVars
<1>2. /\ \A s \in Reactors : s # r => status'[s] = status[s]
      /\ status'[r] = IF r \in Timed THEN "queued" ELSE "inactive"
      /\ status' \in [Reactors -> Statuses]
  BY <1>1 DEF ScheduleInv, TypeOK, Statuses
<1> USE <1>1, <1>2, Constants DEF ScheduleInv
<1>3. TypeOK'
  BY DEF TypeOK
<1>4. TimersInStep'
  BY DEF TimersInStep, AtTag
<1>5. InputsInStep'
  BY DEF InputsInStep
<1>6. WiresInStep'
  BY DEF WiresInStep
<1>7. LinkInStep' /\ SenderInStep'
  BY DEF LinkInStep, SenderInStep, AtTag
<1>8. QED
  BY <1>3, <1>4, <1>5, <1>6, <1>7

\* A reaction that begins counts its firing, or takes its input.
LEMMA ScheduleBegin == \A r \in Reactors : ScheduleInv /\ Begin(r) => ScheduleInv'
<1> SUFFICES ASSUME NEW r \in Reactors, ScheduleInv, Begin(r)
             PROVE  ScheduleInv'
  OBVIOUS
<1>1. /\ status[r] = "queued"
      /\ status' = [status EXCEPT ![r] = "running"]
      /\ \A s \in Members(Program[r]) : status[s] # "startup"
      /\ \A w \in Wires : w[2] = r => status[w[1]] \notin {"queued", "running"}
      /\ UNCHANGED <<alive, up, wire, now, events, tag, next, input, hung>>
  BY DEF Begin, IsReady, linkVars
<1>2. /\ \A s \in Reactors : s # r => status'[s] = status[s]
      /\ status'[r] = "running"
      /\ status' \in [Reactors -> Statuses]
  BY <1>1 DEF ScheduleInv, TypeOK, Statuses
<1>3. CASE r \in Timed
  <2>0. fired' = [fired EXCEPT ![r] = fired[r] + 1] /\ last' = last
    BY <1>3 DEF Begin, Untimed
  <2>1. /\ fired' = [fired EXCEPT ![r] = fired[r] + 1] /\ last' = last
        /\ fired' \in [Timed -> Nat] /\ fired'[r] = fired[r] + 1
        /\ \A s \in Timed : s # r => fired'[s] = fired[s]
    BY <1>3, <2>0 DEF ScheduleInv, TypeOK
  <2> USE <1>1, <1>2, <2>1, Constants DEF ScheduleInv
  <2>2. TypeOK'
    BY DEF TypeOK
  <2>3. TimersInStep'
    BY <1>3 DEF TimersInStep, AtTag
  <2>4. InputsInStep'
    BY <1>3 DEF InputsInStep, Untimed
  <2>5. WiresInStep'
    BY <1>3 DEF WiresInStep
  <2>6. LinkInStep' /\ SenderInStep'
    BY DEF LinkInStep, SenderInStep, AtTag
  <2>7. QED
    BY <2>2, <2>3, <2>4, <2>5, <2>6
<1>4. CASE r \in Untimed
  <2>1. /\ last' = [last EXCEPT ![r] = input[r]] /\ fired' = fired
        /\ last' \in [Untimed -> Int] /\ last'[r] = input[r]
        /\ \A s \in Untimed : s # r => last'[s] = last[s]
    BY <1>4 DEF Begin, Untimed, ScheduleInv, TypeOK
  <2> USE <1>1, <1>2, <2>1, Constants DEF ScheduleInv
  <2>2. TypeOK'
    BY DEF TypeOK
  <2>3. TimersInStep'
    BY <1>4 DEF TimersInStep, AtTag, Untimed
  <2>4. InputsInStep'
    BY <1>4 DEF InputsInStep
  <2>5. WiresInStep'
    BY <1>4 DEF WiresInStep, Untimed
  <2>6. LinkInStep' /\ SenderInStep'
    BY <1>4 DEF LinkInStep, SenderInStep, AtTag
  <2>7. QED
    BY <2>2, <2>3, <2>4, <2>5, <2>6
<1>5. QED
  BY <1>3, <1>4 DEF Untimed

\* A reaction that returns may queue those at the ends of its wires.
LEMMA ScheduleEnd ==
  \A r \in Reactors, output \in BOOLEAN : ScheduleInv /\ End(r, output) => ScheduleInv'
<1> SUFFICES ASSUME NEW r \in Reactors, NEW output \in BOOLEAN, ScheduleInv, End(r, output)
             PROVE  ScheduleInv'
  OBVIOUS
<1> DEFINE sinks == IF output THEN Sinks(r) ELSE {}
<1>1. /\ status[r] = "running"
      /\ UNCHANGED <<alive, up, wire, now, events, tag, next, fired, last, hung>>
  BY DEF End, linkVars
<1>2. /\ sinks \subseteq Untimed
      /\ \A s \in sinks : <<r, s>> \in Wires
      /\ r \in Untimed => sinks = {}
      /\ r \notin sinks
  BY Constants DEF Sinks
<1>3. \A w \in Wires : w[2] \in sinks => w[1] = r
  BY <1>2, Constants
<1>4. \A w \in Wires : w[1] = r => w[2] \in sinks \/ sinks = {}
  BY Constants DEF Sinks
<1>5. /\ status'[r] \in {"posted", "inactive"}
      /\ status'[r] = "posted" => r = Sender
      /\ \A s \in sinks : status'[s] = "queued" /\ input'[s] = tag[Program[r]]
      /\ \A s \in Reactors : s # r /\ s \notin sinks => status'[s] = status[s]
      /\ \A s \in Untimed : s \notin sinks => input'[s] = input[s]
  BY <1>2, Constants DEF End, Untimed
<1>6. status' \in [Reactors -> Statuses]
  BY DEF End, ScheduleInv, TypeOK, Statuses
<1>7. input' \in [Untimed -> Int]
  <2>1. tag[Program[r]] \in Int
    BY Constants DEF ScheduleInv, TypeOK
  <2>2. QED
    BY <2>1 DEF End, ScheduleInv, TypeOK
<1> HIDE DEF sinks
<1>8. \A s \in sinks : Program[s] = Program[r] /\ s # Receiver
  BY <1>2, Constants
<1>9. \A s \in sinks : last[s] < tag[Program[r]] /\ input[s] < tag[Program[r]]
  <2> SUFFICES ASSUME NEW s \in sinks
               PROVE  last[s] < tag[Program[r]] /\ input[s] < tag[Program[r]]
    OBVIOUS
  <2>1. input[s] < tag[Program[r]]
    BY <1>1, <1>2 DEF ScheduleInv, WiresInStep
  <2>2. last[s] \in Int /\ input[s] \in Int /\ (last[s] = input[s] \/ last[s] < input[s])
    <3>1. last[s] \in Int /\ input[s] \in Int
      BY <1>2 DEF ScheduleInv, TypeOK
    <3>2. last[s] = input[s] \/ last[s] < input[s]
      BY <1>2 DEF ScheduleInv, InputsInStep
    <3>3. QED
      BY <3>1, <3>2
  <2>3. tag[Program[r]] \in Int
    BY Constants DEF ScheduleInv, TypeOK
  <2>4. QED
    BY <2>1, <2>2, <2>3
<1> USE <1>1, Constants DEF ScheduleInv
<1>10. TypeOK'
  BY <1>6, <1>7 DEF TypeOK
<1>11. TimersInStep'
  BY <1>2, <1>5 DEF TimersInStep, AtTag, Untimed
<1>12. InputsInStep'
  BY <1>2, <1>5, <1>9 DEF InputsInStep
<1>13. WiresInStep'
  <2> SUFFICES ASSUME NEW w \in Wires
               PROVE  /\ input'[w[2]] <= tag[Program[w[1]]]
                      /\ status'[w[2]] \in {"queued", "running"} =>
                           /\ input'[w[2]] = tag[Program[w[1]]]
                           /\ next[w[1]] - Period[w[1]] = tag[Program[w[1]]]
                           /\ status'[w[1]] \notin {"startup", "queued", "running"}
                      /\ status'[w[1]] \in {"startup", "queued", "running"} =>
                           input'[w[2]] < tag[Program[w[1]]]
    BY DEF WiresInStep
  <2>1. CASE w[2] \in sinks
    <3>1. w[1] = r /\ input'[w[2]] = tag[Program[r]]
      BY <2>1, <1>3, <1>5
    <3>2. status'[w[1]] \notin {"startup", "queued", "running"}
      BY <3>1, <1>5
    <3>3. tag[Program[r]] <= tag[Program[r]]
      BY DEF TypeOK
    <3>4. next[w[1]] - Period[w[1]] = tag[Program[w[1]]]
      BY <3>1 DEF TimersInStep, AtTag
    <3>5. QED
      BY <3>1, <3>2, <3>3, <3>4
  <2>2. CASE w[2] \notin sinks /\ w[2] # r
    <3>1. w[1] \notin sinks
      BY <1>2
    <3>2. status'[w[2]] = status[w[2]] /\ input'[w[2]] = input[w[2]]
      BY <2>2, <1>5
    <3>3. w[1] # r => status'[w[1]] = status[w[1]]
      BY <3>1, <1>5
    <3>4. QED
      BY <3>2, <3>3, <1>5 DEF WiresInStep
  <2>3. CASE w[2] = r
    <3>1. sinks = {} /\ w[1] # r
      BY <2>3, <1>2 DEF Untimed
    <3>2. status'[w[2]] \in {"posted", "inactive"} /\ input'[w[2]] = input[w[2]]
      BY <2>3, <3>1, <1>5
    <3>3. status'[w[1]] = status[w[1]]
      BY <3>1, <1>5
    <3>4. QED
      BY <3>2, <3>3 DEF WiresInStep
  <2>4. QED
    BY <2>1, <2>2, <2>3
<1>14. input'[Receiver] = input[Receiver]
  BY <1>5, <1>8
<1>15. LinkInStep'
  BY <1>14 DEF LinkInStep
<1>16. SenderInStep'
  <2>1. Sender \notin sinks
    BY <1>2 DEF Untimed
  <2>2. AtTag(Sender)' => AtTag(Sender)
    BY <2>1, <1>5 DEF AtTag
  <2>3. input[Receiver] \in Int /\ tag[Program[Sender]] \in Int
    BY DEF TypeOK
  <2>4. QED
    BY <2>2, <2>3, <1>14, WireGens DEF SenderInStep
<1>17. QED
  BY <1>10, <1>11, <1>12, <1>13, <1>15, <1>16

-----------------------------------------------------------------------------
\* A worker takes the network sender: its tag is that of the reaction still.
LEMMA ScheduleBeginSend == ScheduleInv /\ BeginSend => ScheduleInv'
<1> SUFFICES ASSUME ScheduleInv, BeginSend
             PROVE  ScheduleInv'
  OBVIOUS
<1>1. /\ status[Sender] = "posted"
      /\ status' = [status EXCEPT ![Sender] = "sending"]
      /\ UNCHANGED <<alive, up, wire, now, events, tag, next, input, fired, last, hung>>
  BY DEF BeginSend, linkVars
<1>2. /\ \A s \in Reactors : s # Sender => status'[s] = status[s]
      /\ status'[Sender] = "sending"
      /\ status' \in [Reactors -> Statuses]
  BY <1>1, Constants DEF ScheduleInv, TypeOK, Statuses
<1> USE <1>1, <1>2, Constants DEF ScheduleInv
<1>3. TypeOK'
  BY DEF TypeOK
<1>4. TimersInStep'
  BY DEF TimersInStep, AtTag
<1>5. InputsInStep'
  BY DEF InputsInStep, Untimed
<1>6. WiresInStep'
  BY DEF WiresInStep
<1>7. LinkInStep' /\ SenderInStep'
  BY DEF LinkInStep, SenderInStep, AtTag
<1>8. QED
  BY <1>3, <1>4, <1>5, <1>6, <1>7

\* The trajectory sent has the sender's tag, later than all others.
LEMMA ScheduleSend == ScheduleInv /\ SendTrajectory => ScheduleInv'
<1> SUFFICES ASSUME ScheduleInv, SendTrajectory
             PROVE  ScheduleInv'
  OBVIOUS
<1> DEFINE msg == [port |-> 0, gen |-> tag[Program[Sender]]]
<1>1. /\ status[Sender] = "sending"
      /\ status' = [status EXCEPT ![Sender] = "inactive"]
      /\ wire' = Append(wire, msg) \/ wire' = wire
      /\ UNCHANGED <<alive, up, now, events, tag, next, input, fired, last, hung>>
  BY DEF SendTrajectory, NetworkSend
<1>2. /\ \A s \in Reactors : s # Sender => status'[s] = status[s]
      /\ status'[Sender] = "inactive"
      /\ status' \in [Reactors -> Statuses]
  BY <1>1, Constants DEF ScheduleInv, TypeOK, Statuses
<1>3. msg \in Message /\ msg.gen = tag[Program[Sender]] /\ tag[Program[Sender]] \in Nat
  BY Constants DEF ScheduleInv, TypeOK, Message
<1> HIDE DEF msg
<1>4. /\ wire \in Seq(Message) /\ wire' \in Seq(Message) /\ Len(wire) \in Nat
      /\ \A i \in DOMAIN wire : i \in DOMAIN wire' /\ wire'[i] = wire[i]
      /\ \A i \in DOMAIN wire' :
           i \in DOMAIN wire \/ (wire'[i] = msg /\ \A j \in DOMAIN wire : j < i)
  <2>1. wire \in Seq(Message)
    BY DEF ScheduleInv, TypeOK
  <2>2. CASE wire' = wire
    BY <2>1, <2>2
  <2>3. CASE wire' = Append(wire, msg)
    BY <2>1, <2>3, <1>3
  <2>4. QED
    BY <1>1, <2>2, <2>3
<1>5. \A i \in DOMAIN wire' : i \in Nat
  BY <1>4
<1>6. /\ input[Receiver] \in Int /\ input[Receiver] < tag[Program[Sender]]
      /\ \A e \in events : e.gen \in Nat /\ e.gen < tag[Program[Sender]]
      /\ \A i \in DOMAIN wire : wire[i].gen \in Nat /\ wire[i].gen < tag[Program[Sender]]
  BY <1>1, Constants, WireGens DEF ScheduleInv, TypeOK, SenderInStep, AtTag
<1> USE <1>1, <1>2, Constants DEF ScheduleInv
<1>7. TypeOK'
  BY <1>4 DEF TypeOK
<1>8. TimersInStep'
  BY DEF TimersInStep, AtTag
<1>9. InputsInStep'
  BY DEF InputsInStep, Untimed
<1>10. WiresInStep'
  BY DEF WiresInStep
<1>11. LinkInStep'
  <2>1. \A i, j \in DOMAIN wire' : i < j => wire'[i].gen < wire'[j].gen
    <3> SUFFICES ASSUME NEW i \in DOMAIN wire', NEW j \in DOMAIN wire', i < j
                 PROVE  wire'[i].gen < wire'[j].gen
      OBVIOUS
    <3>1. i \in DOMAIN wire
      BY <1>4, <1>5
    <3>2. QED
      BY <3>1, <1>3, <1>4, <1>6 DEF LinkInStep
  <2>2. \A i \in DOMAIN wire' :
           input[Receiver] < wire'[i].gen /\ \A e \in events : e.gen < wire'[i].gen
    BY <1>3, <1>4, <1>6 DEF LinkInStep
  <2>3. QED
    BY <2>1, <2>2 DEF LinkInStep
<1>12. SenderInStep'
  BY <1>3, <1>4, <1>6 DEF SenderInStep, AtTag
<1>13. QED
  BY <1>7, <1>8, <1>9, <1>10, <1>11, <1>12

\* An arrival gets a later tag than all before it.
LEMMA ScheduleListen == ScheduleInv /\ Listen => ScheduleInv'
<1> SUFFICES ASSUME ScheduleInv, Listen
             PROVE  ScheduleInv'
  OBVIOUS
<1> DEFINE new == [port |-> Head(wire).port, gen |-> Head(wire).gen, tag |-> now']
<1>1. /\ wire # <<>> /\ wire' = Tail(wire) /\ now' = now + 1
      /\ events' = events \cup {new}
      /\ UNCHANGED <<alive, up, tag, next, status, input, fired, last, hung>>
  BY DEF Listen, ScheduleArrival, CanListen, ReadClock, scheduleVars
<1>2. /\ wire \in Seq(Message) /\ wire' \in Seq(Message) /\ Head(wire) = wire[1]
      /\ 1 \in DOMAIN wire /\ wire[1] \in Message
      /\ \A i \in DOMAIN wire' :
           i + 1 \in DOMAIN wire /\ wire'[i] = wire[i + 1] /\ i \in Nat /\ 1 < i + 1
  BY <1>1 DEF ScheduleInv, TypeOK
<1>3. /\ new \in Arrival /\ new.gen = wire[1].gen /\ new.tag = now + 1 /\ new.gen \in Nat
      /\ now \in Nat
  BY <1>1, <1>2 DEF Message, Arrival, ScheduleInv, TypeOK
<1> HIDE DEF new
<1> USE <1>1, Constants DEF ScheduleInv
<1>4. TypeOK'
  BY <1>2, <1>3 DEF TypeOK
<1>5. TimersInStep'
  BY DEF TimersInStep, TypeOK, AtTag
<1>6. InputsInStep' /\ WiresInStep'
  BY DEF InputsInStep, WiresInStep
<1>7. /\ \A e \in events : e.gen \in Nat /\ e.tag \in Nat /\ e.tag < new.tag /\ e.gen < new.gen
      /\ \A i \in DOMAIN wire' : new.gen < wire'[i].gen
      /\ input[Receiver] < new.gen /\ tag[Program[Receiver]] < new.tag
  <2>1. \A e \in events : e.gen \in Nat /\ e.tag \in Nat /\ e.tag < new.tag /\ e.gen < new.gen
    BY <1>2, <1>3, WireGens DEF LinkInStep
  <2>2. \A i \in DOMAIN wire' : new.gen < wire'[i].gen
    BY <1>2, <1>3 DEF LinkInStep
  <2>3. input[Receiver] < new.gen
    BY <1>2, <1>3 DEF LinkInStep
  <2>4. tag[Program[Receiver]] < new.tag
    BY <1>3 DEF TimersInStep, TypeOK
  <2>5. QED
    BY <2>1, <2>2, <2>3, <2>4
<1>8. LinkInStep'
  <2>1. /\ \A e, f \in events' : e.tag < f.tag => e.gen < f.gen
        /\ \A e, f \in events' : e.tag = f.tag => e = f
    BY <1>3, <1>7 DEF LinkInStep
  <2>2. \A e \in events' : /\ tag[Program[Receiver]] < e.tag /\ e.tag <= now'
                           /\ input[Receiver] < e.gen
    BY <1>3, <1>7 DEF LinkInStep
  <2>3. \A e \in events', i \in DOMAIN wire' : e.gen < wire'[i].gen
    BY <1>2, <1>7 DEF LinkInStep
  <2>4. \A i, j \in DOMAIN wire' : i < j => wire'[i].gen < wire'[j].gen
    BY <1>2 DEF LinkInStep
  <2>5. \A i \in DOMAIN wire' : input[Receiver] < wire'[i].gen
    BY <1>2 DEF LinkInStep
  <2>6. QED
    BY <2>1, <2>2, <2>3, <2>4, <2>5 DEF LinkInStep
<1>9. SenderInStep'
  BY <1>2, <1>3 DEF SenderInStep, AtTag
<1>10. QED
  BY <1>4, <1>5, <1>6, <1>8, <1>9

-----------------------------------------------------------------------------
\* The tag a program advances to is later than its tag, and no event of
\* its queue is earlier.
LEMMA AdvanceTags ==
  ASSUME ScheduleInv, NEW P \in Programs, NEW t, Advance(P, t)
  PROVE  /\ t \in Nat /\ tag[P] < t /\ t <= now
         /\ \A r \in TimersOf(P) : t <= next[r]
         /\ \A e \in Arrivals(P) : t <= e.tag
<1>1. /\ t \in {next[r] : r \in TimersOf(P)} \cup {e.tag : e \in Arrivals(P)}
      /\ \A u \in {next[r] : r \in TimersOf(P)} \cup {e.tag : e \in Arrivals(P)} : t <= u
      /\ t <= now
  BY DEF Advance, IsTime, IsNextTag, QueuedTags
<1>2. \A r \in TimersOf(P) : r \in Timed /\ Program[r] = P /\ next[r] \in Nat /\ tag[P] < next[r]
  BY DEF TimersOf, Members, ScheduleInv, TypeOK, TimersInStep
<1>3. \A e \in Arrivals(P) : e \in events /\ e.tag \in Nat /\ tag[P] < e.tag
  BY WireGens DEF Arrivals, ScheduleInv, LinkInStep
<1>4. t \in Nat /\ tag[P] < t
  BY <1>1, <1>2, <1>3
<1>5. QED
  BY <1>1, <1>4

\* A timer that is popped starts on its next period, the others wait.
LEMMA AdvanceTimers ==
  ASSUME ScheduleInv, NEW P \in Programs, NEW t, Advance(P, t)
  PROVE  /\ tag' \in [Programs -> Nat] /\ tag'[P] = t
         /\ \A Q \in Programs : Q # P => tag'[Q] = tag[Q]
         /\ \A Q \in Programs : tag[Q] <= tag'[Q] /\ tag'[Q] <= now
         /\ next' \in [Timed -> Nat]
         /\ \A r \in Due(P, t) : r \in Timed /\ Program[r] = P /\ next[r] = t /\ next'[r] = t + Period[r]
         /\ \A r \in Timed : r \notin Due(P, t) => next'[r] = next[r]
         /\ \A r \in Timed : Program[r] = P => t < next'[r]
         /\ \A r \in Reactors : Program[r] = P => status[r] = "inactive"
<1>1. /\ t \in Nat /\ tag[P] < t /\ t <= now /\ now \in Nat
      /\ \A r \in TimersOf(P) : t <= next[r]
  BY AdvanceTags DEF ScheduleInv, TypeOK
<1>2. /\ tag' = [tag EXCEPT ![P] = t]
      /\ next' = [r \in Timed |-> IF r \in Due(P, t) THEN NextEvent(r, t) ELSE next[r]]
      /\ \A r \in Reactors : Program[r] = P => status[r] = "inactive"
  BY DEF Advance, IsTime, Idle, Members
<1>3. /\ tag' \in [Programs -> Nat] /\ tag'[P] = t
      /\ \A Q \in Programs : Q # P => tag'[Q] = tag[Q]
  BY <1>1, <1>2 DEF ScheduleInv, TypeOK
<1>4. \A Q \in Programs : tag[Q] <= tag'[Q] /\ tag'[Q] <= now
  <2> SUFFICES ASSUME NEW Q \in Programs
               PROVE  tag[Q] <= tag'[Q] /\ tag'[Q] <= now
    OBVIOUS
  <2>1. tag[Q] \in Nat /\ tag[Q] <= now
    BY DEF ScheduleInv, TypeOK, TimersInStep
  <2>2. tag'[Q] = IF Q = P THEN t ELSE tag[Q]
    BY <1>3
  <2>3. QED
    BY <1>1, <2>1, <2>2
<1>5. \A r \in Due(P, t) : r \in Timed /\ Program[r] = P /\ next[r] = t /\ next'[r] = t + Period[r]
  BY <1>2 DEF Due, TimersOf, Members, NextEvent
<1>6. \A r \in Timed : r \notin Due(P, t) => next'[r] = next[r]
  BY <1>2
<1>7. \A r \in Timed : NextEvent(r, t) \in Nat /\ next[r] \in Nat
  BY <1>1, Constants DEF NextEvent, ScheduleInv, TypeOK
<1>8. next' \in [Timed -> Nat]
  BY <1>2, <1>7
<1>9. \A r \in Timed : Program[r] = P => t < next'[r]
  <2> SUFFICES ASSUME NEW r \in Timed, Program[r] = P
               PROVE  t < next'[r]
    OBVIOUS
  <2>1. r \in TimersOf(P)
    BY Constants DEF TimersOf, Members
  <2>2. CASE r \in Due(P, t)
    BY <2>2, <1>1, <1>5, Constants
  <2>3. CASE r \notin Due(P, t)
    BY <2>1, <2>3, <1>1, <1>6, <1>7 DEF Due
  <2>4. QED
    BY <2>2, <2>3
<1>10. QED
  BY <1>2, <1>3, <1>4, <1>5, <1>6, <1>8, <1>9

\* The invariant survives the tag's advance of a program.
LEMMA ScheduleAdvance ==
  ASSUME ScheduleInv, NEW P \in Programs, NEW t, Advance(P, t)
  PROVE  ScheduleInv'
<1>1. /\ t \in Nat /\ tag[P] < t /\ t <= now
      /\ \A e \in Arrivals(P) : t <= e.tag
  BY AdvanceTags
<1>2. /\ tag' \in [Programs -> Nat] /\ tag'[P] = t
      /\ \A Q \in Programs : Q # P => tag'[Q] = tag[Q]
      /\ \A Q \in Programs : tag[Q] <= tag'[Q] /\ tag'[Q] <= now
      /\ next' \in [Timed -> Nat]
      /\ \A r \in Due(P, t) : r \in Timed /\ Program[r] = P /\ next[r] = t /\ next'[r] = t + Period[r]
      /\ \A r \in Timed : r \notin Due(P, t) => next'[r] = next[r]
      /\ \A r \in Timed : Program[r] = P => t < next'[r]
      /\ \A r \in Reactors : Program[r] = P => status[r] = "inactive"
  BY AdvanceTimers
<1>3. UNCHANGED <<alive, up, wire, now, fired, last, hung>>
  BY DEF Advance, NetworkReceive, linkVars
\* What becomes of the receiver and of its events.
<1>4. \E taken \in SUBSET {Receiver} :
         /\ status' = [r \in Reactors |-> IF r \in Due(P, t) \cup taken THEN "queued" ELSE status[r]]
         /\ \/ taken = {} /\ UNCHANGED <<events, input>> /\ \A e \in Arrivals(P) : e.tag # t
            \/ /\ taken = {Receiver} /\ P = Program[Receiver]
               /\ \E e \in events : /\ e.tag = t
                                    /\ events' = events \ {e}
                                    /\ input' = [input EXCEPT ![Receiver] = e.gen]
  <2>1. CASE /\ \A e \in Arrivals(P) : e.tag # t
             /\ status' = [r \in Reactors |-> IF r \in Due(P, t) THEN "queued" ELSE status[r]]
             /\ UNCHANGED <<linkVars, input>>
    <3>1. UNCHANGED <<events, input>>
      BY <2>1 DEF linkVars
    <3>2. WITNESS {} \in SUBSET {Receiver}
    <3>3. QED
      BY <2>1, <3>1
  <2>2. ASSUME NEW e \in Arrivals(P), e.tag = t, NetworkReceive(e),
               status' = [r \in Reactors |-> IF r \in Due(P, t) \cup {Receiver} THEN "queued" ELSE status[r]],
               input' = [input EXCEPT ![Receiver] = e.gen]
        PROVE  /\ P = Program[Receiver]
               /\ \E f \in events : /\ f.tag = t
                                    /\ events' = events \ {f}
                                    /\ input' = [input EXCEPT ![Receiver] = f.gen]
    BY <2>2 DEF NetworkReceive, Arrivals
  <2>3. CASE \E e \in Arrivals(P) :
               /\ e.tag = t /\ NetworkReceive(e)
               /\ status' = [r \in Reactors |-> IF r \in Due(P, t) \cup {Receiver} THEN "queued" ELSE status[r]]
               /\ input' = [input EXCEPT ![Receiver] = e.gen]
    <3>1. WITNESS {Receiver} \in SUBSET {Receiver}
    <3>2. QED
      BY <2>2, <2>3
  <2>4. QED
    BY <2>1, <2>3 DEF Advance
<1>5. PICK taken \in SUBSET {Receiver} :
         /\ status' = [r \in Reactors |-> IF r \in Due(P, t) \cup taken THEN "queued" ELSE status[r]]
         /\ \/ taken = {} /\ UNCHANGED <<events, input>> /\ \A e \in Arrivals(P) : e.tag # t
            \/ /\ taken = {Receiver} /\ P = Program[Receiver]
               /\ \E e \in events : /\ e.tag = t
                                    /\ events' = events \ {e}
                                    /\ input' = [input EXCEPT ![Receiver] = e.gen]
  BY <1>4
<1>6. /\ \A r \in Due(P, t) \cup taken : status'[r] = "queued"
      /\ \A r \in Reactors : r \notin Due(P, t) \cup taken => status'[r] = status[r]
      /\ status' \in [Reactors -> Statuses]
  BY <1>2, <1>5, Constants DEF ScheduleInv, TypeOK, Statuses
<1>7. /\ events' \subseteq events /\ events \subseteq Arrival
      /\ input \in [Untimed -> Int] /\ input' \in [Untimed -> Int]
      /\ \A s \in Untimed : s \notin taken => input'[s] = input[s]
  <2>1. events \subseteq Arrival /\ input \in [Untimed -> Int]
    BY DEF ScheduleInv, TypeOK
  <2>2. CASE taken = {} /\ UNCHANGED <<events, input>>
    BY <2>1, <2>2
  <2>3. ASSUME NEW e \in events, taken = {Receiver}, events' = events \ {e},
               input' = [input EXCEPT ![Receiver] = e.gen]
        PROVE  /\ events' \subseteq events /\ input' \in [Untimed -> Int]
               /\ \A s \in Untimed : s \notin taken => input'[s] = input[s]
    <3>1. e.gen \in Int
      BY <2>1, Fields
    <3>2. QED
      BY <2>1, <2>3, <3>1
  <2>4. QED
    BY <1>5, <2>1, <2>2, <2>3
<1>8. Receiver \in taken =>
         /\ P = Program[Receiver]
         /\ \E e \in events : e.tag = t /\ events' = events \ {e} /\ input'[Receiver] = e.gen
  BY <1>5, <1>7, Constants
<1>9. Receiver \notin taken =>
        events' = events /\ input'[Receiver] = input[Receiver] /\ \A e \in Arrivals(P) : e.tag # t
  BY <1>5
<1>10. \A r \in Timed : r \notin taken
  BY <1>5, Constants
<1> USE Constants DEF ScheduleInv
<1>11. TypeOK'
  BY <1>2, <1>3, <1>6, <1>7 DEF TypeOK
<1>12. TimersInStep'
  <2> SUFFICES ASSUME NEW r \in Timed
               PROVE  /\ next'[r] = Period[r] * (IF status'[r] \in {"startup", "queued"} THEN fired[r] + 1 ELSE fired[r])
                      /\ next'[r] - Period[r] <= tag'[Program[r]]
                      /\ tag'[Program[r]] < next'[r]
                      /\ AtTag(r)' => next'[r] - Period[r] = tag'[Program[r]]
    BY <1>2, <1>3 DEF TimersInStep
  <2>1. /\ next[r] = Period[r] * (IF status[r] \in {"startup", "queued"} THEN fired[r] + 1 ELSE fired[r])
        /\ next[r] - Period[r] <= tag[Program[r]]
        /\ tag[Program[r]] < next[r]
        /\ AtTag(r) => next[r] - Period[r] = tag[Program[r]]
    BY DEF TimersInStep
  <2>2. /\ next[r] \in Nat /\ Period[r] \in Nat \ {0} /\ fired[r] \in Nat
        /\ tag[Program[r]] \in Nat /\ tag'[Program[r]] \in Nat
        /\ tag[Program[r]] <= tag'[Program[r]]
    BY <1>2 DEF TypeOK
  <2>3. CASE r \in Due(P, t)
    <3>1. status[r] = "inactive" /\ next[r] = t /\ Program[r] = P /\ next'[r] = t + Period[r]
      BY <1>2, <2>3
    <3>2. t = Period[r] * fired[r]
      BY <2>1, <3>1
    <3>3. next'[r] = Period[r] * (fired[r] + 1)
      BY <2>2, <3>1, <3>2, OneMorePeriod
    <3>4. status'[r] = "queued" /\ tag'[Program[r]] = t
      BY <1>2, <1>6, <2>3, <3>1
    <3>5. next'[r] - Period[r] = t /\ t < next'[r]
      BY <1>1, <2>2, <3>1
    <3>6. QED
      BY <1>1, <3>3, <3>4, <3>5
  <2>4. CASE r \notin Due(P, t) /\ Program[r] = P
    <3>1. status[r] = "inactive" /\ status'[r] = status[r] /\ next'[r] = next[r] /\ tag'[P] < next'[r]
      BY <1>2, <1>6, <1>10, <2>4
    <3>2. ~AtTag(r)'
      BY <3>1 DEF AtTag
    <3>3. next'[r] - Period[r] <= tag'[Program[r]]
      BY <2>1, <2>2, <3>1
    <3>4. QED
      BY <2>1, <2>4, <3>1, <3>2, <3>3
  <2>5. CASE r \notin Due(P, t) /\ Program[r] # P
    <3>1. status'[r] = status[r] /\ next'[r] = next[r] /\ tag'[Program[r]] = tag[Program[r]]
      BY <1>2, <1>6, <1>10, <2>5
    <3>2. QED
      BY <2>1, <3>1 DEF AtTag
  <2>6. QED
    BY <2>3, <2>4, <2>5
<1>13. InputsInStep'
  <2> SUFFICES ASSUME NEW s \in Untimed
               PROVE  /\ status'[s] \notin {"posted", "sending"}
                      /\ status'[s] = "queued" => last[s] < input'[s]
                      /\ status'[s] # "queued" => last[s] = input'[s]
    BY <1>3 DEF InputsInStep
  <2>1. s \notin Due(P, t)
    BY <1>2
  <2>2. CASE s \in taken
    <3>1. s = Receiver /\ status'[s] = "queued" /\ status[s] = "inactive"
      BY <1>2, <1>6, <1>8, <2>2
    <3>2. last[s] = input[s]
      BY <3>1 DEF InputsInStep
    <3>3. input[s] < input'[s]
      BY <1>8, <2>2, <3>1 DEF LinkInStep
    <3>4. QED
      BY <3>1, <3>2, <3>3
  <2>3. CASE s \notin taken
    BY <1>6, <1>7, <2>1, <2>3 DEF InputsInStep
  <2>4. QED
    BY <2>2, <2>3
<1>14. WiresInStep'
  <2> SUFFICES ASSUME NEW w \in Wires
               PROVE  /\ input'[w[2]] <= tag'[Program[w[1]]]
                      /\ status'[w[2]] \in {"queued", "running"} =>
                           /\ input'[w[2]] = tag'[Program[w[1]]]
                           /\ next'[w[1]] - Period[w[1]] = tag'[Program[w[1]]]
                           /\ status'[w[1]] \notin {"startup", "queued", "running"}
                      /\ status'[w[1]] \in {"startup", "queued", "running"} =>
                           input'[w[2]] < tag'[Program[w[1]]]
    BY DEF WiresInStep
  <2>1. w[2] \notin Due(P, t) \cup taken /\ w[1] \notin taken
    BY <1>2, <1>10, <1>5
  <2>2. input'[w[2]] = input[w[2]] /\ status'[w[2]] = status[w[2]]
    BY <1>6, <1>7, <2>1
  <2>3. input[w[2]] \in Int /\ input[w[2]] <= tag[Program[w[1]]]
    BY <1>7 DEF WiresInStep
  <2>4. CASE Program[w[1]] = P
    <3>1. status[w[2]] = "inactive"
      BY <1>2, <2>4
    <3>2. tag[P] \in Nat
      BY DEF TypeOK
    <3>3. input[w[2]] < t
      BY <1>1, <2>3, <2>4, <3>2
    <3>4. status'[w[2]] = "inactive" /\ input'[w[2]] < t /\ tag'[Program[w[1]]] = t
      BY <1>2, <2>2, <2>4, <3>1, <3>3
    <3>5. input'[w[2]] \in Int /\ t \in Int
      BY <1>1, <2>2, <2>3
    <3>6. input'[w[2]] <= t
      BY <3>4, <3>5
    <3>7. QED
      BY <3>4, <3>6
  <2>5. CASE Program[w[1]] # P
    <3>1. w[1] \notin Due(P, t) /\ tag'[Program[w[1]]] = tag[Program[w[1]]]
      BY <1>2, <2>5
    <3>2. status'[w[1]] = status[w[1]]
      BY <1>6, <2>1, <3>1
    <3>3. next'[w[1]] = next[w[1]]
      BY <1>2, <3>1
    <3>4. QED
      BY <2>2, <3>1, <3>2, <3>3 DEF WiresInStep
  <2>6. QED
    BY <2>4, <2>5
<1>15. LinkInStep'
  <2>1. \A e \in events' : tag'[Program[Receiver]] < e.tag /\ input'[Receiver] < e.gen
    <3> SUFFICES ASSUME NEW e \in events'
                 PROVE  tag'[Program[Receiver]] < e.tag /\ input'[Receiver] < e.gen
      OBVIOUS
    <3>1. /\ e \in events /\ e.tag \in Nat /\ e.gen \in Nat
          /\ tag[Program[Receiver]] < e.tag /\ input[Receiver] < e.gen
      BY <1>7, Fields DEF LinkInStep
    <3>2. CASE Receiver \in taken
      <4>1. PICK f \in events : f.tag = t /\ events' = events \ {f} /\ input'[Receiver] = f.gen
        BY <1>8, <3>2
      <4>2. t <= e.tag /\ e # f /\ tag'[Program[Receiver]] = t
        BY <1>1, <1>2, <1>8, <3>1, <3>2, <4>1 DEF Arrivals
      <4>3. f.tag < e.tag
        BY <1>1, <3>1, <4>1, <4>2 DEF LinkInStep
      <4>4. QED
        BY <3>1, <4>1, <4>2, <4>3 DEF LinkInStep
    <3>3. CASE Receiver \notin taken /\ P = Program[Receiver]
      BY <1>1, <1>2, <1>9, <3>1, <3>3 DEF Arrivals
    <3>4. CASE Receiver \notin taken /\ P # Program[Receiver]
      BY <1>2, <1>9, <3>1, <3>4
    <3>5. QED
      BY <3>2, <3>3, <3>4
  <2>2. \A i \in DOMAIN wire : input'[Receiver] < wire[i].gen
    BY <1>8, <1>9 DEF LinkInStep
  <2>3. QED
    BY <1>3, <1>7, <2>1, <2>2 DEF LinkInStep
<1>16. SenderInStep'
  <2> DEFINE g0 == tag[Program[Sender]]
             g1 == tag'[Program[Sender]]
  <2>1. /\ g0 \in Nat /\ g1 \in Nat
        /\ input'[Receiver] \in Int
        /\ \A e \in events : e.gen \in Nat
        /\ \A i \in DOMAIN wire : wire[i].gen \in Nat
    BY <1>2, <1>7, WireGens DEF TypeOK
  <2>2. /\ AtTag(Sender) => input[Receiver] < g0 /\ \A e \in events : e.gen < g0
        /\ ~AtTag(Sender) => input[Receiver] <= g0 /\ \A e \in events : e.gen <= g0
        /\ AtTag(Sender) => \A i \in DOMAIN wire : wire[i].gen < g0
        /\ ~AtTag(Sender) => \A i \in DOMAIN wire : wire[i].gen <= g0
    BY DEF SenderInStep
  <2>3. /\ AtTag(Sender) => input'[Receiver] < g0
        /\ ~AtTag(Sender) => input'[Receiver] <= g0
    BY <1>8, <1>9, <2>2
  <2>4. CASE Program[Sender] = P
    <3>1. g0 < g1
      BY <1>1, <1>2, <2>4
    <3>2. QED
      BY <1>3, <1>7, <2>1, <2>2, <2>3, <3>1 DEF SenderInStep
  <2>5. CASE Program[Sender] # P
    <3>1. g0 = g1 /\ status'[Sender] = status[Sender]
      BY <1>2, <1>6, <1>10, <2>5
    <3>2. QED
      BY <1>3, <1>7, <2>2, <2>3, <3>1 DEF SenderInStep, AtTag
  <2>6. QED
    BY <2>4, <2>5
<1>17. QED
  BY <1>11, <1>12, <1>13, <1>14, <1>15, <1>16

\* A reaction that hangs, a connection that breaks and a receiver that ends
\* put nothing out of step.
LEMMA ScheduleFaults ==
  ScheduleInv /\ ((\E r \in Reactors : Hang(r)) \/ ConnectionBreaks \/ ReceiverDown \/ UNCHANGED vars)
    => ScheduleInv'
<1> SUFFICES ASSUME ScheduleInv,
                    (\E r \in Reactors : Hang(r)) \/ ConnectionBreaks \/ ReceiverDown \/ UNCHANGED vars
             PROVE  ScheduleInv'
  OBVIOUS
<1> USE DEF ScheduleInv
<1>1. ASSUME NEW r \in Reactors, Hang(r)
      PROVE  ScheduleInv'
  BY <1>1 DEF Hang, linkVars, TypeOK, TimersInStep, InputsInStep, WiresInStep, LinkInStep,
              SenderInStep, AtTag
<1>2. CASE ConnectionBreaks \/ ReceiverDown
  <2>1. /\ wire' = <<>> /\ wire' \in Seq(Message) /\ DOMAIN wire' = {} /\ up' = FALSE
        /\ events' \subseteq events /\ alive' \in {alive, FALSE}
        /\ UNCHANGED <<now, tag, next, status, input, fired, last, hung>>
    <3>1. <<>> \in Seq(Message) /\ DOMAIN <<>> = {}
      OBVIOUS
    <3>2. CASE ConnectionBreaks
      BY <3>1, <3>2 DEF ConnectionBreaks, LinkDown, scheduleVars
    <3>3. CASE ReceiverDown
      BY <3>1, <3>3 DEF ReceiverDown, ReceiverEnds, scheduleVars
    <3>4. QED
      BY <1>2, <3>2, <3>3
  <2>2. TypeOK'
    BY <2>1 DEF TypeOK
  <2>3. TimersInStep' /\ InputsInStep' /\ WiresInStep'
    BY <2>1 DEF TimersInStep, InputsInStep, WiresInStep, AtTag
  <2>4. LinkInStep' /\ SenderInStep'
    BY <2>1 DEF LinkInStep, SenderInStep, AtTag
  <2>5. QED
    BY <2>2, <2>3, <2>4
<1>3. CASE UNCHANGED vars
  BY <1>3 DEF vars, linkVars, scheduleVars, TypeOK, TimersInStep, InputsInStep, WiresInStep,
              LinkInStep, SenderInStep, AtTag
<1>4. QED
  BY <1>1, <1>2, <1>3

\* The invariant survives every step.
LEMMA ScheduleNext == ScheduleInv /\ [Next]_vars => ScheduleInv'
  BY ScheduleTick, ScheduleStartup, ScheduleBegin, ScheduleEnd, ScheduleBeginSend, ScheduleSend,
     ScheduleListen, ScheduleAdvance, ScheduleFaults
  DEF Next, React, AdvanceTag, Quiescent

(***************************************************************************)
(* Timers, inputs and trajectories are in step with the tags, for any      *)
(* programs, periods, workers and wires.                                   *)
(***************************************************************************)
THEOREM ScheduleInvariant == Spec => []ScheduleInv
  BY ScheduleInit, ScheduleNext, PTL DEF Spec

(***************************************************************************)
(* A reaction at the end of a wire runs on the output of the last tick of  *)
(* its source.                                                             *)
(***************************************************************************)
THEOREM WireCarriesLatestTick == Spec => []SmoothsLatestTick
<1>1. ScheduleInv => SmoothsLatestTick
  <2> SUFFICES ASSUME ScheduleInv, NEW w \in Wires, status[w[2]] = "running"
               PROVE  last[w[2]] = next[w[1]] - Period[w[1]]
    BY DEF SmoothsLatestTick
  <2>1. last[w[2]] = input[w[2]]
    BY Constants DEF ScheduleInv, InputsInStep
  <2>2. input[w[2]] = tag[Program[w[1]]] /\ next[w[1]] - Period[w[1]] = tag[Program[w[1]]]
    BY DEF ScheduleInv, WiresInStep
  <2>3. QED
    BY <2>1, <2>2
<1>2. QED
  BY <1>1, ScheduleInvariant, PTL

(***************************************************************************)
(* Each start of a reaction to an input is with an input of a later tick.  *)
(***************************************************************************)
THEOREM InputsAreHandledInOrder == Spec => HandledInOrder
<1>1. ScheduleInv /\ [Next]_vars =>
        [\A s \in Untimed :
           status[s] = "queued" /\ status'[s] = "running" => last'[s] > last[s]]_vars
  <2> SUFFICES ASSUME ScheduleInv, Next, NEW s \in Untimed,
                      status[s] = "queued", status'[s] = "running"
               PROVE  last'[s] > last[s]
    OBVIOUS
  <2>1. last[s] < input[s] /\ last[s] \in Int /\ input[s] \in Int
    BY DEF ScheduleInv, InputsInStep, TypeOK
  <2>2. ASSUME NEW r \in Reactors, Begin(r)
        PROVE  last'[s] > last[s]
    <3>1. r = s
      BY <2>2, Constants DEF Begin, IsReady, ScheduleInv, TypeOK
    <3>2. last' = [last EXCEPT ![s] = input[s]]
      BY <2>2, <3>1 DEF Begin, Untimed
    <3>3. last'[s] = input[s]
      BY <3>2 DEF ScheduleInv, TypeOK
    <3>4. QED
      BY <2>1, <3>3
  <2>3. status' \in [Reactors -> Statuses] /\ status \in [Reactors -> Statuses]
    BY ScheduleNext DEF ScheduleInv, TypeOK
  <2>4. ASSUME NEW r \in Reactors, Startup(r)
        PROVE  FALSE
    BY <2>4, <2>3, Constants DEF Startup
  <2>5. ASSUME NEW r \in Reactors, NEW output \in BOOLEAN, End(r, output)
        PROVE  FALSE
    BY <2>5, Constants DEF End
  <2>6. CASE BeginSend \/ SendTrajectory
    BY <2>6, <2>3, Constants DEF BeginSend, SendTrajectory
  <2>7. ASSUME NEW P \in Programs, NEW t, Advance(P, t)
        PROVE  FALSE
    <3>1. status'[s] = "queued" \/ status'[s] = status[s]
      BY <2>7, Constants DEF Advance
    <3>2. QED
      BY <3>1
  <2>8. CASE \/ Tick \/ Listen \/ ConnectionBreaks \/ ReceiverDown \/ Quiescent
             \/ \E r \in Reactors : Hang(r)
    BY <2>8 DEF Tick, Listen, ConnectionBreaks, ReceiverDown, Quiescent, Hang, scheduleVars, vars
  <2>9. QED
    BY <2>2, <2>4, <2>5, <2>6, <2>7, <2>8 DEF Next, React, AdvanceTag
<1>2. QED
  BY <1>1, ScheduleInvariant, PTL DEF Spec, HandledInOrder

-----------------------------------------------------------------------------
\* The numbers that the instants of the timers are made of.
LEMMA Firings ==
  ASSUME ScheduleInv, NEW s \in Timed
  PROVE  /\ fired[s] \in Nat /\ Period[s] \in Nat \ {0} /\ next[s] \in Nat
         /\ tag[Program[s]] \in Nat
         /\ fired[s] * Period[s] = Period[s] * fired[s]
         /\ Period[s] * (fired[s] + 1) = Period[s] * fired[s] + Period[s]
         /\ Period[s] * fired[s] \in Nat
<1>1. /\ fired[s] \in Nat /\ Period[s] \in Nat \ {0} /\ next[s] \in Nat
      /\ tag[Program[s]] \in Nat
  BY Constants DEF ScheduleInv, TypeOK
<1>2. \A k, n \in Nat : n * k = k * n
  OBVIOUS
<1>3. QED
  BY <1>1, <1>2, OneMorePeriod

\* The tag of a program lies between the latest instant of each of its
\* timers that has had a firing and the next one.
LEMMA InstantsAroundTag ==
  ASSUME ScheduleInv, NEW s \in Timed
  PROVE  /\ (fired[s] - 1) * Period[s] <= tag[Program[s]]
         /\ tag[Program[s]] <= fired[s] * Period[s]
         /\ (fired[s] - 1) * Period[s] \in Int
         /\ fired[s] * Period[s] \in Nat /\ tag[Program[s]] \in Nat
<1>1. (fired[s] - 1) * Period[s] = Period[s] * fired[s] - Period[s]
  <2>1. \A k, n \in Int : (n - 1) * k = k * n - k
    OBVIOUS
  <2>2. QED
    BY <2>1, Firings
<1>2. CASE status[s] \in {"startup", "queued"}
  <2>1. next[s] = Period[s] * (fired[s] + 1) /\ next[s] - Period[s] = tag[Program[s]]
    BY <1>2 DEF ScheduleInv, TimersInStep, AtTag
  <2>2. QED
    BY <1>1, <2>1, Firings
<1>3. CASE status[s] \notin {"startup", "queued"}
  <2>1. /\ next[s] = Period[s] * fired[s]
        /\ next[s] - Period[s] <= tag[Program[s]] /\ tag[Program[s]] < next[s]
    BY <1>3 DEF ScheduleInv, TimersInStep
  <2>2. QED
    BY <1>1, <2>1, Firings
<1>4. QED
  BY <1>2, <1>3

\* A reaction to a timer that begins is a firing of PeriodicTimers.
LEMMA BeginIsFire ==
  ASSUME ScheduleInv, NEW r \in Timed, Begin(r)
  PROVE  Timers!Fire(r)
<1>1. /\ status[r] = "queued" /\ now' = now
      /\ fired' = [fired EXCEPT ![r] = fired[r] + 1]
  BY DEF Begin, IsReady, Untimed, linkVars
<1>2. \A s \in Timed :
        /\ fired[s] \in Nat /\ Period[s] \in Nat \ {0} /\ tag[Program[s]] \in Nat
        /\ fired[s] * Period[s] = Period[s] * fired[s]
        /\ Period[s] * (fired[s] + 1) = Period[s] * fired[s] + Period[s]
        /\ Period[s] * fired[s] \in Nat
  BY Firings
<1>3. \A s \in Timed : tag[Program[s]] <= fired[s] * Period[s]
  BY InstantsAroundTag
<1>4. fired[r] * Period[r] = tag[Program[r]]
  <2>1. next[r] = Period[r] * (fired[r] + 1) /\ next[r] - Period[r] = tag[Program[r]]
    BY <1>1 DEF ScheduleInv, TimersInStep, AtTag
  <2>2. QED
    BY <1>2, <2>1
<1>5. \A s \in Timed : Program[s] = Program[r] => fired[r] * Period[r] <= fired[s] * Period[s]
  BY <1>3, <1>4
<1>6. fired[r] * Period[r] <= now
  BY <1>4, Constants DEF ScheduleInv, TimersInStep
<1>7. QED
  BY <1>1, <1>5, <1>6 DEF Timers!Fire, Timers!Instant

(***************************************************************************)
(* The reactions to the timers are periodic: no instant is skipped,        *)
(* repeated or early, and those of a program are in order, for any         *)
(* programs, periods and numbers of workers and whatever else hangs.       *)
(***************************************************************************)
THEOREM ScheduleImplementsTimers == Spec => ImplementsTimers
<1>1. Init => Timers!TimersInit
  BY DEF Init, LinkInit, Timers!TimersInit
<1>2. ScheduleInv /\ [Next]_vars => [Timers!TimersNext]_Timers!timerVars
  <2> SUFFICES ASSUME ScheduleInv, [Next]_vars
               PROVE  [Timers!TimersNext]_Timers!timerVars
    OBVIOUS
  <2>1. now \in Nat
    BY DEF ScheduleInv, TypeOK
  <2>2. CASE Tick \/ Listen
    <3>1. now' = now + 1 /\ fired' = fired
      BY <2>2 DEF Tick, Listen, ScheduleArrival, ReadClock, scheduleVars
    <3>2. QED
      BY <2>1, <3>1 DEF Timers!TimersNext, Timers!ClockGoesOn
  <2>3. ASSUME NEW r \in Reactors, Begin(r)
        PROVE  [Timers!TimersNext]_Timers!timerVars
    <3>1. CASE r \in Timed
      BY <2>3, <3>1, BeginIsFire DEF Timers!TimersNext
    <3>2. CASE r \notin Timed
      BY <2>3, <3>2 DEF Begin, linkVars, Timers!timerVars
    <3>3. QED
      BY <3>1, <3>2
  <2>4. ASSUME NEW P \in Programs, NEW t, Advance(P, t)
        PROVE  UNCHANGED Timers!timerVars
    BY <2>4 DEF Advance, NetworkReceive, linkVars, Timers!timerVars
  <2>5. CASE \E r \in Reactors : Startup(r) \/ Hang(r) \/ \E output \in BOOLEAN : End(r, output)
    BY <2>5 DEF Startup, Hang, End, linkVars, Timers!timerVars
  <2>6. CASE BeginSend \/ SendTrajectory \/ ConnectionBreaks \/ ReceiverDown \/ Quiescent \/ UNCHANGED vars
    BY <2>6 DEF BeginSend, SendTrajectory, NetworkSend, ConnectionBreaks, LinkDown, ReceiverDown,
                ReceiverEnds, Quiescent, vars, linkVars, scheduleVars, Timers!timerVars
  <2>7. QED
    BY <2>2, <2>3, <2>4, <2>5, <2>6 DEF Next, React, AdvanceTag
<1>3. QED
  BY <1>1, <1>2, ScheduleInvariant, PTL DEF Spec, ImplementsTimers, Timers!TimersSpec

-----------------------------------------------------------------------------
(***************************************************************************)
(* In one program the latest firing of a timer is no later than the next   *)
(* one of any other, for any periods: the nodes behind one barrier wait    *)
(* for the slowest.                                                        *)
(***************************************************************************)
THEOREM TimersOfProgramStayTogether == Spec => []TimersStayTogether
<1>1. ScheduleInv => TimersStayTogether
  <2> SUFFICES ASSUME ScheduleInv, NEW r \in Timed, NEW s \in Timed, Program[r] = Program[s]
               PROVE  (fired[r] - 1) * Period[r] <= fired[s] * Period[s]
    BY DEF TimersStayTogether
  <2>1. (fired[r] - 1) * Period[r] <= tag[Program[r]]
    BY InstantsAroundTag
  <2>2. tag[Program[s]] <= fired[s] * Period[s]
    BY InstantsAroundTag
  <2>3. /\ tag[Program[r]] \in Nat
        /\ fired[s] * Period[s] \in Nat
        /\ (fired[r] - 1) * Period[r] \in Int
    BY InstantsAroundTag
  <2>4. QED
    BY <2>1, <2>2, <2>3
<1>2. QED
  BY <1>1, ScheduleInvariant, PTL

-----------------------------------------------------------------------------
\* A set of numbers has a least one: of the initial segments up to its
\* members, one is contained in all others.
LEMMA LeastNumber ==
  ASSUME NEW S \in SUBSET Nat, S # {}
  PROVE  \E m \in S : \A n \in S : m <= n
<1> DEFINE Below == {0 .. m : m \in S}
<1>1. Below \subseteq FiniteSubsetsOf(Nat) /\ Below # {}
  <2>1. \A m \in Nat : 0 .. m \subseteq Nat
    OBVIOUS
  <2>2. \A m \in Nat : IsFiniteSet(0 .. m)
    BY FS_Interval
  <2>3. QED
    BY <2>1, <2>2 DEF FiniteSubsetsOf
<1>2. PICK X \in Below : \A Y \in Below : <<Y, X>> \notin StrictSubsetOrdering(Nat)
  <2> HIDE DEF Below
  <2>1. IsWellFoundedOn(StrictSubsetOrdering(Nat), FiniteSubsetsOf(Nat))
    BY FS_StrictSubsetOrderingWellFounded
  <2>2. QED
    BY <1>1, <2>1, WFMin
<1>3. PICK m \in S : X = 0 .. m
  OBVIOUS
<1>4. ASSUME NEW n \in S, n < m
      PROVE  FALSE
  <2>1. 0 .. n \subseteq 0 .. m /\ m \in 0 .. m /\ m \notin 0 .. n
    BY <1>4
  <2>2. 0 .. n \in Below /\ 0 .. n \in SUBSET Nat /\ 0 .. m \in SUBSET Nat
    OBVIOUS
  <2>3. <<0 .. n, X>> \in StrictSubsetOrdering(Nat)
    BY <1>3, <2>1, <2>2 DEF StrictSubsetOrdering
  <2>4. QED
    BY <1>2, <2>2, <2>3
<1>5. QED
  BY <1>4

\* No reaction but that of Sender has a network sender after it.
LEMMA SendersNext ==
  ASSUME ScheduleInv, OnlySenderSends, [Next]_vars
  PROVE  OnlySenderSends'
<1> SUFFICES ASSUME NEW r \in Reactors, status'[r] \in {"posted", "sending"}, r # Sender
             PROVE  FALSE
  BY DEF OnlySenderSends
<1>1. status[r] \notin {"posted", "sending"} /\ status \in [Reactors -> Statuses]
  BY DEF OnlySenderSends, ScheduleInv, TypeOK
<1>2. ASSUME NEW s \in Reactors, Startup(s) \/ Begin(s) \/ \E output \in BOOLEAN : End(s, output)
      PROVE  FALSE
  BY <1>1, <1>2 DEF Startup, Begin, End
<1>3. CASE BeginSend \/ SendTrajectory
  BY <1>1, <1>3 DEF BeginSend, SendTrajectory
<1>4. ASSUME NEW P \in Programs, NEW t, Advance(P, t)
      PROVE  FALSE
  BY <1>1, <1>4 DEF Advance
<1>5. CASE \/ Tick \/ Listen \/ ConnectionBreaks \/ ReceiverDown \/ Quiescent
           \/ (\E s \in Reactors : Hang(s)) \/ UNCHANGED vars
  BY <1>1, <1>5 DEF Tick, Listen, ConnectionBreaks, ReceiverDown, Quiescent, Hang, scheduleVars, vars
<1>6. QED
  BY <1>2, <1>3, <1>4, <1>5 DEF Next, React, AdvanceTag

\* With none of its reactions running, sending or hung, a program has a
\* worker.
LEMMA FreeWorker ==
  ASSUME NEW P \in Programs, Members(P) \cap hung = {},
         \A r \in Members(P) : status[r] \notin {"running", "sending"}
  PROVE  HasWorker(P)
<1>1. {r \in Members(P) : status[r] \in {"running", "sending"} \/ r \in hung} = {}
  OBVIOUS
<1>2. Cardinality({}) = 0
  BY FS_EmptySet
<1>3. 0 < Workers
  BY TimerAssumption
<1>4. QED
  BY <1>1, <1>2, <1>3 DEF HasWorker

\* When a send blocks there is a message to listen to: the socket is not
\* empty when it is full.
LEMMA SendOrListen == ScheduleInv => CanSend \/ CanListen
<1> SUFFICES ASSUME ScheduleInv, ~CanSend
             PROVE  CanListen
  OBVIOUS
<1>1. up /\ ~(Len(wire) < SocketCap) /\ wire \in Seq(Message) /\ Len(wire) \in Nat
  BY DEF CanSend, ScheduleInv, TypeOK
<1>2. SocketCap \in Nat \ {0}
  BY LinkAssumption
<1>3. wire # <<>>
  <2>1. Len(<<>>) = 0
    OBVIOUS
  <2>2. QED
    BY <1>1, <1>2, <2>1
<1>4. QED
  BY <1>1, <1>3 DEF CanListen

\* Of the queued reactions of a program one is of the least level.
LEMMA SomeReady ==
  ASSUME NEW P \in Programs, NEW r \in Members(P), status[r] = "queued",
         \A s \in Members(P) : status[s] \notin {"startup", "running"}
  PROVE  \E s \in Members(P) : IsReady(s)
<1> USE Constants DEF Members
<1>1. CASE \A w \in Wires : w[2] = r => status[w[1]] # "queued"
  BY <1>1 DEF IsReady
<1>2. ASSUME NEW w \in Wires, w[2] = r, status[w[1]] = "queued"
      PROVE  IsReady(w[1]) /\ w[1] \in Members(P)
  <2>1. \A v \in Wires : v[2] # w[1]
    BY DEF Untimed
  <2>2. QED
    BY <1>2, <2>1 DEF IsReady
<1>3. QED
  BY <1>1, <1>2

\* It is time for the least tag of the queue when it is for any of them.
LEMMA SomeTagIsNext ==
  ASSUME ScheduleInv, NEW P \in Programs, Idle(P), ~Rests(P)
  PROVE  \E t \in QueuedTags(P) : IsTime(P, t)
<1>1. QueuedTags(P) \subseteq Nat
  BY WireGens DEF QueuedTags, TimersOf, Arrivals, ScheduleInv, TypeOK
<1>2. PICK u \in QueuedTags(P) : ~(now < u)
  BY DEF Rests
<1>3. PICK t \in QueuedTags(P) : \A v \in QueuedTags(P) : t <= v
  BY <1>1, <1>2, LeastNumber
<1>4. t <= now
  BY <1>1, <1>2, <1>3 DEF ScheduleInv, TypeOK
<1>5. QED
  BY <1>3, <1>4 DEF IsTime, IsNextTag

(***************************************************************************)
(* No program waits for itself, or for one that waits: however many        *)
(* reactors, wires and timers it has, and with one worker or more, a       *)
(* program that has something to do and no hung reaction can do some of    *)
(* it, or its network sender waits for a listener that has something to    *)
(* read.                                                                   *)
(***************************************************************************)
THEOREM ProgramsNeverStall == Spec => []NoProgramStalls
<1>1. Init => OnlySenderSends
  BY DEF Init, OnlySenderSends
<1>2. ScheduleInv /\ OnlySenderSends => NoProgramStalls
  <2> SUFFICES ASSUME ScheduleInv, OnlySenderSends, NEW P \in Programs, ~Stuck(P), ~Rests(P),
                      ~SomethingRuns(P)
               PROVE  \/ HasWorker(P) /\ SomethingWaits(P)
                      \/ \E t \in QueuedTags(P) : IsTime(P, t)
    BY DEF NoProgramStalls
  <2>1. \A r \in Members(P) : status[r] \notin {"running", "sending"}
    BY SendOrListen DEF SomethingRuns
  <2>2. HasWorker(P)
    BY <2>1, FreeWorker DEF Stuck
  <2>3. CASE \E r \in Members(P) : status[r] \in {"startup", "posted"}
    BY <2>2, <2>3 DEF SomethingWaits
  <2>4. CASE /\ \E r \in Members(P) : status[r] = "queued"
             /\ \A r \in Members(P) : status[r] # "startup"
    BY <2>1, <2>2, <2>4, SomeReady DEF SomethingWaits
  <2>5. CASE Idle(P)
    BY <2>5, SomeTagIsNext
  <2>6. Idle(P) \/ \E r \in Members(P) : status[r] \in {"startup", "queued", "posted"}
    BY <2>1 DEF Idle, Members, ScheduleInv, TypeOK, Statuses
  <2>7. QED
    BY <2>2, <2>3, <2>4, <2>5, <2>6
<1>3. QED
  BY <1>1, <1>2, SendersNext, ScheduleInvariant, PTL DEF Spec
=============================================================================
