---------------------------- MODULE TimerSchedule ----------------------------
(***************************************************************************)
(* When the reactions of the programs run.  A program is a process with    *)
(* its own event queue and its own tag.  Its reactors have a startup       *)
(* reaction and one more: to a timer (the tick of a node), or to an input  *)
(* (the velocity smoother reacts to the scenario selector's trajectory).   *)
(*                                                                         *)
(* The reactors of a program share one barrier: the tag advances when no   *)
(* reaction is left at it.  The monolithic program has all its nodes       *)
(* behind one barrier, the federation has a program per node.  An input is *)
(* fed by a logical connection within its program, which keeps the tag, or *)
(* by the physical connection from Sender to Receiver, a PhysicalLink.     *)
(***************************************************************************)
EXTENDS PhysicalLink, Integers, FiniteSets

CONSTANTS
  Reactors,
  Timed,          \* the reactors that react to a timer
  Period,         \* of the timers, in units of time
  Program,        \* of each reactor
  Workers,        \* worker threads of a program
  Wires,          \* logical connections: pairs of reactors
  Sender,         \* source of the physical connection
  Receiver,       \* its destination
  MaxTime         \* bound of the physical time

Untimed == Reactors \ Timed
Programs == {Program[r] : r \in Reactors}
Members(P) == {r \in Reactors : Program[r] = P}

ASSUME TimerAssumption ==
  /\ Timed \subseteq Reactors
  /\ Period \in [Timed -> Nat \ {0}]
  /\ Program \in [Reactors -> Programs]
  /\ Workers \in Nat \ {0}
  /\ Wires \subseteq Timed \X Untimed
  /\ \A w, v \in Wires : w[2] = v[2] => w = v
  /\ \A w \in Wires : Program[w[1]] = Program[w[2]] /\ w[2] # Receiver
  /\ Sender \in Timed
  /\ Receiver \in Untimed
  /\ Program[Sender] # Program[Receiver]
  /\ 0 \in Ports
  /\ MaxTime \in Nat

VARIABLES
  tag,            \* current tag of each program
  next,           \* tag of the pending event of each timer
  status,         \* of the reactions of each reactor
  input,          \* for an untimed reactor: the source's tag of its input, or -1
  fired,          \* for a timed one: how often it has reacted so far
  last,           \* for an untimed one: the source's tag it reacted to last, or -1
  hung            \* reactors with a reaction that does not return

scheduleVars == <<tag, next, status, input, fired, last, hung>>
vars == <<linkVars, scheduleVars>>

\* "posted" and "sending" are of the reaction of NetworkSender_0, which
\* follows that of Sender: queued, and run by a worker.
Statuses == {"startup", "queued", "running", "posted", "sending", "inactive"}

Init ==
  /\ LinkInit
  /\ tag = [P \in Programs |-> 0]
  /\ next = Period
  /\ status = [r \in Reactors |-> "startup"]
  /\ input = [r \in Untimed |-> -1]
  /\ fired = [r \in Timed |-> 0]
  /\ last = [r \in Untimed |-> -1]
  /\ hung = {}

-----------------------------------------------------------------------------
\* The physical clock goes on.
Tick ==
  /\ now < MaxTime
  /\ now' = now + 1
  /\ UNCHANGED <<alive, up, wire, events, scheduleVars>>

\* The process of P is there; that of the receiver may have ended.
Alive(P) == P = Program[Receiver] => alive

CanRun(r) == Alive(Program[r]) /\ r \notin hung

\* Mutated form of HasWorker: a reaction takes its worker when it is queued.
HasWorkerForQueued(P) ==
  Cardinality({r \in Members(P) : status[r] \in {"queued", "running", "sending"} \/ r \in hung}) < Workers

\* A worker of P has nothing to do: one is taken by every reaction that runs,
\* a network sender that waits for the socket and a hung one included.
HasWorker(P) ==
  Cardinality({r \in Members(P) : status[r] \in {"running", "sending"} \/ r \in hung}) < Workers

\* The startup reaction of r returns.  The offset of a timer is 0, so it
\* has triggered its reaction at the start tag already.
Startup(r) ==
  /\ CanRun(r)
  /\ HasWorker(Program[r])
  /\ status[r] = "startup"
  /\ status' = [status EXCEPT ![r] = IF r \in Timed THEN "queued" ELSE "inactive"]
  /\ UNCHANGED <<linkVars, tag, next, input, fired, last, hung>>

\* No reaction of an earlier level is left: no startup reaction, and not the
\* one that sets the input of r.
IsReady(r) ==
  /\ status[r] = "queued"
  /\ \A s \in Members(Program[r]) : status[s] # "startup"
  /\ \A w \in Wires : w[2] = r => status[w[1]] \notin {"queued", "running"}

\* A worker takes the reaction of r.
Begin(r) ==
  /\ CanRun(r)
  /\ HasWorker(Program[r])
  /\ IsReady(r)
  /\ status' = [status EXCEPT ![r] = "running"]
  /\ \/ /\ r \in Timed
        /\ fired' = [fired EXCEPT ![r] = fired[r] + 1]
        /\ UNCHANGED last
     \/ /\ r \in Untimed
        /\ last' = [last EXCEPT ![r] = input[r]]
        /\ UNCHANGED fired
  /\ UNCHANGED <<linkVars, tag, next, input, hung>>

\* The reactors at the ends of the wires of r.
Sinks(r) == {s \in Untimed : <<r, s>> \in Wires}

(***************************************************************************)
(* The reaction of r returns.  If it has set its output, the reactions to  *)
(* it are queued at the same tag; for Sender, that of NetworkSender_0.     *)
(***************************************************************************)
End(r, output) ==
  /\ CanRun(r)
  /\ status[r] = "running"
  /\ status' = [s \in Reactors |->
                  IF s = r THEN IF output /\ r = Sender THEN "posted" ELSE "inactive"
                  ELSE IF output /\ s \in Sinks(r) THEN "queued" ELSE status[s]]
  /\ input' = [s \in Untimed |->
                 IF output /\ s \in Sinks(r) THEN tag[Program[r]] ELSE input[s]]
  /\ UNCHANGED <<linkVars, tag, next, fired, last, hung>>

\* A worker takes the reaction of NetworkSender_0.
BeginSend ==
  /\ CanRun(Sender)
  /\ HasWorker(Program[Sender])
  /\ status[Sender] = "posted"
  /\ status' = [status EXCEPT ![Sender] = "sending"]
  /\ UNCHANGED <<linkVars, tag, next, input, fired, last, hung>>

\* It sends the trajectory and returns its worker; until the socket has
\* room it keeps it.
SendTrajectory ==
  /\ status[Sender] = "sending"
  /\ NetworkSend([port |-> 0, gen |-> tag[Program[Sender]]])
  /\ status' = [status EXCEPT ![Sender] = "inactive"]
  /\ UNCHANGED <<tag, next, input, fired, last, hung>>

\* The callback or the constructor of the node of r does not return.
Hang(r) ==
  /\ CanRun(r)
  /\ \/ status[r] = "running"
     \/ status[r] = "startup" /\ HasWorker(Program[r])
  /\ hung' = hung \cup {r}
  /\ UNCHANGED <<linkVars, tag, next, status, input, fired, last>>

\* The listener of the receiver's program.
Listen == ScheduleArrival /\ UNCHANGED scheduleVars

\* The connection breaks: both programs go on without it.
ConnectionBreaks == LinkDown /\ UNCHANGED scheduleVars

\* The receiver's process ends.
ReceiverDown == ReceiverEnds /\ UNCHANGED scheduleVars

-----------------------------------------------------------------------------
TimersOf(P) == Timed \cap Members(P)

\* Mutated form of Idle: only the reactions to timers are waited for.
IdleTimers(P) == \A r \in TimersOf(P) : status[r] = "inactive"

\* Mutated form of Idle: one barrier for all programs.
IdleEverywhere(P) == \A r \in Reactors : status[r] = "inactive"

\* No reaction of P is left at its tag.
Idle(P) == \A r \in Members(P) : status[r] = "inactive"

\* The network events of P.
Arrivals(P) == IF P = Program[Receiver] THEN events ELSE {}

\* The tags on the event queue of P.
QueuedTags(P) == {next[r] : r \in TimersOf(P)} \cup {e.tag : e \in Arrivals(P)}

\* t is the least of them.
IsNextTag(P, t) == t \in QueuedTags(P) /\ \A u \in QueuedTags(P) : t <= u

\* No reaction of P is left, and it is time for the tag t.
IsTime(P, t) == Idle(P) /\ IsNextTag(P, t) /\ t <= now

\* Mutated form of NextEvent: the period counts from the physical time.
NextEventDrifts(r, t) == now + Period[r]

\* The event of the next firing of r, when the one at t is popped.
NextEvent(r, t) == t + Period[r]

\* The timers of P with an event at t.
Due(P, t) == {r \in TimersOf(P) : next[r] = t}

(***************************************************************************)
(* The workers of P are idle: when the physical time has reached the least *)
(* tag of its queue, the tag advances to it and the events at it are       *)
(* popped.  A timer's next event is put in the queue; a network event      *)
(* triggers NetworkReceiver_0 and, through it, the receiver.               *)
(***************************************************************************)
Advance(P, t) ==
  /\ Alive(P)
  /\ IsTime(P, t)
  /\ tag' = [tag EXCEPT ![P] = t]
  /\ next' = [r \in Timed |-> IF r \in Due(P, t) THEN NextEvent(r, t) ELSE next[r]]
  /\ \/ /\ \A e \in Arrivals(P) : e.tag # t
        /\ status' = [r \in Reactors |-> IF r \in Due(P, t) THEN "queued" ELSE status[r]]
        /\ UNCHANGED <<linkVars, input>>
     \/ \E e \in Arrivals(P) :
          /\ e.tag = t
          /\ NetworkReceive(e)
          /\ status' = [r \in Reactors |-> IF r \in Due(P, t) \cup {Receiver} THEN "queued" ELSE status[r]]
          /\ input' = [input EXCEPT ![Receiver] = e.gen]
  /\ UNCHANGED <<fired, last, hung>>

\* P advances to the tag of some event of its queue.
AdvanceTag(P) ==
  \E t \in QueuedTags(P) : Advance(P, t)

\* P cannot go on: a reaction in it hangs, or its process is gone.
Stuck(P) == ~Alive(P) \/ Members(P) \cap hung # {}

\* No event is left before the bound of the time; or a program is stuck,
\* and the others may be at rest.
Quiescent ==
  /\ now >= MaxTime
  /\ \/ \E P \in Programs : Stuck(P)
     \/ /\ wire = <<>> /\ events = {}
        /\ \A P \in Programs : Idle(P) /\ \A r \in TimersOf(P) : next[r] > now
  /\ UNCHANGED vars

\* A step of the reaction of r.
React(r) == Startup(r) \/ Begin(r) \/ \E output \in BOOLEAN : End(r, output)

Next ==
  \/ Tick
  \/ \E r \in Reactors : React(r)
  \/ BeginSend
  \/ SendTrajectory
  \/ \E r \in Reactors : Hang(r)
  \/ \E P \in Programs : AdvanceTag(P)
  \/ Listen
  \/ ConnectionBreaks
  \/ ReceiverDown
  \/ Quiescent

Spec == Init /\ [][Next]_vars

\* Time goes on, workers take reactions, and a reaction that has not been
\* left hanging returns.
FairSpec ==
  /\ Spec
  /\ WF_vars(Tick)
  /\ WF_vars(BeginSend)
  /\ WF_vars(SendTrajectory)
  /\ WF_vars(Listen)
  /\ \A r \in Reactors : WF_vars(React(r))
  /\ \A P \in Programs : WF_vars(AdvanceTag(P))

-----------------------------------------------------------------------------
Message == [port : {0}, gen : Nat]
Arrival == [port : {0}, gen : Nat, tag : Nat]

TypeOK ==
  /\ alive \in BOOLEAN /\ up \in BOOLEAN
  /\ wire \in Seq(Message)
  /\ now \in Nat
  /\ events \subseteq Arrival
  /\ tag \in [Programs -> Nat]
  /\ next \in [Timed -> Nat]
  /\ status \in [Reactors -> Statuses]
  /\ input \in [Untimed -> Int]
  /\ fired \in [Timed -> Nat]
  /\ last \in [Untimed -> Int]
  /\ hung \subseteq Reactors

AtTag(r) == status[r] # "inactive"

\* Each timer is in step with the tag of its program, which is in the past.
TimersInStep ==
  /\ \A P \in Programs : tag[P] <= now
  /\ \A r \in Timed :
       /\ next[r] = Period[r] * (IF status[r] \in {"startup", "queued"} THEN fired[r] + 1 ELSE fired[r])
       /\ next[r] - Period[r] <= tag[Program[r]]
       /\ tag[Program[r]] < next[r]
       /\ AtTag(r) => next[r] - Period[r] = tag[Program[r]]

\* An input is newer than what its reactor has reacted to, until it does.
InputsInStep ==
  \A s \in Untimed :
    /\ status[s] \notin {"posted", "sending"}
    /\ status[s] = "queued" => last[s] < input[s]
    /\ status[s] # "queued" => last[s] = input[s]

\* An input on a wire is of the present tag while there is a reaction to it.
WiresInStep ==
  \A w \in Wires :
    /\ input[w[2]] <= tag[Program[w[1]]]
    /\ status[w[2]] \in {"queued", "running"} =>
         /\ input[w[2]] = tag[Program[w[1]]]
         /\ next[w[1]] - Period[w[1]] = tag[Program[w[1]]]
         /\ status[w[1]] \notin {"startup", "queued", "running"}
    /\ status[w[1]] \in {"startup", "queued", "running"} => input[w[2]] < tag[Program[w[1]]]

\* The trajectories on the link arrive and are handled in the order sent.
LinkInStep ==
  /\ \A e, f \in events : e.tag < f.tag => e.gen < f.gen
  /\ \A e, f \in events : e.tag = f.tag => e = f
  /\ \A e \in events :
       /\ tag[Program[Receiver]] < e.tag
       /\ e.tag <= now
       /\ input[Receiver] < e.gen
       /\ \A i \in DOMAIN wire : e.gen < wire[i].gen
  /\ \A i, j \in DOMAIN wire : i < j => wire[i].gen < wire[j].gen
  /\ \A i \in DOMAIN wire : input[Receiver] < wire[i].gen

\* The link holds nothing from later than the sender's tag, and nothing of
\* that tag before the sender has sent it.
SenderInStep ==
  LET Older(g) == IF AtTag(Sender) THEN g < tag[Program[Sender]] ELSE g <= tag[Program[Sender]]
  IN  /\ Older(input[Receiver])
      /\ \A e \in events : Older(e.gen)
      /\ \A i \in DOMAIN wire : Older(wire[i].gen)

\* The timers, the inputs on the wires and those on the link are in step.
ScheduleInv ==
  TypeOK /\ TimersInStep /\ InputsInStep /\ WiresInStep /\ LinkInStep /\ SenderInStep

(***************************************************************************)
(* The reactions to the timers are the firings of PeriodicTimers.  A       *)
(* program that is late, because a callback took long or the start did,    *)
(* makes up for every instant it has missed, in the order of the tags.     *)
(***************************************************************************)
Timers == INSTANCE PeriodicTimers
            WITH Timers <- Timed, Owner <- Program, clock <- now, count <- fired

ImplementsTimers == Timers!TimersSpec

(***************************************************************************)
(* Over a logical connection the velocity smoother works on the trajectory *)
(* of the scenario selector's latest tick, never on an older one, however  *)
(* late the workers are.                                                   *)
(***************************************************************************)
SmoothsLatestTick ==
  \A w \in Wires :
    status[w[2]] = "running" => last[w[2]] = next[w[1]] - Period[w[1]]

(***************************************************************************)
(* A reaction to an input starts with an input of a later tick than the    *)
(* one before, over both kinds of connection: no trajectory is smoothed    *)
(* twice or after a newer one.                                             *)
(***************************************************************************)
HandledInOrder ==
  [][\A s \in Untimed :
       status[s] = "queued" /\ status'[s] = "running" => last'[s] > last[s]]_vars

\* Only the reaction of Sender has a network sender after it.
OnlySenderSends == \A r \in Reactors : status[r] \in {"posted", "sending"} => r = Sender

\* P has nothing to do before some later time.
Rests(P) == Idle(P) /\ \A t \in QueuedTags(P) : now < t

\* A reaction of P runs that can return; a network sender can when there is
\* room, and while there is none the listener has something to read.
SomethingRuns(P) ==
  \E r \in Members(P) :
    \/ status[r] = "running"
    \/ status[r] = "sending" /\ (CanSend \/ CanListen)

\* A reaction of P waits for nothing but a worker.
SomethingWaits(P) ==
  \E r \in Members(P) : status[r] \in {"startup", "posted"} \/ IsReady(r)

(***************************************************************************)
(* No program waits for itself, or for another one that waits: unless it   *)
(* rests or hangs, it runs a reaction that can return, a worker can take   *)
(* one, or it is time for its next tag.  A network sender keeps its worker *)
(* while the socket is full, but then the listener of the receiver, which  *)
(* needs no worker, has a message to take.  One worker is enough.          *)
(***************************************************************************)
NoProgramStalls ==
  \A P \in Programs :
    \/ Stuck(P)
    \/ Rests(P)
    \/ SomethingRuns(P)
    \/ HasWorker(P) /\ SomethingWaits(P)
    \/ \E t \in QueuedTags(P) : IsTime(P, t)

(***************************************************************************)
(* The nodes of one program share its barrier: a timer never runs ahead of *)
(* another of the program by more than its period, however slow the other  *)
(* node's callback is.                                                     *)
(***************************************************************************)
TimersStayTogether ==
  \A r, s \in Timed :
    Program[r] = Program[s] => (fired[r] - 1) * Period[r] <= fired[s] * Period[s]

(***************************************************************************)
(* Every timer fires at each of its instants, unless a reaction of its own *)
(* program hangs: in the federation no other program can stop it, in the   *)
(* monolithic program every other node can.                                *)
(***************************************************************************)
KeepsFiring ==
  <>(\A r \in Timed : fired[r] * Period[r] > MaxTime \/ Stuck(Program[r]))

(***************************************************************************)
(* A trajectory that the network sender is to send is smoothed in the end, *)
(* none is overtaken or dropped, unless the connection breaks or the       *)
(* receiver's program is stuck.                                            *)
(***************************************************************************)
TrajectoryIsSmoothed ==
  \A g \in {t \in 0 .. MaxTime : t % Period[Sender] = 0} :
    status[Sender] = "posted" /\ tag[Program[Sender]] = g
      ~> last[Receiver] = g \/ ~up \/ Stuck(Program[Receiver])
=============================================================================
