---------------------------- MODULE WrappedNodes ----------------------------
(***************************************************************************)
(* The life of the wrapped ROS nodes of one program: startup reactions     *)
(* that construct them and start their spin threads, reactions that run    *)
(* their callbacks, spin threads that run the others, and the end of       *)
(* rclcpp or of the program.  A node lives as long as somebody holds a     *)
(* shared pointer to it, and is shared without a lock.                     *)
(*                                                                         *)
(* A program is a set of wrappers in one process; NodeCatalogue describes  *)
(* the wrappers and the programs there are.                                *)
(***************************************************************************)
EXTENDS Naturals

CONSTANT Programs

VARIABLES
  wrappers,       \* the program that runs
  keepAlive,      \* it goes on without events: told to, or as a federate
  process,        \* "running", "failed" or "ended"
  rcl,            \* rclcpp's global context: "none", "up" or "down"
  startup,        \* per wrapper: how far its startup reaction is
  owners,         \* per wrapper: who holds a shared pointer to the node
  armed,          \* per wrapper: the ROS timers of its node can fire
  worker,         \* per wrapper: its reaction to a timer or an input
  spinner         \* per wrapper: its spin thread

vars == <<wrappers, keepAlive, process, rcl, startup, owners, armed, worker, spinner>>
program == <<wrappers, keepAlive>>

\* The startup reaction, self->node, the pointer on the heap that is passed to
\* the thread, and the thread's copy of it.
Owner == {"startup", "reactor", "handle", "thread"}

Place == {"begin", "loaded", "constructed", "cancelled", "handed", "returned"}

HasNode(w) == w.host = "node"
Reacts(w) == HasNode(w) /\ (w.period # 0 \/ w.inputs # {})

\* Only a wrapper that has a node to itself and an LF timer cancels ROS timers,
\* and one that may give up has nothing to react to.
WellFormed(w) ==
  /\ w.host \in {"node", "executor", "nothing"}
  /\ w.cancels \in BOOLEAN
  /\ w.period \in Nat
  /\ w.mayGiveUp \in BOOLEAN
  /\ w.cancels => HasNode(w) /\ w.period # 0
  /\ w.mayGiveUp => ~Reacts(w)

ASSUME ProgramAssumption ==
  \A p \in Programs : \A w \in p : WellFormed(w)

Init ==
  /\ wrappers \in Programs
  /\ keepAlive \in BOOLEAN
  /\ process = "running"
  /\ rcl = "none"
  /\ startup = [w \in wrappers |-> "begin"]
  /\ owners = [w \in wrappers |-> {}]
  /\ armed = [w \in wrappers |-> FALSE]
  /\ worker = [w \in wrappers |-> "idle"]
  /\ spinner = [w \in wrappers |-> "none"]

-----------------------------------------------------------------------------
\* The startup reactions; those of one program run in parallel.

StartupGoes(w, from, to) ==
  /\ startup[w] = from
  /\ startup' = [startup EXCEPT ![w] = to]

\* rclcpp::init, whose complaint that it is up already is caught, and the
\* parameters; a lenient reader passes over a file that does not load.
LoadOptions(w) ==
  /\ StartupGoes(w, "begin", "loaded")
  /\ w.host # "nothing"
  /\ rcl' = "up"
  /\ UNCHANGED <<process, owners, armed, worker, spinner>>

\* lf_print_error_and_exit: a strict reader does not pass over it.
LoadFails(w) ==
  /\ startup[w] = "begin"
  /\ w.params = "strict"
  /\ process' = "failed"
  /\ rcl' = "up"
  /\ UNCHANGED <<startup, owners, armed, worker, spinner>>

\* w looks for its files under get_lf_autoware_home().
ReadsHome(w) == w.params # "unread" \/ w.mayGiveUp

\* The environment does not name that directory: no reader passes over it, and
\* the first one to ask for it ends the process.
HomeUnset(w) ==
  /\ ReadsHome(w)
  /\ \A v \in wrappers : ReadsHome(v) => startup[v] = "begin"
  /\ process' = "failed"
  /\ UNCHANGED <<rcl, startup, owners, armed, worker, spinner>>

\* The reaction returns before there is a node, or never has one.
ReturnsWithoutNode(w) ==
  /\ StartupGoes(w, "begin", "returned")
  /\ w.mayGiveUp \/ w.host = "nothing"
  /\ UNCHANGED <<process, rcl, owners, armed, worker, spinner>>

\* Mutated form of ConstructNode: the reactor keeps a raw pointer only.
ConstructNodeRaw(w) ==
  /\ StartupGoes(w, "loaded", "constructed")
  /\ rcl = "up"
  /\ owners' = [owners EXCEPT ![w] = {"startup"}]
  /\ armed' = [armed EXCEPT ![w] = TRUE]
  /\ UNCHANGED <<process, rcl, worker, spinner>>

\* The node starts its ROS timers.  One that its wrapper hosts alone is kept
\* in the reactor's state, those of an executor are locals of the reaction.
ConstructNode(w) ==
  /\ StartupGoes(w, "loaded", "constructed")
  /\ rcl = "up"
  /\ owners' = [owners EXCEPT ![w] = IF HasNode(w) THEN {"reactor"} ELSE {"startup"}]
  /\ armed' = [armed EXCEPT ![w] = TRUE]
  /\ UNCHANGED <<process, rcl, worker, spinner>>

\* Without a context, or without a parameter it needs, the constructor throws,
\* and nobody catches.
ConstructionThrows(w) ==
  /\ startup[w] = "loaded"
  /\ process' = "failed"
  /\ UNCHANGED <<rcl, startup, owners, armed, worker, spinner>>

\* node->timer_->cancel()
CancelTimer(w) ==
  /\ StartupGoes(w, "constructed", "cancelled")
  /\ w.cancels
  /\ armed' = [armed EXCEPT ![w] = FALSE]
  /\ UNCHANGED <<process, rcl, owners, worker, spinner>>

Spawn(w) ==
  /\ spinner' = [spinner EXCEPT ![w] = "created"]
  /\ owners' = IF HasNode(w) THEN [owners EXCEPT ![w] = @ \cup {"handle"}] ELSE owners
  /\ UNCHANGED <<process, rcl, armed, worker>>

\* Mutated form of StartSpinner: the thread is started before the timer is
\* cancelled.
StartSpinnerEarly(w) ==
  \/ StartupGoes(w, "constructed", "constructed") /\ w.cancels /\ spinner[w] = "none" /\ Spawn(w)
  \/ /\ StartupGoes(w, "cancelled", "handed") /\ spinner[w] # "none"
     /\ UNCHANGED <<process, rcl, owners, armed, worker, spinner>>
  \/ StartupGoes(w, "constructed", "handed") /\ ~w.cancels /\ Spawn(w)

\* pthread_create, with a pointer to the node or to the executor.
StartSpinner(w) ==
  /\ StartupGoes(w, IF w.cancels THEN "cancelled" ELSE "constructed", "handed")
  /\ Spawn(w)

\* Mutated form of ReturnFromStartup: the reaction waits for the spin loop.
ReturnFromStartupJoined(w) ==
  /\ StartupGoes(w, "handed", "returned")
  /\ spinner[w] = "ended"
  /\ owners' = [owners EXCEPT ![w] = @ \ {"startup"}]
  /\ UNCHANGED <<process, rcl, armed, worker, spinner>>

\* The reaction ends, and its locals with it.
ReturnFromStartup(w) ==
  /\ StartupGoes(w, "handed", "returned")
  /\ owners' = [owners EXCEPT ![w] = @ \ {"startup"}]
  /\ UNCHANGED <<process, rcl, armed, worker, spinner>>

Startup(w) ==
  \/ LoadOptions(w)
  \/ LoadFails(w)
  \/ HomeUnset(w)
  \/ ReturnsWithoutNode(w)
  \/ ConstructNode(w)
  \/ ConstructionThrows(w)
  \/ CancelTimer(w)
  \/ StartSpinner(w)
  \/ ReturnFromStartup(w)
-----------------------------------------------------------------------------
\* The spin thread: spin_node, spin_node_with_executor, or the wrapper's own.

SpinnerGoes(w, from, to) ==
  /\ spinner[w] = from
  /\ spinner' = [spinner EXCEPT ![w] = to]

\* The thread copies the pointer it was given.
SpinnerBegins(w) ==
  /\ SpinnerGoes(w, "created", "check")
  /\ owners' = IF HasNode(w) THEN [owners EXCEPT ![w] = @ \cup {"thread"}] ELSE owners
  /\ UNCHANGED <<process, rcl, startup, armed, worker>>

\* while (rclcpp::ok()) spin_some: a callback, or nothing to do.  An executor
\* does not own its nodes: it passes over those that are gone.
SpinSome(w) ==
  /\ \/ SpinnerGoes(w, "check", "topic")
     \/ SpinnerGoes(w, "check", "timer") /\ armed[w]
  /\ rcl = "up"
  /\ HasNode(w) \/ owners[w] # {}
  /\ UNCHANGED <<process, rcl, startup, owners, armed, worker>>

SpinnerCallbackReturns(w) ==
  /\ SpinnerGoes(w, "topic", "check") \/ SpinnerGoes(w, "timer", "check")
  /\ UNCHANGED <<process, rcl, startup, owners, armed, worker>>

\* Mutated form of SpinnerEnds: the reactor's pointer is deleted as well.
SpinnerEndsNode(w) ==
  /\ SpinnerGoes(w, "check", "ended")
  /\ rcl # "up"
  /\ owners' = [owners EXCEPT ![w] = {}]
  /\ UNCHANGED <<process, rcl, startup, armed, worker>>

\* Mutated form of SpinnerEnds: the loop runs as long as the node is there.
SpinnerEndsWithNode(w) ==
  /\ SpinnerGoes(w, "check", "ended")
  /\ owners[w] \subseteq {"handle", "thread"}
  /\ owners' = [owners EXCEPT ![w] = {}]
  /\ UNCHANGED <<process, rcl, startup, armed, worker>>

\* The loop is over: the thread deletes the pointer and returns.
SpinnerEnds(w) ==
  /\ SpinnerGoes(w, "check", "ended")
  /\ rcl # "up"
  /\ owners' = [owners EXCEPT ![w] = @ \ {"handle", "thread"}]
  /\ UNCHANGED <<process, rcl, startup, armed, worker>>

Spin(w) == SpinnerBegins(w) \/ SpinSome(w) \/ SpinnerCallbackReturns(w) \/ SpinnerEnds(w)
-----------------------------------------------------------------------------
\* The reactions to timers and inputs.  The first timers fire at the tag of the
\* startup, and the scheduler takes the reactions of a tag level by level.

AllStarted == \A w \in wrappers : startup[w] = "returned"

\* The reaction uses the node: its callback or its outputs.
React(w) ==
  /\ Reacts(w)
  /\ AllStarted
  /\ worker[w] = "idle"
  /\ worker' = [worker EXCEPT ![w] = "reacting"]
  /\ UNCHANGED <<process, rcl, startup, owners, armed, spinner>>

ReactionReturns(w) ==
  /\ worker[w] = "reacting"
  /\ worker' = [worker EXCEPT ![w] = "idle"]
  /\ UNCHANGED <<process, rcl, startup, owners, armed, spinner>>

\* rclcpp::shutdown, by its handler of signals.
Shutdown ==
  /\ rcl = "up"
  /\ rcl' = "down"
  /\ UNCHANGED <<process, startup, owners, armed, worker, spinner>>

\* No event is left and none can come: the runtime stops at this tag.
ProgramEnds ==
  /\ AllStarted
  /\ ~keepAlive
  /\ \A w \in wrappers : w.period = 0
  /\ \A w \in wrappers : worker[w] = "idle"
  /\ process' = "ended"
  /\ UNCHANGED <<rcl, startup, owners, armed, worker, spinner>>

Next ==
  /\ process = "running"
  /\ UNCHANGED program
  /\ \/ \E w \in wrappers : Startup(w) \/ Spin(w) \/ React(w) \/ ReactionReturns(w)
     \/ Shutdown
     \/ ProgramEnds

Spec == Init /\ [][Next]_vars

\* The workers run what is triggered, timers fire, and the threads are run;
\* callbacks return.  Neither a failure nor a shutdown has to come.
Runs(A) == process = "running" /\ UNCHANGED program /\ A

FairSpec ==
  /\ Spec
  /\ \A w \in UNION Programs :
       /\ WF_vars(\E v \in wrappers \cap {w} : Runs(Startup(v)))
       /\ WF_vars(\E v \in wrappers \cap {w} : Runs(Spin(v)))
       /\ WF_vars(\E v \in wrappers \cap {w} : v.period # 0 /\ Runs(React(v)))
       /\ WF_vars(\E v \in wrappers \cap {w} : Runs(ReactionReturns(v)))
-----------------------------------------------------------------------------
TypeOK ==
  /\ wrappers \in Programs
  /\ keepAlive \in BOOLEAN
  /\ process \in {"running", "failed", "ended"}
  /\ rcl \in {"none", "up", "down"}
  /\ startup \in [wrappers -> Place]
  /\ owners \in [wrappers -> SUBSET Owner]
  /\ armed \in [wrappers -> BOOLEAN]
  /\ worker \in [wrappers -> {"idle", "reacting"}]
  /\ spinner \in [wrappers -> {"none", "created", "check", "topic", "timer", "ended"}]

InCallback(w) == spinner[w] \in {"topic", "timer"}

(***************************************************************************)
(* Where the reaction of a wrapper runs the callback of the node's timer,  *)
(* the spin thread never does: the ROS timer is cancelled before the       *)
(* thread can serve it.                                                    *)
(***************************************************************************)
TimerLeftToLF == \A w \in wrappers : w.cancels => spinner[w] # "timer"

(***************************************************************************)
(* Neither the reaction nor the spin thread uses a node that is gone,      *)
(* whatever ends first: the startup reaction, rclcpp, or the thread.       *)
(***************************************************************************)
NodesOutliveCallbacks ==
  \A w \in wrappers :
    HasNode(w) /\ (InCallback(w) \/ worker[w] = "reacting") => owners[w] # {}

(***************************************************************************)
(* Why they hold: the reactor holds the node from when it is constructed,  *)
(* a thread is started after the timer is cancelled, and reactions wait    *)
(* for every startup reaction of the program.                              *)
(***************************************************************************)
NodeInv ==
  /\ TypeOK
  /\ \A w \in wrappers :
       /\ startup[w] \in {"constructed", "cancelled", "handed"} /\ HasNode(w) => "reactor" \in owners[w]
       /\ startup[w] = "returned" /\ Reacts(w) => "reactor" \in owners[w]
       /\ startup[w] = "cancelled" => ~armed[w]
       /\ spinner[w] # "none" =>
            /\ startup[w] \in {"handed", "returned"}
            /\ w.cancels => ~armed[w]
            /\ HasNode(w) => "reactor" \in owners[w]
       /\ w.cancels => spinner[w] # "timer"
       /\ worker[w] = "reacting" => Reacts(w) /\ startup[w] = "returned"

(***************************************************************************)
(* A timer of the program starts to fire, unless the process fails: no     *)
(* startup reaction keeps the others waiting for good.                     *)
(***************************************************************************)
TimersStart ==
  \A w \in UNION Programs :
    (w \in wrappers /\ HasNode(w) /\ w.period # 0) ~>
      (process = "failed" \/ \E v \in wrappers \cap {w} : worker[v] = "reacting")

(***************************************************************************)
(* After startup, a shutdown of rclcpp ends every spin thread, although    *)
(* nobody joins them.                                                      *)
(***************************************************************************)
ThreadsEnd ==
  (AllStarted /\ rcl = "down") ~>
    (process # "running" \/ \A w \in wrappers : spinner[w] \in {"none", "ended"})

(***************************************************************************)
(* The node of a program lives on its spin thread until rclcpp is shut     *)
(* down.  (It fails in the main reactor of a passive wrapper: there are no *)
(* events after startup.)                                                  *)
(***************************************************************************)
RunsPassively == process = "ended" => rcl # "up"

(***************************************************************************)
(* What the spin thread was started for is there to be spun.  (It fails    *)
(* for the nodes of an executor: their only owner is the startup reaction, *)
(* which returns.)                                                         *)
(***************************************************************************)
SpinsItsNodes == \A w \in wrappers : spinner[w] # "none" => owners[w] # {}
=============================================================================
