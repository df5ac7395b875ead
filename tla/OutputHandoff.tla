---------------------------- MODULE OutputHandoff ---------------------------
(***************************************************************************)
(* How an output of a wrapped ROS node reaches its reactor.  The node's    *)
(* callback stores a message in lf_output_X and raises lf_X_is_set; the    *)
(* reaction checks the flag, copies the message to the port and clears the *)
(* flag.  Neither field is atomic and no lock is held.                     *)
(*                                                                         *)
(* Two threads meet there.  The LF worker runs the reaction, which in the  *)
(* nodes with an LF timer and a cancelled ROS timer calls the callback     *)
(* itself (caller = "reaction"): vehicle_cmd_gate, trajectory_follower and *)
(* the planners.  In mission_planner the callbacks are services, run by    *)
(* the spin thread, and the reaction only polls (caller = "spin").         *)
(***************************************************************************)
EXTENDS Naturals, Sequences, FiniteSets

CONSTANTS
  MaxMade,        \* bound: outputs produced
  Torn            \* a message made of parts of two of them

Thread == {"reaction", "spin"}

ASSUME HandoffAssumption ==
  /\ MaxMade \in Nat
  /\ Torn \notin Nat

VARIABLES
  caller,         \* the thread that runs the producing callback: the kind of node
  made,           \* outputs the callback has begun to produce
  out,            \* lf_output_X: the number of an output, or Torn
  isSet,          \* lf_X_is_set
  pc,             \* where each thread is
  msg,            \* the reaction's copy of the message
  port            \* messages set on the output port (history)

vars == <<caller, made, out, isSet, pc, msg, port>>

Message == Nat \cup {Torn}

Init ==
  /\ caller \in Thread
  /\ made = 0
  /\ out = 0
  /\ isSet = FALSE
  /\ pc = [t \in Thread |-> "idle"]
  /\ msg = 0
  /\ port = <<>>

Goto(t, from, to) ==
  /\ pc[t] = from
  /\ pc' = [pc EXCEPT ![t] = to]

\* Where the callback begins and ends on the thread that runs it.
Called == IF caller = "reaction" THEN "calling" ELSE "idle"
Returned == IF caller = "reaction" THEN "check" ELSE "idle"

-----------------------------------------------------------------------------
\* The timer fires and its reaction calls the callback.
CallbackStart ==
  /\ caller = "reaction"
  /\ Goto("reaction", "idle", "calling")
  /\ UNCHANGED <<caller, made, out, isSet, msg, port>>

\* The callback returns early: no output this time.
CallbackSkips ==
  /\ Goto("reaction", "calling", "check")
  /\ UNCHANGED <<caller, made, out, isSet, msg, port>>

\* The callback begins to overwrite the output.
StoreBegin ==
  /\ made < MaxMade
  /\ Goto(caller, Called, "storing")
  /\ made' = made + 1
  /\ out' = Torn
  /\ UNCHANGED <<caller, isSet, msg, port>>

StoreEnd ==
  /\ Goto(caller, "storing", "stored")
  /\ out' = made
  /\ UNCHANGED <<caller, made, isSet, msg, port>>

\* Mutated form of Raise: the callback returns without raising the flag.
RaiseForgotten ==
  /\ Goto(caller, "stored", Returned)
  /\ UNCHANGED <<caller, made, out, isSet, msg, port>>

\* The callback raises the flag and returns.
Raise ==
  /\ Goto(caller, "stored", Returned)
  /\ isSet' = TRUE
  /\ UNCHANGED <<caller, made, out, msg, port>>

-----------------------------------------------------------------------------
\* The reaction, statement by statement; a polling one starts at the check.

\* if (node->lf_X_is_set)
FlagSeen ==
  /\ Goto("reaction", Returned, "copy")
  /\ isSet
  /\ UNCHANGED <<caller, made, out, isSet, msg, port>>

FlagNotSeen ==
  /\ Goto("reaction", Returned, "idle")
  /\ ~isSet
  /\ UNCHANGED <<caller, made, out, isSet, msg, port>>

\* make_shared<X>(node->lf_output_X)
CopyOutput ==
  /\ Goto("reaction", "copy", "forward")
  /\ msg' = out
  /\ UNCHANGED <<caller, made, out, isSet, port>>

\* Mutated form of SetPort: the branch clears the flag and sets nothing.
SetPortForgotten ==
  /\ Goto("reaction", "forward", "clear")
  /\ UNCHANGED <<caller, made, out, isSet, msg, port>>

\* lf_set(X, msg)
SetPort ==
  /\ Goto("reaction", "forward", "clear")
  /\ port' = Append(port, msg)
  /\ UNCHANGED <<caller, made, out, isSet, msg>>

\* Mutated form of ClearFlag: the flag stays up.
ClearForgotten ==
  /\ Goto("reaction", "clear", "idle")
  /\ UNCHANGED <<caller, made, out, isSet, msg, port>>

\* node->lf_X_is_set = false
ClearFlag ==
  /\ Goto("reaction", "clear", "idle")
  /\ isSet' = FALSE
  /\ UNCHANGED <<caller, made, out, msg, port>>

Reaction == CallbackSkips \/ FlagSeen \/ FlagNotSeen \/ CopyOutput \/ SetPort \/ ClearFlag

Next == CallbackStart \/ StoreBegin \/ StoreEnd \/ Raise \/ Reaction

Spec == Init /\ [][Next]_vars

\* The worker runs a reaction to its end and the timer keeps firing; a
\* callback that began runs to its end.  No callback has to produce anything.
FairSpec ==
  /\ Spec
  /\ WF_vars(CallbackStart \/ Reaction)
  /\ WF_vars(StoreEnd \/ Raise)
-----------------------------------------------------------------------------
TypeOK ==
  /\ caller \in Thread
  /\ made \in Nat
  /\ out \in Message
  /\ isSet \in BOOLEAN
  /\ pc \in [Thread -> {"idle", "calling", "storing", "stored", "check", "copy", "forward", "clear"}]
  /\ msg \in Message
  /\ port \in Seq(Message)

UpTo(n) == [i \in 1..n |-> i]

(***************************************************************************)
(* A node whose callback runs in the reaction: whenever the reaction is    *)
(* over, each output ever produced has been forwarded exactly once, in     *)
(* order, whole, and the flag is down.                                     *)
(***************************************************************************)
ForwardsEach ==
  caller = "reaction" /\ pc["reaction"] = "idle" => port = UpTo(made) /\ ~isSet

(***************************************************************************)
(* Why ForwardsEach holds: the one thread that writes the output is the    *)
(* one that reads it, so each statement of the reaction finds the last     *)
(* output whole, announced and not yet forwarded.                          *)
(***************************************************************************)
OutputWaits == made # 0 /\ port = UpTo(made - 1)

TimerInv ==
  /\ TypeOK
  /\ pc["spin"] = "idle"
  /\ pc["reaction"] \in {"idle", "calling"} => port = UpTo(made) /\ ~isSet
  /\ pc["reaction"] = "storing" => OutputWaits /\ ~isSet
  /\ pc["reaction"] = "stored" => OutputWaits /\ out = made /\ ~isSet
  /\ pc["reaction"] = "check" => IF isSet THEN OutputWaits /\ out = made ELSE port = UpTo(made)
  /\ pc["reaction"] = "copy" => OutputWaits /\ out = made
  /\ pc["reaction"] = "forward" => OutputWaits /\ msg = made
  /\ pc["reaction"] = "clear" => port = UpTo(made)

-----------------------------------------------------------------------------
(***************************************************************************)
(* A node whose callback runs in the reaction implements a mailbox: an     *)
(* output is posted when it is announced and delivered when it is set on   *)
(* the port.  (A polled node does not: its box is overwritten while full   *)
(* and emptied more than once, so it is left out of the mapping.)          *)
(***************************************************************************)
Announced == IF pc["reaction"] \in {"storing", "stored"} THEN made - 1 ELSE made

Box == INSTANCE Mailbox WITH
  posted <- IF caller = "reaction" THEN Announced ELSE 0,
  delivered <- IF caller = "reaction" THEN port ELSE <<>>

ImplementsMailbox == Box!BoxSpec

-----------------------------------------------------------------------------
Times(g) == Cardinality({i \in DOMAIN port : port[i] = g})

(***************************************************************************)
(* A polled node: what is forwarded whole never goes back to an older      *)
(* output, and no output is forwarded more than twice (the second time     *)
(* when its flag rises after the copy of it was already taken).            *)
(***************************************************************************)
PollNeverRegresses ==
  caller = "spin" =>
    /\ \A i, j \in DOMAIN port :
         i < j /\ port[i] # Torn /\ port[j] # Torn => port[i] <= port[j]
    /\ \A g \in 1..made : Times(g) <= 2

(***************************************************************************)
(* Why PollNeverRegresses holds: the output is the newest one or being     *)
(* overwritten, and its second forwarding leaves the flag down until the   *)
(* next one is announced.                                                  *)
(***************************************************************************)
Holds(g) == pc["reaction"] = "forward" /\ msg = g

FlagSpent == pc["reaction"] = "clear" \/ (pc["reaction"] = "idle" /\ ~isSet)

PollInv ==
  /\ TypeOK
  /\ pc["reaction"] \in {"idle", "copy", "forward", "clear"}
  /\ pc["spin"] \in {"idle", "storing", "stored"}
  /\ out = IF pc["spin"] = "storing" THEN Torn ELSE made
  /\ \A i \in DOMAIN port : port[i] # Torn => port[i] <= made
  /\ \A i, j \in DOMAIN port :
       i < j /\ port[i] # Torn /\ port[j] # Torn => port[i] <= port[j]
  /\ pc["reaction"] = "forward" /\ msg # Torn =>
       msg <= made /\ \A i \in DOMAIN port : port[i] # Torn => port[i] <= msg
  /\ \A g \in 1..made : Times(g) <= IF Holds(g) THEN 1 ELSE 2
  /\ pc["spin"] = "storing" => Times(made) = 0 /\ ~Holds(made)
  /\ pc["spin"] = "stored" => IF Times(made) = 0 THEN TRUE ELSE Times(made) = 1 /\ FlagSpent
  /\ pc["spin"] = "idle" /\ made # 0 /\ Times(made) = 2 => FlagSpent

-----------------------------------------------------------------------------
\* The callback does not write the fields while a reaction that has seen the
\* flag is at work on them, as if both held a lock.
Exclusive ==
  ~(pc["spin"] \in {"storing", "stored"} /\ pc["reaction"] \in {"copy", "forward", "clear"})

\* Only whole outputs are forwarded, none of them twice or after a newer one,
\* and between two callbacks with the flag down the newest has been.
ForwardsAnnounced ==
  caller = "spin" =>
    /\ \A i \in DOMAIN port : port[i] # Torn
    /\ \A i, j \in DOMAIN port : i < j => port[i] < port[j]
    /\ pc["spin"] = "idle" /\ pc["reaction"] = "idle" /\ ~isSet /\ made # 0 =>
         port # <<>> /\ port[Len(port)] = made

(***************************************************************************)
(* What a polled node tears, doubles or loses is all due to callbacks that *)
(* run into a reaction's handling of the flag: in a run without one        *)
(* nothing is.  The check of the flag needs no protection, nor does        *)
(* overwriting an output that has not been seen yet.                       *)
(***************************************************************************)
LockSuffices == []Exclusive => []ForwardsAnnounced

\* Why it does: an output stays pending, newer than all that was forwarded,
\* until the reaction that has seen its flag forwards it.
Pending ==
  \/ pc["spin"] # "idle"
  \/ pc["reaction"] = "idle" /\ isSet
  \/ pc["reaction"] \in {"copy", "forward"}

LockedInv ==
  caller = "spin" =>
    /\ \A i \in DOMAIN port : port[i] \in 1..made
    /\ \A i, j \in DOMAIN port : i < j => port[i] < port[j]
    /\ IF Pending
         THEN made # 0 /\ \A i \in DOMAIN port : port[i] < made
         ELSE made # 0 => port # <<>> /\ port[Len(port)] = made
    /\ pc["reaction"] = "forward" => msg = made

-----------------------------------------------------------------------------
\* The strengthening of both kinds of node, for the check and the proof.
HandoffInv == IF caller = "reaction" THEN TimerInv ELSE PollInv

Forwarded(g) == \E i \in DOMAIN port : port[i] # Torn /\ port[i] >= g

(***************************************************************************)
(* An output announced when the reaction comes to its check is forwarded,  *)
(* by a node of either kind, unless another one is begun meanwhile.  (Only *)
(* the services of a polled node can begin one there.)                     *)
(***************************************************************************)
QuietOutputIsForwarded ==
  \A g \in 1..MaxMade :
    (isSet /\ out = g /\ pc["reaction"] = Returned) ~> (Forwarded(g) \/ made > g)

(***************************************************************************)
(* An output once announced reaches the port, or a later one does, as the  *)
(* header of mission_planner says of the polling timer.  (It fails: a flag *)
(* raised between the check and the clearing is wiped out together with    *)
(* the one that was seen.)                                                 *)
(***************************************************************************)
AnnouncedIsForwarded ==
  \A g \in 1..MaxMade :
    (pc[caller] = "stored" /\ made = g) ~> Forwarded(g)
=============================================================================
