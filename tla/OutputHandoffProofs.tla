------------------------ MODULE OutputHandoffProofs ------------------------
(***************************************************************************)
(* The handoff of an output, for any number of outputs: exact where the    *)
(* reaction runs the callback, monotone where it polls, and without loss   *)
(* there too if the callback stays out of the reaction's way.              *)
(***************************************************************************)
EXTENDS OutputHandoff, FiniteSetTheorems, TLAPS

\* Appending n extends the sequence of the first n - 1 outputs to n.
LEMMA UpToAppend ==
  ASSUME NEW n \in Nat, n # 0
  PROVE  Append(UpTo(n - 1), n) = UpTo(n)
<1>1. UpTo(n - 1) \in Seq(Nat) /\ Len(UpTo(n - 1)) = n - 1 /\ UpTo(n) \in Seq(Nat) /\ Len(UpTo(n)) = n
  BY DEF UpTo
<1>2. \A i \in 1..n : Append(UpTo(n - 1), n)[i] = UpTo(n)[i]
  BY DEF UpTo
<1>3. Append(UpTo(n - 1), n) \in Seq(Nat) /\ Len(Append(UpTo(n - 1), n)) = n
  BY <1>1
<1>4. QED
  BY <1>1, <1>2, <1>3

\* Where a thread goes is one of the places of its program.
LEMMA GotoType ==
  ASSUME TypeOK, NEW t \in Thread, NEW from,
         NEW to \in {"idle", "calling", "storing", "stored", "check", "copy", "forward", "clear"},
         Goto(t, from, to)
  PROVE  pc' \in [Thread -> {"idle", "calling", "storing", "stored", "check", "copy", "forward", "clear"}]
  BY DEF TypeOK, Goto

\* The type invariant holds in the initial states.
LEMMA TypeInit == Init => TypeOK
<1> SUFFICES ASSUME Init
             PROVE  TypeOK
  OBVIOUS
<1>1. pc \in [Thread -> {"idle", "calling", "storing", "stored", "check", "copy", "forward", "clear"}]
  BY DEF Init
<1>2. <<>> \in Seq(Message) /\ 0 \in Message
  BY DEF Message
<1>3. isSet \in BOOLEAN
  BY DEF Init
<1>4. QED
  BY <1>1, <1>2, <1>3 DEF Init, TypeOK

\* The kind of the node does not change.
LEMMA CallerStays == [Next]_vars => caller' = caller
  BY DEF Next, Reaction, CallbackStart, CallbackSkips, StoreBegin, StoreEnd, Raise, FlagSeen,
         FlagNotSeen, CopyOutput, SetPort, ClearFlag, vars

\* Every step keeps the types, whichever thread runs the callback.
LEMMA TypeNext == TypeOK /\ [Next]_vars => TypeOK'
<1> SUFFICES ASSUME TypeOK, [Next]_vars
             PROVE  TypeOK'
  OBVIOUS
<1> DEFINE Places == {"idle", "calling", "storing", "stored", "check", "copy", "forward", "clear"}
<1>1. "reaction" \in Thread /\ caller \in Thread /\ Returned \in Places
  BY DEF TypeOK, Thread, Returned
<1>2. pc' \in [Thread -> Places]
  <2>1. CASE CallbackStart \/ CallbackSkips \/ FlagSeen \/ FlagNotSeen
    BY <1>1, <2>1, GotoType DEF CallbackStart, CallbackSkips, FlagSeen, FlagNotSeen
  <2>2. CASE StoreBegin \/ StoreEnd \/ Raise
    BY <1>1, <2>2, GotoType DEF StoreBegin, StoreEnd, Raise
  <2>3. CASE CopyOutput \/ SetPort \/ ClearFlag
    BY <1>1, <2>3, GotoType DEF CopyOutput, SetPort, ClearFlag
  <2>4. CASE UNCHANGED vars
    BY <2>4 DEF vars, TypeOK
  <2>5. QED
    BY <2>1, <2>2, <2>3, <2>4 DEF Next, Reaction
<1>3. Nat \subseteq Message /\ Torn \in Message
  BY DEF Message
<1>4. made' \in Nat /\ out' \in Message
  BY <1>3 DEF Next, Reaction, CallbackStart, CallbackSkips, StoreBegin, StoreEnd, Raise, FlagSeen,
              FlagNotSeen, CopyOutput, SetPort, ClearFlag, vars, TypeOK
<1>5. isSet' \in BOOLEAN
  BY DEF Next, Reaction, CallbackStart, CallbackSkips, StoreBegin, StoreEnd, Raise, FlagSeen,
         FlagNotSeen, CopyOutput, SetPort, ClearFlag, vars, TypeOK
<1>6. msg' \in Message /\ port' \in Seq(Message)
  BY DEF Next, Reaction, CallbackStart, CallbackSkips, StoreBegin, StoreEnd, Raise, FlagSeen,
         FlagNotSeen, CopyOutput, SetPort, ClearFlag, vars, TypeOK
<1>7. caller' \in Thread
  BY CallerStays DEF TypeOK
<1>8. QED
  BY <1>2, <1>4, <1>5, <1>6, <1>7 DEF TypeOK

-----------------------------------------------------------------------------
\* A timer node starts with nothing produced.
LEMMA TimerInvInit == Init => TimerInv
<1> SUFFICES ASSUME Init
             PROVE  TimerInv
  OBVIOUS
<1>1. port = UpTo(made)
  BY DEF Init, UpTo
<1>2. QED
  BY <1>1, TypeInit DEF Init, TimerInv, Thread

\* One step of the callback or of the reaction keeps the timer invariant.
LEMMA TimerInvNext ==
  ASSUME caller = "reaction"
  PROVE  TimerInv /\ [Next]_vars => TimerInv'
<1> SUFFICES ASSUME TimerInv, [Next]_vars
             PROVE  TimerInv'
  OBVIOUS
<1>1. TypeOK /\ TypeOK' /\ pc["spin"] = "idle"
  BY TypeNext DEF TimerInv
<1> DEFINE at == pc["reaction"]
           Moves(to) == pc' = [pc EXCEPT !["reaction"] = to]
<1>2. ASSUME NEW to, Moves(to)
      PROVE  pc'["spin"] = "idle" /\ pc'["reaction"] = to
  BY <1>1, <1>2 DEF TypeOK, Thread
<1> USE DEF Goto, OutputWaits
<1>3. CASE CallbackStart
  BY <1>1, <1>2, <1>3 DEF CallbackStart, TimerInv
<1>4. CASE CallbackSkips
  BY <1>1, <1>2, <1>4 DEF CallbackSkips, TimerInv
<1>5. CASE StoreBegin
  <2>1. at = "calling" /\ Moves("storing") /\ port' = UpTo(made) /\ ~isSet'
    BY <1>5 DEF StoreBegin, TimerInv, Called
  <2>2. made' # 0 /\ port' = UpTo(made' - 1)
    BY <1>1, <1>5, <2>1 DEF StoreBegin, TypeOK
  <2>3. QED
    BY <1>1, <1>2, <2>1, <2>2 DEF TimerInv
<1>6. CASE StoreEnd
  BY <1>1, <1>2, <1>6 DEF StoreEnd, TimerInv
<1>7. CASE Raise
  BY <1>1, <1>2, <1>7 DEF Raise, TimerInv, Returned
<1>8. CASE FlagSeen \/ FlagNotSeen
  BY <1>1, <1>2, <1>8 DEF FlagSeen, FlagNotSeen, TimerInv, Returned
<1>9. CASE CopyOutput
  BY <1>1, <1>2, <1>9 DEF CopyOutput, TimerInv
<1>10. CASE SetPort
  <2>1. at = "forward" /\ Moves("clear") /\ port' = Append(UpTo(made - 1), made) /\ made' = made
    BY <1>10 DEF SetPort, TimerInv
  <2>2. port' = UpTo(made')
    BY <1>1, <1>10, <2>1, UpToAppend DEF SetPort, TimerInv, TypeOK
  <2>3. QED
    BY <1>1, <1>2, <2>1, <2>2 DEF TimerInv
<1>11. CASE ClearFlag
  BY <1>1, <1>2, <1>11 DEF ClearFlag, TimerInv
<1>12. CASE UNCHANGED vars
  BY <1>1, <1>12 DEF vars, TimerInv
<1>13. QED
  BY <1>3, <1>4, <1>5, <1>6, <1>7, <1>8, <1>9, <1>10, <1>11, <1>12 DEF Next, Reaction

-----------------------------------------------------------------------------
\* How often a message was forwarded is a number.
LEMMA TimesType ==
  ASSUME TypeOK, NEW g
  PROVE  IsFiniteSet({i \in DOMAIN port : port[i] = g}) /\ Times(g) \in Nat
<1>1. DOMAIN port = 1..Len(port) /\ Len(port) \in Nat
  BY DEF TypeOK
<1>2. IsFiniteSet(DOMAIN port)
  BY <1>1, FS_Interval
<1>3. IsFiniteSet({i \in DOMAIN port : port[i] = g})
  BY <1>2, FS_Subset
<1>4. QED
  BY <1>3, FS_CardinalityType DEF Times

\* Setting the port counts for the message that is set, and for no other.
LEMMA TimesAppend ==
  ASSUME TypeOK, port' = Append(port, msg), NEW g
  PROVE  Times(g)' = IF msg = g THEN Times(g) + 1 ELSE Times(g)
<1> DEFINE S == {i \in DOMAIN port : port[i] = g}
           n == Len(port) + 1
<1>1. /\ n \notin DOMAIN port
      /\ DOMAIN port' = DOMAIN port \cup {n}
      /\ \A i \in DOMAIN port : port'[i] = port[i]
      /\ port'[n] = msg
  BY DEF TypeOK
<1>2. {i \in DOMAIN port' : port'[i] = g} = IF msg = g THEN S \cup {n} ELSE S
  BY <1>1
<1>3. n \notin S /\ IsFiniteSet(S)
  BY <1>1, TimesType
<1>4. Cardinality(S \cup {n}) = Cardinality(S) + 1
  BY <1>3, FS_AddElement
<1>5. QED
  BY <1>2, <1>4 DEF Times

\* A polled node starts with nothing produced.
LEMMA PollInvInit == Init => PollInv
<1> SUFFICES ASSUME Init
             PROVE  PollInv
  OBVIOUS
<1>1. DOMAIN port = {}
  BY DEF Init
<1>2. pc["reaction"] = "idle" /\ pc["spin"] = "idle" /\ made = 0 /\ out = 0
  BY DEF Init, Thread
<1>3. 1..made = {}
  BY <1>2
<1>4. QED
  BY <1>1, <1>2, <1>3, TypeInit DEF PollInv

\* A service callback keeps the polling invariant: it only brings a newer output.
LEMMA PollCallback ==
  ASSUME caller = "spin", PollInv, TypeOK', StoreBegin \/ StoreEnd \/ Raise
  PROVE  PollInv'
<1>1. TypeOK /\ Torn \notin Nat
  BY HandoffAssumption DEF PollInv
<1>2. pc'["reaction"] = pc["reaction"] /\ port' = port /\ msg' = msg
  BY <1>1 DEF StoreBegin, StoreEnd, Raise, Goto, TypeOK, Thread
<1>3. \A g : Times(g)' = Times(g) /\ Holds(g)' = Holds(g)
  BY <1>2 DEF Times, Holds
<1>4. made \in Nat /\ \A g : Times(g) \in Nat
  BY <1>1, TimesType DEF TypeOK
<1>5. CASE StoreBegin
  <2>1. /\ pc["spin"] = "idle" /\ pc'["spin"] = "storing"
        /\ made' = made + 1 /\ out' = Torn
    BY <1>1, <1>5 DEF StoreBegin, Goto, Called, TypeOK, Thread
  <2>2. Times(made + 1) = 0
    <3>1. {i \in DOMAIN port : port[i] = made + 1} = {}
      BY <1>1, <1>4 DEF PollInv
    <3>2. QED
      BY <3>1, FS_EmptySet DEF Times
  <2>3. ~Holds(made + 1)
    BY <1>1, <1>4 DEF PollInv, Holds
  <2>4. \A g \in 1..made' : Times(g) <= IF Holds(g) THEN 1 ELSE 2
    <3> SUFFICES ASSUME NEW g \in 1..(made + 1)
                 PROVE  Times(g) <= IF Holds(g) THEN 1 ELSE 2
      BY <2>1
    <3>1. CASE g = made + 1
      BY <2>2, <2>3, <3>1
    <3>2. CASE g # made + 1
      <4>1. g \in 1..made
        BY <1>4, <3>2
      <4>2. QED
        BY <4>1 DEF PollInv
    <3>3. QED
      BY <3>1, <3>2
  <2>5. \A i \in DOMAIN port : port[i] # Torn => port[i] <= made + 1
    BY <1>1, <1>4 DEF PollInv, TypeOK, Message
  <2>6. pc["reaction"] = "forward" /\ msg # Torn => msg <= made + 1
    BY <1>1, <1>4 DEF PollInv, TypeOK, Message
  <2>7. Times(made)' = 0 /\ ~Holds(made)'
    BY <1>2, <2>1, <2>2, <2>3 DEF Times, Holds
  <2>8. \A g \in 1..made' : Times(g)' <= IF Holds(g)' THEN 1 ELSE 2
    BY <1>3, <2>4
  <2>9. QED
    BY <1>2, <2>1, <2>5, <2>6, <2>7, <2>8 DEF PollInv
<1>6. CASE StoreEnd \/ Raise
  <2>1. made' = made /\ Times(made)' = Times(made) /\ Holds(made)' = Holds(made)
    BY <1>2, <1>6 DEF StoreEnd, Raise, Times, Holds
  <2>2. \A g \in 1..made' : Times(g)' <= IF Holds(g)' THEN 1 ELSE 2
    BY <1>3, <2>1 DEF PollInv
  <2>3. CASE StoreEnd
    <3>1. pc["spin"] = "storing" /\ pc'["spin"] = "stored" /\ out' = made /\ isSet' = isSet
      BY <1>1, <2>3 DEF StoreEnd, Goto, TypeOK, Thread
    <3>2. Times(made) = 0
      BY <3>1 DEF PollInv
    <3>3. QED
      BY <1>2, <2>1, <2>2, <3>1, <3>2 DEF PollInv
  <2>4. CASE Raise
    <3>1. pc["spin"] = "stored" /\ pc'["spin"] = "idle" /\ out' = out
      BY <1>1, <2>4 DEF Raise, Goto, Returned, TypeOK, Thread
    <3>2. Times(made) # 2
      BY <3>1 DEF PollInv
    <3>3. QED
      BY <1>2, <2>1, <2>2, <3>1, <3>2 DEF PollInv
  <2>5. QED
    BY <1>6, <2>3, <2>4
<1>7. QED
  BY <1>5, <1>6

\* The statements before and after the output is set keep the invariant.
LEMMA PollReaction ==
  ASSUME caller = "spin", PollInv, TypeOK', FlagSeen \/ FlagNotSeen \/ CopyOutput \/ ClearFlag
  PROVE  PollInv'
<1>1. TypeOK /\ Torn \notin Nat
  BY HandoffAssumption DEF PollInv
<1>2. pc'["spin"] = pc["spin"] /\ port' = port /\ out' = out /\ made' = made
  BY <1>1 DEF FlagSeen, FlagNotSeen, CopyOutput, ClearFlag, Goto, TypeOK, Thread
<1>3. Times(made)' = Times(made) /\ \A g : Times(g)' = Times(g)
  BY <1>2 DEF Times
<1>4. made \in Nat /\ \A g : Times(g) \in Nat
  BY <1>1, TimesType DEF TypeOK
<1>5. CASE FlagSeen \/ FlagNotSeen \/ ClearFlag
  <2>1. /\ pc'["reaction"] \in {"idle", "copy"} /\ pc["reaction"] # "forward"
        /\ FlagSpent => FlagSpent'
    BY <1>1, <1>5 DEF FlagSeen, FlagNotSeen, ClearFlag, Goto, Returned, FlagSpent, TypeOK, Thread
  <2>2. \A g : ~Holds(g)' /\ ~Holds(g)
    BY <2>1 DEF Holds
  <2>3. ~Holds(made)'
    BY <2>1 DEF Holds
  <2>4. \A g \in 1..made' : Times(g)' <= IF Holds(g)' THEN 1 ELSE 2
    BY <1>2, <1>3, <2>2 DEF PollInv
  <2>5. QED
    BY <1>2, <1>3, <2>1, <2>3, <2>4 DEF PollInv
<1>6. CASE CopyOutput
  <2>1. pc["reaction"] = "copy" /\ pc'["reaction"] = "forward" /\ msg' = out
    BY <1>1, <1>6 DEF CopyOutput, Goto, TypeOK, Thread
  <2>2. ~FlagSpent /\ \A g : ~Holds(g)
    BY <2>1 DEF FlagSpent, Holds
  <2>3. out = made => made = 0 \/ Times(made) <= 1
    <3>1. CASE pc["spin"] = "idle"
      <4>1. made # 0 => Times(made) # 2 /\ Times(made) <= 2
        BY <1>4, <2>2, <3>1 DEF PollInv
      <4>2. QED
        BY <1>4, <4>1
    <3>2. CASE pc["spin"] = "stored"
      BY <2>2, <3>2 DEF PollInv
    <3>3. CASE pc["spin"] = "storing"
      BY <1>1, <1>4, <3>3 DEF PollInv
    <3>4. QED
      BY <3>1, <3>2, <3>3 DEF PollInv
  <2>4. \A g \in 1..made' : Times(g)' <= IF Holds(g)' THEN 1 ELSE 2
    <3> SUFFICES ASSUME NEW g \in 1..made
                 PROVE  Times(g) <= IF Holds(g)' THEN 1 ELSE 2
      BY <1>2, <1>3
    <3>1. CASE Holds(g)'
      <4>1. out = g
        BY <2>1, <3>1 DEF Holds
      <4>2. g = made
        BY <1>1, <1>4, <4>1 DEF PollInv
      <4>3. QED
        BY <1>4, <2>3, <3>1, <4>1, <4>2
    <3>2. CASE ~Holds(g)'
      BY <2>2, <3>2 DEF PollInv
    <3>3. QED
      BY <3>1, <3>2
  <2>5. pc["spin"] = "storing" => ~Holds(made)'
    BY <1>1, <1>2, <1>4, <2>1 DEF PollInv, Holds
  <2>6. msg' # Torn => msg' = made
    BY <2>1 DEF PollInv
  <2>7. \A i \in DOMAIN port : port[i] # Torn => port[i] <= made
    BY DEF PollInv
  <2>8. pc["spin"] = "stored" => Times(made) = 0
    BY <2>2 DEF PollInv
  <2>9. pc["spin"] = "idle" /\ made # 0 => Times(made) # 2
    BY <2>2 DEF PollInv
  <2>10. QED
    BY <1>2, <1>3, <1>4, <2>1, <2>4, <2>5, <2>6, <2>7, <2>8, <2>9 DEF PollInv
<1>7. QED
  BY <1>5, <1>6

\* Setting the port keeps the invariant: nothing newer was set before, and
\* the message was set at most once.
LEMMA PollSetPort ==
  ASSUME PollInv, TypeOK', SetPort
  PROVE  PollInv'
<1>1. TypeOK /\ Torn \notin Nat
  BY HandoffAssumption DEF PollInv
<1>2. /\ pc["reaction"] = "forward" /\ pc'["reaction"] = "clear" /\ pc'["spin"] = pc["spin"]
      /\ port' = Append(port, msg) /\ made' = made /\ out' = out
  BY <1>1 DEF SetPort, Goto, TypeOK, Thread
<1> DEFINE n == Len(port) + 1
<1>3. /\ DOMAIN port' = DOMAIN port \cup {n}
      /\ \A i \in DOMAIN port : port'[i] = port[i] /\ i < n /\ i \in Nat
      /\ port'[n] = msg /\ n \in Nat
  BY <1>1, <1>2 DEF TypeOK
<1>4. FlagSpent' /\ ~FlagSpent /\ (\A g : ~Holds(g)') /\ ~Holds(made)'
  BY <1>2 DEF FlagSpent, Holds
<1>5. \A g : Times(g) \in Nat /\ Times(g)' = IF msg = g THEN Times(g) + 1 ELSE Times(g)
  BY <1>1, <1>2, TimesType, TimesAppend
<1>6. Times(made)' = IF msg = made THEN Times(made) + 1 ELSE Times(made)
  BY <1>2, <1>5 DEF Times
<1>7. msg # Torn => msg <= made /\ \A i \in DOMAIN port : port[i] # Torn => port[i] <= msg
  BY <1>2 DEF PollInv
<1>8. \A i \in DOMAIN port' : port'[i] # Torn => port'[i] <= made'
  BY <1>2, <1>3, <1>7 DEF PollInv
<1>9. \A i, j \in DOMAIN port' :
        i < j /\ port'[i] # Torn /\ port'[j] # Torn => port'[i] <= port'[j]
  <2> SUFFICES ASSUME NEW i \in DOMAIN port', NEW j \in DOMAIN port',
                      i < j, port'[i] # Torn, port'[j] # Torn
               PROVE  port'[i] <= port'[j]
    OBVIOUS
  <2>1. i # n
    BY <1>3
  <2>2. CASE j = n
    BY <1>3, <1>7, <2>1, <2>2
  <2>3. CASE j # n
    BY <1>3, <2>1, <2>3 DEF PollInv
  <2>4. QED
    BY <2>2, <2>3
<1>10. \A g \in 1..made' : Times(g)' <= IF Holds(g)' THEN 1 ELSE 2
  BY <1>2, <1>4, <1>5 DEF PollInv, Holds
<1>11. pc'["spin"] = "storing" => Times(made)' = 0
  BY <1>2, <1>6 DEF PollInv, Holds
<1>12. pc'["spin"] = "stored" => Times(made)' \in {0, 1}
  BY <1>2, <1>4, <1>6 DEF PollInv
<1>13. QED
  BY <1>2, <1>4, <1>8, <1>9, <1>10, <1>11, <1>12 DEF PollInv

\* Any step of a polled node keeps the polling invariant.
LEMMA PollInvNext ==
  ASSUME caller = "spin"
  PROVE  PollInv /\ [Next]_vars => PollInv'
<1> SUFFICES ASSUME PollInv, [Next]_vars
             PROVE  PollInv'
  OBVIOUS
<1>1. TypeOK'
  BY TypeNext DEF PollInv
<1>2. ~CallbackStart /\ ~CallbackSkips
  BY DEF CallbackStart, CallbackSkips, Goto, PollInv
<1>3. CASE UNCHANGED vars
  <2>1. Times(made)' = Times(made) /\ \A g : Times(g)' = Times(g)
    BY <1>3 DEF vars, Times
  <2>2. (FlagSpent' <=> FlagSpent) /\ (Holds(made)' <=> Holds(made)) /\ \A g : Holds(g)' <=> Holds(g)
    BY <1>3 DEF vars, Holds, FlagSpent
  <2>3. \A g \in 1..made' : Times(g)' <= IF Holds(g)' THEN 1 ELSE 2
    BY <1>3, <2>1, <2>2 DEF PollInv, vars
  <2>4. QED
    BY <1>1, <1>3, <2>1, <2>2, <2>3 DEF PollInv, vars
<1>4. QED
  BY <1>1, <1>2, <1>3, PollCallback, PollReaction, PollSetPort DEF Next, Reaction

\* The counts of the polling invariant bound how often an output is forwarded.
LEMMA PollCounts == PollInv => \A g \in 1..made : Times(g) <= 2
<1> SUFFICES ASSUME PollInv, NEW g \in 1..made
             PROVE  Times(g) <= 2
  OBVIOUS
<1>1. Times(g) \in Nat
  BY TimesType DEF PollInv
<1>2. Times(g) <= IF Holds(g) THEN 1 ELSE 2
  BY DEF PollInv
<1>3. QED
  BY <1>1, <1>2

-----------------------------------------------------------------------------
(***************************************************************************)
(* The inductive invariant of the handoff, of either kind of node and for  *)
(* any number of outputs.                                                  *)
(***************************************************************************)
THEOREM HandoffInvariant == Spec => []HandoffInv
<1>1. Init => HandoffInv
  BY TimerInvInit, PollInvInit DEF HandoffInv
<1>2. HandoffInv /\ [Next]_vars => HandoffInv'
  <2> SUFFICES ASSUME HandoffInv, [Next]_vars
               PROVE  HandoffInv'
    OBVIOUS
  <2>1. caller' = caller /\ caller \in Thread
    BY CallerStays DEF HandoffInv, TimerInv, PollInv, TypeOK
  <2>2. CASE caller = "reaction"
    BY <2>1, <2>2, TimerInvNext DEF HandoffInv
  <2>3. CASE caller = "spin"
    BY <2>1, <2>3, PollInvNext DEF HandoffInv
  <2>4. QED
    BY <2>1, <2>2, <2>3 DEF Thread
<1>3. QED
  BY <1>1, <1>2, PTL DEF Spec

(***************************************************************************)
(* A node whose reaction runs the callback forwards each of its outputs    *)
(* exactly once, whole and in order, however many it produces.             *)
(***************************************************************************)
THEOREM TimerForwardsEach == Spec => []ForwardsEach
<1>1. HandoffInv => ForwardsEach
  BY DEF HandoffInv, TimerInv, ForwardsEach
<1>2. QED
  BY <1>1, HandoffInvariant, PTL

(***************************************************************************)
(* Whatever the services produce and whenever, a polled node forwards no   *)
(* output out of order and none more than twice.                           *)
(***************************************************************************)
THEOREM PolledNeverRegresses == Spec => []PollNeverRegresses
<1>1. HandoffInv => PollNeverRegresses
  BY PollCounts DEF HandoffInv, PollInv, PollNeverRegresses
<1>2. QED
  BY <1>1, HandoffInvariant, PTL

(***************************************************************************)
(* A node whose reaction runs the callback implements the mailbox: what it *)
(* announces finds the box empty and is delivered once.                    *)
(***************************************************************************)
THEOREM HandoffImplementsMailbox == Spec => ImplementsMailbox
<1> DEFINE timed == caller = "reaction"
           at == pc["reaction"]
           posted == IF timed THEN Announced ELSE 0
           delivered == IF timed THEN port ELSE <<>>
<1>1. Init => Box!BoxInit
  BY DEF Init, Box!BoxInit, Announced
<1>2. HandoffInv /\ [Next]_vars => [Box!BoxNext]_(Box!boxVars)
  <2> SUFFICES ASSUME HandoffInv, [Next]_vars
               PROVE  [Box!BoxNext]_(Box!boxVars)
    OBVIOUS
  <2>1. caller' = caller
    BY CallerStays
  <2>2. CASE ~timed
    <3>1. posted' = posted /\ delivered' = delivered
      BY <2>1, <2>2
    <3>2. QED
      BY <3>1 DEF Box!boxVars
  <2>3. CASE timed
    <3>1. TimerInv /\ TypeOK /\ made \in Nat
      BY <2>3 DEF HandoffInv, TimerInv, TypeOK
    <3>2. ASSUME NEW to, pc' = [pc EXCEPT !["reaction"] = to]
          PROVE  pc'["reaction"] = to
      BY <3>1, <3>2 DEF TypeOK, Thread
    <3>3. CASE Raise
      <4>1. /\ at = "stored" /\ at' = "check"
            /\ made' = made /\ port' = port
        BY <2>3, <3>1, <3>2, <3>3 DEF Raise, Goto, Returned
      <4>2. made # 0 /\ port = UpTo(made - 1)
        BY <3>1, <4>1 DEF TimerInv, OutputWaits
      <4>3. Len(delivered) = made - 1
        BY <2>3, <3>1, <4>2 DEF UpTo
      <4>4. posted = made - 1 /\ posted' = made
        BY <2>1, <2>3, <4>1 DEF Announced
      <4>5. delivered' = delivered
        BY <2>1, <4>1
      <4>6. Box!Post
        BY <3>1, <4>3, <4>4, <4>5 DEF Box!Post, Box!Full
      <4>7. QED
        BY <4>6 DEF Box!BoxNext
    <3>4. CASE SetPort
      <4>1. /\ at = "forward" /\ at' = "clear"
            /\ made' = made /\ port' = Append(port, msg)
        BY <3>1, <3>2, <3>4 DEF SetPort, Goto
      <4>2. made # 0 /\ port = UpTo(made - 1) /\ msg = made
        BY <3>1, <4>1 DEF TimerInv, OutputWaits
      <4>3. Len(delivered) = made - 1
        BY <2>3, <3>1, <4>2 DEF UpTo
      <4>4. posted = made /\ posted' = posted
        BY <2>1, <2>3, <4>1 DEF Announced
      <4>5. delivered' = Append(delivered, posted)
        BY <2>1, <2>3, <4>1, <4>2, <4>4
      <4>6. Box!Deliver
        BY <3>1, <4>3, <4>4, <4>5 DEF Box!Deliver, Box!Full
      <4>7. QED
        BY <4>6 DEF Box!BoxNext
    <3>5. ASSUME port' = port, Announced' = Announced
          PROVE  UNCHANGED Box!boxVars
      <4>1. posted' = posted /\ delivered' = delivered
        BY <2>1, <3>5
      <4>2. QED
        BY <4>1 DEF Box!boxVars
    <3>6. CASE StoreBegin
      <4>1. at = "calling" /\ at' = "storing" /\ made' = made + 1 /\ port' = port
        BY <2>3, <3>1, <3>2, <3>6 DEF StoreBegin, Goto, Called
      <4>2. QED
        BY <3>1, <3>5, <4>1 DEF Announced
    <3>7. CASE StoreEnd
      <4>1. at = "storing" /\ at' = "stored" /\ made' = made /\ port' = port
        BY <2>3, <3>1, <3>2, <3>7 DEF StoreEnd, Goto
      <4>2. QED
        BY <3>5, <4>1 DEF Announced
    <3>8. CASE CallbackStart \/ CallbackSkips \/ FlagSeen \/ FlagNotSeen \/ CopyOutput \/ ClearFlag
      <4>1. /\ at \notin {"storing", "stored"} /\ at' \notin {"storing", "stored"}
            /\ made' = made /\ port' = port
        BY <2>3, <3>1, <3>2, <3>8
           DEF CallbackStart, CallbackSkips, FlagSeen, FlagNotSeen, CopyOutput, ClearFlag, Goto, Returned
      <4>2. QED
        BY <3>5, <4>1 DEF Announced
    <3>9. CASE UNCHANGED vars
      BY <3>5, <3>9 DEF vars, Announced
    <3>10. QED
      BY <3>3, <3>4, <3>6, <3>7, <3>8, <3>9 DEF Next, Reaction
  <2>4. QED
    BY <2>2, <2>3
<1>3. QED
  BY <1>1, <1>2, HandoffInvariant, PTL DEF Spec, ImplementsMailbox, Box!BoxSpec

-----------------------------------------------------------------------------
\* The callback of a polled node, while no reaction handles the flag.
LEMMA LockedCallback ==
  ASSUME caller = "spin", PollInv, TypeOK', LockedInv, Exclusive, Exclusive',
         StoreBegin \/ StoreEnd \/ Raise
  PROVE  LockedInv'
<1>1. /\ caller' = caller /\ port' = port
      /\ pc'["reaction"] = pc["reaction"]
      /\ pc["spin"] # "idle" \/ pc'["spin"] # "idle"
      /\ pc["reaction"] \in {"idle", "copy", "forward", "clear"}
      /\ \/ StoreBegin /\ pc["spin"] = "idle" /\ pc'["spin"] = "storing" /\ made' = made + 1
         \/ StoreEnd /\ pc["spin"] = "storing" /\ pc'["spin"] = "stored" /\ made' = made
         \/ Raise /\ pc["spin"] = "stored" /\ pc'["spin"] = "idle" /\ made' = made /\ isSet'
  BY DEF StoreBegin, StoreEnd, Raise, Goto, Called, Returned, PollInv, TypeOK, Thread
<1>2. pc["reaction"] = "idle"
  BY <1>1 DEF Exclusive, PollInv
<1>3. Pending'
  BY <1>1, <1>2 DEF Pending
<1>4. made \in Nat /\ made' \in Nat
  BY DEF PollInv, TypeOK
<1>5. \A i \in DOMAIN port : port[i] \in 1..made /\ port[i] < made'
  <2>1. \A i \in DOMAIN port : port[i] \in 1..made
    BY DEF LockedInv
  <2>2. CASE StoreBegin /\ made' = made + 1
    BY <1>4, <2>1, <2>2
  <2>3. CASE made' = made /\ pc["spin"] # "idle"
    BY <2>1, <2>3 DEF LockedInv, Pending
  <2>4. QED
    BY <1>1, <2>2, <2>3
<1>6. made' # 0
  BY <1>1, <1>4 DEF LockedInv, Pending
<1>7. \A i \in DOMAIN port : port[i] \in 1..made'
  BY <1>4, <1>5
<1>8. pc'["reaction"] # "forward"
  BY <1>1, <1>2
<1>9. QED
  BY <1>1, <1>3, <1>5, <1>6, <1>7, <1>8 DEF LockedInv

\* The reaction of a polled node: what it copies is the pending output.
LEMMA LockedReaction ==
  ASSUME caller = "spin", PollInv, LockedInv, Exclusive, Exclusive',
         FlagSeen \/ FlagNotSeen \/ CopyOutput \/ ClearFlag
  PROVE  LockedInv'
<1>1. /\ caller' = caller /\ port' = port /\ made' = made /\ pc'["spin"] = pc["spin"]
      /\ \/ FlagSeen /\ pc["reaction"] = "idle" /\ pc'["reaction"] = "copy" /\ isSet
         \/ FlagNotSeen /\ pc["reaction"] = "idle" /\ pc'["reaction"] = "idle" /\ isSet' = isSet
         \/ CopyOutput /\ pc["reaction"] = "copy" /\ pc'["reaction"] = "forward" /\ msg' = out
         \/ ClearFlag /\ pc["reaction"] = "clear" /\ pc'["reaction"] = "idle" /\ ~isSet'
  BY DEF FlagSeen, FlagNotSeen, CopyOutput, ClearFlag, Goto, Returned, PollInv, TypeOK, Thread
<1>2. Pending' <=> Pending
  <2>1. CASE ClearFlag /\ pc["reaction"] = "clear"
    BY <1>1, <2>1 DEF Pending
  <2>2. CASE pc["reaction"] # "clear"
    BY <1>1, <2>2 DEF Pending
  <2>3. QED
    BY <1>1, <2>1, <2>2
<1>3. pc'["reaction"] = "forward" => msg' = made
  <2> SUFFICES ASSUME CopyOutput, pc["reaction"] = "copy", msg' = out
               PROVE  out = made
    BY <1>1
  <2>1. pc["spin"] # "storing"
    BY DEF Exclusive
  <2>2. QED
    BY <2>1 DEF PollInv
<1>4. QED
  BY <1>1, <1>2, <1>3 DEF LockedInv

\* The pending output becomes the last one on the port.
LEMMA LockedSetPort ==
  ASSUME caller = "spin", PollInv, LockedInv, Exclusive, SetPort
  PROVE  LockedInv'
<1>1. /\ caller' = caller /\ made' = made /\ pc'["spin"] = pc["spin"]
      /\ pc["reaction"] = "forward" /\ pc'["reaction"] = "clear"
      /\ port' = Append(port, msg)
  BY DEF SetPort, Goto, PollInv, TypeOK, Thread
<1>2. pc["spin"] = "idle"
  BY <1>1 DEF Exclusive, PollInv
<1>3. /\ msg = made /\ made # 0 /\ made \in Nat /\ Len(port) \in Nat
      /\ \A i \in DOMAIN port : port[i] \in 1..made /\ port[i] < made
      /\ \A i, j \in DOMAIN port : i < j => port[i] < port[j]
  BY <1>1 DEF LockedInv, Pending, PollInv, TypeOK
<1>4. /\ port' # <<>> /\ port'[Len(port')] = made /\ Len(port') = Len(port) + 1
      /\ \A i \in DOMAIN port' :
           \/ i \in DOMAIN port /\ port'[i] = port[i]
           \/ i = Len(port) + 1 /\ port'[i] = made
      /\ \A i \in DOMAIN port : i \in 1..Len(port)
  <2>1. port \in Seq(Message) /\ made \in Message /\ port' = Append(port, made)
    BY <1>1, <1>3 DEF PollInv, TypeOK
  <2>2. Len(port') = Len(port) + 1 /\ DOMAIN port' = 1 .. Len(port) + 1 /\ DOMAIN port = 1 .. Len(port)
    BY <2>1
  <2>3. \A i \in 1 .. Len(port) + 1 : port'[i] = IF i <= Len(port) THEN port[i] ELSE made
    BY <2>1
  <2>4. port' # <<>>
    BY <2>1
  <2>5. QED
    BY <1>3, <2>2, <2>3, <2>4
<1>5. \A i \in DOMAIN port' : port'[i] \in 1..made
  BY <1>3, <1>4
<1>6. \A i, j \in DOMAIN port' : i < j => port'[i] < port'[j]
  <2> SUFFICES ASSUME NEW i \in DOMAIN port', NEW j \in DOMAIN port', i < j
               PROVE  port'[i] < port'[j]
    OBVIOUS
  <2>1. i \in DOMAIN port /\ port'[i] = port[i]
    BY <1>3, <1>4
  <2>2. QED
    BY <1>3, <1>4, <2>1
<1>7. ~Pending'
  BY <1>1, <1>2 DEF Pending
<1>8. QED
  BY <1>1, <1>4, <1>5, <1>6, <1>7 DEF LockedInv

\* A step of a node of either kind, before and after which the callback and
\* the reaction are out of each other's way.
LEMMA LockedNext ==
  ASSUME HandoffInv, LockedInv, Exclusive, Exclusive', [Next]_vars
  PROVE  LockedInv'
<1>1. caller' = caller
  BY CallerStays
<1>2. CASE caller # "spin"
  BY <1>1, <1>2 DEF LockedInv
<1>3. CASE caller = "spin"
  <2>1. PollInv
    BY <1>3 DEF HandoffInv
  <2>2. TypeOK'
    BY <2>1, TypeNext DEF PollInv
  <2>3. ~CallbackStart /\ ~CallbackSkips
    BY <1>3, <2>1 DEF CallbackStart, CallbackSkips, Goto, PollInv
  <2>4. CASE UNCHANGED vars
    BY <2>4 DEF vars, LockedInv, Pending
  <2>5. QED
    BY <1>3, <2>1, <2>2, <2>3, <2>4, LockedCallback, LockedReaction, LockedSetPort DEF Next, Reaction
<1>4. QED
  BY <1>2, <1>3

(***************************************************************************)
(* In a run in which no callback overlaps a reaction's handling of the     *)
(* flag, a polled node forwards whole outputs only, each at most once and  *)
(* in order, and has forwarded the newest whenever it is at rest with the  *)
(* flag down; for any number of outputs.                                   *)
(***************************************************************************)
THEOREM LockMakesPollingSafe == Spec => LockSuffices
<1>1. Init => LockedInv
  <2> SUFFICES ASSUME Init
               PROVE  LockedInv
    OBVIOUS
  <2>1. DOMAIN port = {} /\ made = 0 /\ ~Pending /\ pc["reaction"] # "forward"
    BY DEF Init, Pending, Thread
  <2>2. QED
    BY <2>1 DEF LockedInv
<1>2. HandoffInv /\ LockedInv => ForwardsAnnounced
  <2> SUFFICES ASSUME HandoffInv, LockedInv, caller = "spin"
               PROVE  ForwardsAnnounced
    BY DEF ForwardsAnnounced
  <2>1. \A i \in DOMAIN port : port[i] # Torn
    <3>1. made \in Nat
      BY DEF HandoffInv, PollInv, TypeOK
    <3>2. \A i \in DOMAIN port : port[i] \in Nat
      BY <3>1 DEF LockedInv
    <3>3. QED
      BY <3>2, HandoffAssumption
  <2>2. \A i, j \in DOMAIN port : i < j => port[i] < port[j]
    BY DEF LockedInv
  <2>3. pc["spin"] = "idle" /\ pc["reaction"] = "idle" /\ ~isSet => ~Pending
    BY DEF Pending
  <2>4. QED
    BY <2>1, <2>2, <2>3 DEF ForwardsAnnounced, LockedInv
<1>3. QED
  BY <1>1, <1>2, LockedNext, HandoffInvariant, PTL DEF Spec, LockSuffices
=============================================================================
