------------------------ MODULE ResolvedParamsProofs ------------------------
(***************************************************************************)
(* A node alone in its process runs with its own parameters, for any       *)
(* number of nodes and any assignment of the others to processes.          *)
(***************************************************************************)
EXTENDS ResolvedParams, TLAPS

LEMMA TypeInit == Init => TypeOK
  BY NodesAssumption DEF Init, TypeOK, Pids, Places, Contents

\* Every node has a process, and its file one of the names there are.
LEMMA PathType ==
  ASSUME TypeOK, NEW n \in Nodes
  PROVE  Process[n] \in Pids /\ TmpPath(n) \in Pids \X (0..MaxFiles)
  BY DEF TypeOK, Pids, TmpPath

LEMMA TypeNext == TypeOK /\ [Next]_vars => TypeOK'
<1> SUFFICES ASSUME TypeOK, [Next]_vars
             PROVE  TypeOK'
  OBVIOUS
<1>1. CASE UNCHANGED vars \/ Done
  BY <1>1 DEF Done, vars, TypeOK
<1>2. ASSUME NEW n \in Nodes, Startup(n)
      PROVE  TypeOK'
  <2>1. TypeOK /\ Process[n] \in Pids /\ TmpPath(n) \in Pids \X (0..MaxFiles)
    BY PathType
  <2>2. /\ n \in Contents /\ Partial \in Contents /\ None \in Contents
        /\ file[TmpPath(n)] \in Contents
    BY <2>1 DEF Contents, TypeOK
  <2>3. pc' \in [Nodes -> Places] /\ failed' \subseteq Nodes
    BY <1>2, <2>1 DEF Startup, NoYaml, ReadCounter, BumpCounter, OpenFile, OpenFails, WriteFile,
                      WriteFails, ParseFile, ParseFails, Construct, ConstructFails, OfNoUse,
                      Goto, Exit, TypeOK, Places
  <2>4. file' \in [Pids \X (0..MaxFiles) -> Contents]
    <3>1. CASE OpenFile(n) \/ WriteFile(n) \/ WriteFails(n)
      <4>1. PICK c \in Contents : file' = [file EXCEPT ![TmpPath(n)] = c]
        BY <2>2, <3>1 DEF OpenFile, WriteFile, WriteFails
      <4>2. QED
        BY <2>1, <4>1 DEF TypeOK
    <3>2. CASE UNCHANGED file
      BY <3>2 DEF TypeOK
    <3>3. QED
      BY <1>2, <3>1, <3>2 DEF Startup, NoYaml, ReadCounter, BumpCounter, OpenFails, ParseFile,
                      ParseFails, Construct, ConstructFails
  <2>5. overrides' \in [Nodes -> Contents] /\ given' \in [Nodes -> Contents]
    BY <1>2, <2>1, <2>2
       DEF Startup, NoYaml, ReadCounter, BumpCounter, OpenFile, OpenFails, WriteFile,
           WriteFails, ParseFile, ParseFails, Construct, ConstructFails, TypeOK
  <2>6. counter' \in [Pids -> Nat] /\ number' \in [Nodes -> 0..MaxFiles]
    BY <1>2, <2>1, NodesAssumption
       DEF Startup, NoYaml, ReadCounter, BumpCounter, OpenFile, OpenFails, WriteFile,
           WriteFails, ParseFile, ParseFails, Construct, ConstructFails, TypeOK
  <2>7. QED
    BY <2>3, <2>4, <2>5, <2>6 DEF TypeOK
<1>3. QED
  BY <1>1, <1>2 DEF Next

-----------------------------------------------------------------------------
\* A step of m writes no file but its own.
LEMMA OwnFileOnly ==
  ASSUME TypeOK, NEW m \in Nodes, Startup(m),
         NEW f \in Pids \X (0..MaxFiles), HasNumber(m) => f # TmpPath(m)
  PROVE  file'[f] = file[f]
BY DEF HasNumber, Goto, Startup, NoYaml, ReadCounter, BumpCounter, OpenFile, OpenFails, WriteFile,
       WriteFails, ParseFile, ParseFails, Construct, ConstructFails, TypeOK

\* A step of m leaves what another node has read, its number and its failures
\* alone, and its place too unless m's process exits.
LEMMA OwnPlaceOnly ==
  ASSUME TypeOK, NEW m \in Nodes, Startup(m), NEW n \in Nodes, n # m
  PROVE  /\ number'[n] = number[n] /\ overrides'[n] = overrides[n] /\ given'[n] = given[n]
         /\ n \in failed' <=> n \in failed
         /\ failed \subseteq failed'
         /\ \/ pc'[n] = pc[n]
            \/ pc'[n] = "exited" /\ Process[n] = Process[m] /\ pc'[m] = "exited"
BY DEF Startup, NoYaml, ReadCounter, BumpCounter, OpenFile, OpenFails, WriteFile,
       WriteFails, ParseFile, ParseFails, Construct, ConstructFails, OfNoUse, Goto, Exit, TypeOK

\* What a node's file holds when nobody else writes it is never another's.
LEMMA HeldIsOwn ==
  ASSUME NEW n \in Nodes, NEW c \in HeldBy(n)
  PROVE  /\ {c} \cap Nodes \subseteq {n}
         /\ c \in Nodes => c = n
         /\ n \notin failed => c = n
BY NodesAssumption DEF HeldBy

\* A step of a node whose file nobody else writes: what it reads is what it
\* wrote, or what a failure of its own left there.
LEMMA OwnStep ==
  ASSUME TypeOK, NEW n \in Nodes, FileIsOwn(n), HasNumber(n) => ~Shared(n), Startup(n),
         pc[n] = "counting" => file[TmpPath(n)] \in NobodyElses(n)
  PROVE  FileIsOwn(n)'
<1>1. /\ TypeOK /\ FileIsOwn(n) /\ Contained(n) /\ TmpPath(n) \in Pids \X (0..MaxFiles)
      /\ n \in HeldBy(n) /\ n \in HeldBy(n)' /\ HeldBy(n) \subseteq NobodyElses(n)
      /\ {n, Partial, Stale, None} \subseteq NobodyElses(n)
      /\ NobodyElses(n)' = NobodyElses(n)
      /\ {Partial, Stale, None} \cap Nodes = {} /\ n # Partial
  BY PathType, NodesAssumption DEF FileIsOwn, HeldBy, NobodyElses
<1>2. CASE NoYaml(n)
  <2>1. /\ pc'[n] = "exited" /\ n \in failed'
        /\ overrides' = overrides /\ given' = given
    BY <1>1, <1>2 DEF NoYaml, Exit, TypeOK
  <2>2. Contained(n)'
    BY <1>1, <2>1 DEF Contained, NeverAnothers, Own
  <2>3. QED
    BY <2>1, <2>2 DEF FileIsOwn, HasNumber
<1>3. CASE ReadCounter(n) \/ BumpCounter(n) \/ OpenFile(n)
  <2>1. /\ overrides' = overrides /\ given' = given /\ failed' = failed
        /\ pc'[n] \in {"counting", "open", "write"}
        /\ overrides[n] = None
        /\ HasNumber(n)' => file'[TmpPath(n)'] \in NobodyElses(n)
    BY <1>1, <1>3 DEF ReadCounter, BumpCounter, OpenFile, Goto, FileIsOwn, TypeOK, TmpPath, HasNumber
  <2>2. QED
    BY <1>1, <2>1 DEF FileIsOwn, Contained, NeverAnothers, Own
<1>4. CASE OpenFails(n)
  <2>1. Contained(n)'
    BY <1>1, <1>4 DEF OpenFails, Goto, Contained, NeverAnothers, Own, TypeOK
  <2>2. QED
    BY <1>1, <1>4, <2>1 DEF OpenFails, Goto, FileIsOwn, HeldBy, NobodyElses, TypeOK, TmpPath, HasNumber
<1>5. CASE WriteFile(n)
  <2>1. file' = [file EXCEPT ![TmpPath(n)] = n] /\ TmpPath(n)' = TmpPath(n)
    BY <1>5 DEF WriteFile, TmpPath, Goto, HasNumber
  <2>2. file'[TmpPath(n)'] = n
    BY <1>1, <2>1 DEF TypeOK
  <2>3. Contained(n)'
    BY <1>1, <1>5 DEF WriteFile, Goto, Contained, NeverAnothers, Own, TypeOK
  <2>4. QED
    BY <1>1, <1>5, <2>2, <2>3 DEF WriteFile, Goto, FileIsOwn, TypeOK
<1>6. CASE WriteFails(n)
  <2>1. Contained(n)'
    BY <1>1, <1>6 DEF WriteFails, Goto, Contained, NeverAnothers, Own, TypeOK
  <2>2. PICK c \in {Partial, file[TmpPath(n)]} : file' = [file EXCEPT ![TmpPath(n)] = c]
    BY <1>6 DEF WriteFails
  <2>3. /\ pc[n] = "write" /\ pc'[n] = "parse" /\ TmpPath(n)' = TmpPath(n)
        /\ failed' = failed \cup {n} /\ overrides' = overrides
    BY <1>1, <1>6 DEF WriteFails, Goto, TypeOK, TmpPath
  <2>4. file'[TmpPath(n)] = c /\ c \in NobodyElses(n)
    BY <1>1, <2>2, <2>3 DEF FileIsOwn, HasNumber, TypeOK
  <2>5. c \in HeldBy(n)'
    BY <2>3, <2>4 DEF HeldBy, NobodyElses
  <2>6. QED
    BY <1>1, <2>1, <2>3, <2>4, <2>5 DEF FileIsOwn
<1>7. CASE ParseFile(n)
  <2>1. /\ overrides'[n] = file[TmpPath(n)] /\ file[TmpPath(n)] \in HeldBy(n)
        /\ pc'[n] = "construct" /\ TmpPath(n)' = TmpPath(n)
        /\ file' = file /\ given' = given /\ failed' = failed
    BY <1>1, <1>7 DEF ParseFile, Goto, FileIsOwn, TypeOK, TmpPath
  <2>2. NeverAnothers(n)'
    BY <1>1, <2>1, HeldIsOwn DEF Contained, NeverAnothers
  <2>3. QED
    BY <1>1, <2>1, <2>2 DEF FileIsOwn, Contained, Own, HeldBy
<1>8. CASE ParseFails(n)
  <2>1. /\ pc[n] = "parse" /\ file[TmpPath(n)] \in HeldBy(n)
        /\ file' = file /\ overrides' = overrides /\ given' = given
        /\ failed' = IF file[TmpPath(n)] \in Nodes THEN failed \cup {n} ELSE failed
        /\ pc'[n] \in {"construct", "exited"} /\ TmpPath(n)' = TmpPath(n)
    BY <1>1, <1>8 DEF ParseFails, OfNoUse, Exit, FileIsOwn, TypeOK, TmpPath
  <2>2. n \in failed'
    BY <1>1, <2>1, HeldIsOwn
  <2>3. overrides'[n] = None /\ None \in HeldBy(n)' /\ HeldBy(n) \subseteq HeldBy(n)'
    BY <1>1, <2>1, <2>2 DEF FileIsOwn, HeldBy
  <2>4. Contained(n)'
    BY <1>1, <2>1, <2>2 DEF Contained, NeverAnothers
  <2>5. file[TmpPath(n)] \in HeldBy(n)' /\ file[TmpPath(n)] \in NobodyElses(n)'
    BY <1>1, <2>1, <2>3
  <2>6. QED
    BY <1>1, <2>1, <2>3, <2>4, <2>5 DEF FileIsOwn
<1>9. CASE Construct(n)
  <2>1. /\ given'[n] \in {None, file[TmpPath(n)]}
        /\ overrides[n] # None => given'[n] = file[TmpPath(n)]
        /\ overrides' = overrides /\ failed' = failed /\ file' = file
        /\ pc[n] = "construct" /\ pc'[n] = "running" /\ TmpPath(n)' = TmpPath(n)
        /\ HeldBy(n)' = HeldBy(n)
    BY <1>1, <1>9 DEF Construct, Goto, TypeOK, TmpPath, HeldBy
  <2>2. overrides[n] \in HeldBy(n) /\ file[TmpPath(n)] \in HeldBy(n)
    BY <1>1, <2>1 DEF FileIsOwn
  <2>3. given'[n] \in HeldBy(n)
    <3>1. CASE n \in failed
      BY <2>1, <2>2, <3>1 DEF HeldBy
    <3>2. CASE n \notin failed
      BY <1>1, <2>1, <2>2, <3>2 DEF HeldBy
    <3>3. QED
      BY <3>1, <3>2
  <2>4. NeverAnothers(n)' /\ (n \notin failed => Own(n)')
    BY <2>1, <2>2, <2>3, HeldIsOwn DEF NeverAnothers, Own
  <2>5. Contained(n)'
    BY <2>1, <2>4 DEF Contained
  <2>6. file[TmpPath(n)] \in NobodyElses(n)'
    BY <1>1, <2>2
  <2>7. QED
    BY <2>1, <2>2, <2>3, <2>5, <2>6 DEF FileIsOwn
<1>10. CASE ConstructFails(n)
  <2>1. /\ pc[n] = "construct" /\ file[TmpPath(n)] \in HeldBy(n)
        /\ file' = file /\ overrides' = overrides /\ given' = given
        /\ failed' = IF file[TmpPath(n)] \in Nodes THEN failed \cup {n} ELSE failed
        /\ pc'[n] = "exited"
    BY <1>1, <1>10 DEF ConstructFails, OfNoUse, Exit, FileIsOwn, TypeOK
  <2>2. n \in failed'
    BY <1>1, <2>1, HeldIsOwn
  <2>3. Contained(n)'
    BY <1>1, <2>1, <2>2 DEF Contained, NeverAnothers, Own
  <2>4. QED
    BY <2>1, <2>3 DEF FileIsOwn, HasNumber
<1>11. QED
  BY <1>2, <1>3, <1>4, <1>5, <1>6, <1>7, <1>8, <1>9, <1>10 DEF Startup

\* Nothing n has is disturbed by a step of a node that does not write its file.
LEMMA OthersStep ==
  ASSUME TypeOK, NEW n \in Nodes, FileIsOwn(n),
         NEW m \in Nodes, m # n, Startup(m),
         HasNumber(m) /\ HasNumber(n) => TmpPath(m) # TmpPath(n),
         pc'[m] = "exited" /\ Process[m] = Process[n] => m \in failed'
  PROVE  FileIsOwn(n)'
<1>1. /\ number'[n] = number[n] /\ overrides'[n] = overrides[n] /\ given'[n] = given[n]
      /\ n \in failed' <=> n \in failed
      /\ failed \subseteq failed'
      /\ \/ pc'[n] = pc[n]
         \/ pc'[n] = "exited" /\ Process[n] = Process[m] /\ pc'[m] = "exited"
  BY OwnPlaceOnly
<1>2. TmpPath(n)' = TmpPath(n) /\ HeldBy(n)' = HeldBy(n) /\ NobodyElses(n)' = NobodyElses(n)
  BY <1>1 DEF TmpPath, HeldBy, NobodyElses
<1>3. HasNumber(n) => file'[TmpPath(n)] = file[TmpPath(n)]
  BY PathType, OwnFileOnly
<1>4. Contained(n)'
  BY <1>1 DEF FileIsOwn, Contained, NeverAnothers, Own
<1>5. QED
  BY <1>1, <1>2, <1>3, <1>4 DEF FileIsOwn, HasNumber

\* At the start no file is open and nothing is read.
LEMMA OwnInit ==
  ASSUME Init, NEW n \in Nodes
  PROVE  FileIsOwn(n)
BY NodesAssumption DEF Init, HasNumber, FileIsOwn, Contained, NeverAnothers, Own

-----------------------------------------------------------------------------
(***************************************************************************)
(* The file of a node alone in its process is its own from when it is      *)
(* written, in every interleaving with the others and with any failures.   *)
(***************************************************************************)
THEOREM ParamsInvariant == Spec => []ParamsInv
<1>1. Init => ParamsInv
  <2> SUFFICES ASSUME Init
               PROVE  ParamsInv
    OBVIOUS
  <2>1. \A n \in Nodes, k \in 0..MaxFiles : file[<<Process[n], k>>] \in NobodyElses(n)
    BY DEF Init, NobodyElses, Pids
  <2>2. QED
    BY <2>1, TypeInit, OwnInit DEF ParamsInv
<1>2. ParamsInv /\ [Next]_vars => ParamsInv'
  <2> SUFFICES ASSUME ParamsInv, [Next]_vars
               PROVE  ParamsInv'
    OBVIOUS
  <2>1. TypeOK'
    BY TypeNext DEF ParamsInv
  <2>2. ASSUME NEW n \in Nodes, Alone(n)
        PROVE  FileIsOwn(n)' /\ \A k \in 0..MaxFiles : file'[<<Process[n], k>>] \in NobodyElses(n)
    <3>1. /\ FileIsOwn(n) /\ TypeOK /\ ~Shared(n)
          /\ \A k \in 0..MaxFiles : file[<<Process[n], k>>] \in NobodyElses(n)
          /\ file[TmpPath(n)] \in NobodyElses(n)
          /\ TmpPath(n) \in Pids \X (0..MaxFiles) /\ Process[n] \in Pids
      BY <2>2, PathType DEF ParamsInv, Shared, Alone, TmpPath, TypeOK
    <3>2. CASE UNCHANGED vars \/ Done
      BY <3>1, <3>2 DEF Done, vars, FileIsOwn, TmpPath, HeldBy, Contained, NeverAnothers, Own,
                        NobodyElses, HasNumber
    <3>3. ASSUME NEW m \in Nodes, Startup(m)
          PROVE  FileIsOwn(n)' /\ \A k \in 0..MaxFiles : file'[<<Process[n], k>>] \in NobodyElses(n)
      <4>1. CASE m = n
        <5>1. FileIsOwn(n)'
          BY <3>1, <3>3, <4>1, OwnStep
        <5>2. ASSUME NEW k \in 0..MaxFiles
              PROVE  file'[<<Process[n], k>>] \in NobodyElses(n)
          BY <3>1, <3>3, <4>1
             DEF Startup, NoYaml, ReadCounter, BumpCounter, OpenFile, OpenFails, WriteFile,
                 WriteFails, ParseFile, ParseFails, Construct, ConstructFails, TypeOK, NobodyElses
        <5>3. QED
          BY <5>1, <5>2
      <4>2. CASE m # n
        <5>1. Process[m] # Process[n] /\ TmpPath(m) # TmpPath(n)
          BY <2>2, <4>2 DEF Alone, TmpPath
        <5>2. \A k \in 0..MaxFiles : file'[<<Process[n], k>>] = file[<<Process[n], k>>]
          BY <3>1, <3>3, <5>1, OwnFileOnly DEF TmpPath
        <5>3. QED
          BY <3>1, <3>3, <4>2, <5>1, <5>2, OthersStep
      <4>3. QED
        BY <4>1, <4>2
    <3>4. QED
      BY <3>2, <3>3 DEF Next
  <2>3. QED
    BY <2>1, <2>2 DEF ParamsInv, Alone, NobodyElses
<1>3. QED
  BY <1>1, <1>2, PTL DEF Spec

(***************************************************************************)
(* A node alone in its process, as every node of the federation is, goes   *)
(* wrong only by a failure of its own file: it never has the parameters of *)
(* another, and unless something failed it starts with its own.            *)
(***************************************************************************)
THEOREM LoneNodesStart == Spec => []LoneNodesOwnParameters
<1>1. ParamsInv => LoneNodesOwnParameters
  BY DEF ParamsInv, LoneNodesOwnParameters, FileIsOwn
<1>2. QED
  BY <1>1, ParamsInvariant, PTL

-----------------------------------------------------------------------------
\* With numbers of their own no two nodes share a file.
LEMMA NobodyShares ==
  ASSUME SeparateFiles, NEW n \in Nodes, HasNumber(n)
  PROVE  ~Shared(n)
BY DEF SeparateFiles, TmpPath, Shared

\* A process exits only by a failure of the node that makes it exit.
LEMMA ExitsByFailure ==
  ASSUME TypeOK, NEW m \in Nodes, FileIsOwn(m), Startup(m), pc'[m] = "exited"
  PROVE  m \in failed'
<1>1. CASE NoYaml(m)
  BY <1>1 DEF NoYaml
<1>2. CASE ParseFails(m) \/ ConstructFails(m)
  <2>1. file[TmpPath(m)] \in HeldBy(m)
    BY <1>2 DEF ParseFails, ConstructFails, FileIsOwn
  <2>2. QED
    BY <1>2, <2>1, HeldIsOwn DEF ParseFails, ConstructFails, OfNoUse
<1>3. QED
  BY <1>1, <1>2 DEF Startup, ReadCounter, BumpCounter, OpenFile, OpenFails, WriteFile,
                    WriteFails, ParseFile, Construct, Goto, TypeOK

\* An atomic counter keeps the numbers of a process apart.
LEMMA NumbersStayApart ==
  ASSUME AtomicInv, CountsAlone, NEW m \in Nodes, Startup(m)
  PROVE  SeparateFiles'
<1>1. /\ TypeOK /\ FileIsOwn(m) /\ m # Partial /\ Process[m] \in Pids
      /\ \A n \in Nodes : Process[n] \in Pids /\ number[n] \in Nat /\ counter[Process[n]] \in Nat
  BY NodesAssumption, PathType DEF AtomicInv, TypeOK
<1> USE DEF SeparateFiles, HasNumber, Goto
<1>3. CASE ReadCounter(m)
  BY <1>1, <1>3 DEF ReadCounter, AtomicInv, TypeOK
<1>4. CASE BumpCounter(m)
  <2>1. /\ pc[m] = "counting" /\ pc' = [pc EXCEPT ![m] = "open"] /\ number' = number
        /\ counter' = [counter EXCEPT ![Process[m]] = number[m] + 1]
        /\ number[m] = counter[Process[m]]
    BY <1>4 DEF BumpCounter, AtomicInv
  <2>2. \A n \in Nodes : n # m /\ Process[n] = Process[m] => pc[n] # "counting"
    BY <2>1 DEF CountsAlone
  <2>3. \A n \in Nodes : Process[n] = Process[m] /\ HasNumber(n) => number[n] < number[m]
    BY <2>1 DEF AtomicInv
  <2>4. ASSUME NEW n \in Nodes
        PROVE  /\ HasNumber(n)' => number'[n] < counter'[Process[n]]
               /\ pc'[n] = "counting" => number'[n] = counter'[Process[n]]
    <3>1. CASE Process[n] = Process[m]
      <4>1. counter'[Process[n]] = number[m] + 1
        BY <1>1, <2>1, <3>1 DEF TypeOK
      <4>2. CASE n = m
        BY <1>1, <2>1, <4>1, <4>2 DEF TypeOK
      <4>3. CASE n # m
        BY <1>1, <2>1, <2>2, <2>3, <3>1, <4>1, <4>3 DEF TypeOK
      <4>4. QED
        BY <4>2, <4>3
    <3>2. CASE Process[n] # Process[m]
      <4>1. counter'[Process[n]] = counter[Process[n]] /\ n # m
        BY <1>1, <2>1, <3>2 DEF TypeOK
      <4>2. QED
        BY <1>1, <2>1, <4>1 DEF AtomicInv, TypeOK
    <3>3. QED
      BY <3>1, <3>2
  <2>5. ASSUME NEW k \in Nodes, NEW n \in Nodes,
               k # n, Process[k] = Process[n], HasNumber(k)', HasNumber(n)'
        PROVE  number'[k] # number'[n]
    <3>1. CASE k = m
      BY <1>1, <2>1, <2>3, <2>5, <3>1 DEF TypeOK
    <3>2. CASE n = m
      BY <1>1, <2>1, <2>3, <2>5, <3>2 DEF TypeOK
    <3>3. CASE k # m /\ n # m
      BY <1>1, <2>1, <2>5, <3>3 DEF AtomicInv, TypeOK
    <3>4. QED
      BY <3>1, <3>2, <3>3
  <2>6. QED
    BY <2>4, <2>5
<1>5. CASE OpenFile(m) \/ OpenFails(m) \/ WriteFile(m) \/ WriteFails(m) \/ ParseFile(m) \/ Construct(m)
  BY <1>1, <1>5 DEF OpenFile, OpenFails, WriteFile, WriteFails, ParseFile, Construct, AtomicInv, TypeOK
<1>6. CASE NoYaml(m) \/ ParseFails(m) \/ ConstructFails(m)
  <2>1. /\ number' = number /\ counter' = counter
        /\ \A n \in Nodes : \/ pc'[n] = pc[n] \/ pc'[n] = "exited"
                            \/ n = m /\ pc[n] = "parse"
    BY <1>1, <1>6 DEF NoYaml, ParseFails, ConstructFails, Exit, TypeOK
  <2>2. \A n \in Nodes : /\ HasNumber(n)' => HasNumber(n)
                         /\ pc'[n] = "counting" => pc[n] = "counting"
    BY <1>1, <1>6, <2>1 DEF NoYaml, ParseFails, ConstructFails, Exit, TypeOK
  <2>3. QED
    BY <1>1, <2>1, <2>2 DEF AtomicInv
<1>7. QED
  BY <1>3, <1>4, <1>5, <1>6 DEF Startup

\* ... and writes no file whose number is not taken.
LEMMA UnusedStay ==
  ASSUME AtomicInv, NEW m \in Nodes, Startup(m)
  PROVE  UnusedFiles'
<1>1. /\ TypeOK /\ Process[m] \in Pids
      /\ \A p \in Pids : counter[p] \in Nat
      /\ \A n \in Nodes : number[n] \in Nat
  BY PathType, NodesAssumption DEF AtomicInv, TypeOK
<1>2. \A p \in Pids : counter'[p] >= counter[p]
  BY <1>1 DEF AtomicInv, SeparateFiles, Startup, NoYaml, ReadCounter, BumpCounter, OpenFile,
              OpenFails, WriteFile, WriteFails, ParseFile, ParseFails, Construct,
              ConstructFails, Goto, TypeOK
<1>3. \A p \in Pids : counter'[p] \in Nat
  BY TypeNext DEF AtomicInv, Next, TypeOK
<1>4. ASSUME NEW p \in Pids, NEW k \in 0..MaxFiles, k >= counter'[p]
      PROVE  file'[<<p, k>>] \in {None, Stale}
  <2>1. k >= counter[p] /\ file[<<p, k>>] \in {None, Stale}
    BY <1>1, <1>2, <1>3, <1>4, NodesAssumption DEF AtomicInv, UnusedFiles
  <2>2. HasNumber(m) => <<p, k>> # TmpPath(m)
    BY <1>1, <2>1, NodesAssumption DEF AtomicInv, SeparateFiles, TmpPath
  <2>3. file'[<<p, k>>] = file[<<p, k>>]
    BY <1>1, <2>2, OwnFileOnly
  <2>4. QED
    BY <2>1, <2>3
<1>5. QED
  BY <1>4 DEF UnusedFiles

\* No step mixes up the nodes while the counter is atomic.
LEMMA AtomicInvNext == AtomicInv /\ CountsAlone /\ [Next]_vars => AtomicInv'
<1> SUFFICES ASSUME AtomicInv, CountsAlone, [Next]_vars
             PROVE  AtomicInv'
  OBVIOUS
<1>1. TypeOK'
  BY TypeNext DEF AtomicInv
<1>2. CASE UNCHANGED vars \/ Done
  BY <1>1, <1>2 DEF Done, vars, AtomicInv, SeparateFiles, UnusedFiles, HasNumber, FileIsOwn,
                    TmpPath, HeldBy, NobodyElses, Contained, NeverAnothers, Own
<1>3. ASSUME NEW m \in Nodes, Startup(m)
      PROVE  AtomicInv'
  <2>1. SeparateFiles' /\ UnusedFiles'
    BY <1>3, NumbersStayApart, UnusedStay
  <2>2. ASSUME NEW n \in Nodes
        PROVE  FileIsOwn(n)'
    <3>1. TypeOK /\ FileIsOwn(n) /\ FileIsOwn(m)
      BY DEF AtomicInv
    <3>2. HasNumber(n) => ~Shared(n)
      BY NobodyShares DEF AtomicInv
    <3>3. CASE m = n
      <4>1. pc[n] = "counting" => file[TmpPath(n)] \in NobodyElses(n)
        BY <3>1, PathType, NodesAssumption
           DEF AtomicInv, SeparateFiles, UnusedFiles, TmpPath, NobodyElses, TypeOK
      <4>2. QED
        BY <1>3, <3>1, <3>2, <3>3, <4>1, OwnStep
    <3>4. CASE m # n
      <4>1. HasNumber(m) /\ HasNumber(n) => TmpPath(m) # TmpPath(n)
        BY <3>2, <3>4 DEF Shared
      <4>2. pc'[m] = "exited" => m \in failed'
        BY <1>3, <3>1, ExitsByFailure
      <4>3. QED
        BY <1>3, <3>1, <3>4, <4>1, <4>2, OthersStep
    <3>5. QED
      BY <3>3, <3>4
  <2>3. QED
    BY <1>1, <2>1, <2>2 DEF AtomicInv
<1>4. QED
  BY <1>2, <1>3 DEF Next

(***************************************************************************)
(* If no two increments of a process's counter are interleaved, the nodes  *)
(* of every process, however many there are, go wrong only by failures of  *)
(* their own files: the files need no other protection from each other.    *)
(***************************************************************************)
THEOREM AtomicCounterGivesOwnParameters == Spec => AtomicCounterSuffices
<1>1. Init => AtomicInv
  <2> SUFFICES ASSUME Init
               PROVE  AtomicInv
    OBVIOUS
  <2>1. \A n \in Nodes : pc[n] = "start"
    BY DEF Init
  <2>2. QED
    BY <2>1, TypeInit, OwnInit DEF Init, AtomicInv, SeparateFiles, UnusedFiles, HasNumber
<1>2. AtomicInv => OwnStarts
  BY DEF AtomicInv, OwnStarts, FileIsOwn
<1>3. QED
  BY <1>1, <1>2, AtomicInvNext, PTL DEF Spec, AtomicCounterSuffices
=============================================================================
