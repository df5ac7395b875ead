---------------------------- MODULE ResolvedParams ----------------------------
(***************************************************************************)
(* The startup of the nodes whose parameter file holds $(var ...) launch   *)
(* substitutions.  resolve_yaml_vars() writes the resolved text to a       *)
(* temporary file, named after the process and a counter of the process;   *)
(* the file is parsed for the node's overrides, and read once more when    *)
(* the node is constructed.  The startup reactions of different reactors   *)
(* run in parallel: in one process in the monolithic program, in one       *)
(* process each in the federation.  The YAML may be missing, the temporary *)
(* file may not be opened or written, which the code does not notice, and  *)
(* a file may fail to parse.                                               *)
(***************************************************************************)
EXTENDS Naturals

CONSTANTS
  Nodes,          \* reactors whose startup reaction calls resolve_yaml_vars
  Strict,         \* those that call get_node_options_from_yaml, which exits
                  \* on a parse error; the others use ..._from_yamls, which warns
  Process,        \* the process of each node
  Partial,        \* content of a file cut short, or of one two nodes wrote
  Stale,          \* content left by an earlier process with the same ID
  None,           \* no file, or no parameters
  MaxFiles        \* bound: calls of resolve_yaml_vars in a process

Pids == {Process[n] : n \in Nodes}

ASSUME NodesAssumption ==
  /\ Strict \subseteq Nodes
  /\ DOMAIN Process = Nodes
  /\ {Partial, Stale, None} \cap Nodes = {}
  /\ Stale # None /\ Partial # None
  /\ MaxFiles \in Nat

VARIABLES
  pc,             \* where each node's startup reaction is
  counter,        \* the static counter of each process
  number,         \* the number each node's file gets
  file,           \* the temporary files: whose parameters each holds
  overrides,      \* whose parameters each node's overrides are
  given,          \* whose parameters each node is constructed with
  failed          \* the nodes whose own YAML or file has failed them: could
                  \* not be opened, written or, being whole, used

vars == <<pc, counter, number, file, overrides, given, failed>>

Places == {"start", "counting", "open", "write", "parse", "construct", "running", "exited"}
Contents == Nodes \cup {Partial, Stale, None}

\* Mutated form of TmpPath: the number alone, without the process.
TmpPathWithoutPid(n) == <<CHOOSE p \in Pids : TRUE, number[n]>>

\* The name of a node's file: /tmp/lf_resolved_<pid>_<number>.yaml.
TmpPath(n) == <<Process[n], number[n]>>

\* n has taken its number.
HasNumber(n) == pc[n] \notin {"start", "counting", "exited"}

Init ==
  /\ pc = [n \in Nodes |-> "start"]
  /\ counter = [p \in Pids |-> 0]
  /\ number = [n \in Nodes |-> 0]
  /\ file \in [Pids \X (0..MaxFiles) -> {None, Stale}]
  /\ overrides = [n \in Nodes |-> None]
  /\ given = [n \in Nodes |-> None]
  /\ failed = {}

Goto(n, from, to) ==
  /\ pc[n] = from
  /\ pc' = [pc EXCEPT ![n] = to]

\* The process ends, and with it all its nodes.
Exit(n) ==
  pc' = [m \in Nodes |-> IF Process[m] = Process[n] THEN "exited" ELSE pc[m]]

-----------------------------------------------------------------------------
\* The YAML cannot be opened: resolve_yaml_vars ends the process.
NoYaml(n) ==
  /\ pc[n] = "start"
  /\ Exit(n)
  /\ failed' = failed \cup {n}
  /\ UNCHANGED <<counter, number, file, overrides, given>>

\* counter++, which two threads may interleave: the read ...
ReadCounter(n) ==
  /\ Goto(n, "start", "counting")
  /\ counter[Process[n]] < MaxFiles
  /\ number' = [number EXCEPT ![n] = counter[Process[n]]]
  /\ UNCHANGED <<counter, file, overrides, given, failed>>

\* Mutated form of BumpCounter: the value is written back as it was read.
BumpForgotten(n) ==
  /\ Goto(n, "counting", "open")
  /\ counter' = [counter EXCEPT ![Process[n]] = number[n]]
  /\ UNCHANGED <<number, file, overrides, given, failed>>

\* ... and the write.
BumpCounter(n) ==
  /\ Goto(n, "counting", "open")
  /\ counter' = [counter EXCEPT ![Process[n]] = number[n] + 1]
  /\ UNCHANGED <<number, file, overrides, given, failed>>

\* std::ofstream truncates the file, or creates it.
OpenFile(n) ==
  /\ Goto(n, "open", "write")
  /\ file' = [file EXCEPT ![TmpPath(n)] = Partial]
  /\ UNCHANGED <<counter, number, overrides, given, failed>>

\* The file cannot be opened, which is not noticed: nothing is written, and
\* whatever the path names is read.
OpenFails(n) ==
  /\ Goto(n, "open", "parse")
  /\ failed' = failed \cup {n}
  /\ UNCHANGED <<counter, number, file, overrides, given>>

\* Another node of the process has taken the same number.
Shared(n) == \E m \in Nodes \ {n} : HasNumber(m) /\ TmpPath(m) = TmpPath(n)

\* The text is written: over that of another node, it may leave a mixture.
WriteFile(n) ==
  /\ Goto(n, "write", "parse")
  /\ \E c \in {n} \cup (IF Shared(n) THEN {Partial} ELSE {}) :
       file' = [file EXCEPT ![TmpPath(n)] = c]
  /\ UNCHANGED <<counter, number, overrides, given, failed>>

\* The write or the close fails, which is not noticed either.
WriteFails(n) ==
  /\ Goto(n, "write", "parse")
  /\ \E c \in {Partial, file[TmpPath(n)]} : file' = [file EXCEPT ![TmpPath(n)] = c]
  /\ failed' = failed \cup {n}
  /\ UNCHANGED <<counter, number, overrides, given>>

\* Mutated form of ParseFile: the file is parsed before it is written.
ParseFileEarly(n) ==
  /\ Goto(n, "write", "construct")
  /\ overrides' = [overrides EXCEPT ![n] = file[TmpPath(n)]]
  /\ UNCHANGED <<counter, number, file, given, failed>>

\* The file parses: its parameters become the node's overrides.
ParseFile(n) ==
  /\ Goto(n, "parse", "construct")
  /\ file[TmpPath(n)] # None
  /\ overrides' = [overrides EXCEPT ![n] = file[TmpPath(n)]]
  /\ UNCHANGED <<counter, number, file, given, failed>>

\* A whole file that is of no use is n's failure, not that of the writers.
OfNoUse(n) == failed' = IF file[TmpPath(n)] \in Nodes THEN failed \cup {n} ELSE failed

\* There is no file, or it does not parse: the process exits, or the file is
\* skipped with a warning and the node gets nothing from it.
ParseFails(n) ==
  /\ pc[n] = "parse"
  /\ IF n \in Strict THEN Exit(n) ELSE pc' = [pc EXCEPT ![n] = "construct"]
  /\ OfNoUse(n)
  /\ UNCHANGED <<counter, number, file, overrides, given>>

\* make_shared<Node>: rclcpp reads the file named by --params-file, which is
\* not named when it was skipped.
Construct(n) ==
  /\ Goto(n, "construct", "running")
  /\ given' = [given EXCEPT ![n] = IF overrides[n] = None THEN None ELSE file[TmpPath(n)]]
  /\ UNCHANGED <<counter, number, file, overrides, failed>>

\* The constructor throws, on the file or for want of a parameter, and
\* nothing catches it.
ConstructFails(n) ==
  /\ pc[n] = "construct"
  /\ Exit(n)
  /\ OfNoUse(n)
  /\ UNCHANGED <<counter, number, file, overrides, given>>

Started == \A n \in Nodes : pc[n] \in {"running", "exited"}

Done == Started /\ UNCHANGED vars

Startup(n) ==
  \/ NoYaml(n) \/ ReadCounter(n) \/ BumpCounter(n)
  \/ OpenFile(n) \/ OpenFails(n) \/ WriteFile(n) \/ WriteFails(n)
  \/ ParseFile(n) \/ ParseFails(n)
  \/ Construct(n) \/ ConstructFails(n)

Next == (\E n \in Nodes : Startup(n)) \/ Done

Spec == Init /\ [][Next]_vars

-----------------------------------------------------------------------------
TypeOK ==
  /\ pc \in [Nodes -> Places]
  /\ counter \in [Pids -> Nat]
  /\ number \in [Nodes -> 0..MaxFiles]
  /\ file \in [Pids \X (0..MaxFiles) -> Contents]
  /\ overrides \in [Nodes -> Contents]
  /\ given \in [Nodes -> Contents]
  /\ failed \subseteq Nodes

Own(n) == pc[n] = "running" => overrides[n] = n /\ given[n] = n

\* What n has read is not the parameters of another node.
NeverAnothers(n) == {overrides[n], given[n]} \cap Nodes \subseteq {n}

(***************************************************************************)
(* The startup of n goes wrong only by a failure of its own YAML or file:  *)
(* it never has another node's parameters, without such a failure it runs  *)
(* with its own, and its process exits only after a failure in it.         *)
(***************************************************************************)
Contained(n) ==
  /\ NeverAnothers(n)
  /\ n \notin failed => Own(n)
  /\ pc[n] = "exited" => \E m \in failed : Process[m] = Process[n]

\* n's process starts no other node of this kind, as in the federation.
Alone(n) == \A m \in Nodes : Process[m] = Process[n] => m = n

(***************************************************************************)
(* The startup of a node alone in its process is contained in this sense,  *)
(* whatever the other processes write and in whatever order, and whatever  *)
(* they and earlier ones have left in /tmp.                                *)
(***************************************************************************)
LoneNodesOwnParameters == \A n \in Nodes : Alone(n) => Contained(n)

\* What the file of n may hold once n has opened it, or has failed to, and so
\* what is read from it: until a failure of n's, n's parameters and no others.
HeldBy(n) == {n} \cup (IF n \in failed THEN {Partial, Stale, None} ELSE {})

\* Whatever a file may hold that no other node has written.
NobodyElses(n) == {n, Partial, Stale, None}

\* From when n has written its file, or failed to, it is n's, and what has
\* been read from it came from there; a skipped file gives nothing.
FileIsOwn(n) ==
  /\ HasNumber(n) => file[TmpPath(n)] \in NobodyElses(n)
  /\ pc[n] \in {"parse", "construct", "running"} => file[TmpPath(n)] \in HeldBy(n)
  /\ pc[n] \notin {"construct", "running", "exited"} => overrides[n] = None
  /\ pc[n] \in {"construct", "running"} => overrides[n] \in HeldBy(n)
  /\ pc[n] = "running" => given[n] \in HeldBy(n)
  /\ Contained(n)

(***************************************************************************)
(* Nodes in different processes never share a file, and two nodes of one   *)
(* process take their numbers from one counter; so a lone node's file is   *)
(* its own from when it is written.                                        *)
(***************************************************************************)
ParamsInv ==
  /\ TypeOK
  /\ \A n \in Nodes : Alone(n) =>
       /\ FileIsOwn(n)
       /\ \A k \in 0..MaxFiles : file[<<Process[n], k>>] \in NobodyElses(n)

\* counter++ is not interleaved with one of the same process.
CountsAlone ==
  \A m, n \in Nodes :
    pc[m] = "counting" /\ pc[n] = "counting" /\ Process[m] = Process[n] => m = n

\* Every node's startup is contained.
OwnStarts == \A n \in Nodes : Contained(n)

(***************************************************************************)
(* The race of the counter is all that can mix up the nodes: with an       *)
(* atomic counter, as with a single worker, a node of the monolithic       *)
(* program too goes wrong only by a failure of its own file, although the  *)
(* startup reactions write, parse and read theirs in any interleaving.     *)
(***************************************************************************)
AtomicCounterSuffices == []CountsAlone => []OwnStarts

(***************************************************************************)
(* Why it suffices: the counter is above every number taken so far and the *)
(* next one to be taken, so no two nodes of a process have one file.       *)
(***************************************************************************)
SeparateFiles ==
  /\ \A n \in Nodes :
       /\ HasNumber(n) => number[n] < counter[Process[n]]
       /\ pc[n] = "counting" => number[n] = counter[Process[n]]
  /\ \A m, n \in Nodes :
       m # n /\ Process[m] = Process[n] /\ HasNumber(m) /\ HasNumber(n) => number[m] # number[n]

\* A file whose number is not yet taken is as it was.
UnusedFiles ==
  \A p \in Pids, k \in 0..MaxFiles : k >= counter[p] => file[<<p, k>>] \in {None, Stale}

AtomicInv ==
  /\ TypeOK
  /\ SeparateFiles
  /\ UnusedFiles
  /\ \A n \in Nodes : FileIsOwn(n)

(***************************************************************************)
(* utils.hpp says that resolve_yaml_vars() writes a resolved copy of the   *)
(* YAML it is given and returns its path: so, as long as no file fails, no *)
(* node of the monolithic program runs with what it read from the copy of  *)
(* another's YAML.                                                         *)
(***************************************************************************)
OwnParameters == failed = {} => \A n \in Nodes : pc[n] = "running" => NeverAnothers(n)
=============================================================================
