SPECIFICATION Spec
CONSTANT
  Programs <- ExecutorProgram
INVARIANT SpinsItsNodes
\* A process fails or ends.
CHECK_DEADLOCK FALSE
