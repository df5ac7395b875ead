SPECIFICATION Spec
CONSTANT
  Programs <- PassiveProgram
INVARIANT RunsPassively
\* A process fails or ends.
CHECK_DEADLOCK FALSE
