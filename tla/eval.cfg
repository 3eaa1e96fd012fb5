SPECIFICATION Spec
CONSTANTS
  Programs <- AllPrograms
  MaxWorkers = 3
INVARIANTS ResultRight OwnOrGlobal
PROPERTY EvaluationEnds
