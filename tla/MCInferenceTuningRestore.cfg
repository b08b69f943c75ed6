SPECIFICATION TuningSpec
CONSTANT MaxVariants = 1
INVARIANT BaselineIsRestored
CHECK_DEADLOCK FALSE
