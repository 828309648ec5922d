SPECIFICATION Spec
CONSTANT MaxQueue = 3
INVARIANT LossSurvived
CHECK_DEADLOCK FALSE
