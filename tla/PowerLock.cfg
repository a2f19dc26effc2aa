\* Both tasks, every interleaving; one frequency change may be refused.
SPECIFICATION Spec
CONSTANT MaxFails = 1
INVARIANTS ArmedWhileAsleep OneSlicePerLock
PROPERTY ClockRestored
