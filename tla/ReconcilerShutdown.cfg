CONSTANT KodCapacity = 2
SPECIFICATION Spec
PROPERTY ReconcilerStops
