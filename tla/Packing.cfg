CONSTANTS Lens = {1, 2, 3, 4, 5, 7, 8, 12}
SPECIFICATION Spec
INVARIANTS SamplesInBusOrder RequestCovered
