--------------------------- MODULE MCCostRecorder ---------------------------
EXTENDS CostRecorder

CONSTANTS r1, r2

TwoReplicas == {r1, r2}
=============================================================================
