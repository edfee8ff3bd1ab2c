-------------------------- MODULE MCPreviewMonitor --------------------------
EXTENDS PreviewMonitor

CONSTANTS r1, r2

TwoReplicas == {r1, r2}
=============================================================================
