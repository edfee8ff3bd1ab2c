------------------------- MODULE MCReleaseLifecycle -------------------------
EXTENDS ReleaseLifecycle

CONSTANTS q1, q2, k1, k2

TwoRequests == {q1, q2}
TwoKeys == {k1, k2}
=============================================================================
