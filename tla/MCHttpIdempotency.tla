------------------------- MODULE MCHttpIdempotency -------------------------
EXTENDS HttpIdempotency, TLC

CONSTANTS a1, a2, b1, f, g

ThreeAttempts == {a1, a2, b1}

\* Two deliveries of one request, and a different request with the same key.
TwoPrints == [a \in ThreeAttempts |-> IF a = b1 THEN g ELSE f]

OneRefresh == {g}
=============================================================================
