----------------------- MODULE MCActivityIdempotency -----------------------
(***************************************************************************)
(* Three attempts of one input and one attempt that reuses the key for     *)
(* another input.                                                          *)
(***************************************************************************)
EXTENDS ActivityIdempotency, TLC

CONSTANTS a1, a2, a3, b1, in1, in2

MCInputOf == (a1 :> in1) @@ (a2 :> in1) @@ (a3 :> in1) @@ (b1 :> in2)

=============================================================================
