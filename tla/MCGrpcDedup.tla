---------------------------- MODULE MCGrpcDedup ----------------------------
(* A small instance of GrpcDedup for TLC: a slow method whose answers live  *)
(* for two ticks and a fast one whose answers live for one.                 *)
EXTENDS GrpcDedup, TLC

CONSTANTS r1, r2, r3, r4, slow, fast

TwoKeys == {slow, fast}
OneKey  == {slow}

TTLOf(keys) == [k \in keys |-> IF k = slow THEN 2 ELSE 1]
TwoTTL == TTLOf(TwoKeys)
OneTTL == TTLOf(OneKey)

ThreeRequests == {r1, r2, r3}
FourRequests  == {r1, r2, r3, r4}
=============================================================================
