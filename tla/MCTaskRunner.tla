----------------------------- MODULE MCTaskRunner -----------------------------
(* Three activations of one background loop, under policies that give up   *)
(* after zero, one or two retries and under one that never does.           *)
EXTENDS TaskRunner

CONSTANTS h1, h2, h3, infinite

MCHandle == {h1, h2, h3}
MCLimits == {0, 1, 2, infinite}

=============================================================================
