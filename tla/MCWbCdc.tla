------------------------------ MODULE MCWbCdc ------------------------------
(* Two words, a store of one byte, a store of a whole word, two loads.      *)
EXTENDS WbCdc

All(v) == [i \in 0 .. 3 |-> v]
Store(a, s, v) == [adr |-> a, we |-> 1, sel |-> s, dat |-> All(v)]
Load(a) == [adr |-> a, we |-> 0, sel |-> Lane, dat |-> All(0)]

MCRequests == {Store(0, {2}, 1), Store(1, Lane, 1), Load(0), Load(1)}
=============================================================================
