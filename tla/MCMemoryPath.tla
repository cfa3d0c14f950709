---------------------------- MODULE MCMemoryPath ----------------------------
(* Two hosts and two bursts that differ in an upper address bit only.      *)
EXTENDS MemoryPath

MCBurst == {0, 2}

All(v) == [i \in 0 .. 3 |-> v]

Store(b, k, s) == [adr |-> <<b, k>>, we |-> 1, sel |-> s, dat |-> All(1)]
Load(b, k) == [adr |-> <<b, k>>, we |-> 0, sel |-> 0 .. 3, dat |-> All(0)]

MCRequests == { Store(0, 1, {2}), Store(2, 1, 0 .. 3), Load(0, 1) }
=============================================================================
