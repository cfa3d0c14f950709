---------------------------- MODULE MCTlC2WbLite ----------------------------
(* Two words; bursts of two beats that cover both, and single beats.       *)
EXTENDS TlC2WbLite

Beat(op, param, size, adr, dat, mask) ==
  [opcode |-> op, param |-> param, size |-> size, address |-> adr, data |-> dat, mask |-> mask]

Read(op, size, adr) == <<Beat(op, "ADD", size, adr, 0, Lane)>>

PutBurst == <<Beat("PutFullData", "ADD", 3, 0, 2, Lane), Beat("PutFullData", "ADD", 3, 1, 3, Lane)>>
PutByte  == <<Beat("PutPartialData", "ADD", 0, 1, 3, {1})>>

\* Two atomics on the two words; their masks, and between them both ALU paths.
Atomic(p, dat) == Beat(IF p \in {"XOR", "OR", "AND", "SWAP"} THEN "LogicalData" ELSE "ArithmeticData",
                       p, 3, 0, dat, Lane)
Pair(p, v, q, w) == <<Atomic(p, v), [Atomic(q, w) EXCEPT !.address = 1]>>

\* The ALU of tl_c2wblite.ent.vhdl:103-161 computes every operation on every
\* pair of words; the run needs two of them only.
ASSUME AluComputesAtomics ==
  \A p \in {"MIN", "MAX", "MINU", "MAXU", "ADD", "XOR", "OR", "AND", "SWAP"}, v, m \in Word :
    AluRes(Atomic(p, v), m) = AtomicMeaning(Atomic(p, v), m)

MCTransactions ==
  {PutBurst, PutByte, Read("Get", 3, 0), Read("AcquireBlock", 2, 0),
   Read("AcquirePerm", 2, 0), Read("Intent", 2, 1),
   Pair("MIN", 1, "OR", 2), <<[Atomic("SWAP", 1) EXCEPT !.size = 2, !.mask = {0}]>>}
=============================================================================
