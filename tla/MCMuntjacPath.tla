--------------------------- MODULE MCMuntjacPath ---------------------------
(* Stores and loads of one word, and a burst that loads two.               *)
EXTENDS MuntjacPath

Beat(op, size, adr, dat) ==
  [opcode |-> op, param |-> "ADD", size |-> size, address |-> adr, data |-> dat, mask |-> {0, 1}]

MCTransactions ==
  {<<Beat("PutFullData", 2, 0, 1)>>, <<Beat("Get", 2, 1, 0)>>, <<Beat("Get", 3, 0, 0)>>}
=============================================================================
