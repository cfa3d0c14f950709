--------------------------- MODULE MCAhb2WbBridge ---------------------------
(* Small instances of the bridge: two words, two byte values, stores of    *)
(* parts of both words, and a load.                                        *)
EXTENDS Ahb2WbBridge

MCAddr == {0, 1}
MCByte == {0, 1}

All(v) == [i \in 0 .. 3 |-> v]

Store(a, o, s, w) == [adr |-> a, off |-> o, size |-> s, write |-> 1, data |-> w]
Load(a) == [adr |-> a, off |-> 0, size |-> "word", write |-> 0, data |-> All(0)]

MCBeats == { Store(0, 3, "byte", All(1)), Store(1, 2, "half", All(1)), Load(0) }

MCPowerUpWord == All(0)
MCStrayWords == {All(0), All(1)}
=============================================================================
