--------------------------- MODULE MCSerialLoader ---------------------------
(* A file whose lines fit when noise has joined two of them, one whose     *)
(* lines then miss by a byte, and one with a line of exactly the size of   *)
(* the buffer, newline included.  The memory tests that two of the loaders *)
(* begin with are functions, and are compared with what they promise for   *)
(* every memory of three words.                                            *)
EXTENDS SerialLoader

Line(type, len) == [type |-> type, len |-> len]
MCFiles == { <<Line("other", 6), Line("data", 6), Line("eof", 3)>>,
             <<Line("data", 7), Line("data", 6), Line("eof", 3)>>,
             <<Line("data", 13), Line("eof", 3)>> }

Memory == INSTANCE Memtest WITH Addresses <- 0 .. 2, Words <- 0 .. 1, None <- 2

ASSUME MemoryTests ==
  \A m \in Memory!Memories, pattern \in 0 .. 1, count \in 0 .. 3 :
    /\ Memory!FindsFirstStuckCell(m, pattern, count)
    /\ Memory!OverlooksAliases(m, pattern, count)
    /\ Memory!AllCellsFail(m, pattern, count)
=============================================================================
