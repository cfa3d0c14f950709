------------------------------ MODULE Memtest -------------------------------
(***************************************************************************)
(* lib/memtest/memtest.cc: what the tests of the memory find.  They are    *)
(* loops over a memory that no one else touches, so they are functions of  *)
(* it.  A faulty memory has cells that are stuck at a word, and addresses  *)
(* that lead to one cell.  bin/rv32_ddr3 and bin/muntjac test their first  *)
(* cell before they load a program; bin/memerr tests 6000.                 *)
(***************************************************************************)
EXTENDS Integers, FiniteSetsExt

CONSTANTS
  Addresses,   \* 0 .. n: addresses of words, counted from the base
  Words,       \* what a cell may hold
  None         \* not a word

\* m.cell: the cell behind an address; m.stuck: the word a cell is stuck at,
\* or None; m.data: what was written to a cell.
Memories == [cell  : [Addresses -> Addresses], stuck : [Addresses -> Words \cup {None}],
             data  : [Addresses -> Words]]

Store(m, a, w) == [m EXCEPT !.data[m.cell[a]] = w]
Load(m, a) == LET c == m.cell[a] IN IF m.stuck[c] = None THEN m.data[c] ELSE m.stuck[c]

\* The writing loop of Test, after n turns.
Filled(m, pattern, count) ==
  LET after[n \in 0 .. count] == IF n = 0 THEN m ELSE Store(after[n - 1], n - 1, pattern)
  IN after[count]

\* The reading loop stops at the first cell that differs.
Test(m, pattern, count) ==
  LET filled == Filled(m, pattern, count)
      differ == {a \in 0 .. count - 1 : Load(filled, a) # pattern}
  IN IF differ = {} THEN [ok |-> TRUE]
     ELSE [ok |-> FALSE, addr |-> Min(differ), expected |-> pattern,
           actual |-> Load(filled, Min(differ))]

TestOneCell(m, w, a) == Load(Store(m, a, w), a) = w

\* TestWithC answers the opposite of its name: TRUE only if every cell fails.
TestWithC(m, w, limit) ==
  LET at[n \in 0 .. limit] == IF n = 0 THEN m ELSE Store(at[n - 1], n - 1, w)
  IN ~ \E a \in 0 .. limit - 1 : TestOneCell(at[a], w, a)

-----------------------------------------------------------------------------
(* What they promise.                                                      *)

\* memtest.h:22 "Returns false if the test fails, true otherwise": Test names
\* the first address whose cell is stuck at another word than the pattern,
\* and that word; and it writes to no cell that its addresses do not lead to.
FindsFirstStuckCell(m, pattern, count) ==
  LET stuck(a) == m.stuck[m.cell[a]] \notin {None, pattern}
      result == Test(m, pattern, count)
  IN /\ result.ok = (\A a \in 0 .. count - 1 : ~stuck(a))
     /\ ~result.ok => /\ stuck(result.addr) /\ \A a \in 0 .. result.addr - 1 : ~stuck(a)
                      /\ result.actual = m.stuck[m.cell[result.addr]]
     /\ \A c \in Addresses \ {m.cell[a] : a \in 0 .. count - 1} :
          Filled(m, pattern, count).data[c] = m.data[c]

\* As every cell is given the same word, an address that leads to the cell of
\* another one is found by neither test.
OverlooksAliases(m, pattern, count) ==
  (\A c \in Addresses : m.stuck[c] = None) =>
    /\ Test(m, pattern, count).ok
    /\ \A a \in 0 .. count - 1 : TestOneCell(m, pattern, a)

\* TestWithC is TRUE when all of the cells are faulty, not when none is.
AllCellsFail(m, w, limit) ==
  TestWithC(m, w, limit) = (\A a \in 0 .. limit - 1 : m.stuck[m.cell[a]] \notin {None, w})
=============================================================================
