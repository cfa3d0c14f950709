----------------------------- MODULE AhbMemory ------------------------------
(***************************************************************************)
(* What the AHB to Wishbone bridge promises to the AHB master: a memory    *)
(* that serves one transfer at a time, each exactly once.  A store changes *)
(* the bytes its size and offset cover and no other byte of the word; a    *)
(* load returns the word as it was when it was served.  A reset of the     *)
(* master may leave a store underway, which can still change its bytes,    *)
(* once, before the next transfer is taken.                                *)
(***************************************************************************)
EXTENDS Naturals

CONSTANTS Addr, Byte, Beats, NoBeat, NoWord, PowerUpWord

VARIABLES
  phase,   \* where the current transfer is
  beat,    \* the current transfer, or NoBeat
  val,     \* the word a load found, or NoWord
  mem,     \* the memory
  left     \* the store that a reset of the master has left underway, if any

memVars == <<phase, beat, val, mem, left>>

NumBytes(size) == CASE size = "byte" -> 1 [] size = "half" -> 2 [] size = "word" -> 4

Covered(b) == {i \in 0 .. 3 : b.off <= i /\ i < b.off + NumBytes(b.size)}

Stored(b) ==
  [mem EXCEPT ![b.adr] =
     [i \in 0 .. 3 |-> IF i \in Covered(b) THEN b.data[i] ELSE mem[b.adr][i]]]

Init ==
  /\ phase = "idle" /\ beat = NoBeat /\ val = NoWord
  /\ mem = [a \in Addr |-> PowerUpWord]
  /\ left = {}

\* A new transfer, possibly while the previous one is being returned.
Accept ==
  /\ phase \in {"idle", "returned"} /\ left = {}
  /\ phase' = "pending"
  /\ beat' \in Beats
  /\ val' = NoWord
  /\ UNCHANGED <<mem, left>>

Perform ==
  /\ phase = "pending"
  /\ phase' = "done"
  /\ \/ beat.write = 1 /\ mem' = Stored(beat) /\ val' = NoWord
     \/ beat.write = 0 /\ mem' = mem /\ val' = mem[beat.adr]
  /\ UNCHANGED <<beat, left>>

Return ==
  /\ phase = "done"
  /\ phase' = "returned"
  /\ UNCHANGED <<beat, val, mem, left>>

\* The transfer is over and none follows; or a reset abandons it.
Leave ==
  /\ phase' = "idle"
  /\ beat' = NoBeat
  /\ val' = NoWord
  /\ UNCHANGED mem

Finish == phase = "returned" /\ Leave /\ UNCHANGED left
Reset  == (phase # "idle" \/ left # {}) /\ Leave /\ left' = {}

\* A reset of the master takes a store away that has not been performed ...
Abandon ==
  /\ phase = "pending" /\ beat.write = 1
  /\ Leave
  /\ left' = {[adr |-> beat.adr, bytes |-> Covered(beat)]}

\* ... and that may be performed yet; whether its data was there is open.
Straggle ==
  \E s \in left, data \in [0 .. 3 -> Byte] :
    /\ mem' = [mem EXCEPT ![s.adr] =
                 [i \in 0 .. 3 |-> IF i \in s.bytes THEN data[i] ELSE mem[s.adr][i]]]
    /\ left' = {}
    /\ UNCHANGED <<phase, beat, val>>

Next == Accept \/ Perform \/ Return \/ Finish \/ Reset \/ Abandon \/ Straggle

Spec == Init /\ [][Next]_memVars
=============================================================================
