---------------------------- MODULE AhbRecorder -----------------------------
(***************************************************************************)
(* ip/debug/ahb_recorder.vhdl: a sliding window over the accepted AHB      *)
(* transfers, streamed out as text lines on a rising edge of `dump`.       *)
(*                                                                         *)
(* An action is one rising edge of clk with the inputs it samples: whether *)
(* a transfer is accepted (htrans(1) and hready), the level of dump, and   *)
(* tx_ready.  A record is named by the number of its transfer since power  *)
(* up, which stands for its 97 bits (direction, cycle, address, data); a   *)
(* line is its LAST_CHAR + 1 characters, counted but not spelled out.      *)
(***************************************************************************)
EXTENDS Integers, Sequences

CONSTANTS
  depth,               \* records in the window, 2**addr_bits
  last_char,           \* index of the last character of a line
  MaxTransfers         \* bound on the transfers of a behaviour

ASSUME RecorderAssumption ==
  /\ depth \in Nat \ {0, 1}
  /\ last_char \in Nat
  /\ MaxTransfers \in Nat

Slots == 0 .. depth - 1

VARIABLES
  state, wr_ptr, rd_ptr, dump_rem, dump_prev, wrapped, char_idx, rec_reg, mem,
  count,   \* history: transfers captured since power up
  base,    \* history: count at the last reset
  out,     \* history: records streamed by the current or last dump
  raced    \* history: 1 if a transfer was captured on the edge that began it

vars == <<state, wr_ptr, rd_ptr, dump_rem, dump_prev, wrapped, char_idx,
          rec_reg, mem, count, base, out, raced>>

-----------------------------------------------------------------------------
\* Mutant: the window counts as wrapped one record too early.
CaptureWrapsEarly(xfer) ==
  IF xfer
  THEN /\ mem' = [mem EXCEPT ![wr_ptr] = count + 1]
       /\ wr_ptr' = IF wr_ptr = depth - 1 THEN 0 ELSE wr_ptr + 1
       /\ wrapped' = IF wr_ptr >= depth - 2 THEN 1 ELSE wrapped
       /\ count' = count + 1
  ELSE UNCHANGED <<mem, wr_ptr, wrapped, count>>

\* Mutant: the write pointer does not wrap.
CaptureOverruns(xfer) ==
  IF xfer
  THEN /\ mem' = [mem EXCEPT ![wr_ptr] = count + 1]
       /\ wr_ptr' = wr_ptr + 1
       /\ wrapped' = IF wr_ptr = depth - 1 THEN 1 ELSE wrapped
       /\ count' = count + 1
  ELSE UNCHANGED <<mem, wr_ptr, wrapped, count>>

\* Circular capture: the oldest slot is overwritten once the window is full.
Capture(xfer) ==
  IF xfer
  THEN /\ mem' = [mem EXCEPT ![wr_ptr] = count + 1]
       /\ wr_ptr' = IF wr_ptr = depth - 1 THEN 0 ELSE wr_ptr + 1
       /\ wrapped' = IF wr_ptr = depth - 1 THEN 1 ELSE wrapped
       /\ count' = count + 1
  ELSE UNCHANGED <<mem, wr_ptr, wrapped, count>>

\* Mutant: a wrapped window is streamed from slot 0.
SnapshotFromZero ==
  /\ rd_ptr' = 0
  /\ dump_rem' = IF wrapped = 1 THEN depth ELSE wr_ptr
  /\ state' = "S_FETCH"
  /\ out' = <<>>

\* The window as it is before this edge: all slots once it has wrapped,
\* else the slots below wr_ptr.
Snapshot ==
  /\ rd_ptr' = IF wrapped = 1 THEN wr_ptr ELSE 0
  /\ dump_rem' = IF wrapped = 1 THEN depth ELSE wr_ptr
  /\ state' = "S_FETCH"
  /\ out' = <<>>

\* S_REC: capture and, on a rising edge of dump, turn to streaming.
Record(xfer, dump) ==
  /\ state = "S_REC"
  /\ dump_prev' = dump
  /\ Capture(xfer)
  /\ IF dump = 1 /\ dump_prev = 0
     THEN Snapshot /\ raced' = IF xfer THEN 1 ELSE 0
     ELSE UNCHANGED <<rd_ptr, dump_rem, state, out, raced>>
  /\ UNCHANGED <<char_idx, rec_reg, base>>

\* S_FETCH: read the next record, or resume recording.
Fetch(dump) ==
  /\ state = "S_FETCH"
  /\ dump_prev' = dump
  /\ IF dump_rem = 0
     THEN /\ state' = "S_REC"
          /\ UNCHANGED <<rec_reg, char_idx>>
     ELSE /\ rec_reg' = mem[rd_ptr]
          /\ char_idx' = 0
          /\ state' = "S_EMIT"
  /\ UNCHANGED <<wr_ptr, rd_ptr, dump_rem, wrapped, mem, count, base, out, raced>>

\* Mutant: the count of the records left is not decremented.
EmitKeepsCount(dump, tx_ready) ==
  /\ state = "S_EMIT"
  /\ dump_prev' = dump
  /\ IF tx_ready = 0
     THEN UNCHANGED <<rd_ptr, dump_rem, state, char_idx, out>>
     ELSE IF char_idx = last_char
     THEN /\ rd_ptr' = IF rd_ptr = depth - 1 THEN 0 ELSE rd_ptr + 1
          /\ state' = "S_FETCH"
          /\ out' = out
          /\ UNCHANGED <<dump_rem, char_idx>>
     ELSE /\ char_idx' = char_idx + 1
          /\ UNCHANGED <<rd_ptr, dump_rem, state, out>>
  /\ UNCHANGED <<wr_ptr, wrapped, rec_reg, mem, count, base, raced>>

\* S_EMIT: one character per accepted byte; the next record at end of line.
\* rd_ptr has addr_bits bits, so that it wraps at depth.
Emit(dump, tx_ready) ==
  /\ state = "S_EMIT"
  /\ dump_prev' = dump
  /\ IF tx_ready = 0
     THEN UNCHANGED <<rd_ptr, dump_rem, state, char_idx, out>>
     ELSE IF char_idx = last_char
     THEN /\ rd_ptr' = IF rd_ptr = depth - 1 THEN 0 ELSE rd_ptr + 1
          /\ dump_rem' = dump_rem - 1
          /\ state' = "S_FETCH"
          /\ out' = Append(out, rec_reg)
          /\ UNCHANGED char_idx
     ELSE /\ char_idx' = char_idx + 1
          /\ UNCHANGED <<rd_ptr, dump_rem, state, out>>
  /\ UNCHANGED <<wr_ptr, wrapped, rec_reg, mem, count, base, raced>>

\* Mutant: reset does not forget that the window has wrapped.
ResetKeepsWrapped ==
  /\ wr_ptr' = 0 /\ rd_ptr' = 0 /\ dump_rem' = 0
  /\ dump_prev' = 0 /\ wrapped' = wrapped /\ char_idx' = 0
  /\ state' = "S_REC"
  /\ base' = count
  /\ out' = <<>> /\ raced' = 0
  /\ UNCHANGED <<rec_reg, mem, count>>

\* A clock edge with rstn low: the pointers are reset, the buffer is not.
Reset ==
  /\ wr_ptr' = 0 /\ rd_ptr' = 0 /\ dump_rem' = 0
  /\ dump_prev' = 0 /\ wrapped' = 0 /\ char_idx' = 0
  /\ state' = "S_REC"
  /\ base' = count
  /\ out' = <<>> /\ raced' = 0
  /\ UNCHANGED <<rec_reg, mem, count>>

\* The board comes up in reset; the buffer holds no record.
Init ==
  /\ state = "S_REC"
  /\ wr_ptr = 0 /\ rd_ptr = 0 /\ dump_rem = 0
  /\ dump_prev = 0 /\ wrapped = 0 /\ char_idx = 0
  /\ rec_reg = 0 /\ mem = [i \in Slots |-> 0]
  /\ count = 0 /\ base = 0 /\ out = <<>> /\ raced = 0

\* The transfers the bus may present on an edge.
MayTransfer(xfer) == xfer => count < MaxTransfers

Stream ==
  \E dump \in {0, 1} : Fetch(dump) \/ \E tx_ready \in {0, 1} : Emit(dump, tx_ready)

Next ==
  \/ \E dump \in {0, 1}, xfer \in BOOLEAN : MayTransfer(xfer) /\ Record(xfer, dump)
  \/ Stream
  \/ Reset

Spec == Init /\ [][Next]_vars

\* The clock runs, and the serializer takes each byte it is offered: uart_tx
\* is ready again ten bit times after it took one.
FairSpec ==
  /\ Spec
  /\ WF_vars(\E dump \in {0, 1} : Fetch(dump))
  /\ WF_vars(\E dump \in {0, 1} : Emit(dump, 1))

-----------------------------------------------------------------------------
(* Properties.                                                             *)

\* Pointers stay in the buffer, counters in their ranges.
TypeOK ==
  /\ state \in {"S_REC", "S_FETCH", "S_EMIT"}
  /\ wr_ptr \in Slots /\ rd_ptr \in Slots
  /\ dump_rem \in 0 .. depth
  /\ dump_prev \in {0, 1} /\ wrapped \in {0, 1}
  /\ char_idx \in 0 .. last_char
  /\ rec_reg \in Nat /\ mem \in [Slots -> Nat]
  /\ count \in Nat /\ base \in Nat /\ base <= count
  /\ out \in Seq(Nat) /\ raced \in {0, 1}

\* The window by its meaning: the latest `depth` transfers since the reset.
WindowSize == IF count - base >= depth THEN depth ELSE count - base
Oldest == count - WindowSize + 1

\* The buffer holds the window: the slots below wr_ptr end with the newest
\* record, and those from wr_ptr on, once wrapped, start with the oldest.
WindowInv ==
  /\ wrapped = 0 => count = base + wr_ptr
  /\ wrapped = 1 => count >= base + depth
  /\ \A i \in Slots :
       /\ i < wr_ptr => mem[i] + wr_ptr = count + 1 + i
       /\ i >= wr_ptr /\ wrapped = 1 => mem[i] + wr_ptr + depth = count + 1 + i

\* A character is sent only of a record that is left to dump.
EmitInv == state = "S_EMIT" => dump_rem > 0

\* A dump under way, begun without a transfer: what it has streamed, where it
\* reads next, and what is left add up to the window.
StreamInv ==
  state # "S_REC" /\ raced = 0 =>
    /\ Len(out) + dump_rem = WindowSize
    /\ wrapped = 0 => rd_ptr = Len(out)
    /\ wrapped = 1 => \/ rd_ptr = wr_ptr + Len(out)
                      \/ rd_ptr + depth = wr_ptr + Len(out)
    /\ state = "S_EMIT" => rec_reg = Oldest + Len(out)

\* "it streams the captured window out, oldest-first"
\* (ip/debug/ahb_recorder.vhdl:10): the j-th line of a dump is the j-th oldest
\* transfer of the window.
DumpOldestFirst ==
  state # "S_REC" => \A j \in 1 .. Len(out) : out[j] = Oldest + j - 1

\* It is so if no transfer is captured on the very edge that starts the dump.
QuietDumpOldestFirst == raced = 0 => DumpOldestFirst

\* A dump that is about to end has streamed the whole window, under the same
\* condition.
DumpComplete ==
  state = "S_FETCH" /\ dump_rem = 0 /\ raced = 0 => Len(out) = WindowSize

\* Even when a transfer is captured on the very edge that starts a dump, no
\* line is repeated and none is from outside the window: neither a record of
\* before a reset nor an overwritten one.
StreamsWindowOnce ==
  state # "S_REC" =>
    \A j \in 1 .. Len(out) :
      /\ out[j] \in Oldest .. count
      /\ \A k \in 1 .. Len(out) : out[j] = out[k] => j = k

\* A dump ends and recording resumes.
DumpEnds == state # "S_REC" ~> state = "S_REC"
=============================================================================
