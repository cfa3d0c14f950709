------------------------- MODULE AhbRecorderProofs --------------------------
(* Proofs about the recorder for every depth and line length.              *)
EXTENDS AhbRecorder, TLAPS

\* A step keeps the pointers in the buffer and the counters in range.
LEMMA TypeStep ==
  ASSUME TypeOK, [Next]_vars, EmitInv
  PROVE  TypeOK'
<1>a. depth \in Nat \ {0, 1} /\ last_char \in Nat
  BY RecorderAssumption
<1>1. ASSUME NEW dump \in {0, 1}, NEW xfer \in BOOLEAN, Record(xfer, dump)
      PROVE  TypeOK'
  <2>a. /\ wr_ptr \in Slots /\ rd_ptr \in Slots /\ wrapped \in {0, 1}
        /\ dump_rem \in 0 .. depth /\ mem \in [Slots -> Nat] /\ out \in Seq(Nat)
        /\ count \in Nat /\ base \in Nat /\ base <= count /\ base' = base
    BY <1>1 DEF Record, TypeOK
  <2>k. Capture(xfer)
    BY <1>1 DEF Record
  <2>l. /\ wr_ptr' = wr_ptr \/ wr_ptr' = 0
                            \/ (wr_ptr # depth - 1 /\ wr_ptr' = wr_ptr + 1)
        /\ wrapped' = wrapped \/ wrapped' = 1
    BY <2>k DEF Capture
  <2>m. wr_ptr' \in Slots
    BY <1>a, <2>a, <2>l DEF Slots
  <2>b. wr_ptr' \in Slots /\ wrapped' \in {0, 1}
    BY <2>a, <2>l, <2>m
  <2>c. count' \in Nat /\ base' <= count'
    BY <1>1, <2>a DEF Record, Capture
  <2>d. mem' \in [Slots -> Nat]
    BY <1>1, <2>a DEF Record, Capture
  <2>e. rd_ptr' \in Slots
    BY <1>a, <1>1, <2>a DEF Record, Snapshot, Slots
  <2>f. dump_rem' \in 0 .. depth
    BY <1>a, <1>1, <2>a DEF Record, Snapshot, Slots
  <2>g. state' \in {"S_REC", "S_FETCH", "S_EMIT"}
    BY <1>1 DEF Record, Snapshot
  <2>h. <<>> \in Seq(Nat)
    OBVIOUS
  <2>i. out' = out \/ out' = <<>>
    BY <1>1 DEF Record, Snapshot
  <2>j. out' \in Seq(Nat)
    BY <2>a, <2>h, <2>i
  <2>n. raced' \in {0, 1}
    BY <1>1 DEF Record, TypeOK
  <2>3. QED
    BY <1>1, <2>a, <2>b, <2>c, <2>d, <2>e, <2>f, <2>g, <2>j, <2>n DEF Record, TypeOK
<1>2. ASSUME NEW dump \in {0, 1}, Fetch(dump) PROVE TypeOK'
  BY <1>a, <1>2 DEF Fetch, TypeOK, Slots
<1>3. ASSUME NEW dump \in {0, 1}, NEW tx_ready \in {0, 1}, Emit(dump, tx_ready)
      PROVE  TypeOK'
  <2>a. /\ rd_ptr \in Slots /\ dump_rem \in 1 .. depth /\ char_idx \in 0 .. last_char
        /\ state = "S_EMIT"
    BY <1>a, <1>3 DEF Emit, EmitInv, TypeOK
  <2>b. rd_ptr' \in Slots
    BY <1>a, <1>3, <2>a DEF Emit, Slots
  <2>c. dump_rem' \in 0 .. depth
    BY <1>a, <1>3, <2>a DEF Emit
  <2>d. char_idx' \in 0 .. last_char
    BY <1>a, <1>3, <2>a DEF Emit
  <2>e. state' \in {"S_REC", "S_FETCH", "S_EMIT"}
    BY <1>3, <2>a DEF Emit
  <2>1. /\ rd_ptr' \in Slots /\ dump_rem' \in 0 .. depth
        /\ char_idx' \in 0 .. last_char
        /\ state' \in {"S_REC", "S_FETCH", "S_EMIT"}
    BY <2>b, <2>c, <2>d, <2>e
  <2>f. out \in Seq(Nat) /\ rec_reg \in Nat
    BY DEF TypeOK
  <2>g. Append(out, rec_reg) \in Seq(Nat)
    BY <2>f
  <2>h. out' = out \/ out' = Append(out, rec_reg)
    BY <1>3 DEF Emit
  <2>2. out' \in Seq(Nat)
    BY <2>f, <2>g, <2>h
  <2>3. QED
    BY <1>3, <2>1, <2>2 DEF Emit, TypeOK
<1>4. CASE Reset
  BY <1>a, <1>4 DEF Reset, TypeOK, Slots
<1>5. CASE UNCHANGED vars
  BY <1>5 DEF vars, TypeOK
<1>6. QED
  BY <1>1, <1>2, <1>3, <1>4, <1>5 DEF Next, Stream

\* A character is sent only of a record that is left to dump.
LEMMA EmitStep == TypeOK /\ EmitInv /\ [Next]_vars => EmitInv'
<1> SUFFICES ASSUME TypeOK, EmitInv, [Next]_vars PROVE EmitInv'
  OBVIOUS
<1>1. dump_rem \in Nat
  BY RecorderAssumption DEF TypeOK
<1>2. QED
  BY <1>1 DEF EmitInv, Next, Stream, Record, Snapshot, Fetch, Emit, Reset, vars

\* Pointers stay in the buffer and counters in their ranges, wherever in a
\* dump transfers and resets fall.
THEOREM TypeCorrect == Spec => []TypeOK
<1>1. Init => TypeOK /\ EmitInv
  <2> SUFFICES ASSUME Init PROVE TypeOK /\ EmitInv
    OBVIOUS
  <2>1. <<>> \in Seq(Nat)
    OBVIOUS
  <2>2. QED
    BY <2>1, RecorderAssumption DEF Init, TypeOK, EmitInv, Slots
<1>2. TypeOK /\ EmitInv /\ [Next]_vars => TypeOK' /\ EmitInv'
  <2> SUFFICES ASSUME TypeOK, EmitInv, [Next]_vars PROVE TypeOK' /\ EmitInv'
    OBVIOUS
  <2>1. TypeOK'
    BY TypeStep
  <2>3. EmitInv'
    BY EmitStep
  <2>4. QED
    BY <2>1, <2>3
<1>3. QED
  BY <1>1, <1>2, PTL DEF Spec

\* The buffer holds the latest transfers, whatever is captured, streamed and
\* reset in between.
LEMMA WindowStep == TypeOK /\ WindowInv /\ [Next]_vars => WindowInv'
<1> SUFFICES ASSUME TypeOK, WindowInv, [Next]_vars PROVE WindowInv'
  OBVIOUS
<1>a. /\ depth \in Nat \ {0, 1} /\ wr_ptr \in Slots /\ wrapped \in {0, 1}
      /\ mem \in [Slots -> Nat] /\ count \in Nat /\ base \in Nat
  BY RecorderAssumption DEF TypeOK
<1>1. ASSUME NEW dump \in {0, 1}, NEW xfer \in BOOLEAN, Record(xfer, dump)
      PROVE  WindowInv'
  <2>1. base' = base /\ Capture(xfer)
    BY <1>1 DEF Record
  <2>2. CASE xfer
    <3>1. /\ mem' = [mem EXCEPT ![wr_ptr] = count + 1]
          /\ wr_ptr' = IF wr_ptr = depth - 1 THEN 0 ELSE wr_ptr + 1
          /\ wrapped' = IF wr_ptr = depth - 1 THEN 1 ELSE wrapped
          /\ count' = count + 1
      BY <2>1, <2>2 DEF Capture
    <3>2. (wrapped' = 0 => count' = base' + wr_ptr')
          /\ (wrapped' = 1 => count' >= base' + depth)
      BY <1>a, <2>1, <3>1 DEF WindowInv, Slots
    <3>3. ASSUME NEW i \in Slots
          PROVE  /\ i < wr_ptr' => mem'[i] + wr_ptr' = count' + 1 + i
                 /\ i >= wr_ptr' /\ wrapped' = 1
                      => mem'[i] + wr_ptr' + depth = count' + 1 + i
      <4>1. CASE i = wr_ptr
        BY <1>a, <3>1, <3>3, <4>1 DEF Slots
      <4>2. CASE i # wr_ptr
        <5>1. mem'[i] = mem[i] /\ mem[i] \in Nat
          BY <1>a, <3>1, <3>3, <4>2
        <5>2. /\ i < wr_ptr => mem[i] + wr_ptr = count + 1 + i
              /\ i >= wr_ptr /\ wrapped = 1 => mem[i] + wr_ptr + depth = count + 1 + i
          BY <3>3 DEF WindowInv
        <5>3. i \in Nat /\ wr_ptr \in Nat /\ i < depth /\ wr_ptr < depth
          BY <1>a, <3>3 DEF Slots
        <5>4. CASE wr_ptr = depth - 1
          <6>1. wr_ptr' = 0 /\ count' = count + 1 /\ i < wr_ptr
            BY <1>a, <3>1, <4>2, <5>3, <5>4
          <6>2. QED BY <1>a, <5>1, <5>2, <5>3, <5>4, <6>1
        <5>5. CASE wr_ptr # depth - 1
          <6>1. wr_ptr' = wr_ptr + 1 /\ count' = count + 1 /\ wrapped' = wrapped
            BY <3>1, <5>5
          <6>2. i < wr_ptr' => i < wr_ptr
            BY <4>2, <5>3, <6>1
          <6>3. i >= wr_ptr' => i >= wr_ptr
            BY <5>3, <6>1
          <6>4. QED BY <1>a, <5>1, <5>2, <5>3, <6>1, <6>2, <6>3
        <5>6. QED BY <5>4, <5>5
      <4>3. QED BY <4>1, <4>2
    <3>4. QED BY <3>2, <3>3 DEF WindowInv
  <2>3. CASE ~xfer
    BY <2>1, <2>3 DEF Capture, WindowInv
  <2>4. QED BY <2>2, <2>3
<1>2. ASSUME NEW dump \in {0, 1}, Fetch(dump) PROVE WindowInv'
  BY <1>2 DEF Fetch, WindowInv
<1>3. ASSUME NEW dump \in {0, 1}, NEW tx_ready \in {0, 1}, Emit(dump, tx_ready)
      PROVE  WindowInv'
  BY <1>3 DEF Emit, WindowInv
<1>4. CASE Reset
  BY <1>a, <1>4 DEF Reset, WindowInv, Slots
<1>5. CASE UNCHANGED vars
  BY <1>5 DEF vars, WindowInv
<1>6. QED
  BY <1>1, <1>2, <1>3, <1>4, <1>5 DEF Next, Stream

-----------------------------------------------------------------------------
(* Streaming, when no transfer was captured on the edge that began it.     *)

\* The record that is fetched is the next one of the window.
LEMMA FetchedRecord ==
  ASSUME TypeOK, WindowInv, StreamInv, state = "S_FETCH", dump_rem # 0, raced = 0
  PROVE  mem[rd_ptr] = Oldest + Len(out)
<1>a. /\ depth \in Nat \ {0, 1} /\ wr_ptr \in Slots /\ rd_ptr \in Slots
      /\ wrapped \in {0, 1} /\ mem[rd_ptr] \in Nat /\ count \in Nat /\ base \in Nat
      /\ dump_rem \in Nat /\ base <= count
  BY RecorderAssumption DEF TypeOK
<1>b. Len(out) \in Nat
  BY DEF TypeOK
<1> DEFINE L == Len(out)
<1>1. L + dump_rem = WindowSize
  BY DEF StreamInv
<1>2. /\ rd_ptr < wr_ptr => mem[rd_ptr] + wr_ptr = count + 1 + rd_ptr
      /\ rd_ptr >= wr_ptr /\ wrapped = 1
           => mem[rd_ptr] + wr_ptr + depth = count + 1 + rd_ptr
  BY <1>a DEF WindowInv
<1> HIDE DEF L
<1>3. CASE wrapped = 0
  <2>1. WindowSize = wr_ptr /\ rd_ptr = L
    BY <1>a, <1>3 DEF WindowInv, StreamInv, WindowSize, Slots, L
  <2>2. QED
    BY <1>a, <1>b, <1>1, <1>2, <2>1 DEF Oldest, L, Slots
<1>4. CASE wrapped = 1
  <2>1. WindowSize = depth /\ (rd_ptr = wr_ptr + L \/ rd_ptr + depth = wr_ptr + L)
    BY <1>a, <1>4 DEF WindowInv, StreamInv, WindowSize, L
  <2>2. QED
    BY <1>a, <1>b, <1>1, <1>2, <1>4, <2>1 DEF Oldest, L, Slots
<1>5. QED BY <1>a, <1>3, <1>4

\* The inductive step of the stream.
LEMMA StreamStep ==
  ASSUME TypeOK, WindowInv, StreamInv, EmitInv, [Next]_vars
  PROVE  StreamInv'
<1>a. /\ depth \in Nat \ {0, 1} /\ wr_ptr \in Slots /\ rd_ptr \in Slots
      /\ wrapped \in {0, 1} /\ count \in Nat /\ base \in Nat /\ base <= count
      /\ dump_rem \in Nat
  BY RecorderAssumption DEF TypeOK
<1>b. Len(out) \in Nat
  BY DEF TypeOK
<1>1. ASSUME NEW dump \in {0, 1}, NEW xfer \in BOOLEAN,
             Record(xfer, dump)
      PROVE  StreamInv'
  <2>1. CASE dump = 1 /\ dump_prev = 0
    <3>1. CASE xfer
      BY <1>1, <2>1, <3>1 DEF Record, StreamInv
    <3>2. CASE ~xfer
      <4>1. /\ UNCHANGED <<wr_ptr, wrapped, count, base>>
            /\ rd_ptr' = (IF wrapped = 1 THEN wr_ptr ELSE 0)
            /\ dump_rem' = (IF wrapped = 1 THEN depth ELSE wr_ptr)
            /\ state' = "S_FETCH" /\ out' = <<>>
        BY <1>1, <2>1, <3>2 DEF Record, Capture, Snapshot
      <4>2. Len(out') = 0
        BY <4>1
      <4>3. WindowSize' = IF wrapped = 1 THEN depth ELSE wr_ptr
        BY <1>a, <4>1 DEF WindowSize, WindowInv, Slots
      <4>4. QED
        BY <1>a, <4>1, <4>2, <4>3 DEF StreamInv, Slots
    <3>3. QED BY <3>1, <3>2
  <2>2. CASE ~(dump = 1 /\ dump_prev = 0)
    BY <1>1, <2>2 DEF Record, StreamInv
  <2>3. QED BY <2>1, <2>2
<1>2. ASSUME NEW dump \in {0, 1}, Fetch(dump) PROVE StreamInv'
  <2>1. UNCHANGED <<wr_ptr, rd_ptr, dump_rem, wrapped, count, base, out, raced>>
    BY <1>2 DEF Fetch
  <2>2. WindowSize' = WindowSize /\ Oldest' = Oldest
    BY <2>1 DEF WindowSize, Oldest
  <2>3. CASE dump_rem = 0
    BY <1>2, <2>3 DEF Fetch, StreamInv
  <2>6. CASE raced = 1
    BY <2>1, <2>6 DEF StreamInv
  <2>4. CASE dump_rem # 0 /\ raced = 0
    <3>1. rec_reg' = Oldest + Len(out) /\ state' = "S_EMIT" /\ state = "S_FETCH"
      BY <1>2, <2>4, FetchedRecord DEF Fetch
    <3>2. QED
      BY <1>a, <2>1, <2>2, <2>4, <3>1 DEF StreamInv
  <2>5. QED BY <2>3, <2>4, <2>6 DEF TypeOK
<1>3. ASSUME NEW dump \in {0, 1}, NEW tx_ready \in {0, 1}, Emit(dump, tx_ready)
      PROVE  StreamInv'
  <2> SUFFICES ASSUME raced = 0 PROVE StreamInv'
    BY <1>3 DEF Emit, StreamInv
  <2>1. /\ UNCHANGED <<wr_ptr, wrapped, count, base, rec_reg, raced>>
        /\ state = "S_EMIT" /\ dump_rem > 0
    BY <1>3 DEF Emit, EmitInv
  <2>2. WindowSize' = WindowSize /\ Oldest' = Oldest
    BY <2>1 DEF WindowSize, Oldest
  <2>3. CASE tx_ready = 1 /\ char_idx = last_char
    <3>1. /\ rd_ptr' = IF rd_ptr = depth - 1 THEN 0 ELSE rd_ptr + 1
          /\ dump_rem' = dump_rem - 1
          /\ state' = "S_FETCH" /\ out' = Append(out, rec_reg)
      BY <1>3, <2>3 DEF Emit
    <3>2. Len(out') = Len(out) + 1
      BY <3>1 DEF TypeOK
    <3>3. Len(out) + dump_rem = WindowSize /\ WindowSize <= depth
      BY <1>a, <2>1 DEF StreamInv, WindowSize
    <3>4. Len(out') + dump_rem' = WindowSize'
      BY <1>a, <1>b, <2>1, <2>2, <3>1, <3>2, <3>3
    <3>5. CASE wrapped = 0
      <4>1. WindowSize = wr_ptr /\ rd_ptr = Len(out)
        BY <1>a, <2>1, <3>5 DEF StreamInv, WindowInv, WindowSize, Slots
      <4>2. rd_ptr' = Len(out')
        BY <1>a, <1>b, <2>1, <3>1, <3>2, <3>3, <4>1 DEF Slots
      <4>3. QED BY <2>1, <3>1, <3>4, <3>5, <4>2 DEF StreamInv
    <3>6. CASE wrapped = 1
      <4>1. rd_ptr = wr_ptr + Len(out) \/ rd_ptr + depth = wr_ptr + Len(out)
        BY <2>1, <3>6 DEF StreamInv
      <4>2. rd_ptr' = wr_ptr + Len(out') \/ rd_ptr' + depth = wr_ptr + Len(out')
        BY <1>a, <1>b, <2>1, <3>1, <3>2, <3>3, <4>1 DEF Slots
      <4>3. QED BY <2>1, <3>1, <3>4, <3>6, <4>2 DEF StreamInv
    <3>7. QED BY <1>a, <3>5, <3>6
  <2>4. CASE ~(tx_ready = 1 /\ char_idx = last_char)
    <3>1. UNCHANGED <<rd_ptr, dump_rem, state, out>>
      BY <1>3, <2>4 DEF Emit
    <3>2. QED
      BY <2>1, <2>2, <3>1 DEF StreamInv
  <2>5. QED BY <2>3, <2>4
<1>4. CASE Reset
  BY <1>4 DEF Reset, StreamInv
<1>5. CASE UNCHANGED vars
  BY <1>5 DEF vars, StreamInv, WindowSize, Oldest
<1>6. QED
  BY <1>1, <1>2, <1>3, <1>4, <1>5 DEF Next, Stream

\* The inductive step of the order of the lines.
LEMMA OrderStep ==
  ASSUME TypeOK, WindowInv, StreamInv, QuietDumpOldestFirst, [Next]_vars
  PROVE  QuietDumpOldestFirst'
<1>1. ASSUME NEW dump \in {0, 1}, NEW xfer \in BOOLEAN, Record(xfer, dump)
      PROVE  QuietDumpOldestFirst'
  BY <1>1 DEF Record, Snapshot, QuietDumpOldestFirst, DumpOldestFirst
<1>2. ASSUME NEW dump \in {0, 1}, Fetch(dump) PROVE QuietDumpOldestFirst'
  BY <1>2 DEF Fetch, QuietDumpOldestFirst, DumpOldestFirst, Oldest, WindowSize
<1>3. ASSUME NEW dump \in {0, 1}, NEW tx_ready \in {0, 1}, Emit(dump, tx_ready)
      PROVE  QuietDumpOldestFirst'
  <2> SUFFICES ASSUME raced = 0 PROVE DumpOldestFirst'
    BY <1>3 DEF Emit, QuietDumpOldestFirst
  <2>0. DumpOldestFirst
    BY DEF QuietDumpOldestFirst
  <2>1. UNCHANGED <<count, base>> /\ state = "S_EMIT"
    BY <1>3 DEF Emit
  <2>2. Oldest' = Oldest
    BY <2>1 DEF Oldest, WindowSize
  <2>3. CASE out' = Append(out, rec_reg)
    <3>1. out \in Seq(Nat) /\ rec_reg = Oldest + Len(out)
      BY <2>1 DEF TypeOK, StreamInv
    <3>2. Len(out') = Len(out) + 1 /\ Len(out) \in Nat
      BY <2>3, <3>1
    <3>3. ASSUME NEW j \in 1 .. Len(out') PROVE out'[j] = Oldest + j - 1
      <4>1. CASE j \in 1 .. Len(out)
        <5>1. out'[j] = out[j]
          BY <2>3, <3>1, <4>1 DEF TypeOK
        <5>2. QED BY <2>0, <2>1, <4>1, <5>1 DEF DumpOldestFirst
      <4>2. CASE j = Len(out) + 1
        <5>1. out'[j] = rec_reg
          BY <2>3, <3>1, <4>2 DEF TypeOK
        <5>2. Oldest \in Int
          BY RecorderAssumption DEF Oldest, WindowSize, TypeOK
        <5>3. QED BY <3>1, <3>2, <4>2, <5>1, <5>2
      <4>3. QED BY <3>2, <3>3, <4>1, <4>2
    <3>4. QED BY <2>2, <3>3 DEF DumpOldestFirst
  <2>4. CASE out' = out
    BY <2>0, <2>1, <2>2, <2>4 DEF DumpOldestFirst
  <2>5. QED BY <1>3, <2>3, <2>4 DEF Emit
<1>4. CASE Reset
  BY <1>4 DEF Reset, QuietDumpOldestFirst, DumpOldestFirst
<1>5. CASE UNCHANGED vars
  BY <1>5 DEF vars, QuietDumpOldestFirst, DumpOldestFirst, Oldest, WindowSize
<1>6. QED
  BY <1>1, <1>2, <1>3, <1>4, <1>5 DEF Next, Stream

-----------------------------------------------------------------------------
(* Streaming, when a transfer was captured on the edge that began it: the  *)
(* dump is as long as the window was before that edge.  If that was full,  *)
(* the first line is the newest record and the others are the oldest ones; *)
(* else the newest record is left out.                                     *)

\* The j-th line of such a dump when the window was full.
FullLine(j) == IF j = 1 THEN count ELSE Oldest + j - 2

\* Where the dump of a full window is, and what it has streamed.
NewestFirst ==
  /\ wrapped = 1 /\ Len(out) + dump_rem = depth
  /\ \/ rd_ptr + 1 = wr_ptr + Len(out)
     \/ rd_ptr + depth + 1 = wr_ptr + Len(out)
     \/ rd_ptr + 1 = wr_ptr + Len(out) + depth
  /\ state = "S_EMIT" => rec_reg = FullLine(Len(out) + 1)
  /\ \A j \in 1 .. Len(out) : out[j] = FullLine(j)

\* The same of a window that was not full.
NewestLeftOut ==
  /\ Len(out) + dump_rem + 1 = WindowSize
  /\ rd_ptr = Len(out)
  /\ wrapped = 1 => wr_ptr = 0
  /\ state = "S_EMIT" => rec_reg = Oldest + Len(out)
  /\ \A j \in 1 .. Len(out) : out[j] = Oldest + j - 1

RacedInv == state # "S_REC" /\ raced = 1 => NewestFirst \/ NewestLeftOut

\* A line added to what has been streamed.
LEMMA LineAdded ==
  ASSUME NEW rec \in Nat, out \in Seq(Nat), out' = Append(out, rec)
  PROVE  /\ Len(out) \in Nat /\ Len(out') = Len(out) + 1
         /\ \A j \in 1 .. Len(out') :
              \/ j \in 1 .. Len(out) /\ out'[j] = out[j]
              \/ j = Len(out) + 1 /\ out'[j] = rec
  OBVIOUS

\* The record that the dump of a full window reads.
LEMMA FullFetched ==
  ASSUME TypeOK, WindowInv, NewestFirst, dump_rem # 0
  PROVE  mem[rd_ptr] = FullLine(Len(out) + 1)
<1>a. /\ depth \in Nat \ {0, 1} /\ wr_ptr \in Slots /\ rd_ptr \in Slots
      /\ mem[rd_ptr] \in Nat /\ count \in Nat /\ base \in Nat /\ dump_rem \in Nat
      /\ Len(out) \in Nat
  BY RecorderAssumption DEF TypeOK
<1>1. /\ rd_ptr < wr_ptr => mem[rd_ptr] + wr_ptr = count + 1 + rd_ptr
      /\ rd_ptr >= wr_ptr => mem[rd_ptr] + wr_ptr + depth = count + 1 + rd_ptr
      /\ count >= base + depth
  BY <1>a DEF WindowInv, NewestFirst
<1>2. Oldest = count - depth + 1
  BY <1>a, <1>1 DEF Oldest, WindowSize
<1> DEFINE L == Len(out)
<1>3. /\ L + dump_rem = depth
      /\ \/ rd_ptr + 1 = wr_ptr + L
         \/ rd_ptr + depth + 1 = wr_ptr + L
         \/ rd_ptr + 1 = wr_ptr + L + depth
  BY DEF NewestFirst
<1>4. L \in Nat
  BY <1>a
<1> HIDE DEF L
<1>5. mem[rd_ptr] = IF L + 1 = 1 THEN count ELSE (count - depth + 1) + (L + 1) - 2
  BY <1>a, <1>1, <1>3, <1>4 DEF Slots
<1>6. QED
  BY <1>2, <1>5 DEF FullLine, L

\* The record that the dump of a window that was not full reads.
LEMMA PartFetched ==
  ASSUME TypeOK, WindowInv, NewestLeftOut, dump_rem # 0
  PROVE  mem[rd_ptr] = Oldest + Len(out)
<1>a. /\ depth \in Nat \ {0, 1} /\ wr_ptr \in Slots /\ rd_ptr \in Slots /\ wrapped \in {0, 1}
      /\ mem[rd_ptr] \in Nat /\ count \in Nat /\ base \in Nat /\ dump_rem \in Nat
      /\ Len(out) \in Nat
  BY RecorderAssumption DEF TypeOK
<1>1. /\ rd_ptr < wr_ptr => mem[rd_ptr] + wr_ptr = count + 1 + rd_ptr
      /\ rd_ptr >= wr_ptr /\ wrapped = 1 => mem[rd_ptr] + wr_ptr + depth = count + 1 + rd_ptr
      /\ wrapped = 0 => count = base + wr_ptr
      /\ wrapped = 1 => count >= base + depth
  BY <1>a DEF WindowInv
<1> DEFINE L == Len(out)
<1>2. L + dump_rem + 1 = WindowSize /\ rd_ptr = L /\ (wrapped = 1 => wr_ptr = 0) /\ L \in Nat
  BY <1>a DEF NewestLeftOut
<1> HIDE DEF L
<1>3. WindowSize = IF wrapped = 1 THEN depth ELSE wr_ptr
  BY <1>a, <1>1 DEF WindowSize, Slots
<1>4. mem[rd_ptr] = (count - WindowSize + 1) + L
  BY <1>a, <1>1, <1>2, <1>3 DEF Slots
<1>5. QED
  BY <1>4 DEF Oldest, L

\* The edge that begins such a dump.
LEMMA RacedBegins ==
  ASSUME TypeOK, WindowInv, NEW dump \in {0, 1}, NEW xfer \in BOOLEAN, Record(xfer, dump)
  PROVE  RacedInv'
<1>a. /\ depth \in Nat \ {0, 1} /\ wr_ptr \in Slots /\ wrapped \in {0, 1}
      /\ count \in Nat /\ base \in Nat
  BY RecorderAssumption DEF TypeOK
<1>1. CASE ~(dump = 1 /\ dump_prev = 0)
  BY <1>1 DEF Record, RacedInv
<1>2. CASE dump = 1 /\ dump_prev = 0 /\ ~xfer
  BY <1>2 DEF Record, RacedInv
<1>3. CASE dump = 1 /\ dump_prev = 0 /\ xfer
  <2>1. /\ rd_ptr' = (IF wrapped = 1 THEN wr_ptr ELSE 0)
        /\ dump_rem' = (IF wrapped = 1 THEN depth ELSE wr_ptr)
        /\ state' = "S_FETCH" /\ out' = <<>> /\ base' = base
        /\ wr_ptr' = (IF wr_ptr = depth - 1 THEN 0 ELSE wr_ptr + 1)
        /\ wrapped' = (IF wr_ptr = depth - 1 THEN 1 ELSE wrapped)
        /\ count' = count + 1
    BY <1>3 DEF Record, Capture, Snapshot
  <2>2. Len(out') = 0
    BY <2>1
  <2>3. /\ wrapped = 0 => count = base + wr_ptr
        /\ wrapped = 1 => count >= base + depth
    BY DEF WindowInv
  <2>4. CASE wrapped = 1
    <3>1. /\ wrapped' = 1 /\ Len(out') + dump_rem' = depth
          /\ \/ rd_ptr' + 1 = wr_ptr' + Len(out')
             \/ rd_ptr' + 1 = wr_ptr' + Len(out') + depth
      BY <1>a, <2>1, <2>2, <2>4 DEF Slots
    <3>2. NewestFirst'
      BY <2>1, <2>2, <3>1 DEF NewestFirst
    <3>3. QED BY <3>2 DEF RacedInv
  <2>5. CASE wrapped = 0 /\ wr_ptr = depth - 1
    <3>1. WindowSize' = depth
      BY <1>a, <2>1, <2>3, <2>5 DEF WindowSize
    <3>2. /\ Len(out') + dump_rem' + 1 = WindowSize'
          /\ rd_ptr' = Len(out') /\ wr_ptr' = 0
      BY <1>a, <2>1, <2>2, <2>5, <3>1
    <3>3. NewestLeftOut'
      BY <2>1, <2>2, <3>2 DEF NewestLeftOut
    <3>4. QED BY <3>3 DEF RacedInv
  <2>6. CASE wrapped = 0 /\ wr_ptr # depth - 1
    <3>1. WindowSize' = wr_ptr + 1
      BY <1>a, <2>1, <2>3, <2>6 DEF WindowSize, Slots
    <3>2. /\ Len(out') + dump_rem' + 1 = WindowSize'
          /\ rd_ptr' = Len(out') /\ wrapped' = 0
      BY <1>a, <2>1, <2>2, <2>6, <3>1 DEF Slots
    <3>3. NewestLeftOut'
      BY <2>1, <2>2, <3>2 DEF NewestLeftOut
    <3>4. QED BY <3>3 DEF RacedInv
  <2>7. QED
    BY <1>a, <2>4, <2>5, <2>6
<1>4. QED
  BY <1>1, <1>2, <1>3

\* A character of such a dump, the last of its line or another.
LEMMA RacedEmits ==
  ASSUME TypeOK, RacedInv, EmitInv, NEW dump \in {0, 1}, NEW tx_ready \in {0, 1},
         Emit(dump, tx_ready), raced = 1
  PROVE  RacedInv'
<1>a. /\ depth \in Nat \ {0, 1} /\ wr_ptr \in Slots /\ rd_ptr \in Slots /\ rec_reg \in Nat
      /\ count \in Nat /\ base \in Nat /\ dump_rem \in Nat /\ out \in Seq(Nat)
  BY RecorderAssumption DEF TypeOK
<1>1. /\ UNCHANGED <<wr_ptr, wrapped, count, base, rec_reg, raced>>
      /\ state = "S_EMIT" /\ dump_rem > 0
  BY DEF Emit, EmitInv
<1>2. WindowSize' = WindowSize /\ Oldest' = Oldest /\ \A j : FullLine(j)' = FullLine(j)
  BY <1>1 DEF WindowSize, Oldest, FullLine
<1>3. CASE tx_ready = 1 /\ char_idx = last_char
  <2>1. /\ rd_ptr' = (IF rd_ptr = depth - 1 THEN 0 ELSE rd_ptr + 1)
        /\ dump_rem' = dump_rem - 1
        /\ state' = "S_FETCH" /\ out' = Append(out, rec_reg)
    BY <1>3 DEF Emit
  <2>2. /\ Len(out) \in Nat /\ Len(out') = Len(out) + 1
        /\ \A j \in 1 .. Len(out') :
             \/ j \in 1 .. Len(out) /\ out'[j] = out[j]
             \/ j = Len(out) + 1 /\ out'[j] = rec_reg
    BY <1>a, <2>1, LineAdded
  <2>3. CASE NewestFirst
    <3>1. \A j \in 1 .. Len(out') : out'[j] = FullLine(j)
      BY <1>1, <2>2, <2>3 DEF NewestFirst
    <3>2. Len(out') + dump_rem' = depth
      BY <1>a, <1>1, <2>1, <2>2, <2>3 DEF NewestFirst
    <3>3. \/ rd_ptr' + 1 = wr_ptr' + Len(out')
          \/ rd_ptr' + depth + 1 = wr_ptr' + Len(out')
          \/ rd_ptr' + 1 = wr_ptr' + Len(out') + depth
      <4> DEFINE L == Len(out)
      <4>1. /\ L \in Nat /\ L < depth
            /\ \/ rd_ptr + 1 = wr_ptr + L
               \/ rd_ptr + depth + 1 = wr_ptr + L
               \/ rd_ptr + 1 = wr_ptr + L + depth
        BY <1>a, <1>1, <2>2, <2>3 DEF NewestFirst
      <4>2. wr_ptr' = wr_ptr /\ Len(out') = L + 1
        BY <1>1, <2>2
      <4> HIDE DEF L
      <4>3. \/ rd_ptr' + 1 = wr_ptr + (L + 1)
            \/ rd_ptr' + depth + 1 = wr_ptr + (L + 1)
            \/ rd_ptr' + 1 = wr_ptr + (L + 1) + depth
        <5>1. CASE rd_ptr = depth - 1
          BY <1>a, <2>1, <4>1, <5>1 DEF Slots
        <5>2. CASE rd_ptr # depth - 1
          BY <1>a, <2>1, <4>1, <5>2 DEF Slots
        <5>3. QED BY <5>1, <5>2
      <4>4. QED
        BY <4>2, <4>3
    <3>4. NewestFirst'
      BY <1>1, <1>2, <2>1, <2>3, <3>1, <3>2, <3>3 DEF NewestFirst
    <3>5. QED BY <3>4 DEF RacedInv
  <2>4. CASE NewestLeftOut
    <3>1. ASSUME NEW j \in 1 .. Len(out') PROVE out'[j] = Oldest + j - 1
      <4>1. Oldest \in Int
        BY <1>a DEF Oldest, WindowSize
      <4>2. CASE j \in 1 .. Len(out) /\ out'[j] = out[j]
        BY <2>4, <4>2 DEF NewestLeftOut
      <4>3. CASE j = Len(out) + 1 /\ out'[j] = rec_reg
        BY <1>1, <2>2, <2>4, <4>1, <4>3 DEF NewestLeftOut
      <4>4. QED BY <2>2, <4>2, <4>3
    <3>2. WindowSize \in Nat /\ WindowSize <= depth
      BY <1>a DEF WindowSize, NewestLeftOut, TypeOK
    <3>3. Len(out') + dump_rem' + 1 = WindowSize' /\ rd_ptr' = Len(out')
      BY <1>a, <1>1, <1>2, <2>1, <2>2, <2>4, <3>2 DEF NewestLeftOut, Slots
    <3>4. NewestLeftOut'
      BY <1>1, <1>2, <2>1, <2>4, <3>1, <3>3 DEF NewestLeftOut
    <3>5. QED BY <3>4 DEF RacedInv
  <2>5. QED BY <1>1, <2>3, <2>4 DEF RacedInv
<1>4. CASE ~(tx_ready = 1 /\ char_idx = last_char)
  <2>1. UNCHANGED <<rd_ptr, dump_rem, state, out>>
    BY <1>4 DEF Emit
  <2>2. QED
    BY <1>1, <1>2, <2>1 DEF RacedInv, NewestFirst, NewestLeftOut
<1>5. QED
  BY <1>3, <1>4

\* The inductive step of a dump that began with a transfer.
LEMMA RacedStep ==
  ASSUME TypeOK, WindowInv, EmitInv, RacedInv, [Next]_vars
  PROVE  RacedInv'
<1>1. ASSUME NEW dump \in {0, 1}, NEW xfer \in BOOLEAN, Record(xfer, dump)
      PROVE  RacedInv'
  BY <1>1, RacedBegins
<1>2. ASSUME NEW dump \in {0, 1}, Fetch(dump) PROVE RacedInv'
  <2>1. UNCHANGED <<wr_ptr, rd_ptr, dump_rem, wrapped, count, base, out, raced>>
    BY <1>2 DEF Fetch
  <2>2. WindowSize' = WindowSize /\ Oldest' = Oldest /\ \A j : FullLine(j)' = FullLine(j)
    BY <2>1 DEF WindowSize, Oldest, FullLine
  <2>3. CASE dump_rem = 0
    BY <1>2, <2>3 DEF Fetch, RacedInv
  <2>4. CASE dump_rem # 0 /\ raced = 1
    <3>1. rec_reg' = mem[rd_ptr] /\ state' = "S_EMIT" /\ state = "S_FETCH"
      BY <1>2, <2>4 DEF Fetch
    <3>2. CASE NewestFirst
      <4>1. rec_reg' = FullLine(Len(out) + 1)
        BY <2>4, <3>1, <3>2, FullFetched
      <4>2. NewestFirst'
        BY <2>1, <2>2, <3>2, <4>1 DEF NewestFirst
      <4>3. QED BY <4>2 DEF RacedInv
    <3>3. CASE NewestLeftOut
      <4>1. rec_reg' = Oldest + Len(out)
        BY <2>4, <3>1, <3>3, PartFetched
      <4>2. NewestLeftOut'
        BY <2>1, <2>2, <3>3, <4>1 DEF NewestLeftOut
      <4>3. QED BY <4>2 DEF RacedInv
    <3>4. QED BY <2>4, <3>1, <3>2, <3>3 DEF RacedInv
  <2>5. CASE raced # 1
    BY <2>1, <2>5 DEF RacedInv
  <2>6. QED BY <2>3, <2>4, <2>5
<1>3. ASSUME NEW dump \in {0, 1}, NEW tx_ready \in {0, 1}, Emit(dump, tx_ready)
      PROVE  RacedInv'
  <2>1. CASE raced = 1
    BY <1>3, <2>1, RacedEmits
  <2>2. CASE raced # 1
    BY <1>3, <2>2 DEF Emit, RacedInv
  <2>3. QED BY <2>1, <2>2
<1>4. CASE Reset
  BY <1>4 DEF Reset, RacedInv
<1>5. CASE UNCHANGED vars
  BY <1>5 DEF vars, RacedInv, NewestFirst, NewestLeftOut, FullLine, WindowSize, Oldest
<1>6. QED
  BY <1>1, <1>2, <1>3, <1>4, <1>5 DEF Next, Stream

\* The inductive invariant of the recorder.
RecorderInv ==
  TypeOK /\ WindowInv /\ EmitInv /\ StreamInv /\ QuietDumpOldestFirst /\ RacedInv

\* The inductive invariant holds initially and at every step.
LEMMA RecorderCorrect == Spec => []RecorderInv
<1>1. Init => RecorderInv
  <2> SUFFICES ASSUME Init PROVE RecorderInv
    OBVIOUS
  <2>1. TypeOK
    BY RecorderAssumption DEF Init, TypeOK, Slots
  <2>2. WindowInv /\ EmitInv /\ StreamInv /\ QuietDumpOldestFirst /\ RacedInv
    BY RecorderAssumption
       DEF Init, WindowInv, EmitInv, StreamInv, QuietDumpOldestFirst, DumpOldestFirst,
           RacedInv, Slots
  <2>3. QED BY <2>1, <2>2 DEF RecorderInv
<1>2. RecorderInv /\ [Next]_vars => RecorderInv'
  <2> SUFFICES ASSUME RecorderInv, [Next]_vars PROVE RecorderInv'
    OBVIOUS
  <2>1. TypeOK'
    BY TypeStep DEF RecorderInv
  <2>2. WindowInv' /\ EmitInv'
    BY WindowStep, EmitStep DEF RecorderInv
  <2>3. StreamInv'
    BY StreamStep DEF RecorderInv
  <2>4. QuietDumpOldestFirst'
    BY OrderStep DEF RecorderInv
  <2>5. RacedInv'
    BY RacedStep DEF RecorderInv
  <2>6. QED BY <2>1, <2>2, <2>3, <2>4, <2>5 DEF RecorderInv
<1>3. QED BY <1>1, <1>2, PTL DEF Spec

\* For every depth, a dump streams the window oldest-first, as long as no
\* transfer is accepted on the very edge that starts the dump.
THEOREM OldestFirst == Spec => []QuietDumpOldestFirst
<1>1. RecorderInv => QuietDumpOldestFirst
  BY DEF RecorderInv
<1>2. QED BY <1>1, RecorderCorrect, PTL

\* For every depth, a dump streams the whole window, under the same condition.
THEOREM WholeWindow == Spec => []DumpComplete
<1>1. RecorderInv => DumpComplete
  <2> SUFFICES ASSUME RecorderInv, state = "S_FETCH", dump_rem = 0, raced = 0
               PROVE  Len(out) = WindowSize
    BY DEF DumpComplete
  <2>1. Len(out) + 0 = WindowSize /\ Len(out) \in Nat
    BY DEF RecorderInv, StreamInv, TypeOK
  <2>2. QED BY <2>1
<1>2. QED BY <1>1, RecorderCorrect, PTL

\* For every depth, and also when a transfer is captured on the very edge
\* that starts the dump, no line is repeated and none is from outside the
\* window.
THEOREM LinesOfWindow == Spec => []StreamsWindowOnce
<1>1. RecorderInv => StreamsWindowOnce
  <2> SUFFICES ASSUME RecorderInv, state # "S_REC",
                      NEW j \in 1 .. Len(out), NEW k \in 1 .. Len(out)
               PROVE  out[j] \in Oldest .. count /\ (out[j] = out[k] => j = k)
    BY DEF StreamsWindowOnce
  <2>a. /\ depth \in Nat \ {0, 1} /\ count \in Nat /\ base \in Nat /\ base <= count
        /\ dump_rem \in Nat /\ Len(out) \in Nat /\ raced \in {0, 1}
    BY RecorderAssumption DEF RecorderInv, TypeOK
  <2>1. WindowSize \in Nat /\ Oldest = count - WindowSize + 1
    BY <2>a DEF WindowSize, Oldest
  <2>2. CASE raced = 0 \/ NewestLeftOut
    <3>1. \A i \in 1 .. Len(out) : out[i] = Oldest + i - 1
      BY <2>2 DEF RecorderInv, QuietDumpOldestFirst, DumpOldestFirst, NewestLeftOut
    <3>2. Len(out) <= WindowSize
      <4>1. Len(out) + dump_rem = WindowSize \/ Len(out) + dump_rem + 1 = WindowSize
        BY <2>2 DEF RecorderInv, StreamInv, NewestLeftOut
      <4>2. QED
        BY <2>a, <2>1, <4>1
    <3>3. QED
      BY <2>a, <2>1, <3>1, <3>2
  <2>3. CASE NewestFirst
    <3>1. \A i \in 1 .. Len(out) : out[i] = IF i = 1 THEN count ELSE Oldest + i - 2
      BY <2>3 DEF NewestFirst, FullLine
    <3>2. Len(out) <= depth /\ WindowSize = depth
      BY <2>a, <2>3 DEF RecorderInv, NewestFirst, WindowInv, WindowSize
    <3>3. QED
      BY <2>a, <2>1, <3>1, <3>2
  <2>4. QED
    BY <2>a, <2>2, <2>3 DEF RecorderInv, RacedInv
<1>2. QED BY <1>1, RecorderCorrect, PTL
=============================================================================
