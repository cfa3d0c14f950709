-------------------------- MODULE TlC2WbLiteProofs --------------------------
(* Proofs about the TileLink adapter for every memory and every set of     *)
(* transactions that TileLink allows.  What is proved of the responses is  *)
(* proved for those that ask for the permission of a word only.            *)
EXTENDS TlC2WbLite, TLAPS

-----------------------------------------------------------------------------
(* The inductive invariant.                                                *)

\* Opcodes of which a request has as many beats as it stores words.
Stores == Puts \cup Atomics

Answers == [opcode : {"AccessAck", "AccessAckData", "Grant", "GrantData"}, data : Word]

\* Which request and which outputs a state of the adapter goes with.
ControlInv ==
  /\ todo \in Seq(Beats) /\ (a_valid = 1 => todo # <<>>)
  /\ ReadyAlways => d_ready = 1
  /\ a_ready = 1 => state \in {"IDLE", "A_WAIT"} /\ d.valid = 0
  /\ state \in {"ALU", "WB_WR_WAIT"} \/ (ReadyAlways /\ state = "TL_RESP") => d.valid = 0
  /\ state = "WB_RD_WAIT" => saved_a.opcode \in Reads \cup Atomics
  /\ state = "WB_RD_WAIT" /\ d.valid = 1 => saved_a.opcode \in Reads /\ wb.cyc = 0
  /\ state = "ALU" => saved_a.opcode \in Atomics
  /\ PermissionsOfWords =>
       /\ state = "A_WAIT" => saved_a.opcode \in Stores
       /\ state = "WB_WR_WAIT" => saved_a.opcode \in Stores \cup {"Intent"}

\* A bus cycle is the one of the state, and an ack answers it, or a bus cycle
\* that a reset has ended.
BusInv ==
  /\ wb.cyc = 1 => state \in {"WB_RD_WAIT", "WB_WR_WAIT"}
  /\ wb.cyc = 1 /\ state = "WB_RD_WAIT" =>
       /\ wb.we = 0
       /\ wb.adr = IF saved_a.opcode \in Reads THEN get_address ELSE saved_a.address
  /\ wb.cyc = 1 /\ state = "WB_WR_WAIT" =>
       /\ wb.adr = saved_a.address /\ wb.sel = saved_a.mask /\ wb.dat = WriteData
       /\ wb.we = IF saved_a.opcode \in Stores THEN 1 ELSE 0
  /\ wb_ack = 1 => wb.cyc = 1 \/ (state = "IDLE" /\ a_ready = 0 /\ d.valid = 0)

\* Beats of the burst that the master has still to send.
Remaining ==
  IF state = "IDLE" \/ saved_a.opcode \notin Stores THEN 0
  ELSE IF state = "A_WAIT" THEN beat_count ELSE beat_count - 1

\* The counter and the master agree on them.
BurstInv ==
  PermissionsOfWords =>
    /\ state # "IDLE" => beat_count >= 1
    /\ state # "IDLE" /\ saved_a.opcode \notin Reads \cup Stores => beat_count = 1
    /\ state = "TL_RESP" /\ saved_a.opcode \in Puts => beat_count = 1
    /\ Remaining = 0 => todo \in Transactions \cup {<<>>}
    /\ Remaining > 0 =>
         /\ Len(todo) = Remaining
         /\ \A i \in 1 .. Len(todo) :
              todo[i].opcode \in (IF saved_a.opcode \in Puts THEN Puts ELSE Atomics)

\* The store of the saved request is still to be done.
Pending == gold = [mem EXCEPT ![saved_a.address] = Stored(saved_a, @)]

MemInv ==
  /\ state \in {"IDLE", "A_WAIT", "TL_RESP"} => mem = gold
  /\ state = "WB_RD_WAIT" => IF saved_a.opcode \in Reads THEN mem = gold ELSE Pending
  /\ state = "ALU" => Pending
  /\ state = "WB_WR_WAIT" => IF wb_ack = 0 THEN Pending ELSE mem = gold
  /\ state = "WB_RD_WAIT" /\ wb_ack = 1 => wb_rdt = mem[wb.adr]
  /\ state = "ALU" \/ (state = "WB_WR_WAIT" /\ saved_a.opcode \in Atomics /\ wb_ack = 0) =>
       saved_wb_dat = mem[saved_a.address]
  /\ PermissionsOfWords /\ state = "TL_RESP" /\ saved_a.opcode \in Reads =>
       saved_wb_dat = gold[get_address]

\* Responses that the adapter has not given yet, and the b-th of them.
Later ==
  IF state \in {"IDLE", "A_WAIT"} THEN 0
  ELSE IF saved_a.opcode \in Reads THEN beat_count
  ELSE IF saved_a.opcode \in Puts /\ beat_count # 1 THEN 0 ELSE 1

Old == IF state = "WB_RD_WAIT" THEN mem[saved_a.address] ELSE saved_wb_dat

Due(b) ==
  [opcode |-> Response.opcode,
   data |-> IF saved_a.opcode \in Reads THEN gold[(get_address + (b - 1)) % AdrCount]
            ELSE IF saved_a.opcode \in Atomics THEN Old ELSE 0]

\* A master that keeps d_ready high takes every response in its first clock.
OwedInv ==
  /\ owed \in Seq(Answers)
  /\ ReadyAlways /\ PermissionsOfWords =>
       /\ Len(owed) = d.valid + Later
       /\ d.valid = 1 => Head(owed) = [opcode |-> d.opcode, data |-> d.data]
       /\ \A b \in 1 .. Later : owed[d.valid + b] = Due(b)

IInv == TypeOK /\ ControlInv /\ BusInv /\ BurstInv /\ MemInv /\ OwedInv

-----------------------------------------------------------------------------
(* The operators of the model.                                             *)

\* The constants, as the proofs use them.
LEMMA Parameters ==
  /\ AdrCount \in Nat /\ AdrCount >= 1
  /\ \A t \in Transactions : t \in Seq(Beats) /\ t # <<>>
  BY BurstAssumption

\* No opcode is of two kinds.
LEMMA Kinds ==
  /\ \A op \in Puts : op \notin Atomics /\ op \notin Reads
  /\ \A op \in Atomics : op \notin Reads
  /\ \A op \in {"AcquirePerm", "Intent"} : op \notin Puts /\ op \notin Atomics /\ op \notin Reads
  /\ \A op \in Opcodes : op \in Stores \cup Reads \cup {"AcquirePerm", "Intent"}
  BY DEF Puts, Atomics, Reads, Opcodes, Stores

\* A request has at least a beat, and at most those of the largest size.
LEMMA TotalBeatsIs ==
  ASSUME NEW size \in 0 .. 7
  PROVE  TotalBeats(size) \in 1 .. Burst /\ (size <= 2 => TotalBeats(size) = 1)
<1>1. 2^1 = 2 /\ 2^2 = 4 /\ 2^3 = 8 /\ 2^4 = 16 /\ 2^5 = 32
  OBVIOUS
<1>2. 3 - 2 = 1 /\ 4 - 2 = 2 /\ 5 - 2 = 3 /\ 6 - 2 = 4 /\ 7 - 2 = 5
  OBVIOUS
<1>3. TotalBeats(0) = 1 /\ TotalBeats(1) = 1 /\ TotalBeats(2) = 1
  BY DEF TotalBeats
<1>4. TotalBeats(3) = 2 /\ TotalBeats(4) = 4
  BY <1>1, <1>2 DEF TotalBeats
<1>5. TotalBeats(5) = 8 /\ TotalBeats(6) = 16
  BY <1>1, <1>2 DEF TotalBeats
<1>6. TotalBeats(7) = 32 /\ Burst = 32
  BY <1>1, <1>2 DEF TotalBeats, Burst
<1>7. size = 0 \/ size = 1 \/ size = 2 \/ size = 3 \/ size = 4 \/ size = 5 \/ size = 6 \/ size = 7
  OBVIOUS
<1>8. QED
  BY <1>3, <1>4, <1>5, <1>6, <1>7

\* An address that is advanced word by word wraps as its sum does.
LEMMA Division ==
  ASSUME NEW A \in Nat \ {0}, NEW x \in Nat
  PROVE  x = A * (x \div A) + (x % A) /\ x % A \in 0 .. A - 1 /\ x \div A \in Nat
<1>1. x % A \in 0 .. A - 1
  OBVIOUS
<1>2. x \div A \in Int
  OBVIOUS
<1>3. x \div A >= 0
  OBVIOUS
<1>4. x = A * (x \div A) + (x % A)
  OBVIOUS
<1>5. QED
  BY <1>1, <1>2, <1>3, <1>4

\* A number is its quotient and its remainder.
LEMMA RemainderIs ==
  \A A \in Nat \ {0} : \A q, r \in Nat : r < A => (A * q + r) % A = r
  OBVIOUS

\* What is added before or after the remainder is taken comes to the same.
LEMMA WrapAround ==
  ASSUME NEW A \in Nat \ {0}, NEW g \in 0 .. A - 1, NEW b \in Nat
  PROVE  (((g + 1) % A) + b) % A = (g + (b + 1)) % A
<1>1. CASE g + 1 < A
  <2>1. (g + 1) % A = g + 1
    BY <1>1
  <2>2. QED
    BY <2>1
<1>2. CASE g + 1 = A
  <2>1. (g + 1) % A = 0
    BY <1>2
  <2> DEFINE q == b \div A
             r == b % A
  <2>2. b = A * q + r /\ r \in 0 .. A - 1 /\ q \in Nat
    BY Division
  <2> HIDE DEF q, r
  <2>3. g + (b + 1) = A * (q + 1) + r
    BY <1>2, <2>2
  <2>4. (g + (b + 1)) % A = r
    BY <2>2, <2>3, RemainderIs
  <2>5. b % A = r
    BY <2>2, RemainderIs
  <2>6. QED
    BY <2>1, <2>4, <2>5
<1>3. QED
  BY <1>1, <1>2

\* Lanes of a word make a word, and taking them twice is taking them once.
LEMMA MergeIs ==
  \A v, w \in Word, k \in SUBSET Lane :
    Merge(v, w, k) \in Word /\ Merge(v, Merge(v, w, k), k) = Merge(v, w, k)
  BY DEF Merge, Word

\* The ALU computes what the parameter of an atomic means.
LEMMA AluIs ==
  ASSUME NEW a \in Beats, NEW m \in Word
  PROVE  AluRes(a, m) = AtomicMeaning(a, m) /\ AluRes(a, m) \in Word
<1> DEFINE both == {m, a.data}
<1>a. a.data \in Word /\ a.param \in Params
  BY DEF Beats
<1>b. \A x, y \in Word : (x + 2) % 4 <= (y + 2) % 4 <=> Signed(x) <= Signed(y)
  BY DEF Word, Signed
<1>c. \A x, y \in Word : /\ Signed(x) \in Int
                         /\ (Signed(x) <= Signed(y) /\ Signed(y) <= Signed(x) => x = y)
  BY DEF Word, Signed
<1>1. CASE a.param = "MIN"
  <2> DEFINE res == IF Signed(m) < Signed(a.data) THEN m ELSE a.data
  <2>1. AluRes(a, m) = res
    BY <1>1 DEF AluRes
  <2>2. AtomicMeaning(a, m) = CHOOSE x \in both : \A y \in both : (x + 2) % 4 <= (y + 2) % 4
    BY <1>1 DEF AtomicMeaning
  <2>3. res \in both /\ \A y \in both : (res + 2) % 4 <= (y + 2) % 4
    BY <1>a, <1>b, <1>c
  <2>4. \A x \in both : (\A y \in both : (x + 2) % 4 <= (y + 2) % 4) => x = res
    BY <1>a, <1>b, <1>c
  <2> HIDE DEF res
  <2>5. (CHOOSE x \in both : \A y \in both : (x + 2) % 4 <= (y + 2) % 4) = res
    BY <2>3, <2>4
  <2>6. QED
    BY <1>a, <2>1, <2>2, <2>3, <2>5
<1>2. CASE a.param = "MAX"
  <2> DEFINE res == IF Signed(m) > Signed(a.data) THEN m ELSE a.data
  <2>1. AluRes(a, m) = res
    BY <1>2 DEF AluRes
  <2>2. AtomicMeaning(a, m) = CHOOSE x \in both : \A y \in both : (y + 2) % 4 <= (x + 2) % 4
    BY <1>2 DEF AtomicMeaning
  <2>3. res \in both /\ \A y \in both : (y + 2) % 4 <= (res + 2) % 4
    BY <1>a, <1>b, <1>c
  <2>4. \A x \in both : (\A y \in both : (y + 2) % 4 <= (x + 2) % 4) => x = res
    BY <1>a, <1>b, <1>c
  <2> HIDE DEF res
  <2>5. (CHOOSE x \in both : \A y \in both : (y + 2) % 4 <= (x + 2) % 4) = res
    BY <2>3, <2>4
  <2>6. QED
    BY <1>a, <2>1, <2>2, <2>3, <2>5
<1>3. CASE a.param = "MINU"
  <2> DEFINE res == IF m < a.data THEN m ELSE a.data
  <2>1. AluRes(a, m) = res
    BY <1>3 DEF AluRes
  <2>2. AtomicMeaning(a, m) = CHOOSE x \in both : \A y \in both : x <= y
    BY <1>3 DEF AtomicMeaning
  <2>3. res \in both /\ \A y \in both : res <= y
    BY <1>a DEF Word
  <2>4. \A x \in both : (\A y \in both : x <= y) => x = res
    BY <1>a DEF Word
  <2> HIDE DEF res
  <2>5. (CHOOSE x \in both : \A y \in both : x <= y) = res
    BY <2>3, <2>4
  <2>6. QED
    BY <1>a, <2>1, <2>2, <2>3, <2>5
<1>4. CASE a.param = "MAXU"
  <2> DEFINE res == IF m > a.data THEN m ELSE a.data
  <2>1. AluRes(a, m) = res
    BY <1>4 DEF AluRes
  <2>2. AtomicMeaning(a, m) = CHOOSE x \in both : \A y \in both : y <= x
    BY <1>4 DEF AtomicMeaning
  <2>3. res \in both /\ \A y \in both : y <= res
    BY <1>a DEF Word
  <2>4. \A x \in both : (\A y \in both : y <= x) => x = res
    BY <1>a DEF Word
  <2> HIDE DEF res
  <2>5. (CHOOSE x \in both : \A y \in both : y <= x) = res
    BY <2>3, <2>4
  <2>6. QED
    BY <1>a, <2>1, <2>2, <2>3, <2>5
<1>5. CASE a.param = "ADD"
  <2>1. AluRes(a, m) = (m + a.data) % 4
    BY <1>5 DEF AluRes
  <2>2. AtomicMeaning(a, m) = (m + a.data) % 4
    BY <1>5 DEF AtomicMeaning
  <2>3. (m + a.data) % 4 \in Word
    BY <1>a DEF Word
  <2>4. QED
    BY <2>1, <2>2, <2>3
<1>6. CASE a.param = "XOR"
  BY <1>a, <1>6 DEF AluRes, AtomicMeaning, Word, Lanewise
<1>7. CASE a.param = "OR"
  BY <1>a, <1>7 DEF AluRes, AtomicMeaning, Word, Lanewise
<1>8. CASE a.param = "AND"
  BY <1>a, <1>8 DEF AluRes, AtomicMeaning, Word, Lanewise
<1>9. CASE a.param = "SWAP"
  BY <1>a, <1>9 DEF AluRes, AtomicMeaning
<1>10. QED
  BY <1>a, <1>1, <1>2, <1>3, <1>4, <1>5, <1>6, <1>7, <1>8, <1>9 DEF Params

\* What a request leaves in its word.
LEMMA StoredIs ==
  ASSUME NEW a \in Beats, NEW m \in Word
  PROVE  /\ Stored(a, m) \in Word
         /\ a.opcode \in Puts => Stored(a, m) = Merge(m, a.data, a.mask)
         /\ a.opcode \in Atomics =>
              Stored(a, m) = Merge(m, Merge(m, AluRes(a, m), a.mask), a.mask)
         /\ a.opcode \notin Stores => Stored(a, m) = m
<1>a. a.data \in Word /\ a.mask \in SUBSET Lane
  BY DEF Beats
<1>b. AluRes(a, m) = AtomicMeaning(a, m) /\ AluRes(a, m) \in Word
  BY AluIs
<1>1. CASE a.opcode \in Puts
  <2>1. Stored(a, m) = Merge(m, a.data, a.mask)
    BY <1>1, Kinds DEF Stored
  <2>2. QED
    BY <1>1, <1>a, <2>1, MergeIs, Kinds DEF Stores
<1>2. CASE a.opcode \in Atomics
  <2>1. Stored(a, m) = Merge(m, AluRes(a, m), a.mask)
    BY <1>2, <1>b, Kinds DEF Stored
  <2>2. QED
    BY <1>2, <1>a, <1>b, <2>1, MergeIs, Kinds DEF Stores
<1>3. CASE a.opcode \notin Stores
  BY <1>3 DEF Stored, Stores
<1>4. QED
  BY <1>1, <1>2, <1>3 DEF Stores

\* What is owed for a request.
LEMMA ResponsesIs ==
  ASSUME TypeOK, NEW a \in Beats, NEW last \in BOOLEAN
  PROVE  /\ Responses(a, last) \in Seq(Answers)
         /\ a.opcode \in Reads =>
              /\ Len(Responses(a, last)) = TotalBeats(a.size)
              /\ \A b \in 1 .. TotalBeats(a.size) :
                   Responses(a, last)[b] =
                     [opcode |-> IF a.opcode = "Get" THEN "AccessAckData" ELSE "GrantData",
                      data |-> gold[(a.address + (b - 1)) % AdrCount]]
         /\ a.opcode \in Atomics =>
              Responses(a, last) = <<[opcode |-> "AccessAckData", data |-> gold[a.address]]>>
         /\ a.opcode \in Puts =>
              Responses(a, last) = IF last THEN <<[opcode |-> "AccessAck", data |-> 0]>> ELSE <<>>
         /\ a.opcode = "AcquirePerm" =>
              Responses(a, last) = <<[opcode |-> "Grant", data |-> 0]>>
         /\ a.opcode = "Intent" =>
              Responses(a, last) = <<[opcode |-> "AccessAck", data |-> 0]>>
<1>a. /\ a.opcode \in Opcodes /\ a.address \in Adr /\ TotalBeats(a.size) \in Nat
      /\ gold \in [Adr -> Word] /\ AdrCount \in Nat /\ AdrCount >= 1
  <2>1. a.size \in 0 .. 7 /\ a.opcode \in Opcodes /\ a.address \in Adr
    BY DEF Beats
  <2>2. TotalBeats(a.size) \in 1 .. Burst
    BY <2>1, TotalBeatsIs
  <2>3. Burst \in Nat
    BY DEF Burst
  <2>4. QED
    BY <2>1, <2>2, <2>3, Parameters DEF TypeOK
<1>b. \A b \in Nat : (a.address + b) % AdrCount \in Adr
  BY <1>a DEF Adr
<1>1. CASE a.opcode \in Reads
  <2> DEFINE op == IF a.opcode = "Get" THEN "AccessAckData" ELSE "GrantData"
             n == TotalBeats(a.size)
             s == [b \in 1 .. n |-> [opcode |-> op,
                                     data |-> gold[(a.address + (b - 1)) % AdrCount]]]
  <2>1. Responses(a, last) = s
    <3>1. CASE a.opcode = "Get"
      BY <3>1 DEF Responses, Atomics, Puts
    <3>2. CASE a.opcode = "AcquireBlock"
      BY <3>2 DEF Responses, Atomics, Puts
    <3>3. QED BY <1>1, <3>1, <3>2 DEF Reads
  <2>2. \A b \in 1 .. n : [opcode |-> op, data |-> gold[(a.address + (b - 1)) % AdrCount]] \in Answers
    <3>1. \A b \in 1 .. n : gold[(a.address + (b - 1)) % AdrCount] \in Word
      <4>1. \A b \in 1 .. n : b - 1 \in Nat
        BY <1>a
      <4>2. QED
        BY <1>a, <1>b, <4>1
    <3>2. QED
      BY <3>1 DEF Answers
  <2>3. n \in Nat
    BY <1>a
  <2> HIDE DEF op, n
  <2>4. s \in Seq(Answers) /\ Len(s) = n
    <3>1. s \in [1 .. n -> Answers]
      BY <2>2
    <3> HIDE DEF s
    <3>2. QED BY <2>3, <3>1
  <2>5. \A b \in 1 .. n :
          s[b] = [opcode |-> op, data |-> gold[(a.address + (b - 1)) % AdrCount]]
    OBVIOUS
  <2> HIDE DEF s
  <2>6. QED
    BY <1>1, <2>1, <2>4, <2>5, Kinds DEF op, n, Reads
<1>c. 0 \in Word /\ gold[(a.address + 0) % AdrCount] = gold[a.address] /\ gold[a.address] \in Word
  BY <1>a DEF Adr, Word
<1>d. /\ [opcode |-> "AccessAckData", data |-> gold[a.address]] \in Answers
      /\ [opcode |-> "AccessAck", data |-> 0] \in Answers
      /\ [opcode |-> "Grant", data |-> 0] \in Answers
  BY <1>c DEF Answers
<1>2. CASE a.opcode \in Atomics
  <2>1. Responses(a, last) = <<[opcode |-> "AccessAckData",
                                data |-> gold[(a.address + 0) % AdrCount]]>>
    BY <1>2, Kinds DEF Responses, Reads, Atomics
  <2>2. Responses(a, last) = <<[opcode |-> "AccessAckData", data |-> gold[a.address]]>>
    BY <1>c, <2>1
  <2>3. Responses(a, last) \in Seq(Answers)
    BY <1>d, <2>2
  <2>4. a.opcode \notin Reads \cup Puts \cup {"AcquirePerm", "Intent"}
    BY <1>2, Kinds
  <2>5. QED BY <2>2, <2>3, <2>4
<1>3. CASE a.opcode \in Puts
  <2>1. Responses(a, last) = IF last THEN <<[opcode |-> "AccessAck", data |-> 0]>> ELSE <<>>
    BY <1>3, Kinds DEF Responses, Reads, Puts
  <2>2. Responses(a, last) \in Seq(Answers)
    BY <1>d, <2>1
  <2>3. QED BY <1>3, <2>1, <2>2, Kinds DEF Puts
<1>4. CASE a.opcode \in {"AcquirePerm", "Intent"}
  <2>1. CASE a.opcode = "AcquirePerm"
    <3>1. Responses(a, last) = <<[opcode |-> "Grant", data |-> 0]>>
      BY <2>1, Kinds DEF Responses, Puts
    <3>2. Responses(a, last) \in Seq(Answers)
      BY <1>d, <3>1
    <3>3. QED BY <2>1, <3>1, <3>2, Kinds
  <2>2. CASE a.opcode = "Intent"
    <3>1. Responses(a, last) = <<[opcode |-> "AccessAck", data |-> 0]>>
      BY <2>2, Kinds DEF Responses, Puts
    <3>2. Responses(a, last) \in Seq(Answers)
      BY <1>d, <3>1
    <3>3. QED BY <2>2, <3>1, <3>2, Kinds
  <2>3. QED BY <1>4, <2>1, <2>2
<1>5. QED
  BY <1>a, <1>1, <1>2, <1>3, <1>4, Kinds DEF Stores

-----------------------------------------------------------------------------
(* What the parts of an edge do, field by field.                           *)

ChannelD == [valid : {0, 1}, data : Word,
             opcode : {"AccessAck", "AccessAckData", "Grant", "GrantData"}]
BusType  == [cyc : {0, 1}, adr : Adr, we : {0, 1}, sel : SUBSET Lane, dat : Word]

\* The state and the data of the adapter are of their types.
LEMMA Types ==
  ASSUME TypeOK
  PROVE  /\ d \in ChannelD /\ wb \in BusType /\ saved_a \in Beats /\ get_address \in Adr
         /\ saved_a.opcode \in Opcodes /\ saved_a.address \in Adr /\ saved_a.data \in Word
         /\ saved_a.mask \in SUBSET Lane /\ saved_a.size \in 0 .. 7
         /\ mem \in [Adr -> Word] /\ gold \in [Adr -> Word]
         /\ saved_wb_dat \in Word /\ wb_rdt \in Word /\ 0 \in Adr /\ 0 \in Word
         /\ wb_ack \in {0, 1} /\ a_ready \in {0, 1} /\ beat_count \in Nat
<1>1. 0 \in Adr /\ 0 \in Word
  BY Parameters DEF Adr, Word
<1>2. beat_count \in Nat
  BY DEF TypeOK, Burst
<1>3. QED
  BY <1>1, <1>2 DEF TypeOK, ChannelD, BusType, Beats

\* The defaults of the outputs.
LEMMA DefaultsAre ==
  ASSUME TypeOK
  PROVE  /\ DLow => d' \in ChannelD /\ d'.valid = 0
         /\ CycLow => wb' \in BusType /\ wb'.cyc = 0
<1>1. d \in ChannelD /\ wb \in BusType
  BY Types
<1>2. QED
  BY <1>1 DEF DLow, CycLow, ChannelD, BusType

\* The master holds a beat until it is taken, and starts only when all are.
LEMMA MasterIs ==
  ASSUME TypeOK, ControlInv, MasterEdge
  PROVE  /\ todo' \in Seq(Beats) /\ a_valid' \in {0, 1} /\ d_ready' \in {0, 1}
         /\ a_valid' = 1 => todo' # <<>>
         /\ ReadyAlways => d_ready' = 1
         /\ Accepts => todo # <<>> /\ todo' = Tail(todo) /\ Head(todo) \in Beats
         /\ ~Accepts /\ todo # <<>> => todo' = todo
         /\ ~Accepts /\ todo = <<>> => todo' \in Transactions \cup {<<>>}
<1>a. todo \in Seq(Beats) /\ (a_valid = 1 => todo # <<>>)
  BY DEF ControlInv
<1>1. Accepts => todo # <<>>
  BY <1>a DEF Accepts
<1>2. /\ Accepts => todo' = Tail(todo)
      /\ ~Accepts /\ todo # <<>> => todo' = todo
      /\ ~Accepts /\ todo = <<>> => todo' \in Transactions \cup {<<>>}
  BY DEF MasterEdge
<1>3. todo # <<>> => Tail(todo) \in Seq(Beats) /\ Head(todo) \in Beats
  BY <1>a
<1>4. todo' \in Seq(Beats)
  <2>1. <<>> \in Seq(Beats)
    OBVIOUS
  <2>2. QED
    BY <1>a, <1>1, <1>2, <1>3, <2>1, Parameters
<1>5. a_valid' \in {0, 1} /\ (a_valid' = 1 => todo' # <<>>)
  BY DEF MasterEdge
<1>6. d_ready' \in {0, 1} /\ (ReadyAlways => d_ready' = 1)
  BY DEF MasterEdge
<1>7. QED
  BY <1>1, <1>2, <1>3, <1>4, <1>5, <1>6

\* The slave answers a cycle that it has not answered.
LEMMA SlaveIs ==
  ASSUME TypeOK, SlaveEdge
  PROVE  /\ wb_ack' \in {0, 1} /\ wb_rdt' \in Word /\ mem' \in [Adr -> Word]
         /\ wb_ack' = 1 => wb.cyc = 1 /\ wb_ack = 0 /\ wb_rdt' = mem[wb.adr]
         /\ wb_ack' = 1 /\ wb.we = 1 =>
              mem' = [mem EXCEPT ![wb.adr] = Merge(mem[wb.adr], wb.dat, wb.sel)]
         /\ wb_ack' = 0 \/ wb.we = 0 => mem' = mem
<1>a. /\ wb.adr \in Adr /\ wb.we \in {0, 1} /\ wb.sel \in SUBSET Lane /\ wb.dat \in Word
      /\ mem \in [Adr -> Word] /\ wb_rdt \in Word
  BY Types DEF BusType
<1>1. CASE SlaveWaits
  BY <1>a, <1>1 DEF SlaveWaits
<1>2. CASE SlaveServes
  <2>1. /\ wb.cyc = 1 /\ wb_ack = 0 /\ wb_ack' = 1 /\ wb_rdt' = mem[wb.adr]
        /\ wb.we = 1 => mem' = [mem EXCEPT ![wb.adr] = Merge(mem[wb.adr], wb.dat, wb.sel)]
        /\ wb.we # 1 => mem' = mem
    BY <1>2 DEF SlaveServes
  <2>2. Merge(mem[wb.adr], wb.dat, wb.sel) \in Word /\ mem[wb.adr] \in Word
    BY <1>a, MergeIs
  <2>3. mem' \in [Adr -> Word]
    BY <1>a, <2>1, <2>2
  <2>4. QED
    BY <1>a, <2>1, <2>2, <2>3
<1>3. QED
  BY <1>1, <1>2 DEF SlaveEdge

\* A request is accepted, or not.
LEMMA AcceptIs ==
  ASSUME TypeOK, ControlInv, NEW next, Accept(next)
  PROVE  /\ a_ready' = IF Accepts THEN 0 ELSE 1
         /\ state' = IF Accepts THEN next ELSE state
         /\ saved_a' = IF Accepts THEN Head(todo) ELSE saved_a
         /\ saved_a' \in Beats
         /\ d' \in ChannelD /\ d'.valid = 0 /\ wb' \in BusType /\ wb'.cyc = 0
         /\ saved_wb_dat' = saved_wb_dat
<1>1. Accepts => Head(todo) \in Beats
  <2>1. Accepts => todo # <<>>
    BY DEF ControlInv, Accepts
  <2>2. todo \in Seq(Beats)
    BY DEF ControlInv
  <2>3. QED BY <2>1, <2>2
<1>2. QED
  BY <1>1, Types, DefaultsAre DEF Accept

\* In IDLE, the first beat of a request is accepted.
LEMMA IdleIs ==
  ASSUME TypeOK, ControlInv, Idle
  PROVE  /\ state = "IDLE" /\ a_ready' = IF Accepts THEN 0 ELSE 1
         /\ saved_a' \in Beats /\ d' \in ChannelD /\ d'.valid = 0 /\ wb' \in BusType /\ wb'.cyc = 0
         /\ saved_wb_dat' = saved_wb_dat
         /\ ~Accepts => /\ state' = "IDLE" /\ saved_a' = saved_a
                        /\ beat_count' = beat_count /\ get_address' = get_address
         /\ Accepts => /\ saved_a' = Head(todo) /\ beat_count' = TotalBeats(saved_a'.size)
                       /\ saved_a'.opcode \in Reads => get_address' = saved_a'.address
                       /\ saved_a'.opcode \notin Reads => get_address' = get_address
                       /\ state' = IF saved_a'.opcode \in Reads \cup Atomics THEN "WB_RD_WAIT"
                                   ELSE IF saved_a'.opcode = "AcquirePerm" THEN "TL_RESP"
                                   ELSE "WB_WR_WAIT"
<1> DEFINE next == IF Head(todo).opcode \in Reads \cup Atomics THEN "WB_RD_WAIT"
                   ELSE IF Head(todo).opcode = "AcquirePerm" THEN "TL_RESP" ELSE "WB_WR_WAIT"
<1>1. state = "IDLE" /\ Accept(next)
  BY DEF Idle
<1>2. /\ beat_count' = IF Accepts THEN TotalBeats(Head(todo).size) ELSE beat_count
      /\ get_address' = IF Accepts /\ Head(todo).opcode \in Reads
                        THEN Head(todo).address ELSE get_address
  BY DEF Idle
<1> HIDE DEF next
<1>3. /\ a_ready' = IF Accepts THEN 0 ELSE 1
      /\ state' = IF Accepts THEN next ELSE state
      /\ saved_a' = IF Accepts THEN Head(todo) ELSE saved_a
      /\ saved_a' \in Beats
      /\ d' \in ChannelD /\ d'.valid = 0 /\ wb' \in BusType /\ wb'.cyc = 0
      /\ saved_wb_dat' = saved_wb_dat
  BY <1>1, AcceptIs
<1>4. QED
  BY <1>1, <1>2, <1>3 DEF next

\* In A_WAIT, the next beat of a burst is.
LEMMA AWaitIs ==
  ASSUME TypeOK, ControlInv, AWait
  PROVE  /\ state = "A_WAIT" /\ a_ready' = IF Accepts THEN 0 ELSE 1
         /\ saved_a' \in Beats /\ d' \in ChannelD /\ d'.valid = 0 /\ wb' \in BusType /\ wb'.cyc = 0
         /\ saved_wb_dat' = saved_wb_dat /\ beat_count' = beat_count /\ get_address' = get_address
         /\ ~Accepts => state' = "A_WAIT" /\ saved_a' = saved_a
         /\ Accepts => /\ saved_a' = Head(todo)
                       /\ state' = IF saved_a'.opcode \in Atomics THEN "WB_RD_WAIT"
                                   ELSE "WB_WR_WAIT"
<1> DEFINE next == IF Head(todo).opcode \in Atomics THEN "WB_RD_WAIT" ELSE "WB_WR_WAIT"
<1>1. /\ state = "A_WAIT" /\ Accept(next)
      /\ beat_count' = beat_count /\ get_address' = get_address
  BY DEF AWait
<1> HIDE DEF next
<1>2. /\ a_ready' = IF Accepts THEN 0 ELSE 1
      /\ state' = IF Accepts THEN next ELSE state
      /\ saved_a' = IF Accepts THEN Head(todo) ELSE saved_a
      /\ saved_a' \in Beats
      /\ d' \in ChannelD /\ d'.valid = 0 /\ wb' \in BusType /\ wb'.cyc = 0
      /\ saved_wb_dat' = saved_wb_dat
  BY <1>1, AcceptIs
<1>3. QED
  BY <1>1, <1>2 DEF next

\* The read cycle lasts until its ack.
LEMMA ReadIs ==
  ASSUME TypeOK, WbRdWait
  PROVE  /\ state = "WB_RD_WAIT" /\ a_ready' = 0 /\ d' \in ChannelD /\ d'.valid = 0
         /\ wb' \in BusType /\ wb'.cyc = 1 - wb_ack /\ wb'.we = 0
         /\ wb'.adr = IF saved_a.opcode \in Reads THEN get_address ELSE saved_a.address
         /\ saved_a' = saved_a /\ beat_count' = beat_count /\ get_address' = get_address
         /\ wb_ack = 0 => state' = "WB_RD_WAIT" /\ saved_wb_dat' = saved_wb_dat
         /\ wb_ack = 1 => /\ saved_wb_dat' = wb_rdt
                          /\ state' = IF saved_a.opcode \in Reads THEN "TL_RESP" ELSE "ALU"
<1> DEFINE cyc == 1 - wb_ack
           adr == IF saved_a.opcode \in Reads THEN get_address ELSE saved_a.address
<1>1. /\ state = "WB_RD_WAIT" /\ a_ready' = 0 /\ DLow
      /\ wb' = [wb EXCEPT !.cyc = cyc, !.we = 0, !.sel = Lane, !.adr = adr]
      /\ saved_a' = saved_a /\ beat_count' = beat_count /\ get_address' = get_address
      /\ saved_wb_dat' = IF wb_ack = 1 THEN wb_rdt ELSE saved_wb_dat
      /\ state' = IF wb_ack = 0 THEN state ELSE IF saved_a.opcode \in Reads THEN "TL_RESP" ELSE "ALU"
  BY DEF WbRdWait, WbRdWaitWith
<1>2. cyc \in {0, 1} /\ adr \in Adr /\ wb \in BusType /\ wb_ack \in {0, 1}
  BY Types
<1>3. d' \in ChannelD /\ d'.valid = 0
  BY <1>1, DefaultsAre
<1> HIDE DEF cyc, adr
<1>4. wb' \in BusType /\ wb'.cyc = cyc /\ wb'.we = 0 /\ wb'.adr = adr
  BY <1>1, <1>2 DEF BusType
<1>5. QED
  BY <1>1, <1>2, <1>3, <1>4 DEF cyc, adr

\* The word that is computed is stored next.
LEMMA AluEdgeIs ==
  ASSUME TypeOK, Alu
  PROVE  /\ state = "ALU" /\ state' = "WB_WR_WAIT" /\ a_ready' = 0
         /\ d' \in ChannelD /\ d'.valid = 0 /\ wb' \in BusType /\ wb'.cyc = 0
         /\ saved_a' = saved_a /\ saved_wb_dat' = saved_wb_dat
         /\ beat_count' = beat_count /\ get_address' = get_address
  BY DefaultsAre DEF Alu

\* What is written is a word.
LEMMA WriteDataIs ==
  ASSUME TypeOK
  PROVE  WriteData \in Word
<1>1. AluRes(saved_a, saved_wb_dat) \in Word
  BY Types, AluIs
<1>2. QED
  BY <1>1, Types, MergeIs DEF WriteData

\* The write cycle lasts until its ack; a Put burst goes on without a response.
LEMMA WriteIs ==
  ASSUME TypeOK, WbWrWait
  PROVE  /\ state = "WB_WR_WAIT" /\ a_ready' = 0 /\ d' \in ChannelD /\ d'.valid = 0
         /\ wb' \in BusType /\ wb'.cyc = 1 - wb_ack /\ wb'.adr = saved_a.address
         /\ wb'.sel = saved_a.mask /\ wb'.dat = WriteData
         /\ wb'.we = IF saved_a.opcode \in Stores THEN 1 ELSE 0
         /\ saved_a' = saved_a /\ get_address' = get_address
         /\ saved_wb_dat' \in Word
         /\ wb_ack = 0 \/ saved_a.opcode \in Atomics => saved_wb_dat' = saved_wb_dat
         /\ wb_ack = 0 => state' = "WB_WR_WAIT" /\ beat_count' = beat_count
         /\ wb_ack = 1 /\ saved_a.opcode \in Puts /\ beat_count > 1 =>
              state' = "A_WAIT" /\ beat_count' = beat_count - 1
         /\ wb_ack = 1 /\ ~(saved_a.opcode \in Puts /\ beat_count > 1) =>
              state' = "TL_RESP" /\ beat_count' = beat_count
<1> DEFINE more == saved_a.opcode \in Puts /\ beat_count > 1
           we == IF saved_a.opcode \in Atomics \cup Puts THEN 1 ELSE 0
           cyc == 1 - wb_ack
<1>1. /\ state = "WB_WR_WAIT" /\ a_ready' = 0 /\ DLow
      /\ wb' = [cyc |-> cyc, adr |-> saved_a.address, sel |-> saved_a.mask,
                dat |-> WriteData, we |-> we]
      /\ saved_a' = saved_a /\ get_address' = get_address
      /\ saved_wb_dat' = IF wb_ack = 1 /\ saved_a.opcode \notin Atomics
                         THEN wb_rdt ELSE saved_wb_dat
      /\ beat_count' = IF wb_ack = 1 /\ more THEN beat_count - 1 ELSE beat_count
      /\ state' = IF wb_ack = 0 THEN state ELSE IF more THEN "A_WAIT" ELSE "TL_RESP"
  BY DEF WbWrWait, WbWrWaitWith
<1>2. /\ cyc \in {0, 1} /\ we \in {0, 1} /\ saved_a.address \in Adr /\ saved_a.mask \in SUBSET Lane
      /\ WriteData \in Word /\ wb_ack \in {0, 1} /\ saved_wb_dat \in Word /\ wb_rdt \in Word
  BY Types, WriteDataIs
<1>3. d' \in ChannelD /\ d'.valid = 0
  BY <1>1, DefaultsAre
<1>4. we = IF saved_a.opcode \in Stores THEN 1 ELSE 0
  BY DEF Stores
<1> HIDE DEF cyc, we
<1>5. /\ wb' \in BusType /\ wb'.cyc = cyc /\ wb'.adr = saved_a.address /\ wb'.sel = saved_a.mask
      /\ wb'.dat = WriteData /\ wb'.we = we
  BY <1>1, <1>2 DEF BusType
<1>6. /\ saved_wb_dat' \in Word
      /\ wb_ack = 0 \/ saved_a.opcode \in Atomics => saved_wb_dat' = saved_wb_dat
  BY <1>1, <1>2
<1>7. /\ wb_ack = 0 => state' = "WB_WR_WAIT" /\ beat_count' = beat_count
      /\ wb_ack = 1 /\ more => state' = "A_WAIT" /\ beat_count' = beat_count - 1
      /\ wb_ack = 1 /\ ~more => state' = "TL_RESP" /\ beat_count' = beat_count
  BY <1>1, <1>2
<1>8. QED
  BY <1>1, <1>3, <1>4, <1>5, <1>6, <1>7 DEF cyc

\* The opcode of a response and its data.
LEMMA ResponseIs ==
  ASSUME TypeOK
  PROVE  /\ Response.opcode \in {"AccessAck", "AccessAckData", "Grant", "GrantData"}
         /\ Response.data = IF saved_a.opcode \in Reads \cup Atomics THEN saved_wb_dat ELSE 0
         /\ Response.data \in Word
         /\ saved_a.opcode \in Reads =>
              Response.opcode = IF saved_a.opcode = "Get" THEN "AccessAckData" ELSE "GrantData"
         /\ saved_a.opcode \in Atomics => Response.opcode = "AccessAckData"
         /\ saved_a.opcode \in Puts \cup {"Intent"} => Response.opcode = "AccessAck"
         /\ saved_a.opcode = "AcquirePerm" => Response.opcode = "Grant"
<1>a. saved_wb_dat \in Word /\ 0 \in Word
  BY Types
<1>1. /\ Response.opcode = CASE saved_a.opcode = "AcquireBlock" -> "GrantData"
                             [] saved_a.opcode = "AcquirePerm"  -> "Grant"
                             [] saved_a.opcode \in Atomics \cup {"Get"} -> "AccessAckData"
                             [] OTHER -> "AccessAck"
      /\ Response.data = IF saved_a.opcode \in Reads \cup Atomics THEN saved_wb_dat ELSE 0
  BY DEF Response
<1>2. CASE saved_a.opcode \in Reads
  BY <1>a, <1>1, <1>2 DEF Reads, Atomics, Puts
<1>3. CASE saved_a.opcode \in Atomics
  BY <1>a, <1>1, <1>3 DEF Reads, Atomics, Puts
<1>4. CASE saved_a.opcode \in Puts \cup {"Intent"}
  BY <1>a, <1>1, <1>4 DEF Reads, Atomics, Puts
<1>5. CASE saved_a.opcode = "AcquirePerm"
  BY <1>a, <1>1, <1>5 DEF Reads, Atomics, Puts
<1>6. QED
  BY <1>2, <1>3, <1>4, <1>5, Types, Kinds DEF Stores

\* The response is given, and the burst goes on when d_ready is high.
LEMMA RespIs ==
  ASSUME TypeOK, TlResp
  PROVE  /\ state = "TL_RESP" /\ a_ready' = 0 /\ wb' \in BusType /\ wb'.cyc = 0
         /\ d' \in ChannelD /\ d'.valid = 1
         /\ d'.opcode = Response.opcode /\ d'.data = Response.data
         /\ saved_a' = saved_a /\ saved_wb_dat' = saved_wb_dat
         /\ d_ready = 0 => /\ state' = "TL_RESP" /\ beat_count' = beat_count
                           /\ get_address' = get_address
         /\ d_ready = 1 /\ (saved_a.opcode \in Puts \/ beat_count <= 1) =>
              state' = "IDLE" /\ beat_count' = beat_count /\ get_address' = get_address
         /\ d_ready = 1 /\ saved_a.opcode \notin Puts /\ beat_count > 1 =>
              /\ beat_count' = beat_count - 1
              /\ IF saved_a.opcode \in Reads
                 THEN state' = "WB_RD_WAIT" /\ get_address' = (get_address + 1) % AdrCount
                 ELSE state' = "A_WAIT" /\ get_address' = get_address
<1> DEFINE next == saved_a.opcode \notin Puts /\ beat_count > 1
           op == Response.opcode
           data == Response.data
<1>1. /\ state = "TL_RESP" /\ a_ready' = 0 /\ CycLow
      /\ d' = [valid |-> 1, opcode |-> op, data |-> data]
      /\ saved_a' = saved_a /\ saved_wb_dat' = saved_wb_dat
      /\ beat_count' = IF d_ready = 1 /\ next THEN beat_count - 1 ELSE beat_count
      /\ get_address' = IF (d_ready = 1 /\ next) /\ saved_a.opcode \in Reads
                        THEN (get_address + 1) % AdrCount ELSE get_address
      /\ state' = IF d_ready = 0 THEN state
                  ELSE IF ~next THEN "IDLE"
                  ELSE IF saved_a.opcode \in Reads THEN "WB_RD_WAIT" ELSE "A_WAIT"
  BY DEF TlResp, TlRespWith
<1>2. wb' \in BusType /\ wb'.cyc = 0
  BY <1>1, DefaultsAre
<1>3. op \in {"AccessAck", "AccessAckData", "Grant", "GrantData"} /\ data \in Word
  BY ResponseIs
<1>4. beat_count \in Nat
  BY Types
<1> HIDE DEF op, data
<1>5. d' \in ChannelD /\ d'.valid = 1 /\ d'.opcode = op /\ d'.data = data
  BY <1>1, <1>3 DEF ChannelD
<1>6. next <=> saved_a.opcode \notin Puts /\ ~(beat_count <= 1)
  BY <1>4
<1> HIDE DEF next
<1>7. /\ d_ready = 0 => /\ state' = "TL_RESP" /\ beat_count' = beat_count
                        /\ get_address' = get_address
      /\ d_ready = 1 /\ ~next =>
           state' = "IDLE" /\ beat_count' = beat_count /\ get_address' = get_address
      /\ d_ready = 1 /\ next =>
           /\ beat_count' = beat_count - 1
           /\ IF saved_a.opcode \in Reads
              THEN state' = "WB_RD_WAIT" /\ get_address' = (get_address + 1) % AdrCount
              ELSE state' = "A_WAIT" /\ get_address' = get_address
  BY <1>1
<1>8. QED
  BY <1>1, <1>2, <1>4, <1>5, <1>6, <1>7 DEF op, data, next

\* What is owed once the master has taken the response of this edge.
Rest == IF Taken /\ owed # <<>> THEN Tail(owed) ELSE owed

\* An accepted request takes effect on the memory that is meant, and is owed
\* its responses.
LEMMA HistoryIs ==
  ASSUME TypeOK, ControlInv, HistoryEdge
  PROVE  /\ gold' \in [Adr -> Word]
         /\ ~Accepts => gold' = gold /\ owed' = Rest
         /\ Accepts =>
              /\ gold' = [gold EXCEPT ![Head(todo).address] =
                            Stored(Head(todo), gold[Head(todo).address])]
              /\ owed' = Rest \o Responses(Head(todo), Len(todo) = 1)
<1>1. ~Accepts => gold' = gold /\ owed' = Rest
  BY DEF HistoryEdge, Rest
<1>2. Accepts =>
        /\ gold' = [gold EXCEPT ![Head(todo).address] =
                      Stored(Head(todo), gold[Head(todo).address])]
        /\ owed' = Rest \o Responses(Head(todo), Len(todo) = 1)
  BY DEF HistoryEdge, Rest
<1>3. gold \in [Adr -> Word]
  BY Types
<1>4. ASSUME Accepts PROVE gold' \in [Adr -> Word]
  <2>1. todo # <<>> /\ todo \in Seq(Beats)
    BY <1>4 DEF ControlInv, Accepts
  <2>2. Head(todo) \in Beats
    BY <2>1
  <2>3. Head(todo).address \in Adr
    BY <2>2 DEF Beats
  <2>4. Stored(Head(todo), gold[Head(todo).address]) \in Word
    BY <1>3, <2>2, <2>3, StoredIs
  <2>5. QED
    BY <1>2, <1>3, <1>4, <2>3, <2>4
<1>5. QED
  BY <1>1, <1>2, <1>3, <1>4

\* Only the two states that wait for a request accept one.
LEMMA AcceptsIn ==
  ASSUME ControlInv, Accepts
  PROVE  state \in {"IDLE", "A_WAIT"} /\ d.valid = 0
  BY DEF Accepts, ControlInv

\* An edge finds the adapter in one of its states.
LEMMA EdgeIs ==
  ASSUME Edge
  PROVE  /\ MasterEdge /\ SlaveEdge /\ HistoryEdge
         /\ Idle \/ AWait \/ WbRdWait \/ Alu \/ WbWrWait \/ TlResp
  BY DEF Edge, AdapterEdge

\* A reset, field by field.
LEMMA ResetIs ==
  ASSUME TypeOK, Reset
  PROVE  /\ todo' = <<>> /\ a_valid' = 0 /\ d_ready' = d_ready
         /\ state' = "IDLE" /\ beat_count' = 0 /\ a_ready' = 0
         /\ d' \in ChannelD /\ d'.valid = 0 /\ wb' \in BusType /\ wb'.cyc = 0
         /\ saved_a' = saved_a /\ saved_wb_dat' = saved_wb_dat /\ get_address' = get_address
         /\ SlaveEdge /\ gold' = mem' /\ owed' = <<>>
<1>1. /\ todo' = <<>> /\ a_valid' = 0 /\ d_ready' = d_ready
      /\ state' = "IDLE" /\ beat_count' = 0 /\ a_ready' = 0 /\ d' = NoD /\ wb' = NoBus
      /\ saved_a' = saved_a /\ saved_wb_dat' = saved_wb_dat /\ get_address' = get_address
      /\ SlaveEdge /\ gold' = mem' /\ owed' = <<>>
  BY DEF Reset, ResetAdapter
<1>2. NoD \in ChannelD /\ NoD.valid = 0 /\ NoBus \in BusType /\ NoBus.cyc = 0
  BY Types DEF NoD, NoBus, ChannelD, BusType
<1>3. QED
  BY <1>1, <1>2

-----------------------------------------------------------------------------
(* The invariant is inductive.                                             *)

\* Registers keep their types.
LEMMA TypeKept ==
  ASSUME TypeOK, ControlInv, Next
  PROVE  TypeOK'
<1> DEFINE States == {"IDLE", "A_WAIT", "WB_RD_WAIT", "ALU", "WB_WR_WAIT", "TL_RESP"}
<1>a. /\ state \in States /\ saved_a \in Beats /\ saved_wb_dat \in Word /\ wb_rdt \in Word
      /\ beat_count \in 0 .. Burst /\ get_address \in Adr
      /\ a_valid \in {0, 1} /\ d_ready \in {0, 1} /\ wb_ack \in {0, 1} /\ Burst \in Nat
  BY DEF TypeOK, Burst
<1>b. AdrCount \in Nat /\ AdrCount >= 1 /\ Adr = 0 .. AdrCount - 1
  BY Parameters DEF Adr
<1>1. CASE Edge
  <2>1. /\ a_valid' \in {0, 1} /\ d_ready' \in {0, 1}
        /\ wb_ack' \in {0, 1} /\ wb_rdt' \in Word /\ mem' \in [Adr -> Word]
        /\ gold' \in [Adr -> Word]
    BY <1>1, EdgeIs, MasterIs, SlaveIs, HistoryIs
  <2>2. /\ state' \in States /\ saved_a' \in Beats /\ saved_wb_dat' \in Word
        /\ beat_count' \in 0 .. Burst /\ get_address' \in Adr /\ a_ready' \in {0, 1}
        /\ d' \in ChannelD /\ wb' \in BusType
    <3>1. CASE Idle
      <4>1. /\ a_ready' = IF Accepts THEN 0 ELSE 1
            /\ saved_a' \in Beats /\ d' \in ChannelD /\ wb' \in BusType
            /\ saved_wb_dat' = saved_wb_dat
            /\ ~Accepts => /\ state' = "IDLE" /\ beat_count' = beat_count
                           /\ get_address' = get_address
            /\ Accepts => /\ beat_count' = TotalBeats(saved_a'.size)
                          /\ saved_a'.opcode \in Reads => get_address' = saved_a'.address
                          /\ saved_a'.opcode \notin Reads => get_address' = get_address
                          /\ state' \in {"WB_RD_WAIT", "TL_RESP", "WB_WR_WAIT"}
        BY <3>1, IdleIs
      <4>2. saved_a'.size \in 0 .. 7 /\ saved_a'.address \in Adr
        BY <4>1 DEF Beats
      <4>3. TotalBeats(saved_a'.size) \in 0 .. Burst
        <5>1. TotalBeats(saved_a'.size) \in 1 .. Burst
          BY <4>2, TotalBeatsIs
        <5>2. QED BY <1>a, <5>1
      <4>4. QED
        BY <1>a, <4>1, <4>2, <4>3
    <3>2. CASE AWait
      BY <1>a, <3>2, AWaitIs
    <3>3. CASE WbRdWait
      BY <1>a, <3>3, ReadIs
    <3>4. CASE Alu
      BY <1>a, <3>4, AluEdgeIs
    <3>5. CASE WbWrWait
      <4>1. /\ a_ready' = 0 /\ d' \in ChannelD /\ wb' \in BusType
            /\ saved_a' = saved_a /\ get_address' = get_address /\ saved_wb_dat' \in Word
            /\ state' \in States
            /\ beat_count' = beat_count \/ (beat_count > 1 /\ beat_count' = beat_count - 1)
        BY <1>a, <3>5, WriteIs
      <4>2. beat_count' \in 0 .. Burst
        BY <1>a, <4>1
      <4>3. QED BY <1>a, <4>1, <4>2
    <3>6. CASE TlResp
      <4>1. /\ a_ready' = 0 /\ d' \in ChannelD /\ wb' \in BusType
            /\ saved_a' = saved_a /\ saved_wb_dat' = saved_wb_dat
            /\ state' \in States
            /\ beat_count' = beat_count \/ (beat_count > 1 /\ beat_count' = beat_count - 1)
            /\ get_address' = get_address \/ get_address' = (get_address + 1) % AdrCount
        <5>1. beat_count <= 1 \/ beat_count > 1
          BY <1>a
        <5>2. QED BY <1>a, <3>6, <5>1, RespIs
      <4>2. beat_count' \in 0 .. Burst
        BY <1>a, <4>1
      <4>3. get_address' \in Adr
        <5>1. (get_address + 1) % AdrCount \in 0 .. AdrCount - 1
          BY <1>a, <1>b
        <5>2. QED BY <1>a, <1>b, <4>1, <5>1
      <4>4. QED BY <1>a, <4>1, <4>2, <4>3
    <3>7. QED
      BY <1>1, <3>1, <3>2, <3>3, <3>4, <3>5, <3>6, EdgeIs
  <2>3. QED
    BY <2>1, <2>2 DEF TypeOK, ChannelD, BusType
<1>2. CASE Reset
  <2>1. /\ wb_ack' \in {0, 1} /\ wb_rdt' \in Word /\ mem' \in [Adr -> Word]
    BY <1>2, ResetIs, SlaveIs
  <2>2. /\ a_valid' = 0 /\ d_ready' = d_ready
        /\ state' = "IDLE" /\ beat_count' = 0 /\ a_ready' = 0
        /\ d' \in ChannelD /\ wb' \in BusType
        /\ saved_a' = saved_a /\ saved_wb_dat' = saved_wb_dat /\ get_address' = get_address
        /\ gold' = mem'
    BY <1>2, ResetIs
  <2>3. 0 \in 0 .. Burst
    BY <1>a
  <2>4. QED
    BY <1>a, <2>1, <2>2, <2>3 DEF TypeOK, ChannelD, BusType
<1>3. QED
  BY <1>1, <1>2 DEF Next

\* The beat that A_WAIT takes is one of the burst.
LEMMA NextBeat ==
  ASSUME TypeOK, ControlInv, BurstInv, PermissionsOfWords, state = "A_WAIT"
  PROVE  /\ beat_count \in Nat /\ beat_count >= 1 /\ Len(todo) = beat_count /\ todo # <<>>
         /\ Head(todo).opcode \in (IF saved_a.opcode \in Puts THEN Puts ELSE Atomics)
         /\ \A i \in 1 .. Len(todo) :
              todo[i].opcode \in (IF saved_a.opcode \in Puts THEN Puts ELSE Atomics)
<1>1. beat_count \in Nat /\ beat_count >= 1 /\ Remaining = beat_count
  BY Types DEF ControlInv, BurstInv, Remaining
<1>2. /\ Len(todo) = beat_count
      /\ \A i \in 1 .. Len(todo) :
           todo[i].opcode \in (IF saved_a.opcode \in Puts THEN Puts ELSE Atomics)
  BY <1>1 DEF BurstInv
<1>3. todo \in Seq(Beats)
  BY DEF ControlInv
<1>4. todo # <<>> /\ Head(todo) = todo[1] /\ 1 \in 1 .. Len(todo)
  BY <1>1, <1>2, <1>3
<1>5. QED
  BY <1>1, <1>2, <1>4

\* State, outputs and request fit after every edge.
LEMMA ControlKept ==
  ASSUME TypeOK, ControlInv, BurstInv, Next
  PROVE  ControlInv'
<1>1. CASE Edge
  <2>1. /\ todo' \in Seq(Beats) /\ (a_valid' = 1 => todo' # <<>>)
        /\ ReadyAlways => d_ready' = 1
    BY <1>1, EdgeIs, MasterIs
  <2> SUFFICES
        /\ a_ready' = 1 => state' \in {"IDLE", "A_WAIT"} /\ d'.valid = 0
        /\ state' \in {"ALU", "WB_WR_WAIT"} \/ (ReadyAlways /\ state' = "TL_RESP") => d'.valid = 0
        /\ state' = "WB_RD_WAIT" => saved_a'.opcode \in Reads \cup Atomics
        /\ state' = "WB_RD_WAIT" /\ d'.valid = 1 => saved_a'.opcode \in Reads /\ wb'.cyc = 0
        /\ state' = "ALU" => saved_a'.opcode \in Atomics
        /\ PermissionsOfWords =>
             /\ state' = "A_WAIT" => saved_a'.opcode \in Stores
             /\ state' = "WB_WR_WAIT" => saved_a'.opcode \in Stores \cup {"Intent"}
    BY <2>1 DEF ControlInv
  <2>a. /\ state = "WB_RD_WAIT" => saved_a.opcode \in Reads \cup Atomics
        /\ state = "ALU" => saved_a.opcode \in Atomics
        /\ PermissionsOfWords =>
             /\ state = "A_WAIT" => saved_a.opcode \in Stores
             /\ state = "WB_WR_WAIT" => saved_a.opcode \in Stores \cup {"Intent"}
        /\ ReadyAlways => d_ready = 1
    BY DEF ControlInv
  <2>b. \A op \in Atomics : op \in Stores
    BY DEF Stores
  <2>2. CASE Idle
    <3>1. /\ a_ready' = IF Accepts THEN 0 ELSE 1
          /\ saved_a' \in Beats /\ d'.valid = 0
          /\ ~Accepts => state' = "IDLE"
          /\ Accepts =>
               state' = IF saved_a'.opcode \in Reads \cup Atomics THEN "WB_RD_WAIT"
                        ELSE IF saved_a'.opcode = "AcquirePerm" THEN "TL_RESP" ELSE "WB_WR_WAIT"
      BY <2>2, IdleIs
    <3>2. saved_a'.opcode \in Opcodes
      BY <3>1 DEF Beats
    <3>3. QED
      BY <3>1, <3>2, Kinds DEF Stores
  <2>3. CASE AWait
    <3>1. /\ state = "A_WAIT" /\ a_ready' = IF Accepts THEN 0 ELSE 1
          /\ d'.valid = 0
          /\ ~Accepts => state' = "A_WAIT" /\ saved_a' = saved_a
          /\ Accepts => /\ saved_a' = Head(todo)
                        /\ state' = IF saved_a'.opcode \in Atomics THEN "WB_RD_WAIT"
                                    ELSE "WB_WR_WAIT"
      BY <2>3, AWaitIs
    <3>2. PermissionsOfWords => Head(todo).opcode \in Stores
      BY <3>1, NextBeat DEF Stores
    <3>3. QED
      BY <2>a, <3>1, <3>2
  <2>4. CASE WbRdWait
    <3>1. /\ state = "WB_RD_WAIT" /\ a_ready' = 0 /\ d'.valid = 0 /\ saved_a' = saved_a
          /\ wb_ack = 0 => state' = "WB_RD_WAIT"
          /\ wb_ack = 1 => state' = IF saved_a.opcode \in Reads THEN "TL_RESP" ELSE "ALU"
      BY <2>4, ReadIs
    <3>2. wb_ack \in {0, 1}
      BY Types
    <3>3. QED
      BY <2>a, <3>1, <3>2
  <2>5. CASE Alu
    <3>1. /\ state = "ALU" /\ state' = "WB_WR_WAIT" /\ a_ready' = 0 /\ d'.valid = 0
          /\ saved_a' = saved_a
      BY <2>5, AluEdgeIs
    <3>2. QED
      BY <2>a, <2>b, <3>1
  <2>6. CASE WbWrWait
    <3>1. /\ state = "WB_WR_WAIT" /\ a_ready' = 0 /\ d'.valid = 0 /\ saved_a' = saved_a
          /\ wb_ack = 0 => state' = "WB_WR_WAIT"
          /\ wb_ack = 1 => \/ state' = "A_WAIT" /\ saved_a.opcode \in Puts
                           \/ state' = "TL_RESP"
      BY <2>6, WriteIs
    <3>2. wb_ack \in {0, 1}
      BY Types
    <3>3. QED
      BY <2>a, <3>1, <3>2 DEF Stores
  <2>7. CASE TlResp
    <3>1. /\ state = "TL_RESP" /\ a_ready' = 0 /\ wb'.cyc = 0 /\ saved_a' = saved_a
          /\ \/ d_ready = 0 /\ state' = "TL_RESP"
             \/ state' = "IDLE"
             \/ saved_a.opcode \in Reads /\ state' = "WB_RD_WAIT"
             \/ /\ saved_a.opcode \notin Puts \cup Reads /\ beat_count > 1
                /\ state' = "A_WAIT"
      <4>1. d_ready \in {0, 1} /\ (beat_count <= 1 \/ beat_count > 1)
        BY Types DEF TypeOK
      <4>2. QED BY <2>7, <4>1, RespIs
    <3>2. PermissionsOfWords => saved_a.opcode \in Reads \cup Stores \/ ~(beat_count > 1)
      BY <3>1 DEF BurstInv
    <3>3. QED
      BY <2>a, <3>1, <3>2 DEF Stores
  <2>8. QED
    BY <1>1, <2>2, <2>3, <2>4, <2>5, <2>6, <2>7, EdgeIs
<1>2. CASE Reset
  <2>1. /\ todo' = <<>> /\ a_valid' = 0 /\ d_ready' = d_ready
        /\ state' = "IDLE" /\ a_ready' = 0 /\ d'.valid = 0
    BY <1>2, ResetIs
  <2>2. <<>> \in Seq(Beats) /\ (ReadyAlways => d_ready = 1)
    BY DEF ControlInv
  <2>3. QED
    BY <2>1, <2>2 DEF ControlInv
<1>3. QED
  BY <1>1, <1>2 DEF Next

\* A bus cycle stays as it began until its ack.
LEMMA BusKept ==
  ASSUME TypeOK, ControlInv, BusInv, Next
  PROVE  BusInv'
<1>a. wb_ack \in {0, 1} /\ wb_ack' \in {0, 1}
  BY TypeKept, Types DEF TypeOK
<1>b. /\ wb_ack = 1 => wb.cyc = 1 \/ (state = "IDLE" /\ a_ready = 0 /\ d.valid = 0)
      /\ wb.cyc = 1 => state \in {"WB_RD_WAIT", "WB_WR_WAIT"}
  BY DEF BusInv
<1>1. wb_ack' = 1 => wb.cyc = 1 /\ wb_ack = 0
  BY SlaveIs, EdgeIs, ResetIs DEF Next
<1>2. CASE Reset
  <2>1. state' = "IDLE" /\ a_ready' = 0 /\ d'.valid = 0 /\ wb'.cyc = 0
    BY <1>2, ResetIs
  <2>2. QED
    BY <2>1 DEF BusInv
<1>3. CASE Edge
  <2>1. CASE Idle \/ AWait \/ Alu \/ TlResp
    <3>1. wb'.cyc = 0 /\ state \notin {"WB_RD_WAIT", "WB_WR_WAIT"}
      BY <2>1, IdleIs, AWaitIs, AluEdgeIs, RespIs
    <3>2. wb_ack' # 1
      BY <1>b, <1>1, <3>1
    <3>3. QED
      BY <3>1, <3>2 DEF BusInv
  <2>2. CASE WbRdWait
    <3>1. /\ state = "WB_RD_WAIT"
          /\ wb'.cyc = 1 - wb_ack /\ wb'.we = 0
          /\ wb'.adr = IF saved_a.opcode \in Reads THEN get_address ELSE saved_a.address
          /\ saved_a' = saved_a /\ get_address' = get_address
          /\ wb_ack = 0 => state' = "WB_RD_WAIT"
      BY <2>2, ReadIs
    <3>2. wb_ack' = 1 => wb'.cyc = 1
      BY <1>1, <3>1
    <3>3. wb'.cyc = 1 => state' = "WB_RD_WAIT"
      BY <1>a, <3>1
    <3>4. QED
      BY <3>1, <3>2, <3>3 DEF BusInv
  <2>3. CASE WbWrWait
    <3>1. /\ wb'.cyc = 1 - wb_ack /\ wb'.adr = saved_a.address
          /\ wb'.sel = saved_a.mask /\ wb'.dat = WriteData
          /\ wb'.we = IF saved_a.opcode \in Stores THEN 1 ELSE 0
          /\ saved_a' = saved_a
          /\ wb_ack = 0 => state' = "WB_WR_WAIT" /\ saved_wb_dat' = saved_wb_dat
      BY <2>3, WriteIs
    <3>2. wb_ack' = 1 => wb'.cyc = 1
      BY <1>1, <3>1
    <3>3. wb'.cyc = 1 => state' = "WB_WR_WAIT" /\ saved_wb_dat' = saved_wb_dat
      BY <1>a, <3>1
    <3>4. wb'.cyc = 1 => WriteData' = WriteData
      BY <3>1, <3>3 DEF WriteData
    <3>5. QED
      BY <3>1, <3>2, <3>3, <3>4 DEF BusInv
  <2>4. QED
    BY <1>3, <2>1, <2>2, <2>3, EdgeIs
<1>4. QED
  BY <1>2, <1>3 DEF Next

\* What is left of a sequence after its head.
LEMMA TailIs ==
  ASSUME NEW S, NEW s \in Seq(S), s # <<>>
  PROVE  /\ Len(Tail(s)) = Len(s) - 1 /\ Len(s) >= 1 /\ Len(s) \in Nat
         /\ Len(s) = 1 => Tail(s) = <<>>
         /\ \A i \in 1 .. Len(Tail(s)) : i + 1 \in 1 .. Len(s) /\ Tail(s)[i] = s[i + 1]
<1>1. Len(s) \in Nat /\ Len(s) # 0
  OBVIOUS
<1>2. Tail(s) \in Seq(S) /\ Len(Tail(s)) = Len(s) - 1
  OBVIOUS
<1>3. \A i \in 1 .. Len(Tail(s)) : i + 1 \in 1 .. Len(s) /\ Tail(s)[i] = s[i + 1]
  BY <1>1, <1>2
<1>4. ASSUME NEW t \in Seq(S), Len(t) = 0 PROVE t = <<>>
  BY <1>4
<1>5. QED
  BY <1>1, <1>2, <1>3, <1>4

\* The counter and the master agree on the beats of a burst.
LEMMA BurstKept ==
  ASSUME TypeOK, ControlInv, BurstInv, Next
  PROVE  BurstInv'
<1> SUFFICES ASSUME PermissionsOfWords PROVE BurstInv'
  BY DEF BurstInv
<1> DEFINE Same(op) == IF op \in Puts THEN Puts ELSE Atomics
<1>a. /\ beat_count \in Nat /\ todo \in Seq(Beats) /\ wb_ack \in {0, 1} /\ d_ready \in {0, 1}
      /\ saved_a.opcode \in Opcodes
  BY Types DEF ControlInv, TypeOK
<1>b. /\ state # "IDLE" => beat_count >= 1
      /\ state # "IDLE" /\ saved_a.opcode \notin Reads \cup Stores => beat_count = 1
      /\ state = "TL_RESP" /\ saved_a.opcode \in Puts => beat_count = 1
      /\ Remaining = 0 => todo \in Transactions \cup {<<>>}
      /\ Remaining > 0 => Len(todo) = Remaining
                          /\ \A i \in 1 .. Len(todo) : todo[i].opcode \in Same(saved_a.opcode)
  BY DEF BurstInv
<1>1. CASE Reset
  <2>1. todo' = <<>> /\ state' = "IDLE"
    BY <1>1, ResetIs
  <2>2. Remaining' = 0
    BY <2>1 DEF Remaining
  <2>3. QED
    BY <2>1, <2>2 DEF BurstInv
<1>2. CASE Edge /\ ~Accepts
  <2>1. /\ todo # <<>> => todo' = todo
        /\ todo = <<>> => todo' \in Transactions \cup {<<>>}
    BY <1>2, EdgeIs, MasterIs
  <2>2. Remaining > 0 => todo # <<>>
    BY <1>a, <1>b
  <2>3. /\ Remaining' = Remaining
        /\ state' # "IDLE" => state # "IDLE" /\ saved_a' = saved_a
        /\ state' # "IDLE" => beat_count' >= 1
        /\ state' # "IDLE" /\ saved_a'.opcode \notin Reads \cup Stores => beat_count' = 1
        /\ state' = "TL_RESP" /\ saved_a'.opcode \in Puts => beat_count' = 1
    <3>1. CASE Idle
      <4>1. state = "IDLE" /\ state' = "IDLE"
        BY <1>2, <3>1, IdleIs
      <4>2. QED BY <4>1 DEF Remaining
    <3>2. CASE AWait
      <4>1. /\ state = "A_WAIT" /\ state' = "A_WAIT" /\ saved_a' = saved_a
            /\ beat_count' = beat_count
        BY <1>2, <3>2, AWaitIs
      <4>2. QED BY <1>b, <4>1 DEF Remaining
    <3>3. CASE WbRdWait
      <4>1. /\ state = "WB_RD_WAIT" /\ saved_a' = saved_a /\ beat_count' = beat_count
            /\ state' \in {"WB_RD_WAIT", "TL_RESP", "ALU"}
            /\ state' = "TL_RESP" => saved_a.opcode \in Reads
        BY <1>a, <3>3, ReadIs
      <4>2. QED BY <1>b, <4>1, Kinds DEF Remaining
    <3>4. CASE Alu
      <4>1. /\ state = "ALU" /\ state' = "WB_WR_WAIT" /\ saved_a' = saved_a
            /\ beat_count' = beat_count
        BY <3>4, AluEdgeIs
      <4>2. QED BY <1>b, <4>1 DEF Remaining
    <3>5. CASE WbWrWait
      <4>1. /\ state = "WB_WR_WAIT" /\ saved_a' = saved_a
            /\ \/ state' = "WB_WR_WAIT" /\ beat_count' = beat_count
               \/ /\ state' = "A_WAIT" /\ beat_count' = beat_count - 1
                  /\ saved_a.opcode \in Puts /\ beat_count > 1
               \/ /\ state' = "TL_RESP" /\ beat_count' = beat_count
                  /\ ~(saved_a.opcode \in Puts /\ beat_count > 1)
        BY <1>a, <3>5, WriteIs
      <4>2. CASE state' = "WB_WR_WAIT" /\ beat_count' = beat_count
        BY <1>b, <4>1, <4>2 DEF Remaining
      <4>3. CASE /\ state' = "A_WAIT" /\ beat_count' = beat_count - 1
                 /\ saved_a.opcode \in Puts /\ beat_count > 1
        <5>1. beat_count - 1 >= 1
          BY <1>a, <4>3
        <5>2. QED BY <4>1, <4>3, <5>1 DEF Remaining, Stores
      <4>4. CASE /\ state' = "TL_RESP" /\ beat_count' = beat_count
                 /\ ~(saved_a.opcode \in Puts /\ beat_count > 1)
        <5>1. saved_a.opcode \in Puts => beat_count = 1
          BY <1>a, <1>b, <4>1, <4>4
        <5>2. QED BY <1>b, <4>1, <4>4, <5>1 DEF Remaining
      <4>5. QED BY <4>1, <4>2, <4>3, <4>4
    <3>6. CASE TlResp
      <4>1. /\ state = "TL_RESP" /\ saved_a' = saved_a
            /\ \/ state' = "TL_RESP" /\ beat_count' = beat_count
               \/ state' = "IDLE" /\ (saved_a.opcode \in Puts \/ beat_count <= 1)
               \/ /\ beat_count' = beat_count - 1 /\ beat_count > 1
                  /\ saved_a.opcode \notin Puts
                  /\ state' = IF saved_a.opcode \in Reads THEN "WB_RD_WAIT" ELSE "A_WAIT"
        <5>1. beat_count <= 1 \/ beat_count > 1
          BY <1>a
        <5>2. QED BY <1>a, <3>6, <5>1, RespIs
      <4>2. CASE state' = "TL_RESP" /\ beat_count' = beat_count
        BY <1>b, <4>1, <4>2 DEF Remaining
      <4>3. CASE state' = "IDLE" /\ (saved_a.opcode \in Puts \/ beat_count <= 1)
        <5>1. beat_count = 1
          BY <1>a, <1>b, <4>1, <4>3
        <5>2. QED BY <4>1, <4>3, <5>1 DEF Remaining
      <4>4. CASE /\ beat_count' = beat_count - 1 /\ beat_count > 1
                 /\ saved_a.opcode \notin Puts
                 /\ state' = IF saved_a.opcode \in Reads THEN "WB_RD_WAIT" ELSE "A_WAIT"
        <5>1. beat_count - 1 >= 1 /\ beat_count # 1
          BY <1>a, <4>4
        <5>2. saved_a.opcode \in Reads \cup Atomics
          BY <1>b, <4>1, <4>4, <5>1 DEF Stores
        <5>3. CASE saved_a.opcode \in Reads
          <6>1. saved_a.opcode \notin Stores
            BY <5>3, Kinds DEF Stores
          <6>2. QED BY <4>1, <4>4, <5>1, <5>3, <6>1 DEF Remaining
        <5>4. CASE saved_a.opcode \in Atomics
          <6>1. saved_a.opcode \in Stores /\ saved_a.opcode \notin Reads
            BY <5>4, Kinds DEF Stores
          <6>2. QED BY <4>1, <4>4, <5>1, <6>1 DEF Remaining
        <5>5. QED BY <5>2, <5>3, <5>4
      <4>5. QED BY <4>1, <4>2, <4>3, <4>4
    <3>7. QED
      BY <1>2, <3>1, <3>2, <3>3, <3>4, <3>5, <3>6, EdgeIs
  <2>4. Remaining > 0 => state' # "IDLE"
    <3>1. state' = "IDLE" => Remaining' = 0
      BY DEF Remaining
    <3>2. QED BY <2>3, <3>1
  <2>5. Remaining' = 0 => todo' \in Transactions \cup {<<>>}
    BY <1>b, <2>1, <2>3
  <2>6. Remaining' > 0 =>
          /\ Len(todo') = Remaining'
          /\ \A i \in 1 .. Len(todo') : todo'[i].opcode \in Same(saved_a'.opcode)
    BY <1>b, <2>1, <2>2, <2>3, <2>4
  <2>7. QED
    BY <2>3, <2>5, <2>6 DEF BurstInv
<1>3. CASE Edge /\ Accepts
  <2>a. todo # <<>> /\ todo' = Tail(todo) /\ Head(todo) = todo[1]
    BY <1>3, <1>a, EdgeIs, MasterIs
  <2>b. /\ Len(todo') = Len(todo) - 1 /\ Len(todo) >= 1 /\ Len(todo) \in Nat
        /\ Len(todo) = 1 => todo' = <<>>
        /\ \A i \in 1 .. Len(todo') : i + 1 \in 1 .. Len(todo) /\ todo'[i] = todo[i + 1]
    BY <1>a, <2>a, TailIs
  <2>1. ASSUME NEW kind \in {Puts, Atomics}, \A i \in 1 .. Len(todo) : todo[i].opcode \in kind,
               saved_a' = Head(todo), state' \in {"WB_RD_WAIT", "WB_WR_WAIT"},
               beat_count' = Len(todo)
        PROVE  BurstInv'
    <3>1. saved_a'.opcode \in kind /\ saved_a'.opcode \in Stores
      BY <2>1, <2>a, <2>b DEF Stores
    <3>2. kind = Same(saved_a'.opcode)
      BY <3>1, Kinds
    <3>3. Remaining' = Len(todo) - 1
      BY <2>1, <3>1 DEF Remaining
    <3>4. Remaining' = 0 => todo' \in Transactions \cup {<<>>}
      BY <2>b, <3>3
    <3>5. Remaining' > 0 =>
            /\ Len(todo') = Remaining'
            /\ \A i \in 1 .. Len(todo') : todo'[i].opcode \in Same(saved_a'.opcode)
      BY <2>1, <2>b, <3>2, <3>3
    <3>6. beat_count' >= 1
      BY <2>1, <2>b
    <3>7. QED
      BY <2>1, <3>1, <3>4, <3>5, <3>6 DEF BurstInv
  <2>2. CASE Idle
    <3>1. /\ state = "IDLE" /\ saved_a' = Head(todo) /\ beat_count' = TotalBeats(saved_a'.size)
          /\ state' = IF saved_a'.opcode \in Reads \cup Atomics THEN "WB_RD_WAIT"
                      ELSE IF saved_a'.opcode = "AcquirePerm" THEN "TL_RESP" ELSE "WB_WR_WAIT"
          /\ saved_a' \in Beats
      BY <1>3, <2>2, IdleIs
    <3>2. Remaining = 0
      BY <3>1 DEF Remaining
    <3>3. todo \in Transactions
      BY <1>b, <2>a, <3>2
    <3>4. \/ /\ Len(todo) = TotalBeats(todo[1].size)
             /\ \E kind \in {Puts, Atomics} : \A i \in 1 .. Len(todo) : todo[i].opcode \in kind
          \/ Len(todo) = 1 /\ todo[1].opcode \in Reads
          \/ Len(todo) = 1 /\ todo[1].opcode \in {"AcquirePerm", "Intent"} /\ todo[1].size <= 2
      BY <3>3, BurstAssumption DEF PermissionsOfWords
    <3>5. CASE /\ Len(todo) = TotalBeats(todo[1].size)
               /\ \E kind \in {Puts, Atomics} : \A i \in 1 .. Len(todo) : todo[i].opcode \in kind
      <4>1. PICK kind \in {Puts, Atomics} : \A i \in 1 .. Len(todo) : todo[i].opcode \in kind
        BY <3>5
      <4>2. beat_count' = Len(todo)
        BY <2>a, <3>1, <3>5
      <4>3. saved_a'.opcode \in kind
        BY <2>a, <2>b, <3>1, <4>1
      <4>4. state' \in {"WB_RD_WAIT", "WB_WR_WAIT"}
        BY <3>1, <4>3, Kinds
      <4>5. QED BY <2>1, <3>1, <4>1, <4>2, <4>4
    <3>6. CASE Len(todo) = 1 /\ todo[1].opcode \in Reads
      <4>1. saved_a'.opcode \in Reads /\ saved_a'.opcode \notin Stores
        BY <2>a, <3>1, <3>6, Kinds DEF Stores
      <4>2. state' = "WB_RD_WAIT" /\ todo' = <<>>
        BY <2>b, <3>1, <3>6, <4>1
      <4>3. beat_count' >= 1
        <5>1. saved_a'.size \in 0 .. 7
          BY <3>1 DEF Beats
        <5>2. TotalBeats(saved_a'.size) \in 1 .. Burst
          BY <5>1, TotalBeatsIs
        <5>3. QED BY <3>1, <5>2 DEF Burst
      <4>4. Remaining' = 0
        BY <4>1 DEF Remaining
      <4>5. QED BY <4>1, <4>2, <4>3, <4>4 DEF BurstInv
    <3>7. CASE Len(todo) = 1 /\ todo[1].opcode \in {"AcquirePerm", "Intent"} /\ todo[1].size <= 2
      <4>1. /\ saved_a'.opcode \notin Puts /\ saved_a'.opcode \notin Stores
            /\ saved_a'.size <= 2
        BY <2>a, <3>1, <3>7, Kinds DEF Stores
      <4>2. todo' = <<>>
        BY <2>b, <3>7
      <4>3. beat_count' = 1
        <5>1. saved_a'.size \in 0 .. 7
          BY <3>1 DEF Beats
        <5>2. QED BY <3>1, <4>1, <5>1, TotalBeatsIs
      <4>4. Remaining' = 0
        BY <4>1 DEF Remaining
      <4>5. QED BY <4>1, <4>2, <4>3, <4>4 DEF BurstInv
    <3>8. QED BY <3>4, <3>5, <3>6, <3>7
  <2>3. CASE AWait
    <3>1. /\ state = "A_WAIT" /\ saved_a' = Head(todo) /\ beat_count' = beat_count
          /\ state' \in {"WB_RD_WAIT", "WB_WR_WAIT"}
      BY <1>3, <2>3, AWaitIs
    <3>2. /\ Len(todo) = beat_count
          /\ \A i \in 1 .. Len(todo) : todo[i].opcode \in Same(saved_a.opcode)
      BY <3>1, NextBeat
    <3>3. Same(saved_a.opcode) \in {Puts, Atomics}
      OBVIOUS
    <3>4. QED BY <2>1, <3>1, <3>2, <3>3
  <2>4. CASE WbRdWait \/ Alu \/ WbWrWait \/ TlResp
    BY <1>3, <2>4, ReadIs, AluEdgeIs, WriteIs, RespIs, AcceptsIn
  <2>5. QED
    BY <1>3, <2>2, <2>3, <2>4, EdgeIs
<1>4. QED
  BY <1>1, <1>2, <1>3 DEF Next

\* The memory changes only with the ack of a store, which writes the request's
\* word; a read returns the word it asks for.
LEMMA MemoryIs ==
  ASSUME TypeOK, BusInv, SlaveEdge
  PROVE  /\ wb_ack' = 1 => state \in {"WB_RD_WAIT", "WB_WR_WAIT"} /\ wb.cyc = 1 /\ wb_ack = 0
         /\ wb_ack' = 1 => wb_rdt' = mem[wb.adr]
         /\ wb_ack' = 0 \/ state # "WB_WR_WAIT" \/ saved_a.opcode \notin Stores => mem' = mem
         /\ wb_ack' = 1 /\ state = "WB_WR_WAIT" /\ saved_a.opcode \in Stores =>
              mem' = [mem EXCEPT ![saved_a.address] =
                        Merge(mem[saved_a.address], WriteData, saved_a.mask)]
<1>1. /\ wb_ack' \in {0, 1}
      /\ wb_ack' = 1 => wb.cyc = 1 /\ wb_ack = 0 /\ wb_rdt' = mem[wb.adr]
      /\ wb_ack' = 1 /\ wb.we = 1 =>
           mem' = [mem EXCEPT ![wb.adr] = Merge(mem[wb.adr], wb.dat, wb.sel)]
      /\ wb_ack' = 0 \/ wb.we = 0 => mem' = mem
  BY SlaveIs
<1>2. /\ wb.cyc = 1 => state \in {"WB_RD_WAIT", "WB_WR_WAIT"}
      /\ wb.cyc = 1 /\ state = "WB_RD_WAIT" => wb.we = 0
      /\ wb.cyc = 1 /\ state = "WB_WR_WAIT" =>
           /\ wb.adr = saved_a.address /\ wb.sel = saved_a.mask /\ wb.dat = WriteData
           /\ wb.we = IF saved_a.opcode \in Stores THEN 1 ELSE 0
  BY DEF BusInv
<1>3. QED
  BY <1>1, <1>2

\* The ack of the write cycle leaves the memory that is meant.
LEMMA StoreIsMeant ==
  ASSUME TypeOK, BusInv, SlaveEdge, Pending, state = "WB_WR_WAIT", wb_ack' = 1,
         saved_a.opcode \in Atomics => saved_wb_dat = mem[saved_a.address]
  PROVE  mem' = gold
<1> DEFINE m == mem[saved_a.address]
           stored == Stored(saved_a, m)
           written == Merge(m, WriteData, saved_a.mask)
<1>a. saved_a \in Beats /\ saved_a.address \in Adr /\ mem \in [Adr -> Word] /\ m \in Word
  BY Types
<1>b. gold = [mem EXCEPT ![saved_a.address] = stored]
  BY DEF Pending
<1>1. CASE saved_a.opcode \in Stores
  <2>1. mem' = [mem EXCEPT ![saved_a.address] = written]
    BY <1>1, MemoryIs
  <2>2. stored = written
    <3>1. CASE saved_a.opcode \in Puts
      <4>1. WriteData = saved_a.data
        BY <3>1, Kinds DEF WriteData
      <4>2. QED BY <1>a, <3>1, <4>1, StoredIs
    <3>2. CASE saved_a.opcode \in Atomics
      <4>1. WriteData = Merge(m, AluRes(saved_a, m), saved_a.mask)
        BY <3>2 DEF WriteData
      <4>2. QED BY <1>a, <3>2, <4>1, StoredIs
    <3>3. QED BY <1>1, <3>1, <3>2 DEF Stores
  <2> HIDE DEF stored, written
  <2>3. QED BY <1>b, <2>1, <2>2
<1>2. CASE saved_a.opcode \notin Stores
  <2>1. mem' = mem
    BY <1>2, MemoryIs
  <2>2. stored = m
    BY <1>2, <1>a, StoredIs
  <2> HIDE DEF stored
  <2>3. gold = mem
    BY <1>a, <1>b, <2>2
  <2>4. QED BY <2>1, <2>3
<1>3. QED
  BY <1>1, <1>2

\* An accepted request has its store to do, and none if it is not one.
LEMMA AcceptedIsMeant ==
  ASSUME TypeOK, ControlInv, HistoryEdge, Accepts, mem = gold, mem' = mem, saved_a' = Head(todo),
         saved_a' \in Beats
  PROVE  Pending' /\ (saved_a'.opcode \notin Stores => mem' = gold')
<1> DEFINE a == saved_a'
<1>1. gold' = [gold EXCEPT ![a.address] = Stored(a, gold[a.address])]
  BY HistoryIs
<1>2. gold' = [mem' EXCEPT ![a.address] = Stored(a, mem'[a.address])]
  BY <1>1
<1>3. Pending'
  BY <1>2 DEF Pending
<1>4. ASSUME a.opcode \notin Stores PROVE mem' = gold'
  <2>1. a.address \in Adr /\ gold \in [Adr -> Word] /\ gold[a.address] \in Word
    BY Types DEF Beats
  <2>2. Stored(a, gold[a.address]) = gold[a.address]
    BY <1>4, <2>1, StoredIs
  <2> HIDE DEF a
  <2>3. gold' = gold
    BY <1>1, <2>1, <2>2
  <2>4. QED BY <2>3
<1>5. QED
  BY <1>3, <1>4

\* The memory is the meant one, but for the store of the saved request.
LEMMA MemKept ==
  ASSUME TypeOK, ControlInv, BusInv, MemInv, Next
  PROVE  MemInv'
<1>a. wb_ack \in {0, 1} /\ wb_ack' \in {0, 1} /\ d_ready \in {0, 1}
  BY TypeKept, Types DEF TypeOK
<1>1. CASE Reset
  <2>1. state' = "IDLE" /\ gold' = mem'
    BY <1>1, ResetIs
  <2>2. QED
    BY <2>1 DEF MemInv
<1>2. CASE Edge
  <2>a. SlaveEdge /\ HistoryEdge
    BY <1>2, EdgeIs
  <2>b. ~Accepts => gold' = gold
    BY <2>a, HistoryIs
  <2>c. /\ wb_ack' = 1 => state \in {"WB_RD_WAIT", "WB_WR_WAIT"} /\ wb.cyc = 1 /\ wb_ack = 0
        /\ wb_ack' = 1 => wb_rdt' = mem[wb.adr]
        /\ wb_ack' = 0 \/ state # "WB_WR_WAIT" => mem' = mem
    BY <2>a, MemoryIs
  <2>1. CASE Idle \/ AWait
    <3>1. /\ state \in {"IDLE", "A_WAIT"}
          /\ ~Accepts => state' = state
          /\ Accepts => /\ saved_a' = Head(todo) /\ saved_a' \in Beats
                        /\ state' \in {"WB_RD_WAIT", "TL_RESP", "WB_WR_WAIT"}
                        /\ state' = "TL_RESP" => saved_a'.opcode = "AcquirePerm"
                        /\ state' = "WB_WR_WAIT" => saved_a'.opcode \notin Atomics
      BY <2>1, IdleIs, AWaitIs
    <3>2. mem' = mem /\ mem = gold /\ wb_ack' = 0
      <4>1. wb_ack' # 1
        BY <2>c, <3>1
      <4>2. mem = gold
        BY <3>1 DEF MemInv
      <4>3. QED BY <1>a, <2>c, <4>1, <4>2
    <3>3. CASE ~Accepts
      <4>1. state' \in {"IDLE", "A_WAIT"} /\ mem' = gold'
        BY <2>b, <3>1, <3>2, <3>3
      <4>2. QED BY <4>1 DEF MemInv
    <3>4. CASE Accepts
      <4>1. Pending' /\ (saved_a'.opcode \notin Stores => mem' = gold')
        BY <2>a, <3>1, <3>2, <3>4, AcceptedIsMeant
      <4>2. \A op \in Reads \cup {"AcquirePerm"} : op \notin Stores
        BY Kinds DEF Stores
      <4>3. "AcquirePerm" \notin Reads
        BY DEF Reads
      <4>4. QED BY <3>1, <3>2, <3>4, <4>1, <4>2, <4>3 DEF MemInv
    <3>5. QED BY <3>3, <3>4
  <2>2. CASE WbRdWait
    <3>1. /\ state = "WB_RD_WAIT"
          /\ wb'.adr = IF saved_a.opcode \in Reads THEN get_address ELSE saved_a.address
          /\ saved_a' = saved_a /\ get_address' = get_address
          /\ wb_ack = 0 => state' = "WB_RD_WAIT" /\ saved_wb_dat' = saved_wb_dat
          /\ wb_ack = 1 => /\ saved_wb_dat' = wb_rdt
                           /\ state' = IF saved_a.opcode \in Reads THEN "TL_RESP" ELSE "ALU"
      BY <2>2, ReadIs
    <3>2. mem' = mem /\ gold' = gold
      BY <2>b, <2>c, <3>1, AcceptsIn
    <3>3. IF saved_a.opcode \in Reads THEN mem = gold ELSE Pending
      BY <3>1 DEF MemInv
    <3>4. IF saved_a'.opcode \in Reads THEN mem' = gold' ELSE Pending'
      BY <3>1, <3>2, <3>3 DEF Pending
    <3>5. wb.cyc = 1 => wb.adr = wb'.adr
      BY <3>1 DEF BusInv
    <3>6. wb_ack' = 1 => wb_rdt' = mem'[wb'.adr] /\ wb_ack = 0
      BY <2>c, <3>2, <3>5
    <3>7. CASE wb_ack = 0
      <4>1. state' = "WB_RD_WAIT"
        BY <3>1, <3>7
      <4>2. QED BY <3>4, <3>6, <4>1 DEF MemInv
    <3>8. CASE wb_ack = 1
      <4>1. wb.cyc = 1 /\ wb_rdt = mem[wb.adr]
        BY <3>1, <3>8 DEF BusInv, MemInv
      <4>2. saved_wb_dat' = mem'[IF saved_a.opcode \in Reads THEN get_address ELSE saved_a.address]
        BY <3>1, <3>2, <3>5, <3>8, <4>1
      <4>3. CASE saved_a.opcode \in Reads
        <5>1. /\ state' = "TL_RESP" /\ mem' = gold'
              /\ saved_wb_dat' = gold'[get_address']
          BY <3>1, <3>4, <3>8, <4>2, <4>3
        <5>2. QED BY <5>1 DEF MemInv
      <4>4. CASE saved_a.opcode \notin Reads
        <5>1. state' = "ALU" /\ Pending' /\ saved_wb_dat' = mem'[saved_a'.address]
          BY <3>1, <3>4, <3>8, <4>2, <4>4
        <5>2. QED BY <5>1 DEF MemInv
      <4>5. QED BY <4>3, <4>4
    <3>9. QED BY <1>a, <3>7, <3>8
  <2>3. CASE Alu
    <3>1. /\ state = "ALU" /\ state' = "WB_WR_WAIT" /\ saved_a' = saved_a
          /\ saved_wb_dat' = saved_wb_dat
      BY <2>3, AluEdgeIs
    <3>2. mem' = mem /\ gold' = gold /\ wb_ack' = 0
      BY <1>a, <2>b, <2>c, <3>1, AcceptsIn
    <3>3. Pending /\ saved_wb_dat = mem[saved_a.address]
      BY <3>1 DEF MemInv
    <3>4. Pending' /\ saved_wb_dat' = mem'[saved_a'.address]
      BY <3>1, <3>2, <3>3 DEF Pending
    <3>5. QED BY <3>1, <3>2, <3>4 DEF MemInv
  <2>4. CASE WbWrWait
    <3>1. /\ state = "WB_WR_WAIT" /\ saved_a' = saved_a
          /\ wb_ack = 0 => state' = "WB_WR_WAIT" /\ saved_wb_dat' = saved_wb_dat
          /\ wb_ack = 1 => \/ state' = "A_WAIT"
                           \/ state' = "TL_RESP"
      BY <2>4, WriteIs
    <3>2. gold' = gold /\ (PermissionsOfWords => saved_a.opcode \in Stores \cup {"Intent"})
      BY <2>b, <3>1, AcceptsIn DEF ControlInv
    <3>3. CASE wb_ack = 0
      <4>1. Pending /\ (saved_a.opcode \in Atomics => saved_wb_dat = mem[saved_a.address])
        BY <3>1, <3>3 DEF MemInv
      <4>2. wb_ack' = 1 => mem' = gold'
        BY <2>a, <3>1, <3>2, <4>1, StoreIsMeant
      <4>3. wb_ack' = 0 =>
              /\ Pending'
              /\ saved_a'.opcode \in Atomics => saved_wb_dat' = mem'[saved_a'.address]
        BY <2>c, <3>1, <3>2, <3>3, <4>1 DEF Pending
      <4>4. state' = "WB_WR_WAIT"
        BY <3>1, <3>3
      <4>5. QED BY <1>a, <4>2, <4>3, <4>4 DEF MemInv
    <3>4. CASE wb_ack = 1
      <4>1. mem = gold /\ mem' = mem
        BY <1>a, <2>c, <3>1, <3>4 DEF MemInv
      <4>2. PermissionsOfWords => saved_a'.opcode \notin Reads
        BY <3>1, <3>2, Kinds DEF Stores
      <4>3. mem' = gold' /\ state' \in {"A_WAIT", "TL_RESP"}
        BY <3>1, <3>2, <3>4, <4>1
      <4>4. QED BY <4>2, <4>3 DEF MemInv
    <3>5. QED BY <1>a, <3>3, <3>4
  <2>5. CASE TlResp
    <3>1. /\ state = "TL_RESP" /\ saved_a' = saved_a /\ saved_wb_dat' = saved_wb_dat
          /\ \/ state' = "TL_RESP" /\ get_address' = get_address
             \/ state' \in {"IDLE", "A_WAIT"}
             \/ state' = "WB_RD_WAIT" /\ saved_a.opcode \in Reads
      <4>1. beat_count <= 1 \/ beat_count > 1
        BY Types
      <4>2. QED BY <1>a, <2>5, <4>1, RespIs
    <3>2. mem' = mem /\ gold' = gold /\ wb_ack' = 0
      BY <1>a, <2>b, <2>c, <3>1, AcceptsIn
    <3>3. /\ mem = gold
          /\ PermissionsOfWords /\ saved_a.opcode \in Reads => saved_wb_dat = gold[get_address]
      BY <3>1 DEF MemInv
    <3>4. QED BY <3>1, <3>2, <3>3 DEF MemInv
  <2>6. QED
    BY <1>2, <2>1, <2>2, <2>3, <2>4, <2>5, EdgeIs
<1>3. QED
  BY <1>1, <1>2 DEF Next

\* The opcode of a response is given by the saved request.
LEMMA SameOpcode ==
  ASSUME saved_a' = saved_a
  PROVE  Response'.opcode = Response.opcode
<1> DEFINE R(op) == CASE op = "AcquireBlock" -> "GrantData"
                      [] op = "AcquirePerm"  -> "Grant"
                      [] op \in Atomics \cup {"Get"} -> "AccessAckData"
                      [] OTHER -> "AccessAck"
<1>1. Response.opcode = R(saved_a.opcode)
  BY DEF Response
<1>2. Response'.opcode = R(saved_a'.opcode)
  BY DEF Response
<1> HIDE DEF R
<1>3. QED
  BY <1>1, <1>2

\* The opcode of a response to a request that is just accepted.
LEMMA NewOpcode ==
  ASSUME saved_a' \in Beats
  PROVE  /\ saved_a'.opcode \in Reads => Response'.opcode =
              IF saved_a'.opcode = "Get" THEN "AccessAckData" ELSE "GrantData"
         /\ saved_a'.opcode \in Atomics => Response'.opcode = "AccessAckData"
         /\ saved_a'.opcode \in Puts \cup {"Intent"} => Response'.opcode = "AccessAck"
         /\ saved_a'.opcode = "AcquirePerm" => Response'.opcode = "Grant"
<1> DEFINE op == saved_a'.opcode
<1>1. Response'.opcode = CASE op = "AcquireBlock" -> "GrantData"
                           [] op = "AcquirePerm"  -> "Grant"
                           [] op \in Atomics \cup {"Get"} -> "AccessAckData"
                           [] OTHER -> "AccessAck"
  BY DEF Response
<1> HIDE DEF op
<1>2. op \in Reads => Response'.opcode = IF op = "Get" THEN "AccessAckData" ELSE "GrantData"
  BY <1>1 DEF Reads, Atomics
<1>3. op \in Atomics => Response'.opcode = "AccessAckData"
  BY <1>1 DEF Atomics
<1>4. op \in Puts \cup {"Intent"} => Response'.opcode = "AccessAck"
  BY <1>1 DEF Puts, Atomics
<1>5. op = "AcquirePerm" => Response'.opcode = "Grant"
  BY <1>1 DEF Atomics
<1>6. QED
  BY <1>2, <1>3, <1>4, <1>5 DEF op

\* After the master has taken a response, what the adapter will still give is
\* what is owed.
LEMMA RestIs ==
  ASSUME TypeOK, ControlInv, OwedInv
  PROVE  /\ Rest \in Seq(Answers) /\ Later \in Nat
         /\ ReadyAlways /\ PermissionsOfWords =>
              Len(Rest) = Later /\ \A b \in 1 .. Later : Rest[b] = Due(b)
<1>a. owed \in Seq(Answers) /\ d.valid \in {0, 1} /\ beat_count \in Nat
  BY Types DEF OwedInv, ChannelD
<1>1. Later \in Nat
  BY <1>a DEF Later
<1>2. owed # <<>> =>
        /\ Tail(owed) \in Seq(Answers) /\ Len(Tail(owed)) = Len(owed) - 1
        /\ \A i \in 1 .. Len(Tail(owed)) : Tail(owed)[i] = owed[i + 1]
  <2>1. owed # <<>> => Tail(owed) \in Seq(Answers)
    BY <1>a
  <2>2. QED BY <1>a, <2>1, TailIs
<1>3. Rest \in Seq(Answers)
  BY <1>a, <1>2 DEF Rest
<1>4. ASSUME ReadyAlways, PermissionsOfWords
      PROVE  Len(Rest) = Later /\ \A b \in 1 .. Later : Rest[b] = Due(b)
  <2>1. Len(owed) = d.valid + Later /\ \A b \in 1 .. Later : owed[d.valid + b] = Due(b)
    BY <1>4 DEF OwedInv
  <2>2. d_ready = 1
    BY <1>4 DEF ControlInv
  <2>3. CASE d.valid = 0
    <3>1. Rest = owed
      BY <2>3 DEF Rest, Taken
    <3>2. \A b \in 1 .. Later : d.valid + b = b
      BY <2>3, <1>1
    <3>3. d.valid + Later = Later
      BY <2>3, <1>1
    <3>4. QED BY <2>1, <3>1, <3>2, <3>3
  <2>4. CASE d.valid = 1
    <3>1. Len(owed) = Later + 1
      BY <1>1, <2>1, <2>4
    <3>2. owed # <<>>
      BY <1>1, <3>1
    <3>3. Rest = Tail(owed)
      BY <2>2, <2>4, <3>2 DEF Rest, Taken
    <3>4. Len(Rest) = Later
      BY <1>1, <1>2, <3>1, <3>2, <3>3
    <3>5. ASSUME NEW b \in 1 .. Later PROVE Rest[b] = Due(b)
      <4>1. Rest[b] = owed[b + 1]
        BY <1>2, <3>2, <3>3, <3>4
      <4>2. b + 1 = d.valid + b
        BY <1>1, <2>4
      <4>3. QED BY <2>1, <4>1, <4>2
    <3>6. QED BY <3>4, <3>5
  <2>5. QED BY <1>a, <2>3, <2>4
<1>5. QED
  BY <1>1, <1>3, <1>4

\* A sequence after none is the sequence.
LEMMA AfterNone ==
  ASSUME NEW S, NEW r \in Seq(S), NEW s \in Seq(S)
  PROVE  r \o s \in Seq(S) /\ (Len(r) = 0 => r \o s = s)
<1>1. r \o s \in Seq(S)
  OBVIOUS
<1>2. ASSUME Len(r) = 0 PROVE r \o s = s
  <2>1. r = <<>>
    BY <1>2
  <2>2. QED BY <2>1
<1>3. QED
  BY <1>1, <1>2

\* The first beat of a burst is accepted with the number of its beats.
LEMMA FirstBeat ==
  ASSUME TypeOK, ControlInv, BurstInv, PermissionsOfWords, MasterEdge, Idle, Accepts,
         saved_a'.opcode \in Stores
  PROVE  beat_count' = Len(todo)
<1>1. todo # <<>> /\ todo \in Seq(Beats) /\ Head(todo) = todo[1]
  BY MasterIs DEF ControlInv
<1>2. state = "IDLE" /\ saved_a' = Head(todo) /\ beat_count' = TotalBeats(saved_a'.size)
  BY IdleIs
<1>3. Remaining = 0
  BY <1>2 DEF Remaining
<1>4. todo \in Transactions
  BY <1>1, <1>3 DEF BurstInv
<1>5. todo[1].opcode \notin Reads /\ todo[1].opcode \notin {"AcquirePerm", "Intent"}
  BY <1>1, <1>2, Kinds DEF Stores
<1>6. Len(todo) = TotalBeats(todo[1].size)
  BY <1>4, <1>5, BurstAssumption
<1>7. QED
  BY <1>1, <1>2, <1>6

\* With an accepted request the adapter will give what that request is owed.
LEMMA AcceptedIsOwed ==
  ASSUME TypeOK, ControlInv, BusInv, BurstInv, MemInv, OwedInv, BurstInv', Edge, Accepts,
         ReadyAlways, PermissionsOfWords
  PROVE  /\ d'.valid = 0 /\ Len(owed') = Later'
         /\ \A b \in 1 .. Later' : owed'[b] = Due(b)'
<1> DEFINE a == saved_a'
           last == Len(todo) = 1
           res == Responses(a, last)
<1>1. MasterEdge /\ SlaveEdge /\ HistoryEdge /\ (Idle \/ AWait)
  BY EdgeIs, AcceptsIn, ReadIs, AluEdgeIs, WriteIs, RespIs
<1>2. /\ state \in {"IDLE", "A_WAIT"} /\ a = Head(todo) /\ a \in Beats
      /\ d'.valid = 0
      /\ state' \in {"WB_RD_WAIT", "TL_RESP", "WB_WR_WAIT"}
      /\ a.opcode \in Atomics => state' = "WB_RD_WAIT"
  BY <1>1, IdleIs, AWaitIs
<1>3. Later = 0 /\ Rest \in Seq(Answers) /\ Len(Rest) = 0
  BY <1>2, RestIs DEF Later
<1>4. owed' = Rest \o res
  BY <1>1, <1>2, HistoryIs
<1>5. /\ res \in Seq(Answers)
      /\ a.opcode \in Reads =>
           /\ Len(res) = TotalBeats(a.size)
           /\ \A b \in 1 .. TotalBeats(a.size) :
                res[b] = [opcode |-> IF a.opcode = "Get" THEN "AccessAckData" ELSE "GrantData",
                          data |-> gold[(a.address + (b - 1)) % AdrCount]]
      /\ a.opcode \in Atomics => res = <<[opcode |-> "AccessAckData", data |-> gold[a.address]]>>
      /\ a.opcode \in Puts => res = IF last THEN <<[opcode |-> "AccessAck", data |-> 0]>> ELSE <<>>
      /\ a.opcode = "AcquirePerm" => res = <<[opcode |-> "Grant", data |-> 0]>>
      /\ a.opcode = "Intent" => res = <<[opcode |-> "AccessAck", data |-> 0]>>
  <2>1. last \in BOOLEAN
    OBVIOUS
  <2> HIDE DEF a, last
  <2>2. a \in Beats
    BY <1>2
  <2>3. QED BY <2>1, <2>2, ResponsesIs
<1> HIDE DEF res
<1>6. owed' = res
  BY <1>3, <1>4, <1>5, AfterNone
<1>7. mem' = mem /\ mem = gold
  <2>1. mem = gold
    BY <1>2 DEF MemInv
  <2>2. mem' = mem
    BY <1>1, <1>2, MemoryIs
  <2>3. QED BY <2>1, <2>2
<1>8. a.opcode \in Opcodes
  BY <1>2 DEF Beats
<1>9. CASE a.opcode \in Reads
  <2>1. Idle
    <3>1. AWait => a.opcode \in Stores
      BY <1>2, AWaitIs, NextBeat DEF Stores
    <3>2. QED BY <1>1, <1>9, <3>1, Kinds DEF Stores
  <2>2. beat_count' = TotalBeats(a.size) /\ get_address' = a.address
    BY <1>9, <2>1, IdleIs
  <2>3. Later' = TotalBeats(a.size)
    BY <1>2, <1>9, <2>2 DEF Later
  <2>4. gold' = gold
    <3>1. Pending' /\ (a.opcode \notin Stores => mem' = gold')
      BY <1>1, <1>2, <1>7, AcceptedIsMeant
    <3>2. QED BY <1>7, <1>9, <3>1, Kinds DEF Stores
  <2>5. Response'.opcode = IF a.opcode = "Get" THEN "AccessAckData" ELSE "GrantData"
    BY <1>2, <1>9, NewOpcode
  <2>6. ASSUME NEW b \in 1 .. TotalBeats(a.size) PROVE res[b] = Due(b)'
    <3>1. Due(b)' = [opcode |-> Response'.opcode, data |-> gold'[(get_address' + (b - 1)) % AdrCount]]
      BY <1>9 DEF Due
    <3>2. QED BY <1>5, <1>9, <2>2, <2>4, <2>5, <3>1
  <2>7. QED BY <1>2, <1>5, <1>6, <1>9, <2>3, <2>6
<1>10. ASSUME NEW answer, res = <<answer>>, Later' = 1, Due(1)' = answer
       PROVE  /\ d'.valid = 0 /\ Len(owed') = Later'
              /\ \A b \in 1 .. Later' : owed'[b] = Due(b)'
  <2>1. \A b \in 1 .. 1 : b = 1
    OBVIOUS
  <2>2. QED BY <1>2, <1>6, <1>10, <2>1
<1>11. CASE a.opcode \in Atomics
  <2>1. a.opcode \notin Reads /\ a.opcode \notin Puts /\ state' = "WB_RD_WAIT"
    BY <1>2, <1>11, Kinds
  <2>2. Later' = 1
    BY <2>1 DEF Later
  <2>3. Response'.opcode = "AccessAckData"
    BY <1>2, <1>11, NewOpcode
  <2>4. Due(1)' = [opcode |-> "AccessAckData", data |-> mem'[a.address]]
    BY <1>11, <2>1, <2>3 DEF Due, Old
  <2>5. QED BY <1>5, <1>7, <1>10, <1>11, <2>2, <2>4
<1>12. CASE a.opcode \in Puts
  <2>1. /\ a.opcode \notin Reads /\ a.opcode \notin Atomics /\ a.opcode \in Stores
        /\ state' \in {"WB_RD_WAIT", "TL_RESP", "WB_WR_WAIT"}
    BY <1>2, <1>12, Kinds DEF Stores
  <2>2. beat_count' = Len(todo)
    BY <1>1, <2>1, FirstBeat, NextBeat, AWaitIs
  <2>3. Later' = IF last THEN 1 ELSE 0
    BY <1>12, <2>1, <2>2 DEF Later
  <2>4. CASE last
    <3>1. Response'.opcode = "AccessAck"
      BY <1>2, <1>12, NewOpcode
    <3>2. Due(1)' = [opcode |-> "AccessAck", data |-> 0]
      BY <2>1, <3>1 DEF Due
    <3>3. QED BY <1>5, <1>10, <1>12, <2>3, <2>4, <3>2
  <2>5. CASE ~last
    <3>1. res = <<>> /\ Later' = 0
      BY <1>5, <1>12, <2>3, <2>5
    <3>2. QED BY <1>2, <1>6, <3>1
  <2>6. QED BY <2>4, <2>5
<1>13. CASE a.opcode \in {"AcquirePerm", "Intent"}
  <2>1. a.opcode \notin Reads /\ a.opcode \notin Atomics /\ a.opcode \notin Puts
    BY <1>13, Kinds
  <2>2. Later' = 1
    BY <1>2, <2>1 DEF Later
  <2>3. Response'.opcode = IF a.opcode = "AcquirePerm" THEN "Grant" ELSE "AccessAck"
    BY <1>2, <1>13, NewOpcode
  <2>4. Due(1)' = [opcode |-> IF a.opcode = "AcquirePerm" THEN "Grant" ELSE "AccessAck", data |-> 0]
    BY <2>1, <2>3 DEF Due
  <2>5. QED BY <1>5, <1>10, <1>13, <2>2, <2>4
<1>14. QED
  BY <1>8, <1>9, <1>11, <1>12, <1>13, Kinds DEF Stores

\* While a request is served the responses it will get stay the same.
LEMMA ServedIsOwed ==
  ASSUME TypeOK, TypeOK', ControlInv, BusInv, BurstInv, MemInv, MemInv', OwedInv,
         Edge, ~Accepts, ~TlResp, ReadyAlways, PermissionsOfWords
  PROVE  /\ d'.valid = 0 /\ Len(owed') = Later'
         /\ \A b \in 1 .. Later' : owed'[b] = Due(b)'
<1>1. /\ SlaveEdge /\ HistoryEdge
      /\ Idle \/ AWait \/ WbRdWait \/ Alu \/ WbWrWait
  BY EdgeIs
<1>2. owed' = Rest /\ gold' = gold
  BY <1>1, HistoryIs
<1>3. Later \in Nat /\ Len(Rest) = Later /\ \A b \in 1 .. Later : Rest[b] = Due(b)
  BY RestIs
<1>a. wb_ack \in {0, 1} /\ wb_ack' \in {0, 1} /\ beat_count \in Nat
  BY Types DEF TypeOK
<1>4. CASE Idle \/ AWait
  <2>1. state \in {"IDLE", "A_WAIT"} /\ state' \in {"IDLE", "A_WAIT"} /\ d'.valid = 0
    BY <1>4, IdleIs, AWaitIs
  <2>2. Later = 0 /\ Later' = 0
    BY <2>1 DEF Later
  <2>3. QED BY <1>2, <1>3, <2>1, <2>2
<1>5. ASSUME d'.valid = 0, saved_a' = saved_a, Later' = Later,
             saved_a.opcode \in Reads => get_address' = get_address,
             saved_a.opcode \in Atomics => Old' = Old
      PROVE  /\ d'.valid = 0 /\ Len(owed') = Later'
             /\ \A b \in 1 .. Later' : owed'[b] = Due(b)'
  <2>1. Response'.opcode = Response.opcode
    BY <1>5, SameOpcode
  <2>2. ASSUME NEW b \in 1 .. Later PROVE Due(b)' = Due(b)
    <3>1. Due(b)' =
            [opcode |-> Response'.opcode,
             data |-> IF saved_a'.opcode \in Reads
                      THEN gold'[(get_address' + (b - 1)) % AdrCount]
                      ELSE IF saved_a'.opcode \in Atomics THEN Old' ELSE 0]
      BY DEF Due
    <3>2. CASE saved_a.opcode \in Reads
      BY <1>2, <1>5, <2>1, <3>1, <3>2 DEF Due
    <3>3. CASE saved_a.opcode \in Atomics
      BY <1>5, <2>1, <3>1, <3>3, Kinds DEF Due
    <3>4. CASE saved_a.opcode \notin Reads \cup Atomics
      BY <1>5, <2>1, <3>1, <3>4 DEF Due
    <3>5. QED BY <3>2, <3>3, <3>4
  <2>3. QED BY <1>2, <1>3, <1>5, <2>2
<1>6. CASE WbRdWait
  <2>1. /\ state = "WB_RD_WAIT" /\ d'.valid = 0
        /\ saved_a' = saved_a /\ beat_count' = beat_count /\ get_address' = get_address
        /\ wb_ack = 0 => state' = "WB_RD_WAIT"
        /\ wb_ack = 1 => state' = IF saved_a.opcode \in Reads THEN "TL_RESP" ELSE "ALU"
    BY <1>6, ReadIs
  <2>2. Later' = Later
    BY <1>a, <2>1 DEF Later
  <2>3. ASSUME saved_a.opcode \in Atomics PROVE Old' = Old
    <3>1. mem' = mem
      BY <1>1, <2>1, MemoryIs
    <3>2. CASE wb_ack = 0
      BY <2>1, <3>1, <3>2 DEF Old
    <3>3. CASE wb_ack = 1
      <4>1. state' = "ALU"
        BY <2>1, <2>3, <3>3, Kinds
      <4>2. saved_wb_dat' = mem'[saved_a'.address]
        BY <4>1 DEF MemInv
      <4>3. QED BY <2>1, <3>1, <4>1, <4>2 DEF Old
    <3>4. QED BY <1>a, <3>2, <3>3
  <2>4. QED BY <1>5, <2>1, <2>2, <2>3
<1>7. CASE Alu
  <2>1. /\ state = "ALU" /\ state' = "WB_WR_WAIT" /\ d'.valid = 0
        /\ saved_a' = saved_a /\ saved_wb_dat' = saved_wb_dat
        /\ beat_count' = beat_count /\ get_address' = get_address
    BY <1>7, AluEdgeIs
  <2>2. Later' = Later /\ Old' = Old
    BY <2>1 DEF Later, Old
  <2>3. QED BY <1>5, <2>1, <2>2
<1>8. CASE WbWrWait
  <2>1. /\ state = "WB_WR_WAIT" /\ d'.valid = 0 /\ saved_a' = saved_a /\ get_address' = get_address
        /\ saved_a.opcode \in Atomics => saved_wb_dat' = saved_wb_dat
        /\ \/ state' = "WB_WR_WAIT" /\ beat_count' = beat_count
           \/ state' = "A_WAIT" /\ saved_a.opcode \in Puts /\ beat_count > 1
           \/ state' = "TL_RESP" /\ beat_count' = beat_count
    BY <1>a, <1>8, WriteIs
  <2>2. Later' = Later
    <3>1. saved_a.opcode \notin Reads
      BY <2>1, Kinds DEF ControlInv, Stores
    <3>2. CASE state' \in {"WB_WR_WAIT", "TL_RESP"} /\ beat_count' = beat_count
      BY <2>1, <3>2 DEF Later
    <3>3. CASE state' = "A_WAIT" /\ saved_a.opcode \in Puts /\ beat_count > 1
      <4>1. beat_count # 1
        BY <1>a, <3>3
      <4>2. QED BY <2>1, <3>1, <3>3, <4>1 DEF Later
    <3>4. QED BY <2>1, <3>2, <3>3
  <2>3. saved_a.opcode \in Atomics => Old' = Old
    BY <2>1, Kinds DEF Old
  <2>4. QED BY <1>5, <2>1, <2>2, <2>3
<1>9. QED
  BY <1>1, <1>4, <1>6, <1>7, <1>8

\* The response that is given is the first that is owed, and the others remain.
LEMMA AnswerIsOwed ==
  ASSUME TypeOK, ControlInv, BurstInv, MemInv, OwedInv, Edge, TlResp,
         ReadyAlways, PermissionsOfWords
  PROVE  /\ d'.valid = 1 /\ Len(owed') = 1 + Later'
         /\ Head(owed') = [opcode |-> d'.opcode, data |-> d'.data]
         /\ \A b \in 1 .. Later' : owed'[1 + b] = Due(b)'
<1>1. HistoryEdge /\ state = "TL_RESP" /\ ~Accepts
  BY EdgeIs, RespIs, AcceptsIn
<1>2. owed' = Rest /\ gold' = gold
  BY <1>1, HistoryIs
<1>3. /\ Later \in Nat /\ Rest \in Seq(Answers) /\ Len(Rest) = Later
      /\ \A b \in 1 .. Later : Rest[b] = Due(b)
  BY RestIs
<1>a. /\ beat_count \in Nat /\ beat_count >= 1 /\ d_ready = 1
      /\ saved_a.opcode \notin Reads \cup Stores => beat_count = 1
      /\ saved_a.opcode \in Puts => beat_count = 1
  BY <1>1, Types DEF BurstInv, ControlInv
<1>4. /\ d'.valid = 1 /\ d'.opcode = Response.opcode /\ d'.data = Response.data
      /\ saved_a' = saved_a
      /\ saved_a.opcode \in Puts \/ beat_count <= 1 => state' = "IDLE"
      /\ saved_a.opcode \notin Puts /\ beat_count > 1 =>
           /\ beat_count' = beat_count - 1
           /\ IF saved_a.opcode \in Reads
              THEN state' = "WB_RD_WAIT" /\ get_address' = (get_address + 1) % AdrCount
              ELSE state' = "A_WAIT"
  BY <1>a, RespIs
<1>5. Later = IF saved_a.opcode \in Reads THEN beat_count ELSE 1
  BY <1>1, <1>a DEF Later
<1>6. Later' = Later - 1
  <2>1. CASE saved_a.opcode \in Reads /\ beat_count > 1
    <3>1. state' = "WB_RD_WAIT" /\ beat_count' = beat_count - 1
      BY <1>4, <2>1, Kinds
    <3>2. QED BY <1>4, <1>5, <2>1, <3>1 DEF Later
  <2>2. CASE saved_a.opcode \notin Reads \/ beat_count <= 1
    <3>1. state' \in {"IDLE", "A_WAIT"}
      BY <1>a, <1>4, <2>2
    <3>2. Later = 1
      BY <1>a, <1>5, <2>2
    <3>3. QED BY <3>1, <3>2 DEF Later
  <2>3. QED BY <1>a, <2>1, <2>2
<1>7. Later >= 1
  BY <1>a, <1>5
<1>8. Len(owed') = 1 + Later'
  BY <1>2, <1>3, <1>6
<1>9. Head(owed') = Due(1)
  BY <1>2, <1>3, <1>7
<1>b. get_address \in Adr /\ AdrCount \in Nat \ {0} /\ Adr = 0 .. AdrCount - 1
  BY Types, Parameters DEF Adr
<1>10. Due(1) = [opcode |-> d'.opcode, data |-> d'.data]
  <2>1. Response.data = IF saved_a.opcode \in Reads \cup Atomics THEN saved_wb_dat ELSE 0
    BY ResponseIs
  <2>2. CASE saved_a.opcode \in Reads
    <3>1. (get_address + (1 - 1)) % AdrCount = get_address
      BY <1>b
    <3>2. saved_wb_dat = gold[get_address]
      BY <1>1, <2>2 DEF MemInv
    <3>3. QED BY <1>4, <2>1, <2>2, <3>1, <3>2 DEF Due
  <2>3. CASE saved_a.opcode \notin Reads
    <3>1. Old = saved_wb_dat
      BY <1>1 DEF Old
    <3>2. QED BY <1>4, <2>1, <2>3, <3>1 DEF Due
  <2>4. QED BY <2>2, <2>3
<1>11. ASSUME NEW b \in 1 .. Later' PROVE owed'[1 + b] = Due(b)'
  <2>1. 1 + b \in 1 .. Later /\ Later > 1 /\ b - 1 \in Nat /\ b = (b - 1) + 1
    BY <1>3, <1>6
  <2>2. saved_a.opcode \in Reads /\ beat_count > 1
    BY <1>5, <2>1
  <2>3. get_address' = (get_address + 1) % AdrCount
    BY <1>4, <2>2, Kinds
  <2>4. (get_address' + (b - 1)) % AdrCount = (get_address + b) % AdrCount
    BY <1>b, <2>1, <2>3, WrapAround
  <2>5. Response'.opcode = Response.opcode
    BY <1>4, SameOpcode
  <2>6. Due(b)' = [opcode |-> Response'.opcode, data |-> gold'[(get_address' + (b - 1)) % AdrCount]]
    BY <1>4, <2>2 DEF Due
  <2>7. (1 + b) - 1 = b
    BY <2>1
  <2>8. Due(1 + b) = [opcode |-> Response.opcode, data |-> gold[(get_address + b) % AdrCount]]
    BY <2>2, <2>7 DEF Due
  <2>9. Due(b)' = Due(1 + b)
    BY <1>2, <2>4, <2>5, <2>6, <2>8
  <2>10. QED BY <1>2, <1>3, <2>1, <2>9
<1>12. QED
  BY <1>4, <1>8, <1>9, <1>10, <1>11

\* What is owed is what the adapter will give, after every edge.
LEMMA OwedKept ==
  ASSUME IInv, TypeOK', BurstInv', MemInv', Next
  PROVE  OwedInv'
<1>a. TypeOK /\ ControlInv /\ BusInv /\ BurstInv /\ MemInv /\ OwedInv
  BY DEF IInv
<1>1. CASE Reset
  <2>1. owed' = <<>> /\ d'.valid = 0 /\ state' = "IDLE"
    BY <1>a, <1>1, ResetIs
  <2>2. Later' = 0
    BY <2>1 DEF Later
  <2>3. <<>> \in Seq(Answers) /\ Len(<<>>) = 0
    OBVIOUS
  <2>4. QED BY <2>1, <2>2, <2>3 DEF OwedInv
<1>2. CASE Edge
  <2>1. owed' \in Seq(Answers)
    <3>1. Rest \in Seq(Answers) /\ HistoryEdge /\ MasterEdge
      BY <1>a, <1>2, RestIs, EdgeIs
    <3>2. CASE ~Accepts
      BY <1>a, <3>1, <3>2, HistoryIs
    <3>3. CASE Accepts
      <4> DEFINE last == Len(todo) = 1
                 res == Responses(Head(todo), last)
      <4>1. Head(todo) \in Beats /\ last \in BOOLEAN
        BY <1>a, <3>1, <3>3, MasterIs
      <4>2. owed' = Rest \o res
        BY <1>a, <3>1, <3>3, HistoryIs
      <4> HIDE DEF last
      <4>3. res \in Seq(Answers)
        BY <1>a, <4>1, ResponsesIs
      <4> HIDE DEF res
      <4>4. QED BY <3>1, <4>2, <4>3, AfterNone
    <3>4. QED BY <3>2, <3>3
  <2>2. CASE ~(ReadyAlways /\ PermissionsOfWords)
    BY <2>1, <2>2 DEF OwedInv
  <2>3. CASE ReadyAlways /\ PermissionsOfWords /\ TlResp
    <3>1. /\ d'.valid = 1 /\ Len(owed') = 1 + Later'
          /\ Head(owed') = [opcode |-> d'.opcode, data |-> d'.data]
          /\ \A b \in 1 .. Later' : owed'[1 + b] = Due(b)'
      BY <1>a, <1>2, <2>3, AnswerIsOwed
    <3>2. \A b \in 1 .. Later' : owed'[d'.valid + b] = Due(b)'
      BY <3>1
    <3>3. QED BY <2>1, <3>1, <3>2 DEF OwedInv
  <2>4. CASE ReadyAlways /\ PermissionsOfWords /\ ~TlResp
    <3>1. /\ d'.valid = 0 /\ Len(owed') = Later'
          /\ \A b \in 1 .. Later' : owed'[b] = Due(b)'
      BY <1>a, <1>2, <2>4, AcceptedIsOwed, ServedIsOwed
    <3>2. Later' \in Nat
      <4>1. beat_count' \in Nat
        BY DEF TypeOK, Burst
      <4>2. QED BY <4>1 DEF Later
    <3>3. \A b \in 1 .. Later' : d'.valid + b = b
      BY <3>1, <3>2
    <3>4. d'.valid + Later' = Later'
      <4>1. \A n \in Nat : 0 + n = n
        OBVIOUS
      <4>2. d'.valid = 0
        BY <3>1
      <4>3. QED BY <3>2, <4>1, <4>2
    <3>5. QED BY <2>1, <3>1, <3>3, <3>4 DEF OwedInv
  <2>5. QED BY <2>2, <2>3, <2>4
<1>3. QED
  BY <1>1, <1>2 DEF Next

\* The invariant holds at the start.
LEMMA InitHolds == Init => IInv
<1> SUFFICES ASSUME Init PROVE IInv
  OBVIOUS
<1>1. /\ todo = <<>> /\ a_valid = 0 /\ d_ready \in IF ReadyAlways THEN {1} ELSE {0, 1}
      /\ state = "IDLE" /\ beat_count = 0 /\ get_address = 0 /\ saved_wb_dat = 0
      /\ saved_a \in {t[1] : t \in Transactions}
      /\ a_ready = 0 /\ d = NoD /\ wb = NoBus
      /\ wb_ack = 0 /\ wb_rdt = 0 /\ mem = [x \in Adr |-> 0]
      /\ gold = mem /\ owed = <<>>
  BY DEF Init, InitAdapter
<1>2. AdrCount \in Nat /\ AdrCount >= 1 /\ 0 \in Adr /\ 0 \in Word
  BY Parameters DEF Adr, Word
<1>3. saved_a \in Beats
  <2>1. PICK t \in Transactions : saved_a = t[1]
    BY <1>1
  <2>2. t \in Seq(Beats) /\ t # <<>>
    BY Parameters
  <2>3. QED BY <2>1, <2>2
<1>4. /\ d \in ChannelD /\ d.valid = 0 /\ wb \in BusType /\ wb.cyc = 0
  BY <1>1, <1>2 DEF NoD, NoBus, ChannelD, BusType
<1>5. mem \in [Adr -> Word] /\ gold \in [Adr -> Word]
  BY <1>1, <1>2
<1>6. TypeOK
  BY <1>1, <1>2, <1>3, <1>4, <1>5 DEF TypeOK, ChannelD, BusType, Burst
<1>7. ControlInv
  <2>1. todo \in Seq(Beats)
    BY <1>1
  <2>2. QED BY <1>1, <1>4, <2>1 DEF ControlInv
<1>8. BusInv
  BY <1>1, <1>4 DEF BusInv
<1>9. Remaining = 0
  BY <1>1 DEF Remaining
<1>10. BurstInv
  BY <1>1, <1>9 DEF BurstInv
<1>11. MemInv
  BY <1>1 DEF MemInv
<1>12. OwedInv
  <2>1. owed \in Seq(Answers) /\ Len(owed) = 0
    BY <1>1
  <2>2. Later = 0
    BY <1>1 DEF Later
  <2>3. QED BY <1>4, <2>1, <2>2 DEF OwedInv
<1>13. QED
  BY <1>6, <1>7, <1>8, <1>10, <1>11, <1>12 DEF IInv

\* A step that changes nothing keeps it.
LEMMA StutterHolds == IInv /\ UNCHANGED vars => IInv'
<1> SUFFICES ASSUME IInv, UNCHANGED vars PROVE IInv'
  OBVIOUS
<1>1. /\ todo' = todo /\ a_valid' = a_valid /\ d_ready' = d_ready
      /\ state' = state /\ saved_a' = saved_a /\ saved_wb_dat' = saved_wb_dat
      /\ beat_count' = beat_count /\ get_address' = get_address
      /\ a_ready' = a_ready /\ d' = d /\ wb' = wb
      /\ wb_ack' = wb_ack /\ wb_rdt' = wb_rdt /\ mem' = mem
      /\ gold' = gold /\ owed' = owed
  BY DEF vars, masterVars, adapterVars, slaveVars, historyVars
<1>2. TypeOK' /\ ControlInv'
  BY <1>1 DEF IInv, TypeOK, ControlInv
<1>3. WriteData' = WriteData /\ Remaining' = Remaining /\ Later' = Later
  BY <1>1 DEF WriteData, Remaining, Later
<1>4. BusInv'
  BY <1>1, <1>3 DEF IInv, BusInv
<1>5. BurstInv'
  BY <1>1, <1>3 DEF IInv, BurstInv
<1>6. MemInv'
  <2>1. Pending' <=> Pending
    BY <1>1 DEF Pending
  <2>2. QED BY <1>1, <2>1 DEF IInv, MemInv
<1>7. OwedInv'
  <2>1. Response' = Response
    BY <1>1 DEF Response
  <2>2. \A b : Due(b)' = Due(b)
    BY <1>1, <2>1 DEF Due, Old
  <2>3. QED BY <1>1, <1>3, <2>2 DEF IInv, OwedInv
<1>8. QED
  BY <1>2, <1>4, <1>5, <1>6, <1>7 DEF IInv

\* An edge, or a reset, keeps it.
LEMMA StepHolds == IInv /\ [Next]_vars => IInv'
<1>1. ASSUME IInv, Next PROVE IInv'
  <2>1. TypeOK /\ ControlInv /\ BusInv /\ BurstInv /\ MemInv /\ OwedInv
    BY <1>1 DEF IInv
  <2>2. TypeOK' /\ ControlInv' /\ BusInv' /\ BurstInv' /\ MemInv'
    BY <1>1, <2>1, TypeKept, ControlKept, BusKept, BurstKept, MemKept
  <2>3. OwedInv'
    BY <1>1, <2>2, OwedKept
  <2>4. QED BY <2>2, <2>3 DEF IInv
<1>2. QED
  BY <1>1, StutterHolds

\* It holds always.
LEMMA Holds == Spec => []IInv
<1>1. Init => IInv
  BY InitHolds
<1>2. IInv /\ [Next]_vars => IInv'
  BY StepHolds
<1>3. QED
  BY <1>1, <1>2, PTL DEF Spec

-----------------------------------------------------------------------------
(* The theorems.                                                           *)

\* The registers of tl_c2wblite.ent.vhdl keep their types for every memory and
\* every set of transactions, and the counter does not run below zero.  Nothing is
\* supposed of what is asked permission for.
THEOREM TypeCorrect == Spec => []TypeOK
<1>1. IInv => TypeOK
  BY DEF IInv
<1>2. QED
  BY <1>1, Holds, PTL

\* If permission is asked for words only, and the master keeps d_ready high, every
\* response of the state TL_RESP is the next one owed, with the word that the
\* requests before it left: the words of a read burst in their order from its
\* address on, the old word of every beat of an atomic burst, one answer for a
\* burst of stores.  Without the first hypothesis it is false: after the Grant of
\* a block the beats of the next request are miscounted (line 318).  So it is
\* without the second: a response taken late is given twice (line 304).
THEOREM EveryResponseRight ==
  ASSUME PermissionsOfWords, ReadyAlways
  PROVE  Spec => []DeliversOwed
<1>1. IInv => DeliversOwed
  <2> SUFFICES ASSUME IInv, d.valid = 1
               PROVE  owed # <<>> /\ [opcode |-> d.opcode, data |-> d.data] = Head(owed)
    BY DEF DeliversOwed
  <2>1. Later \in Nat
    BY RestIs DEF IInv
  <2>2. owed \in Seq(Answers) /\ Len(owed) = 1 + Later
    BY PermissionsOfWords, ReadyAlways DEF IInv, OwedInv
  <2>3. owed # <<>>
    BY <2>1, <2>2
  <2>4. QED BY PermissionsOfWords, ReadyAlways, <2>3 DEF IInv, OwedInv
<1>2. QED
  BY <1>1, Holds, PTL

\* Whatever the master asks for, and whatever it does with d_ready, the stores are
\* the meant ones: when the adapter is back in IDLE the memory on the Wishbone
\* side is what the accepted requests made it, each beat in its word and its
\* lanes only.
THEOREM StoresRight == Spec => [](state = "IDLE" => mem = gold)
<1>1. IInv => (state = "IDLE" => mem = gold)
  BY DEF IInv, MemInv
<1>2. QED
  BY <1>1, Holds, PTL

\* If permission is asked for words only, and the master keeps d_ready high, an
\* adapter back in IDLE has answered everything, and the memory on the Wishbone
\* side is what the accepted requests made it: a burst of stores or atomics has
\* written all its beats, each in its lanes only.
THEOREM IdleIsDone ==
  ASSUME PermissionsOfWords, ReadyAlways
  PROVE  Spec => []IdleMeansDone
<1>1. IInv => IdleMeansDone
  <2> SUFFICES ASSUME IInv, state = "IDLE", d.valid = 0
               PROVE  owed = <<>> /\ mem = gold
    BY DEF IdleMeansDone
  <2>1. Later = 0
    BY DEF Later
  <2>2. owed \in Seq(Answers) /\ Len(owed) = 0
    BY PermissionsOfWords, ReadyAlways, <2>1 DEF IInv, OwedInv
  <2>3. mem = gold
    BY DEF IInv, MemInv
  <2>4. QED BY <2>2, <2>3
<1>2. QED
  BY <1>1, Holds, PTL

=============================================================================
