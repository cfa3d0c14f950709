------------------------- MODULE SerialLoaderProofs -------------------------
(***************************************************************************)
(* Proofs about the loaders, for all files, sizes of the buffers, numbers  *)
(* of bytes that come after XOFF, and times of the processor that satisfy  *)
(* LoaderAssumption and FlowAssumption.                                    *)
(***************************************************************************)
EXTENDS SerialLoader, SequenceTheorems, TLAPS

Codes == {XON, XOFF, Prompt, Text, None}
Plain == {Text, None}
On == {XON, Prompt}
Mains == {Noelv, Exec, Ddr3, Muntjac}
Pcs == {"getline", "decode", "drain", "spin", "delay", "jump", "hung", "end"}
Ended == {"drain", "spin", "delay", "jump", "end"}
-----------------------------------------------------------------------------
(* Sequences and the ring.                                                 *)

\* The parameters, one by one.
LEMMA Parameters ==
  /\ LineSize \in Nat \ {0} /\ RingSize \in Nat \ {0} /\ FifoDepth \in Nat \ {0}
  /\ StepsPerSlot \in Nat /\ StepsPerSlot >= 2
  /\ DrainSlots \in Nat /\ DrainSlots >= 1 /\ Overshoot \in Nat
  /\ Backlog \in Nat /\ Backlog >= 3 /\ Backlog <= FifoDepth /\ Backlog < RingSize
  /\ Overshoot <= Backlog - 2
  /\ Overshoot > 0 => Overshoot = Backlog - 2
  BY LoaderAssumption, FlowAssumption DEF Backlog

\* What is left of a sequence after its head.
LEMMA TailIs ==
  ASSUME NEW S, NEW s \in Seq(S), s # <<>>
  PROVE  /\ Tail(s) \in Seq(S) /\ Head(s) = s[1] /\ s[1] \in S
         /\ Len(Tail(s)) = Len(s) - 1 /\ Len(s) >= 1 /\ Len(s) \in Nat
         /\ Len(s) = 1 => Tail(s) = <<>>
         /\ \A i \in 1 .. Len(s) - 1 : Tail(s)[i] = s[i + 1]
<1>1. Len(s) \in Nat /\ Len(s) # 0
  OBVIOUS
<1>2. Tail(s) \in Seq(S) /\ Len(Tail(s)) = Len(s) - 1
  OBVIOUS
<1>3. \A i \in 1 .. Len(Tail(s)) : Tail(s)[i] = s[i + 1]
  BY <1>1, <1>2
<1>4. ASSUME NEW t \in Seq(S), Len(t) = 0 PROVE t = <<>>
  BY <1>4
<1>5. QED
  BY <1>1, <1>2, <1>3, <1>4

\* A sequence with one element more.
LEMMA AppendIs ==
  ASSUME NEW S, NEW s \in Seq(S), NEW e \in S
  PROVE  /\ Append(s, e) \in Seq(S) /\ Append(s, e) # <<>>
         /\ Len(Append(s, e)) = Len(s) + 1 /\ Len(s) \in Nat
         /\ \A i \in 1 .. Len(s) : Append(s, e)[i] = s[i]
         /\ Append(s, e)[Len(s) + 1] = e
  OBVIOUS

\* u is s, and then t.
Joined(u, s, t) ==
  /\ Len(u) = Len(s) + Len(t) /\ Len(s) \in Nat /\ Len(t) \in Nat
  /\ \A i \in 1 .. Len(s) : u[i] = s[i]
  /\ \A i \in 1 .. Len(t) : u[Len(s) + i] = t[i]

\* One sequence after another.
LEMMA ConcatIs ==
  ASSUME NEW S, NEW s \in Seq(S), NEW t \in Seq(S)
  PROVE  s \o t \in Seq(S) /\ Joined(s \o t, s, t)
<1>1. s \o t \in Seq(S) /\ Len(s \o t) = Len(s) + Len(t)
  BY ConcatProperties
<1>2. \A i \in 1 .. Len(s) + Len(t) : (s \o t)[i] = IF i <= Len(s) THEN s[i] ELSE t[i - Len(s)]
  BY ConcatProperties
<1>3. Len(s) \in Nat /\ Len(t) \in Nat
  OBVIOUS
<1>4. ASSUME NEW i \in 1 .. Len(t) PROVE (s \o t)[Len(s) + i] = t[i]
  <2>1. Len(s) + i \in 1 .. Len(s) + Len(t) /\ ~(Len(s) + i <= Len(s)) /\ (Len(s) + i) - Len(s) = i
    BY <1>3
  <2>2. QED BY <1>2, <2>1
<1>5. \A i \in 1 .. Len(s) : (s \o t)[i] = s[i]
  BY <1>2, <1>3
<1>6. QED BY <1>1, <1>3, <1>4, <1>5 DEF Joined

\* An element may be moved over the boundary of two sequences.
LEMMA Moved ==
  ASSUME NEW S, NEW s \in Seq(S), NEW t \in Seq(S), t # <<>>
  PROVE  Append(s, Head(t)) \o Tail(t) = s \o t
<1>1. Head(t) \in S /\ Tail(t) \in Seq(S) /\ Head(t) = t[1] /\ Len(Tail(t)) = Len(t) - 1
      /\ Len(t) \in Nat /\ Len(t) >= 1 /\ Len(s) \in Nat
  BY TailIs
<1> DEFINE a == Append(s, Head(t)) \o Tail(t)
           b == s \o t
<1>2. Append(s, Head(t)) \in Seq(S) /\ Len(Append(s, Head(t))) = Len(s) + 1
  BY <1>1
<1>3. a \in Seq(S) /\ b \in Seq(S) /\ Len(a) = Len(b) /\ Len(b) = Len(s) + Len(t)
  BY <1>1, <1>2, ConcatIs DEF Joined
<1>4. ASSUME NEW i \in 1 .. Len(a) PROVE a[i] = b[i]
  <2>1. CASE i <= Len(s)
    BY <1>1, <1>2, <2>1, ConcatIs, AppendIs DEF Joined
  <2>2. CASE i = Len(s) + 1
    <3>1. a[i] = Append(s, Head(t))[i]
      BY <1>1, <1>2, <2>2, ConcatIs DEF Joined
    <3>2. a[i] = t[1]
      BY <1>1, <2>2, <3>1
    <3>3. 1 \in 1 .. Len(t) /\ b[Len(s) + 1] = t[1]
      BY <1>1, ConcatIs DEF Joined
    <3>4. QED BY <2>2, <3>2, <3>3
  <2>3. CASE i > Len(s) + 1
    <3> DEFINE j == i - (Len(s) + 1)
    <3>1. j \in 1 .. Len(Tail(t)) /\ j + 1 \in 1 .. Len(t) /\ i = (Len(s) + 1) + j /\ i = Len(s) + (j + 1)
      BY <1>1, <1>3, <2>3
    <3>2. a[i] = Tail(t)[j]
      BY <1>1, <1>2, <3>1, ConcatIs DEF Joined
    <3>3. Tail(t)[j] = t[j + 1]
      BY <1>1, <3>1, TailIs
    <3>4. b[i] = t[j + 1]
      BY <3>1, ConcatIs DEF Joined
    <3>5. QED BY <3>2, <3>3, <3>4
  <2>4. QED BY <1>1, <1>3, <2>1, <2>2, <2>3
<1>5. a = b
  BY <1>3, <1>4, SeqEqual
<1>6. QED BY <1>5

\* A sequence of no elements is the empty one.
LEMMA EmptyIs ==
  ASSUME NEW S, NEW s \in Seq(S)
  PROVE  (s = <<>>) <=> (Len(s) = 0)
  OBVIOUS

\* The remainder of a number that is off by a round at most.
LEMMA ModIs ==
  ASSUME NEW R \in Nat \ {0}, NEW a \in Int
  PROVE  /\ a % R \in 0 .. R - 1
         /\ 0 <= a /\ a < R => a % R = a
         /\ R <= a /\ a < 2 * R => a % R = a - R
         /\ -R <= a /\ a < 0 => a % R = a + R
  OBVIOUS

\* The index that follows one.
LEMMA NextIndex ==
  ASSUME NEW R \in Nat \ {0}, NEW i \in 0 .. R - 1
  PROVE  (i + 1) % R = IF i + 1 = R THEN 0 ELSE i + 1
<1>1. CASE i + 1 = R
  <2>1. R \in Int /\ R <= R /\ R < 2 * R
    OBVIOUS
  <2>2. R % R = R - R
    BY <2>1, ModIs
  <2>3. QED BY <1>1, <2>2
<1>2. CASE i + 1 # R
  <2>1. i + 1 \in Int /\ 0 <= i + 1 /\ i + 1 < R
    BY <1>2
  <2>2. (i + 1) % R = i + 1
    BY <2>1, ModIs
  <2>3. QED BY <1>2, <2>2
<1>3. QED BY <1>1, <1>2

\* A ring of bytes of B, the number of bytes in it, and an index wrapped.
Rings(B) == [buf : [0 .. RingSize - 1 -> B], rd : 0 .. RingSize - 1, wr : 0 .. RingSize - 1]
Count(r) == IF r.wr >= r.rd THEN r.wr - r.rd ELSE (r.wr - r.rd) + RingSize
Wrap(i) == IF i < RingSize THEN i ELSE i - RingSize

\* The bytes in a ring, and those with what the FIFO holds after them.
RingBytes(r) == [k \in 1 .. (r.wr - r.rd) % RingSize |-> r.buf[(r.rd + k - 1) % RingSize]]
Held(r, q) == RingBytes(r) \o q

\* What a ring holds (UartBuf, lib/uart/uart.cc:35).
LEMMA RingIs ==
  ASSUME NEW B, NEW r \in Rings(B)
  PROVE  /\ Count(r) \in 0 .. RingSize - 1 /\ (Count(r) = 0 <=> r.rd = r.wr)
         /\ RingBytes(r) \in Seq(B) /\ Len(RingBytes(r)) = Count(r)
         /\ \A k \in 1 .. Count(r) : Wrap(r.rd + k - 1) \in 0 .. RingSize - 1
         /\ \A k \in 1 .. Count(r) : RingBytes(r)[k] = r.buf[Wrap(r.rd + k - 1)]
<1>1. RingSize \in Nat \ {0} /\ r.rd \in 0 .. RingSize - 1 /\ r.wr \in 0 .. RingSize - 1
      /\ r.buf \in [0 .. RingSize - 1 -> B]
  BY Parameters DEF Rings
<1>2. Count(r) \in 0 .. RingSize - 1 /\ (Count(r) = 0 <=> r.rd = r.wr)
  BY <1>1 DEF Count
<1>3. (r.wr - r.rd) % RingSize = Count(r)
  <2>1. ASSUME NEW R \in Nat \ {0}, NEW a \in 0 .. R - 1, NEW b \in 0 .. R - 1
        PROVE  (b - a) % R = IF b >= a THEN b - a ELSE (b - a) + R
    <3>1. b - a \in Int /\ (b >= a => 0 <= b - a /\ b - a < R) /\ (~(b >= a) => -R <= b - a /\ b - a < 0)
      OBVIOUS
    <3>2. QED BY <3>1, ModIs
  <2>2. QED BY <1>1, <2>1 DEF Count
<1>4. ASSUME NEW k \in 1 .. Count(r)
      PROVE  Wrap(r.rd + k - 1) \in 0 .. RingSize - 1 /\ (r.rd + k - 1) % RingSize = Wrap(r.rd + k - 1)
  <2> DEFINE j == r.rd + k - 1
  <2>1. j \in 0 .. 2 * RingSize - 2
    BY <1>1, <1>2
  <2>2. ASSUME NEW R \in Nat \ {0}, NEW i \in 0 .. 2 * R - 2
        PROVE  /\ (IF i < R THEN i ELSE i - R) \in 0 .. R - 1
               /\ i % R = IF i < R THEN i ELSE i - R
    <3>1. i \in Int /\ 0 <= i /\ i < 2 * R /\ (~(i < R) => R <= i)
      OBVIOUS
    <3>2. CASE i < R
      BY <3>1, <3>2, ModIs
    <3>3. CASE ~(i < R)
      <4>1. i % R = i - R
        BY <3>1, <3>3, ModIs
      <4>2. i - R \in 0 .. R - 1
        BY <3>1, <3>3
      <4>3. QED BY <3>3, <4>1, <4>2
    <3>4. QED BY <3>2, <3>3
  <2> HIDE DEF j
  <2>3. Wrap(j) \in 0 .. RingSize - 1 /\ j % RingSize = Wrap(j)
    BY <1>1, <2>1, <2>2 DEF Wrap
  <2>4. QED BY <2>3 DEF j
<1>5. RingBytes(r) = [k \in 1 .. Count(r) |-> r.buf[(r.rd + k - 1) % RingSize]]
  BY <1>3 DEF RingBytes
<1>6. \A k \in 1 .. Count(r) : RingBytes(r)[k] = r.buf[Wrap(r.rd + k - 1)]
  BY <1>4, <1>5
<1>7. RingBytes(r) \in [1 .. Count(r) -> B]
  BY <1>1, <1>4, <1>5
<1>8. RingBytes(r) \in Seq(B) /\ Len(RingBytes(r)) = Count(r)
  BY <1>2, <1>7
<1>9. QED BY <1>2, <1>4, <1>6, <1>8

\* t is what the ring and the FIFO hold, byte by byte.
IsHeld(t, r, q) ==
  /\ Len(t) = Count(r) + Len(q) /\ Count(r) \in 0 .. RingSize - 1 /\ Len(q) \in Nat
  /\ \A k \in 1 .. Count(r) : t[k] = r.buf[Wrap(r.rd + k - 1)]
  /\ \A k \in 1 .. Len(q) : t[Count(r) + k] = q[k]

\* Ring and FIFO as one sequence.
LEMMA HeldIs ==
  ASSUME NEW B, NEW r \in Rings(B), NEW q \in Seq(B)
  PROVE  Held(r, q) \in Seq(B) /\ IsHeld(Held(r, q), r, q)
<1>1. RingBytes(r) \in Seq(B) /\ Len(RingBytes(r)) = Count(r)
  BY RingIs
<1>2. RingBytes(r) \o q \in Seq(B) /\ Joined(RingBytes(r) \o q, RingBytes(r), q)
  BY <1>1, ConcatIs
<1>3. /\ Count(r) \in 0 .. RingSize - 1
      /\ \A k \in 1 .. Count(r) : RingBytes(r)[k] = r.buf[Wrap(r.rd + k - 1)]
  BY RingIs
<1>4. QED BY <1>1, <1>2, <1>3 DEF Held, Joined, IsHeld

\* Two sequences of bytes are one if ring and FIFO agree, byte by byte.
LEMMA HeldEqual ==
  ASSUME NEW B, NEW r \in Rings(B), NEW q \in Seq(B), NEW t \in Seq(B),
         Len(t) = Count(r) + Len(q),
         \A k \in 1 .. Count(r) : t[k] = r.buf[Wrap(r.rd + k - 1)],
         \A k \in 1 .. Len(q) : t[Count(r) + k] = q[k]
  PROVE  Held(r, q) = t
<1>h. /\ Held(r, q) \in Seq(B) /\ Len(Held(r, q)) = Count(r) + Len(q)
      /\ Count(r) \in 0 .. RingSize - 1 /\ Len(q) \in Nat
      /\ \A k \in 1 .. Count(r) : Held(r, q)[k] = r.buf[Wrap(r.rd + k - 1)]
      /\ \A k \in 1 .. Len(q) : Held(r, q)[Count(r) + k] = q[k]
  <2>1. Held(r, q) \in Seq(B) /\ IsHeld(Held(r, q), r, q)
    BY HeldIs
  <2>2. QED BY <2>1 DEF IsHeld
<1>1. Held(r, q) \in Seq(B) /\ Len(Held(r, q)) = Len(t)
  BY <1>h
<1>2. ASSUME NEW i \in 1 .. Len(t) PROVE Held(r, q)[i] = t[i]
  <2>1. CASE i <= Count(r)
    BY <1>h, <2>1
  <2>2. CASE ~(i <= Count(r))
    <3> DEFINE k == i - Count(r)
    <3>1. k \in 1 .. Len(q) /\ i = Count(r) + k
      BY <1>h, <2>2
    <3> HIDE DEF k
    <3>2. QED BY <1>h, <3>1
  <2>3. QED BY <2>1, <2>2
<1>3. QED BY <1>1, <1>2, SeqEqual

\* A byte that is received comes last.
LEMMA HeldAppend ==
  ASSUME NEW B, NEW r \in Rings(B), NEW q \in Seq(B), NEW b \in B
  PROVE  Held(r, Append(q, b)) = Append(Held(r, q), b)
<1> DEFINE a == Append(q, b)
           t == Append(Held(r, q), b)
<1>1. a \in Seq(B) /\ Len(a) = Len(q) + 1 /\ Len(q) \in Nat
      /\ (\A k \in 1 .. Len(q) : a[k] = q[k]) /\ a[Len(q) + 1] = b
  BY AppendIs
<1>2. /\ Held(r, q) \in Seq(B) /\ Len(Held(r, q)) = Count(r) + Len(q)
      /\ Count(r) \in 0 .. RingSize - 1 /\ Len(q) \in Nat
      /\ \A k \in 1 .. Count(r) : Held(r, q)[k] = r.buf[Wrap(r.rd + k - 1)]
      /\ \A k \in 1 .. Len(q) : Held(r, q)[Count(r) + k] = q[k]
  <2>1. Held(r, q) \in Seq(B) /\ IsHeld(Held(r, q), r, q)
    BY HeldIs
  <2>2. QED BY <2>1 DEF IsHeld
<1>3. t \in Seq(B) /\ Len(t) = Len(Held(r, q)) + 1
      /\ (\A k \in 1 .. Len(Held(r, q)) : t[k] = Held(r, q)[k]) /\ t[Len(Held(r, q)) + 1] = b
  BY <1>2, AppendIs
<1> HIDE DEF a, t
<1>4. Len(t) = Count(r) + Len(a)
  BY <1>1, <1>2, <1>3
<1>5. \A k \in 1 .. Count(r) : t[k] = r.buf[Wrap(r.rd + k - 1)]
  BY <1>2, <1>3
<1>6. ASSUME NEW k \in 1 .. Len(a) PROVE t[Count(r) + k] = a[k]
  <2>1. CASE k <= Len(q)
    <3>1. k \in 1 .. Len(q) /\ Count(r) + k \in 1 .. Len(Held(r, q))
      BY <1>1, <1>2, <2>1
    <3>2. t[Count(r) + k] = Held(r, q)[Count(r) + k] /\ a[k] = q[k]
      BY <1>1, <1>3, <3>1
    <3>3. QED BY <1>2, <3>1, <3>2
  <2>2. CASE k = Len(q) + 1
    <3>1. Count(r) + k = Len(Held(r, q)) + 1
      BY <1>1, <1>2, <2>2
    <3>2. QED BY <1>1, <1>3, <2>2, <3>1
  <2>3. QED BY <1>1, <2>1, <2>2
<1>7. Held(r, a) = t
  BY <1>1, <1>3, <1>4, <1>5, <1>6, HeldEqual
<1>8. QED BY <1>7 DEF a, t

\* The ring after it has taken a byte.
Kept(r, b) == [r EXCEPT !.buf[r.wr] = b, !.wr = (@ + 1) % RingSize]

\* The ring with a byte more.
LEMMA KeptIs ==
  ASSUME NEW B, NEW r \in Rings(B), NEW b \in B
  PROVE  /\ Kept(r, b) \in Rings(B) /\ Kept(r, b).rd = r.rd
         /\ Kept(r, b).wr = (IF r.wr + 1 = RingSize THEN 0 ELSE r.wr + 1)
         /\ Kept(r, b).buf = [r.buf EXCEPT ![r.wr] = b]
<1> DEFINE s == Kept(r, b)
<1>1. RingSize \in Nat \ {0} /\ r.rd \in 0 .. RingSize - 1 /\ r.wr \in 0 .. RingSize - 1
      /\ r.buf \in [0 .. RingSize - 1 -> B] /\ r = [buf |-> r.buf, rd |-> r.rd, wr |-> r.wr]
  BY Parameters DEF Rings
<1>2. (r.wr + 1) % RingSize = (IF r.wr + 1 = RingSize THEN 0 ELSE r.wr + 1)
  BY <1>1, NextIndex
<1>3. s.rd = r.rd /\ s.wr = (IF r.wr + 1 = RingSize THEN 0 ELSE r.wr + 1)
      /\ s.buf = [r.buf EXCEPT ![r.wr] = b]
  BY <1>1, <1>2 DEF Kept
<1>4. s = [buf |-> s.buf, rd |-> s.rd, wr |-> s.wr]
  <2>1. s = [buf |-> [r.buf EXCEPT ![r.wr] = b], rd |-> r.rd, wr |-> (r.wr + 1) % RingSize]
    <3>1. ASSUME NEW x, NEW y, NEW z, NEW v, x = [buf |-> y, rd |-> z, wr |-> v]
          PROVE  Kept(x, b) = [buf |-> [y EXCEPT ![v] = b], rd |-> z, wr |-> (v + 1) % RingSize]
      <4>1. x.buf = y /\ x.rd = z /\ x.wr = v
        BY <3>1
      <4>2. Kept(x, b) = [x EXCEPT !.buf = [y EXCEPT ![v] = b], !.wr = (v + 1) % RingSize]
        BY <4>1 DEF Kept
      <4>3. QED BY <3>1, <4>2
    <3>2. QED BY <1>1, <3>1
  <2>2. QED BY <2>1
<1>5. s \in Rings(B)
  <2>1. s.buf \in [0 .. RingSize - 1 -> B] /\ s.wr \in 0 .. RingSize - 1 /\ s.rd \in 0 .. RingSize - 1
    <3> HIDE DEF s
    <3>1. QED BY <1>1, <1>3
  <2> HIDE DEF s
  <2>2. QED BY <1>4, <2>1 DEF Rings
<1>6. QED BY <1>3, <1>5

\* CanWrite moves a byte from the FIFO to the ring, and its place in the row
\* stays the same, as long as the ring has room (lib/uart/uart.cc:54).
LEMMA HeldSaved ==
  ASSUME NEW B, NEW r \in Rings(B), NEW q \in Seq(B), q # <<>>, Count(r) < RingSize - 1
  PROVE  Kept(r, Head(q)) \in Rings(B) /\ Held(Kept(r, Head(q)), Tail(q)) = Held(r, q)
<1> DEFINE s == Kept(r, Head(q))
<1>1. RingSize \in Nat \ {0} /\ r.rd \in 0 .. RingSize - 1 /\ r.wr \in 0 .. RingSize - 1
      /\ r.buf \in [0 .. RingSize - 1 -> B] /\ r = [buf |-> r.buf, rd |-> r.rd, wr |-> r.wr]
  BY Parameters DEF Rings
<1>2. Head(q) \in B /\ Head(q) = q[1] /\ Tail(q) \in Seq(B) /\ Len(Tail(q)) = Len(q) - 1
      /\ Len(q) >= 1 /\ Len(q) \in Nat /\ \A k \in 1 .. Len(q) - 1 : Tail(q)[k] = q[k + 1]
  BY TailIs
<1>4. s \in Rings(B) /\ s.rd = r.rd /\ s.wr = (IF r.wr + 1 = RingSize THEN 0 ELSE r.wr + 1)
      /\ s.buf = [r.buf EXCEPT ![r.wr] = Head(q)]
  BY <1>2, KeptIs
<1>6. s \in Rings(B)
  BY <1>4
<1> HIDE DEF s
<1>7. Count(s) = Count(r) + 1 /\ Count(r) \in Nat
  <2>1. ASSUME NEW R \in Nat \ {0}, NEW a \in 0 .. R - 1, NEW b \in 0 .. R - 1,
               (IF b >= a THEN b - a ELSE (b - a) + R) < R - 1, NEW c, c = IF b + 1 = R THEN 0 ELSE b + 1
        PROVE  (IF c >= a THEN c - a ELSE (c - a) + R) = (IF b >= a THEN b - a ELSE (b - a) + R) + 1
    BY <2>1
  <2>2. r.rd \in 0 .. RingSize - 1 /\ Count(r) \in Nat
    BY <1>1 DEF Count
  <2>3. QED BY <1>1, <1>4, <2>1, <2>2 DEF Count
<1>8. \A k \in 1 .. Count(r) : s.buf[Wrap(s.rd + k - 1)] = r.buf[Wrap(r.rd + k - 1)]
  <2> SUFFICES ASSUME NEW k \in 1 .. Count(r)
               PROVE  s.buf[Wrap(s.rd + k - 1)] = r.buf[Wrap(r.rd + k - 1)]
    OBVIOUS
  <2>1. Wrap(r.rd + k - 1) \in 0 .. RingSize - 1
    BY RingIs
  <2>2. Wrap(r.rd + k - 1) # r.wr
    BY <1>1, <1>7 DEF Count, Wrap
  <2>3. QED BY <1>1, <1>4, <2>1, <2>2
<1>9. s.buf[Wrap(s.rd + (Count(r) + 1) - 1)] = q[1]
  <2>1. Wrap(r.rd + (Count(r) + 1) - 1) = r.wr
    BY <1>1, <1>7 DEF Count, Wrap
  <2>2. QED BY <1>1, <1>2, <1>4, <2>1
<1> DEFINE t == Held(r, q)
<1>h. /\ t \in Seq(B) /\ Len(t) = Count(r) + Len(q)
      /\ Count(r) \in 0 .. RingSize - 1 /\ Len(q) \in Nat
      /\ \A k \in 1 .. Count(r) : t[k] = r.buf[Wrap(r.rd + k - 1)]
      /\ \A k \in 1 .. Len(q) : t[Count(r) + k] = q[k]
  <2>1. t \in Seq(B) /\ IsHeld(t, r, q)
    BY HeldIs
  <2> HIDE DEF t
  <2>2. QED BY <2>1 DEF IsHeld
<1> HIDE DEF t
<1>10. t \in Seq(B) /\ Len(t) = Count(s) + Len(Tail(q))
  BY <1>2, <1>7, <1>h
<1>11. ASSUME NEW k \in 1 .. Count(s) PROVE t[k] = s.buf[Wrap(s.rd + k - 1)]
  <2>1. CASE k <= Count(r)
    BY <1>7, <1>8, <1>h, <2>1
  <2>2. CASE k = Count(r) + 1
    <3>1. 1 \in 1 .. Len(q) /\ t[Count(r) + 1] = q[1]
      BY <1>2, <1>h
    <3>2. QED BY <1>4, <1>9, <2>2, <3>1
  <2>3. QED BY <1>7, <2>1, <2>2
<1>12. ASSUME NEW k \in 1 .. Len(Tail(q)) PROVE t[Count(s) + k] = Tail(q)[k]
  <2>1. k + 1 \in 1 .. Len(q) /\ Count(s) + k = Count(r) + (k + 1)
    BY <1>2, <1>7
  <2>2. Tail(q)[k] = q[k + 1] /\ t[Count(r) + (k + 1)] = q[k + 1]
    BY <1>2, <1>h, <2>1
  <2>3. QED BY <2>1, <2>2
<1>13. Held(s, Tail(q)) = t
  BY <1>2, <1>6, <1>10, <1>11, <1>12, HeldEqual
<1>14. QED BY <1>6, <1>13 DEF s, t

\* The ring after a byte has been taken from it.
Given(r) == [r EXCEPT !.rd = (@ + 1) % RingSize]

\* GetAsync takes the oldest byte, from the ring if it holds one
\* (lib/uart/uart.cc:67).
LEMMA HeldTaken ==
  ASSUME NEW B, NEW r \in Rings(B), NEW q \in Seq(B)
  PROVE  /\ r.rd # r.wr =>
              /\ Held(r, q) # <<>> /\ r.buf[r.rd] = Head(Held(r, q))
              /\ Given(r) \in Rings(B) /\ Held(Given(r), q) = Tail(Held(r, q))
         /\ r.rd = r.wr => Held(r, q) = q
<1> DEFINE t == Held(r, q)
<1>1. RingSize \in Nat \ {0} /\ r.rd \in 0 .. RingSize - 1 /\ r.wr \in 0 .. RingSize - 1 /\ r.buf \in [0 .. RingSize - 1 -> B]
      /\ r = [buf |-> r.buf, rd |-> r.rd, wr |-> r.wr]
  BY Parameters DEF Rings
<1>2. t \in Seq(B) /\ Len(t) = Count(r) + Len(q) /\ Count(r) \in 0 .. RingSize - 1 /\ Len(q) \in Nat
      /\ (Count(r) = 0 <=> r.rd = r.wr)
  BY HeldIs, RingIs DEF IsHeld
<1>h. /\ t \in Seq(B) /\ Len(t) = Count(r) + Len(q)
      /\ Count(r) \in 0 .. RingSize - 1 /\ Len(q) \in Nat
      /\ \A k \in 1 .. Count(r) : t[k] = r.buf[Wrap(r.rd + k - 1)]
      /\ \A k \in 1 .. Len(q) : t[Count(r) + k] = q[k]
  <2>1. t \in Seq(B) /\ IsHeld(t, r, q)
    BY HeldIs
  <2> HIDE DEF t
  <2>2. QED BY <2>1 DEF IsHeld
<1>3. ASSUME r.rd = r.wr PROVE t = q
  <2>1. Count(r) = 0 /\ Len(t) = Len(q)
    BY <1>2, <1>3
  <2>2. ASSUME NEW k \in 1 .. Len(q) PROVE t[k] = q[k]
    <3>1. Count(r) + k = k
      BY <1>2, <2>1
    <3>2. QED BY <1>h, <3>1
  <2>3. QED BY <1>2, <2>1, <2>2, SeqEqual
<1>4. ASSUME r.rd # r.wr
      PROVE  t # <<>> /\ r.buf[r.rd] = Head(t) /\ Given(r) \in Rings(B) /\ Held(Given(r), q) = Tail(t)
  <2> DEFINE s == Given(r)
  <2>1. Count(r) >= 1 /\ Len(t) >= 1 /\ t # <<>>
    BY <1>2, <1>4
  <2>2. t[1] = r.buf[r.rd] /\ Head(t) = t[1]
    <3>1. Wrap(r.rd + 1 - 1) = r.rd /\ 1 \in 1 .. Count(r)
      BY <1>1, <1>2, <2>1 DEF Wrap
    <3>2. t[1] = r.buf[Wrap(r.rd + 1 - 1)]
      BY <1>h, <3>1
    <3>3. QED BY <1>2, <2>1, <3>1, <3>2
  <2>3. (r.rd + 1) % RingSize = (IF r.rd + 1 = RingSize THEN 0 ELSE r.rd + 1)
    BY <1>1, NextIndex
  <2>4. s.wr = r.wr /\ s.buf = r.buf /\ s.rd = (IF r.rd + 1 = RingSize THEN 0 ELSE r.rd + 1)
        /\ s = [buf |-> s.buf, rd |-> s.rd, wr |-> s.wr]
    BY <1>1, <2>3 DEF Given
  <2>5. s \in Rings(B)
    <3>1. s.rd \in 0 .. RingSize - 1
      BY <1>1, <2>4
    <3> HIDE DEF s
    <3>2. QED BY <1>1, <2>4, <3>1 DEF Rings
  <2> HIDE DEF s
  <2>6. Count(s) = Count(r) - 1
    BY <1>1, <1>4, <2>4 DEF Count
  <2>7. Tail(t) \in Seq(B) /\ Len(Tail(t)) = Count(s) + Len(q)
        /\ \A k \in 1 .. Len(t) - 1 : Tail(t)[k] = t[k + 1]
    BY <1>2, <2>1, <2>6, TailIs
  <2>8. ASSUME NEW k \in 1 .. Count(s) PROVE Tail(t)[k] = s.buf[Wrap(s.rd + k - 1)]
    <3>1. k + 1 \in 1 .. Count(r) /\ k \in 1 .. Len(t) - 1
      BY <1>2, <2>6
    <3>2. t[k + 1] = r.buf[Wrap(r.rd + (k + 1) - 1)]
      BY <1>h, <3>1
    <3>3. Wrap(r.rd + (k + 1) - 1) = Wrap(s.rd + k - 1)
      BY <1>1, <1>2, <2>4, <2>6 DEF Wrap
    <3>4. QED BY <2>4, <2>7, <3>1, <3>2, <3>3
  <2>9. ASSUME NEW k \in 1 .. Len(q) PROVE Tail(t)[Count(s) + k] = q[k]
    <3>1. Count(s) + k \in 1 .. Len(t) - 1 /\ (Count(s) + k) + 1 = Count(r) + k
      BY <1>2, <2>1, <2>6
    <3>2. Tail(t)[Count(s) + k] = t[Count(r) + k] /\ t[Count(r) + k] = q[k]
      BY <1>h, <2>7, <3>1
    <3>3. QED BY <3>2
  <2>10. Held(s, q) = Tail(t)
    BY <2>5, <2>7, <2>8, <2>9, HeldEqual
  <2>11. QED BY <2>1, <2>2, <2>5, <2>10 DEF s
<1>5. QED BY <1>3, <1>4
-----------------------------------------------------------------------------
(* Files and their bytes.                                                  *)

\* The bytes of a file, the byte that follows one, and where the host may be.
BytesOf(f) == UNION {{<<n, k>> : k \in 1 .. f[n].len} : n \in 1 .. Len(f)}
AfterOf(f, b) == IF b[2] = f[b[1]].len THEN <<b[1] + 1, 1>> ELSE <<b[1], b[2] + 1>>
Places(f) == BytesOf(f) \cup {<<Len(f) + 1, 1>>}

\* What the assumptions say of a file.
LEMMA FileIs ==
  ASSUME NEW f \in Files
  PROVE  /\ Len(f) \in Nat /\ Len(f) >= 1
         /\ \A n \in 1 .. Len(f) :
              /\ f[n].len \in Nat /\ f[n].len >= 1 /\ f[n].type \in {"data", "other", "eof"}
              /\ f[n].type = "eof" <=> n = Len(f)
              /\ n < Len(f) => f[n].len >= 2 * Backlog - 2
<1>1. /\ f # <<>> /\ f \in Seq([type : {"data", "other", "eof"}, len : Nat \ {0}])
      /\ \A n \in 1 .. Len(f) : (f[n].type = "eof") <=> (n = Len(f))
  BY LoaderAssumption
<1>2. \A n \in 1 .. Len(f) - 1 : f[n].len >= 2 * Backlog - 2
  BY FlowAssumption
<1>3. Len(f) \in Nat /\ Len(f) >= 1
  BY <1>1
<1>4. \A n \in 1 .. Len(f) : f[n] \in [type : {"data", "other", "eof"}, len : Nat \ {0}]
  BY <1>1, ElementOfSeq
<1>5. ASSUME NEW n \in 1 .. Len(f), n < Len(f) PROVE n \in 1 .. Len(f) - 1
  BY <1>3, <1>5
<1>6. QED BY <1>1, <1>2, <1>3, <1>4, <1>5

\* A byte is a line and a place in it.
LEMMA ByteIs ==
  ASSUME NEW f \in Files
  PROVE  /\ \A b \in BytesOf(f) : /\ b[1] \in 1 .. Len(f) /\ b[2] \in 1 .. f[b[1]].len
                                  /\ b = <<b[1], b[2]>>
         /\ \A n \in 1 .. Len(f) : \A k \in 1 .. f[n].len : <<n, k>> \in BytesOf(f)
         /\ \A b \in BytesOf(f) : b[1] \in Nat /\ b[2] \in Nat /\ b[1] >= 1 /\ b[1] <= Len(f)
<1>1. ASSUME NEW b \in BytesOf(f)
      PROVE  b[1] \in 1 .. Len(f) /\ b[2] \in 1 .. f[b[1]].len /\ b = <<b[1], b[2]>>
  <2>1. PICK n \in 1 .. Len(f) : b \in {<<n, k>> : k \in 1 .. f[n].len}
    BY DEF BytesOf
  <2>2. PICK k \in 1 .. f[n].len : b = <<n, k>>
    BY <2>1
  <2>3. b[1] = n /\ b[2] = k
    BY <2>2
  <2>4. QED BY <2>2, <2>3
<1>2. \A n \in 1 .. Len(f) : \A k \in 1 .. f[n].len : <<n, k>> \in BytesOf(f)
  BY DEF BytesOf
<1>3. ASSUME NEW b \in BytesOf(f) PROVE b[1] \in Nat /\ b[2] \in Nat /\ b[1] >= 1 /\ b[1] <= Len(f)
  <2>1. b[1] \in 1 .. Len(f) /\ Len(f) \in Nat /\ b[2] \in 1 .. f[b[1]].len /\ f[b[1]].len \in Nat
    BY <1>1, FileIs
  <2>2. QED BY <2>1
<1>4. QED BY <1>1, <1>2, <1>3

\* Where the host may be: at a byte, or behind the last one.
LEMMA PlaceIs ==
  ASSUME NEW f \in Files, NEW b \in Places(f)
  PROVE  /\ b[1] \in Nat /\ b[2] \in Nat /\ b[1] >= 1 /\ b[2] >= 1 /\ b[1] <= Len(f) + 1
         /\ b \in BytesOf(f) <=> b[1] <= Len(f)
         /\ b[1] > Len(f) => b = <<Len(f) + 1, 1>>
<1>1. Len(f) \in Nat
  BY FileIs
<1>2. CASE b \in BytesOf(f)
  BY <1>1, <1>2, ByteIs, FileIs
<1>3. CASE b = <<Len(f) + 1, 1>>
  <2>1. b[1] = Len(f) + 1 /\ b[2] = 1
    BY <1>3
  <2>2. b \notin BytesOf(f)
    <3>1. ASSUME b \in BytesOf(f) PROVE FALSE
      <4>1. b[1] <= Len(f)
        BY <3>1, ByteIs
      <4>2. QED BY <1>1, <2>1, <4>1
    <3>2. QED BY <3>1
  <2>3. QED BY <1>1, <1>3, <2>1, <2>2
<1>4. QED BY <1>2, <1>3 DEF Places

\* The byte that follows one.
LEMMA AfterIs ==
  ASSUME NEW f \in Files, NEW b \in BytesOf(f)
  PROVE  /\ AfterOf(f, b) \in Places(f)
         /\ b[2] = f[b[1]].len => AfterOf(f, b) = <<b[1] + 1, 1>> /\ AfterOf(f, b)[1] = b[1] + 1
                                  /\ AfterOf(f, b)[2] = 1
         /\ b[2] # f[b[1]].len => AfterOf(f, b) = <<b[1], b[2] + 1>> /\ AfterOf(f, b)[1] = b[1]
                                  /\ AfterOf(f, b)[2] = b[2] + 1
<1>1. b[1] \in 1 .. Len(f) /\ b[2] \in 1 .. f[b[1]].len /\ b[2] \in Nat /\ Len(f) \in Nat
      /\ f[b[1]].len \in Nat
  BY ByteIs, FileIs
<1>2. CASE b[2] = f[b[1]].len
  <2>1. AfterOf(f, b) = <<b[1] + 1, 1>>
    BY <1>2 DEF AfterOf
  <2>2. AfterOf(f, b) \in Places(f)
    <3>1. CASE b[1] = Len(f)
      BY <2>1, <3>1 DEF Places
    <3>2. CASE b[1] # Len(f)
      <4>1. b[1] + 1 \in 1 .. Len(f)
        BY <1>1, <3>2
      <4>2. 1 \in 1 .. f[b[1] + 1].len
        BY <4>1, FileIs
      <4>3. QED BY <2>1, <4>1, <4>2, ByteIs DEF Places
    <3>3. QED BY <3>1, <3>2
  <2>3. QED BY <1>2, <2>1, <2>2
<1>3. CASE b[2] # f[b[1]].len
  <2>1. AfterOf(f, b) = <<b[1], b[2] + 1>>
    BY <1>3 DEF AfterOf
  <2>2. b[2] + 1 \in 1 .. f[b[1]].len
    BY <1>1, <1>3
  <2>3. <<b[1], b[2] + 1>> \in BytesOf(f)
    BY <1>1, <2>2, ByteIs
  <2>4. QED BY <1>3, <2>1, <2>3 DEF Places
<1>4. QED BY <1>2, <1>3

\* What is told apart of the four loaders.
LEMMA MainIs ==
  ASSUME NEW m \in Mains
  PROVE  /\ m.flow \in BOOLEAN /\ m.boot \in Seq(Codes) /\ m.end \in Seq(Codes)
         /\ m.next \in {"drain", "jump"} /\ (m.next = "drain" <=> m = Noelv)
         /\ m.flow = TRUE <=> m.callback = "lib"
<1>1. /\ <<Text, Prompt>> \in Seq(Codes) /\ <<Prompt>> \in Seq(Codes)
      /\ <<Text, Prompt, Text>> \in Seq(Codes) /\ <<Text, Text, Prompt, Text>> \in Seq(Codes)
      /\ <<XON, Text>> \in Seq(Codes)
      /\ <<Text, Text>> \in Seq(Codes)
  BY DEF Codes
<1>2. CASE m = Noelv
  BY <1>1, <1>2 DEF Noelv
<1>3. CASE m = Exec
  BY <1>1, <1>3 DEF Noelv, Exec
<1>4. CASE m = Ddr3
  BY <1>1, <1>4 DEF Noelv, Ddr3
<1>5. CASE m = Muntjac
  BY <1>1, <1>5 DEF Noelv, Muntjac
<1>6. QED BY <1>2, <1>3, <1>4, <1>5 DEF Mains
-----------------------------------------------------------------------------
(* Types.                                                                  *)

LinesOf(f) == 1 .. Len(f)
Fate == {None, "good", "bad", "skipped", "open"}

HostType(f) == [next : Places(f), paused : BOOLEAN, credit : 0 .. Overshoot,
                damaged : SUBSET BytesOf(f)]
UartType(f) == [rx : Seq(BytesOf(f)), tx : Seq(Codes), shift : Codes]
FwType(f) == [pc : Pcs, out : Seq(Codes), room : BOOLEAN, line : Seq(BytesOf(f)),
              steps : 0 .. StepsPerSlot, spun : 0 .. DrainSlots]

\* The types of the variables, and the sizes of the buffers.
TypeInv ==
  /\ job \in [main : Mains, file : Files]
  /\ host \in HostType(File)
  /\ uart \in UartType(File) /\ Len(uart.rx) <= FifoDepth /\ Len(uart.tx) <= FifoDepth
  /\ ring \in Rings(BytesOf(File))
  /\ fw \in FwType(File) /\ Len(fw.line) <= LineSize
  /\ fw.pc = "getline" => Len(fw.line) < LineSize
  /\ fw.pc = "decode" => fw.line # <<>>
  /\ record \in [LinesOf(File) -> Fate]
  /\ perctl \in [mux : {0, 1}, run : {0, 1}, dump : {0, 1}]

\* The bytes received and not yet taken.
Waiting == Held(ring, uart.rx)

\* The fields of the variables, one by one.
LEMMA Fields ==
  ASSUME TypeInv
  PROVE  /\ Main \in Mains /\ File \in Files
         /\ host.next \in Places(File) /\ host.paused \in BOOLEAN /\ host.credit \in 0 .. Overshoot
         /\ host.damaged \in SUBSET BytesOf(File)
         /\ uart.rx \in Seq(BytesOf(File)) /\ uart.tx \in Seq(Codes) /\ uart.shift \in Codes
         /\ fw.pc \in Pcs /\ fw.out \in Seq(Codes) /\ fw.room \in BOOLEAN
         /\ fw.line \in Seq(BytesOf(File))
         /\ fw.steps \in 0 .. StepsPerSlot /\ fw.spun \in 0 .. DrainSlots
         /\ perctl.mux \in {0, 1} /\ perctl.run \in {0, 1} /\ perctl.dump \in {0, 1}
         /\ Waiting \in Seq(BytesOf(File)) /\ InRing = RingBytes(ring)
         /\ IsHeld(Waiting, ring, uart.rx)
<1>1. job.main \in Mains /\ job.file \in Files /\ Main = job.main /\ File = job.file
  BY DEF TypeInv, Main, File
<1>2. host \in HostType(File) /\ uart \in UartType(File) /\ fw \in FwType(File)
      /\ perctl \in [mux : {0, 1}, run : {0, 1}, dump : {0, 1}] /\ ring \in Rings(BytesOf(File))
  BY DEF TypeInv
<1>3. uart.rx \in Seq(BytesOf(File)) /\ uart.tx \in Seq(Codes) /\ uart.shift \in Codes
  BY <1>2 DEF UartType
<1>4. /\ host.next \in Places(File) /\ host.paused \in BOOLEAN /\ host.credit \in 0 .. Overshoot
      /\ host.damaged \in SUBSET BytesOf(File)
  BY <1>2 DEF HostType
<1>5. /\ fw.pc \in Pcs /\ fw.out \in Seq(Codes) /\ fw.room \in BOOLEAN
      /\ fw.line \in Seq(BytesOf(File))
      /\ fw.steps \in 0 .. StepsPerSlot /\ fw.spun \in 0 .. DrainSlots
  BY <1>2 DEF FwType
<1>6. Waiting \in Seq(BytesOf(File)) /\ IsHeld(Waiting, ring, uart.rx)
  BY <1>2, <1>3, HeldIs DEF Waiting
<1>7. InRing = RingBytes(ring)
  BY DEF InRing, RingBytes
<1>8. perctl.mux \in {0, 1} /\ perctl.run \in {0, 1} /\ perctl.dump \in {0, 1}
  BY <1>2
<1>9. QED BY <1>1, <1>3, <1>4, <1>5, <1>6, <1>7, <1>8
-----------------------------------------------------------------------------
(* What each action does, field by field.                                  *)

More(n) == IF n < StepsPerSlot THEN n + 1 ELSE n

\* A field of the firmware's record is set, and the others stay.
LEMMA FwSet ==
  ASSUME NEW f, NEW s \in FwType(f)
  PROVE  /\ \A v \in Pcs : LET g == [s EXCEPT !.pc = v]
                    IN /\ g \in FwType(f) /\ g.pc = v /\ g.out = s.out /\ g.room = s.room
                       /\ g.line = s.line /\ g.steps = s.steps /\ g.spun = s.spun
         /\ \A v \in Seq(Codes) : LET g == [s EXCEPT !.out = v]
                    IN /\ g \in FwType(f) /\ g.out = v /\ g.pc = s.pc /\ g.room = s.room
                       /\ g.line = s.line /\ g.steps = s.steps /\ g.spun = s.spun
         /\ \A v \in BOOLEAN : LET g == [s EXCEPT !.room = v]
                    IN /\ g \in FwType(f) /\ g.room = v /\ g.pc = s.pc /\ g.out = s.out
                       /\ g.line = s.line /\ g.steps = s.steps /\ g.spun = s.spun
         /\ \A v \in Seq(BytesOf(f)) : LET g == [s EXCEPT !.line = v]
                    IN /\ g \in FwType(f) /\ g.line = v /\ g.pc = s.pc /\ g.out = s.out
                       /\ g.room = s.room /\ g.steps = s.steps /\ g.spun = s.spun
         /\ \A v \in 0 .. StepsPerSlot : LET g == [s EXCEPT !.steps = v]
                    IN /\ g \in FwType(f) /\ g.steps = v /\ g.pc = s.pc /\ g.out = s.out
                       /\ g.room = s.room /\ g.line = s.line /\ g.spun = s.spun
         /\ \A v \in 0 .. DrainSlots : LET g == [s EXCEPT !.spun = v]
                    IN /\ g \in FwType(f) /\ g.spun = v /\ g.pc = s.pc /\ g.out = s.out
                       /\ g.room = s.room /\ g.line = s.line /\ g.steps = s.steps
  BY DEF FwType

\* A step of the firmware: nothing else of it changes than what is said.
LEMMA Stepped ==
  ASSUME TypeInv, NEW g \in FwType(File)
  PROVE  /\ Step(g) \in FwType(File) /\ Step(g).steps = More(g.steps)
         /\ Step(g).pc = g.pc /\ Step(g).out = g.out /\ Step(g).room = g.room
         /\ Step(g).line = g.line /\ Step(g).spun = g.spun
<1>1. g.steps \in 0 .. StepsPerSlot
  BY DEF FwType
<1>2. More(g.steps) \in 0 .. StepsPerSlot
  BY <1>1, Parameters DEF More
<1>3. Step(g) = [g EXCEPT !.steps = More(g.steps)]
  BY DEF Step, More
<1> DEFINE y == More(g.steps)
<1> HIDE DEF y
<1>4. Step(g) = [g EXCEPT !.steps = y] /\ y \in 0 .. StepsPerSlot
  BY <1>2, <1>3 DEF y
<1>5. QED BY <1>4, FwSet DEF y

\* A poll takes a byte from the FIFO of received bytes.
LEMMA PoppedIs ==
  ASSUME TypeInv
  PROVE  /\ Popped \in UartType(File) /\ Popped.tx = uart.tx /\ Popped.shift = uart.shift
         /\ Popped.rx = (IF uart.rx = <<>> THEN uart.rx ELSE Tail(uart.rx))
         /\ Len(Popped.rx) <= FifoDepth
<1>1. uart \in UartType(File) /\ Len(uart.rx) <= FifoDepth
  BY DEF TypeInv
<1>2. Popped.tx = uart.tx /\ Popped.shift = uart.shift
      /\ Popped.rx = (IF uart.rx = <<>> THEN uart.rx ELSE Tail(uart.rx))
      /\ Popped = [rx |-> Popped.rx, tx |-> Popped.tx, shift |-> Popped.shift]
  <2>1. uart = [rx |-> uart.rx, tx |-> uart.tx, shift |-> uart.shift]
    BY <1>1 DEF UartType
  <2>2. Popped = [rx |-> IF uart.rx = <<>> THEN uart.rx ELSE Tail(uart.rx),
                  tx |-> uart.tx, shift |-> uart.shift]
    <3>1. ASSUME NEW u, NEW x, NEW t, NEW s, NEW y, u = [rx |-> x, tx |-> t, shift |-> s]
          PROVE  [u EXCEPT !.rx = y] = [rx |-> y, tx |-> t, shift |-> s]
      BY <3>1
    <3>2. Popped = [uart EXCEPT !.rx = IF uart.rx = <<>> THEN uart.rx ELSE Tail(uart.rx)]
      BY DEF Popped
    <3>3. QED BY <2>1, <3>1, <3>2
  <2>3. QED BY <2>2
<1>3. Popped.rx \in Seq(BytesOf(File)) /\ Len(Popped.rx) <= FifoDepth
  <2>1. CASE uart.rx = <<>>
    BY <1>1, <1>2, <2>1, Fields
  <2>2. CASE uart.rx # <<>>
    <3>1. Tail(uart.rx) \in Seq(BytesOf(File)) /\ Len(Tail(uart.rx)) = Len(uart.rx) - 1
          /\ Len(uart.rx) \in Nat
      BY <2>2, Fields, TailIs
    <3>2. QED BY <1>1, <1>2, <2>2, <3>1, Parameters
  <2>3. QED BY <2>1, <2>2
<1>4. QED BY <1>2, <1>3, Fields DEF UartType

\* CanWrite (lib/uart/uart.cc:54): the byte that the poll removes is kept, and
\* while the ring has room for it, nothing that is waiting moves.
LEMMA CanWriteDoes ==
  ASSUME TypeInv, CanWrite
  PROVE  /\ UNCHANGED <<job, host, record, perctl>>
         /\ fw.out # <<>> /\ fw.room = FALSE
         /\ fw' \in FwType(File) /\ fw'.pc = fw.pc /\ fw'.out = fw.out /\ fw'.line = fw.line
         /\ fw'.spun = fw.spun /\ fw'.steps = More(fw.steps)
         /\ fw'.room = (Len(uart.tx) < FifoDepth)
         /\ uart' \in UartType(File) /\ Len(uart'.rx) <= FifoDepth
         /\ uart'.tx = uart.tx /\ uart'.shift = uart.shift
         /\ ring' \in Rings(BytesOf(File))
         /\ Len(Waiting) < RingSize => Waiting' = Waiting
<1>1. /\ UNCHANGED <<job, host, record, perctl>> /\ fw.out # <<>> /\ fw.room = FALSE
      /\ ring' = Saved /\ uart' = Popped
      /\ fw' = Step([fw EXCEPT !.room = Len(uart.tx) < FifoDepth])
  BY DEF CanWrite
<1> DEFINE m == (Len(uart.tx) < FifoDepth)
<1>2. m \in BOOLEAN /\ fw \in FwType(File)
  BY DEF TypeInv
<1>3. fw' = Step([fw EXCEPT !.room = m])
  BY <1>1
<1> HIDE DEF m
<1> DEFINE g == [fw EXCEPT !.room = m]
<1>a. /\ g \in FwType(File) /\ g.pc = fw.pc /\ g.out = fw.out /\ g.line = fw.line
      /\ g.spun = fw.spun /\ g.steps = fw.steps /\ g.room = m
  BY <1>2, FwSet
<1> HIDE DEF g
<1>b. /\ fw' \in FwType(File) /\ fw'.pc = fw.pc /\ fw'.out = fw.out /\ fw'.line = fw.line
      /\ fw'.spun = fw.spun /\ fw'.steps = More(fw.steps)
      /\ fw'.room = m
  BY <1>3, <1>a, Stepped DEF g
<1>4. /\ fw' \in FwType(File) /\ fw'.pc = fw.pc /\ fw'.out = fw.out /\ fw'.line = fw.line
      /\ fw'.spun = fw.spun /\ fw'.steps = More(fw.steps)
      /\ fw'.room = (Len(uart.tx) < FifoDepth)
  BY <1>b DEF m
<1>5. /\ uart' \in UartType(File) /\ Len(uart'.rx) <= FifoDepth
      /\ uart'.tx = uart.tx /\ uart'.shift = uart.shift
      /\ uart'.rx = (IF uart.rx = <<>> THEN uart.rx ELSE Tail(uart.rx))
  BY <1>1, PoppedIs
<1>6. ring \in Rings(BytesOf(File)) /\ uart.rx \in Seq(BytesOf(File))
  BY Fields DEF TypeInv
<1>7. /\ ring' \in Rings(BytesOf(File))
      /\ Len(Waiting) < RingSize => Held(ring', uart'.rx) = Held(ring, uart.rx)
  <2>1. CASE uart.rx = <<>>
    <3>1. ring' = ring /\ uart'.rx = uart.rx
      BY <1>1, <1>5, <2>1 DEF Saved
    <3>2. QED BY <1>6, <3>1
  <2>2. CASE uart.rx # <<>>
    <3>1. ring' = Kept(ring, Head(uart.rx)) /\ uart'.rx = Tail(uart.rx)
      BY <1>1, <1>5, <2>2 DEF Saved, Kept
    <3>2. Kept(ring, Head(uart.rx)) \in Rings(BytesOf(File))
      <4>1. Head(uart.rx) \in BytesOf(File)
        BY <1>6, <2>2, TailIs
      <4>2. QED BY <1>6, <4>1, KeptIs
    <3>3. Len(Waiting) < RingSize => Count(ring) < RingSize - 1
      <4>1. Len(Waiting) = Count(ring) + Len(uart.rx) /\ Count(ring) \in 0 .. RingSize - 1
            /\ Len(uart.rx) \in Nat
        BY Fields DEF IsHeld
      <4>2. Len(uart.rx) >= 1
        BY <1>6, <2>2, TailIs
      <4>3. QED BY <4>1, <4>2, Parameters
    <3>4. QED BY <1>6, <2>2, <3>1, <3>2, <3>3, HeldSaved
  <2>3. QED BY <2>1, <2>2
<1>8. QED BY <1>1, <1>4, <1>5, <1>7 DEF Waiting

\* A field of the UART is set, and the others stay.
LEMMA UartSet ==
  ASSUME NEW f, NEW u \in UartType(f)
  PROVE  /\ \A v \in Seq(BytesOf(f)) : LET g == [u EXCEPT !.rx = v]
                    IN g \in UartType(f) /\ g.rx = v /\ g.tx = u.tx /\ g.shift = u.shift
         /\ \A v \in Seq(Codes) : LET g == [u EXCEPT !.tx = v]
                    IN g \in UartType(f) /\ g.tx = v /\ g.rx = u.rx /\ g.shift = u.shift
         /\ \A v \in Codes : LET g == [u EXCEPT !.shift = v]
                    IN g \in UartType(f) /\ g.shift = v /\ g.rx = u.rx /\ g.tx = u.tx
  BY DEF UartType

\* A field of the host is set, and the others stay.
LEMMA HostSet ==
  ASSUME NEW f, NEW h \in HostType(f)
  PROVE  /\ \A v \in Places(f) : LET g == [h EXCEPT !.next = v]
                    IN /\ g \in HostType(f) /\ g.next = v /\ g.paused = h.paused
                       /\ g.credit = h.credit /\ g.damaged = h.damaged
         /\ \A v \in BOOLEAN : LET g == [h EXCEPT !.paused = v]
                    IN /\ g \in HostType(f) /\ g.paused = v /\ g.next = h.next
                       /\ g.credit = h.credit /\ g.damaged = h.damaged
         /\ \A v \in 0 .. Overshoot : LET g == [h EXCEPT !.credit = v]
                    IN /\ g \in HostType(f) /\ g.credit = v /\ g.next = h.next
                       /\ g.paused = h.paused /\ g.damaged = h.damaged
         /\ \A v \in SUBSET BytesOf(f) : LET g == [h EXCEPT !.damaged = v]
                    IN /\ g \in HostType(f) /\ g.damaged = v /\ g.next = h.next
                       /\ g.paused = h.paused /\ g.credit = h.credit
  BY DEF HostType

\* Write (lib/uart/uart.cc:30).
LEMMA WriteDoes ==
  ASSUME TypeInv, Write
  PROVE  /\ UNCHANGED <<job, host, ring, record, perctl>>
         /\ fw.out # <<>> /\ fw.room = TRUE
         /\ fw' \in FwType(File) /\ fw'.pc = fw.pc /\ fw'.out = Tail(fw.out) /\ fw'.line = fw.line
         /\ fw'.spun = fw.spun /\ fw'.steps = More(fw.steps)
         /\ fw'.room = FALSE
         /\ uart' \in UartType(File) /\ uart'.rx = uart.rx /\ uart'.shift = uart.shift
         /\ uart'.tx = (IF Len(uart.tx) < FifoDepth THEN Append(uart.tx, Head(fw.out)) ELSE uart.tx)
         /\ Len(uart'.tx) <= FifoDepth
         /\ Waiting' = Waiting
<1>1. /\ UNCHANGED <<job, host, ring, record, perctl>> /\ fw.out # <<>> /\ fw.room = TRUE
      /\ uart' = [uart EXCEPT !.tx = IF Len(@) < FifoDepth THEN Append(@, Head(fw.out)) ELSE @]
      /\ fw' = Step([fw EXCEPT !.room = FALSE, !.out = Tail(@)])
  BY DEF Write
<1>2. fw \in FwType(File) /\ uart \in UartType(File) /\ Len(uart.tx) <= FifoDepth
  BY DEF TypeInv
<1>3. Tail(fw.out) \in Seq(Codes) /\ Head(fw.out) \in Codes
  BY <1>1, Fields, TailIs
<1> DEFINE g == [fw EXCEPT !.room = FALSE]
<1>4. /\ g \in FwType(File) /\ g.pc = fw.pc /\ g.out = fw.out /\ g.line = fw.line
      /\ g.spun = fw.spun /\ g.steps = fw.steps /\ g.room = FALSE
  <2> DEFINE m == FALSE
             k == [fw EXCEPT !.room = m]
  <2>1. m \in BOOLEAN
    OBVIOUS
  <2> HIDE DEF m
  <2>2. /\ k \in FwType(File) /\ k.pc = fw.pc /\ k.out = fw.out /\ k.line = fw.line
        /\ k.spun = fw.spun /\ k.steps = fw.steps /\ k.room = m
    BY <1>2, <2>1, FwSet
  <2>3. QED BY <2>2 DEF m
<1> HIDE DEF g
<1> DEFINE o == Tail(fw.out)
           h == [g EXCEPT !.out = o]
<1>5. fw' = Step(h)
  BY <1>1 DEF g
<1>6. o \in Seq(Codes)
  BY <1>3
<1> HIDE DEF o
<1>7. /\ h \in FwType(File) /\ h.pc = g.pc /\ h.out = o /\ h.line = g.line
      /\ h.spun = g.spun /\ h.steps = g.steps /\ h.room = g.room
  BY <1>4, <1>6, FwSet
<1> HIDE DEF h
<1>8. /\ fw' \in FwType(File) /\ fw'.pc = fw.pc /\ fw'.out = o /\ fw'.line = fw.line
      /\ fw'.spun = fw.spun /\ fw'.steps = More(fw.steps)
      /\ fw'.room = FALSE
  BY <1>4, <1>5, <1>7, Stepped
<1> DEFINE t == IF Len(uart.tx) < FifoDepth THEN Append(uart.tx, Head(fw.out)) ELSE uart.tx
<1>9. t \in Seq(Codes) /\ Len(t) <= FifoDepth
  <2>1. uart.tx \in Seq(Codes) /\ Len(uart.tx) \in Nat /\ FifoDepth \in Nat
    BY Fields, Parameters
  <2>2. Append(uart.tx, Head(fw.out)) \in Seq(Codes)
        /\ Len(Append(uart.tx, Head(fw.out))) = Len(uart.tx) + 1
    BY <1>3, <2>1
  <2>3. QED BY <1>2, <2>1, <2>2
<1>10. uart' = [uart EXCEPT !.tx = t]
  BY <1>1
<1> HIDE DEF t
<1>11. uart' \in UartType(File) /\ uart'.rx = uart.rx /\ uart'.shift = uart.shift /\ uart'.tx = t
  BY <1>2, <1>9, <1>10, UartSet
<1>12. Waiting' = Waiting
  BY <1>1, <1>11 DEF Waiting
<1>13. QED BY <1>1, <1>8, <1>9, <1>11, <1>12 DEF o, t

\* What the line and the firmware are after a byte has been taken: another
\* byte of the line, its end, or the end of the buffer (lib/uart/uart.cc:156).
LEMMA TookIs ==
  ASSUME TypeInv, fw.pc = "getline", fw.out = <<>>, NEW b \in BytesOf(File)
  PROVE  LET full == Len(fw.line) + 1 = LineSize
             last == Ends(b)
             g    == Took(b)
         IN /\ g \in FwType(File) /\ g.line = Append(fw.line, b) /\ g.room = fw.room
            /\ g.spun = fw.spun /\ g.steps = fw.steps
            /\ full => g.pc = "hung"
            /\ ~full /\ last => g.pc = "decode" /\ g.out = IF Main.flow THEN <<XOFF>> ELSE <<>>
            /\ ~full /\ ~last => g.pc = "getline" /\ g.out = <<>>
<1> DEFINE l == Append(fw.line, b)
           f == [fw EXCEPT !.line = l]
           e == EndOfLine(f)
<1>1. l \in Seq(BytesOf(File)) /\ Len(l) = Len(fw.line) + 1 /\ fw \in FwType(File)
  BY Fields DEF TypeInv
<1>2. Took(b) = IF Ends(b) \/ Len(f.line) = LineSize THEN e ELSE f
  BY DEF Took
<1> HIDE DEF l
<1>3. /\ f \in FwType(File) /\ f.line = l /\ f.pc = fw.pc /\ f.out = fw.out /\ f.room = fw.room
      /\ f.spun = fw.spun /\ f.steps = fw.steps
  BY <1>1, FwSet
<1> HIDE DEF f
<1> DEFINE oh == IF Main.flow THEN <<XOFF, XON, Text>> ELSE <<Text>>
           od == IF Main.flow THEN <<XOFF>> ELSE <<>>
           fh == [f EXCEPT !.pc = "hung"]
           fd == [f EXCEPT !.pc = "decode"]
<1>4. oh \in Seq(Codes) /\ od \in Seq(Codes)
  <2>1. <<XOFF, XON, Text>> \in Seq(Codes) /\ <<Text>> \in Seq(Codes) /\ <<XOFF>> \in Seq(Codes)
        /\ <<>> \in Seq(Codes)
    BY DEF Codes
  <2>2. QED BY <2>1
<1>5. e = IF Len(f.line) = LineSize THEN [fh EXCEPT !.out = oh] ELSE [fd EXCEPT !.out = od]
  BY DEF EndOfLine
<1> HIDE DEF oh, od, e
<1>6. /\ fh \in FwType(File) /\ fh.pc = "hung" /\ fh.line = f.line /\ fh.room = f.room
      /\ fh.spun = f.spun /\ fh.steps = f.steps
  <2>1. "hung" \in Pcs
    BY DEF Pcs
  <2>2. QED BY <1>3, <2>1, FwSet
<1>7. /\ fd \in FwType(File) /\ fd.pc = "decode" /\ fd.line = f.line /\ fd.room = f.room
      /\ fd.spun = f.spun /\ fd.steps = f.steps
  <2>1. "decode" \in Pcs
    BY DEF Pcs
  <2>2. QED BY <1>3, <2>1, FwSet
<1> HIDE DEF fh, fd
<1> DEFINE gh == [fh EXCEPT !.out = oh]
           gd == [fd EXCEPT !.out = od]
<1>8. /\ gh \in FwType(File) /\ gh.pc = fh.pc /\ gh.line = fh.line /\ gh.room = fh.room
      /\ gh.spun = fh.spun /\ gh.steps = fh.steps /\ gh.out = oh
  BY <1>4, <1>6, FwSet
<1>9. /\ gd \in FwType(File) /\ gd.pc = fd.pc /\ gd.line = fd.line /\ gd.room = fd.room
      /\ gd.spun = fd.spun /\ gd.steps = fd.steps /\ gd.out = od
  BY <1>4, <1>7, FwSet
<1>10. e = IF Len(f.line) = LineSize THEN gh ELSE gd
  BY <1>5
<1> HIDE DEF gh, gd
<1>11. CASE Len(fw.line) + 1 = LineSize
  <2>1. Took(b) = gh
    BY <1>1, <1>2, <1>3, <1>10, <1>11
  <2>2. QED BY <1>3, <1>6, <1>8, <1>11, <2>1 DEF l
<1>12. CASE Len(fw.line) + 1 # LineSize /\ Ends(b)
  <2>1. Took(b) = gd
    BY <1>1, <1>2, <1>3, <1>10, <1>12
  <2>2. QED BY <1>3, <1>7, <1>9, <1>12, <2>1 DEF l, od
<1>13. CASE Len(fw.line) + 1 # LineSize /\ ~Ends(b)
  <2>1. Took(b) = f
    BY <1>1, <1>2, <1>3, <1>13
  <2>2. QED BY <1>3, <1>13, <2>1 DEF l
<1>14. QED BY <1>11, <1>12, <1>13

\* GetAsync (lib/uart/uart.cc:67) takes the oldest byte that waits, if any.
LEMMA GetAsyncDoes ==
  ASSUME TypeInv, GetAsync
  PROVE  /\ UNCHANGED <<job, host, record, perctl>>
         /\ fw.pc = "getline" /\ fw.out = <<>>
         /\ uart' \in UartType(File) /\ Len(uart'.rx) <= FifoDepth
         /\ uart'.tx = uart.tx /\ uart'.shift = uart.shift
         /\ ring' \in Rings(BytesOf(File))
         /\ \/ Waiting = <<>> /\ Waiting' = Waiting /\ fw' = Step(fw)
            \/ /\ Waiting # <<>> /\ Waiting' = Tail(Waiting)
               /\ fw' = Step(Took(Head(Waiting)))
<1>1. /\ UNCHANGED <<job, host, record, perctl>> /\ fw.pc = "getline" /\ fw.out = <<>>
  BY DEF GetAsync
<1>2. uart \in UartType(File) /\ Len(uart.rx) <= FifoDepth /\ ring \in Rings(BytesOf(File))
      /\ uart.rx \in Seq(BytesOf(File))
  BY Fields DEF TypeInv
<1>3. /\ ring.rd # ring.wr =>
              /\ Waiting # <<>> /\ ring.buf[ring.rd] = Head(Waiting)
              /\ Given(ring) \in Rings(BytesOf(File)) /\ Held(Given(ring), uart.rx) = Tail(Waiting)
      /\ ring.rd = ring.wr => Waiting = uart.rx
  BY <1>2, HeldTaken DEF Waiting
<1>4. CASE /\ ring.rd # ring.wr /\ fw' = Step(Took(ring.buf[ring.rd]))
           /\ ring' = [ring EXCEPT !.rd = (@ + 1) % RingSize] /\ UNCHANGED uart
  <2>1. ring' = Given(ring)
    BY <1>4 DEF Given
  <2>2. Waiting' = Tail(Waiting)
    BY <1>3, <1>4, <2>1 DEF Waiting
  <2>3. QED BY <1>1, <1>2, <1>3, <1>4, <2>1, <2>2
<1>5. CASE /\ ring.rd = ring.wr /\ uart.rx # <<>> /\ fw' = Step(Took(Head(uart.rx)))
           /\ uart' = Popped /\ UNCHANGED ring
  <2>1. uart' \in UartType(File) /\ uart'.tx = uart.tx /\ uart'.shift = uart.shift
        /\ uart'.rx = Tail(uart.rx) /\ Len(uart'.rx) <= FifoDepth
    BY <1>5, PoppedIs
  <2>2. uart'.rx \in Seq(BytesOf(File))
    BY <1>2, <1>5, <2>1, TailIs
  <2>3. Held(ring, uart'.rx) = uart'.rx
    <3>1. ASSUME NEW q \in Seq(BytesOf(File)) PROVE Held(ring, q) = q
      BY <1>2, <1>5, HeldTaken
    <3>2. QED BY <2>2, <3>1
  <2>4. Waiting' = Tail(Waiting)
    BY <1>3, <1>5, <2>1, <2>3 DEF Waiting
  <2>5. QED BY <1>1, <1>2, <1>3, <1>5, <2>1, <2>4
<1>6. CASE ring.rd = ring.wr /\ uart.rx = <<>> /\ fw' = Step(fw) /\ UNCHANGED <<ring, uart>>
  BY <1>1, <1>2, <1>3, <1>6 DEF Waiting
<1>7. QED BY <1>4, <1>5, <1>6 DEF GetAsync

\* What main() does between lines.
LEMMA GotoIs ==
  ASSUME TypeInv, NEW o \in Seq(Codes), NEW p \in Pcs
  PROVE  /\ Goto(o, p) \in FwType(File) /\ Goto(o, p).out = o /\ Goto(o, p).pc = p
         /\ Goto(o, p).line = <<>> /\ Goto(o, p).room = fw.room
         /\ Goto(o, p).steps = fw.steps /\ Goto(o, p).spun = fw.spun
<1> DEFINE x == [fw EXCEPT !.out = o]
           y == [x EXCEPT !.pc = p]
           l == <<>>
           z == [y EXCEPT !.line = l]
<1>1. fw \in FwType(File) /\ l \in Seq(BytesOf(File))
  BY DEF TypeInv
<1>2. /\ x \in FwType(File) /\ x.out = o /\ x.line = fw.line /\ x.room = fw.room
      /\ x.steps = fw.steps /\ x.spun = fw.spun
  BY <1>1, FwSet
<1>3. Goto(o, p) = z
  BY DEF Goto
<1> HIDE DEF x, l
<1>4. /\ y \in FwType(File) /\ y.pc = p /\ y.out = x.out /\ y.line = x.line /\ y.room = x.room
      /\ y.steps = x.steps /\ y.spun = x.spun
  BY <1>2, FwSet
<1> HIDE DEF y
<1>5. /\ z \in FwType(File) /\ z.line = l /\ z.pc = y.pc /\ z.out = y.out /\ z.room = y.room
      /\ z.steps = y.steps /\ z.spun = y.spun
  BY <1>1, <1>4, FwSet
<1> HIDE DEF z
<1>6. QED BY <1>2, <1>3, <1>4, <1>5 DEF l

\* After a line: the next one is requested, or what follows the file is begun.
LEMMA NextLineIs ==
  ASSUME TypeInv, NEW o \in Seq({Text}), NEW eof \in BOOLEAN
  PROVE  LET g == NextLine(o, eof)
         IN /\ g \in FwType(File) /\ g.line = <<>> /\ g.room = fw.room
            /\ g.steps = fw.steps /\ g.spun = fw.spun
            /\ eof => g.pc = Main.next
            /\ ~eof => /\ g.pc = "getline"
                       /\ g.out = IF Main.flow THEN Append(o, XON) ELSE o
<1>1. /\ Main \in Mains /\ Main.next \in {"drain", "jump"} /\ Main.end \in Seq(Codes)
  BY Fields, MainIs
<1>2. o \in Seq(Codes)
  BY SeqMonotonic DEF Codes
<1>3. o \o Main.end \in Seq(Codes) /\ Append(o, XON) \in Seq(Codes)
  BY <1>1, <1>2 DEF Codes
<1>4. Main.next \in Pcs /\ "getline" \in Pcs
  BY <1>1 DEF Pcs
<1>5. CASE eof
  <2> DEFINE h == Goto(o \o Main.end, Main.next)
  <2>1. NextLine(o, eof) = h
    BY <1>5 DEF NextLine
  <2>2. /\ h \in FwType(File) /\ h.pc = Main.next /\ h.line = <<>> /\ h.room = fw.room
        /\ h.steps = fw.steps /\ h.spun = fw.spun
    BY <1>3, <1>4, GotoIs
  <2> HIDE DEF h
  <2>3. QED BY <1>5, <2>1, <2>2
<1>6. CASE ~eof
  <2> DEFINE q == IF Main.flow THEN Append(o, XON) ELSE o
             g == Goto(q, "getline")
  <2>1. NextLine(o, eof) = g
    BY <1>6 DEF NextLine
  <2>2. q \in Seq(Codes)
    BY <1>2, <1>3
  <2> HIDE DEF q
  <2>3. /\ g \in FwType(File) /\ g.pc = "getline" /\ g.line = <<>> /\ g.room = fw.room
        /\ g.steps = fw.steps /\ g.spun = fw.spun /\ g.out = q
    BY <1>4, <2>2, GotoIs
  <2> HIDE DEF g
  <2>4. QED BY <1>6, <2>1, <2>3 DEF q
<1>7. QED BY <1>5, <1>6

\* Decode: it gives up, and then a byte was hit; or it reads the last record of
\* the line, and the one before if noise has joined two lines.
DecodeGivesUp == Open # {} \/ HitIn(fw.line[Len(fw.line)][1])
DecodeReads(n, m, fate, eof) ==
  /\ Open = {} /\ fate \in Fates(m) /\ eof = (fate = "good" /\ File[m].type = "eof")
  /\ record' = [k \in LinesOf(File) |-> IF k = m THEN fate ELSE IF k = n THEN "good" ELSE record[k]]
  /\ eof => fw'.pc = Main.next
  /\ ~eof => /\ fw'.pc = "getline"
             /\ \E q \in Seq({Text}) : fw'.out = IF Main.flow THEN Append(q, XON) ELSE q

\* What is printed of a record is plain text.
LEMMA SaidIs == \A n \in 1 .. Len(File) : Said(n) \subseteq Seq({Text})
<1>1. <<>> \in Seq({Text}) /\ <<Text>> \in Seq({Text}) /\ <<Text, Text>> \in Seq({Text})
  OBVIOUS
<1>2. QED BY <1>1 DEF Said

\* A loader that gives up prints, and does no more.
LEMMA GivesUpDoes ==
  ASSUME TypeInv, NEW n \in 1 .. Len(File), GivesUp(n)
  PROVE  /\ fw' \in FwType(File) /\ fw'.pc = "hung" /\ fw'.line = <<>> /\ fw'.room = fw.room
         /\ fw'.steps = fw.steps /\ fw'.spun = fw.spun
         /\ record' \in [LinesOf(File) -> Fate]
<1>1. "hung" \in Pcs /\ record \in [LinesOf(File) -> Fate]
  BY DEF Pcs, TypeInv
<1>2. CASE Main.callback = "lib"
  <2>1. PICK text \in Said(n) : fw' = Goto(Append(text, Text), "hung")
    BY <1>2 DEF GivesUp
  <2>2. record' = [record EXCEPT ![n] = "bad"]
    BY <1>2 DEF GivesUp
  <2>3. Append(text, Text) \in Seq({Text})
    BY SaidIs
  <2>4. Append(text, Text) \in Seq(Codes)
    BY <2>3, SeqMonotonic DEF Codes
  <2>5. record' \in [LinesOf(File) -> Fate]
    BY <1>1, <2>2 DEF Fate
  <2> DEFINE o == Append(text, Text)
  <2> HIDE DEF o
  <2>6. fw' = Goto(o, "hung") /\ o \in Seq(Codes)
    BY <2>1, <2>4 DEF o
  <2>7. QED BY <1>1, <2>5, <2>6, GotoIs
<1>3. CASE Main.callback # "lib"
  <2>1. fw' = Goto(<<Text>>, "hung") /\ record' = record
    BY <1>3 DEF GivesUp
  <2>2. <<Text>> \in Seq(Codes)
    BY DEF Codes
  <2>3. QED BY <1>1, <2>1, <2>2, GotoIs
<1>4. QED BY <1>2, <1>3

\* The records of a line are read (lib/ihex/ihex.cc:13).
LEMMA ReadsDoes ==
  ASSUME TypeInv, NEW n \in 1 .. Len(File), NEW m \in 1 .. Len(File), NEW fate \in Fates(m),
         Reads(n, m, fate), Open = {}
  PROVE  /\ fw' \in FwType(File) /\ fw'.line = <<>> /\ fw'.room = fw.room
         /\ fw'.steps = fw.steps /\ fw'.spun = fw.spun
         /\ record' \in [LinesOf(File) -> Fate]
         /\ \E eof \in BOOLEAN : DecodeReads(n, m, fate, eof)
<1>1. record \in [LinesOf(File) -> Fate] /\ fate \in Fate
  BY DEF TypeInv, Fates, Fate
<1>2. record' = [k \in LinesOf(File) |-> IF k = m THEN fate ELSE IF k = n THEN "good" ELSE record[k]]
  BY <1>1 DEF Reads
<1>3. record' \in [LinesOf(File) -> Fate]
  BY <1>1, <1>2 DEF Fate
<1> DEFINE eof == (fate = "good" /\ File[m].type = "eof")
<1>4. PICK first \in IF n = m THEN {<<>>} ELSE Said(n),
           text \in IF fate = "good" THEN Said(m) ELSE {<<>>} :
        fw' = NextLine(first \o text, eof)
  BY DEF Reads
<1>5. first \o text \in Seq({Text})
  <2>1. <<>> \in Seq({Text})
    OBVIOUS
  <2>2. first \in Seq({Text}) /\ text \in Seq({Text})
    BY <2>1, SaidIs
  <2>3. QED BY <2>2
<1> DEFINE o == first \o text
           e == eof
           g == NextLine(o, e)
<1>6. e \in BOOLEAN /\ o \in Seq({Text}) /\ fw' = g /\ e = (fate = "good" /\ File[m].type = "eof")
  BY <1>4, <1>5
<1> HIDE DEF e, o, eof
<1>7. /\ g \in FwType(File) /\ g.line = <<>> /\ g.room = fw.room
      /\ g.steps = fw.steps /\ g.spun = fw.spun
      /\ e => g.pc = Main.next
      /\ ~e => g.pc = "getline" /\ g.out = IF Main.flow THEN Append(o, XON) ELSE o
  BY <1>6, NextLineIs
<1> HIDE DEF g
<1>8. DecodeReads(n, m, fate, e)
  BY <1>2, <1>6, <1>7 DEF DecodeReads
<1>9. QED BY <1>3, <1>6, <1>7, <1>8

\* Decode (kk_ihex, called by main() of every loader).
LEMMA DecodeDoes ==
  ASSUME TypeInv, Decode
  PROVE  LET n == fw.line[1][1]
             m == fw.line[Len(fw.line)][1]
         IN /\ UNCHANGED <<job, host, uart, ring, perctl>> /\ Waiting' = Waiting
            /\ fw.pc = "decode" /\ fw.out = <<>> /\ fw.line # <<>>
            /\ n \in 1 .. Len(File) /\ m \in 1 .. Len(File)
            /\ fw' \in FwType(File) /\ fw'.line = <<>> /\ fw'.room = fw.room
            /\ fw'.steps = fw.steps /\ fw'.spun = fw.spun
            /\ record' \in [LinesOf(File) -> Fate]
            /\ \/ fw'.pc = "hung" /\ DecodeGivesUp
               \/ \E fate \in Fates(m), eof \in BOOLEAN : DecodeReads(n, m, fate, eof)
<1> DEFINE n == fw.line[1][1]
           m == fw.line[Len(fw.line)][1]
<1>1. /\ UNCHANGED <<job, host, uart, ring, perctl>> /\ fw.pc = "decode" /\ fw.out = <<>>
      /\ \/ \E o \in Open : GivesUp(o)
         \/ Open = {} /\ HitIn(m) /\ GivesUp(m)
         \/ Open = {} /\ \E fate \in Fates(m) : Reads(n, m, fate)
  BY DEF Decode
<1>2. fw.line # <<>> /\ fw.line \in Seq(BytesOf(File)) /\ File \in Files
      /\ record \in [LinesOf(File) -> Fate]
  BY <1>1, Fields DEF TypeInv
<1>3. n \in 1 .. Len(File) /\ m \in 1 .. Len(File)
  <2>1. fw.line[1] \in BytesOf(File) /\ Len(fw.line) \in 1 .. Len(fw.line)
    BY <1>2, TailIs
  <2>2. fw.line[Len(fw.line)] \in BytesOf(File)
    BY <1>2, <2>1, ElementOfSeq
  <2>3. QED BY <1>2, <2>1, <2>2, ByteIs
<1>4. Waiting' = Waiting
  BY <1>1 DEF Waiting
<1> HIDE DEF n, m
<1>5. CASE \E o \in Open : GivesUp(o)
  <2>1. PICK o \in Open : GivesUp(o)
    BY <1>5
  <2>2. o \in 1 .. Len(File) /\ Open # {}
    BY <1>2 DEF Open, LinesOf
  <2>3. DecodeGivesUp
    BY <2>2 DEF DecodeGivesUp
  <2>4. QED BY <1>1, <1>2, <1>3, <1>4, <2>1, <2>2, <2>3, GivesUpDoes DEF n, m
<1>6. CASE Open = {} /\ HitIn(m) /\ GivesUp(m)
  <2>1. DecodeGivesUp
    BY <1>6 DEF DecodeGivesUp, m
  <2>2. QED BY <1>1, <1>2, <1>3, <1>4, <1>6, <2>1, GivesUpDoes DEF n, m
<1>7. CASE Open = {} /\ \E fate \in Fates(m) : Reads(n, m, fate)
  <2>1. PICK fate \in Fates(m) : Reads(n, m, fate)
    BY <1>7
  <2>2. /\ fw' \in FwType(File) /\ fw'.line = <<>> /\ fw'.room = fw.room
        /\ fw'.steps = fw.steps /\ fw'.spun = fw.spun
        /\ record' \in [LinesOf(File) -> Fate]
        /\ \E eof \in BOOLEAN : DecodeReads(n, m, fate, eof)
    BY <1>3, <1>7, <2>1, ReadsDoes
  <2>3. QED BY <1>1, <1>2, <1>3, <1>4, <2>2 DEF n, m
<1>8. QED BY <1>1, <1>5, <1>6, <1>7

\* Drain, HandOff, RecDump and Jump: nothing that has been received matters any
\* more, and the FIFO is empty when the turns of the drain loop begin.
LEMMA EndingDoes ==
  ASSUME TypeInv, Drain \/ HandOff \/ RecDump \/ Jump
  PROVE  /\ UNCHANGED <<job, host, ring, record>>
         /\ uart' \in UartType(File) /\ Len(uart'.rx) <= FifoDepth
         /\ uart'.tx = uart.tx /\ uart'.shift = uart.shift
         /\ uart.rx = <<>> => uart'.rx = <<>>
         /\ fw' \in FwType(File) /\ fw'.out = fw.out /\ fw'.line = fw.line /\ fw'.room = fw.room
         /\ fw'.steps = fw.steps /\ perctl' \in [mux : {0, 1}, run : {0, 1}, dump : {0, 1}]
         /\ \/ /\ fw.pc = "drain" /\ perctl' = perctl /\ fw.out = <<>>
               /\ fw' = fw \/ (uart.tx = <<>> /\ fw'.pc = "spin" /\ fw'.spun = 0)
            \/ /\ fw.pc = "spin" /\ fw.spun = DrainSlots /\ fw'.pc = "delay"
               /\ perctl'.mux = 1 /\ perctl'.run = 1 /\ perctl'.dump = 0
            \/ /\ fw.pc = "delay" /\ fw'.pc = "end"
               /\ perctl'.mux = 1 /\ perctl'.run = 1 /\ perctl'.dump = 1
            \/ /\ fw.pc = "jump" /\ fw'.pc = "end" /\ fw.out = <<>>
               /\ perctl'.mux = perctl.mux /\ perctl'.run = 1 /\ perctl'.dump = perctl.dump
<1>1. fw \in FwType(File) /\ uart \in UartType(File) /\ Len(uart.rx) <= FifoDepth
      /\ perctl \in [mux : {0, 1}, run : {0, 1}, dump : {0, 1}]
  BY DEF TypeInv
<1>2. ASSUME NEW p \in Pcs
      PROVE  LET g == [fw EXCEPT !.pc = p]
             IN /\ g \in FwType(File) /\ g.pc = p /\ g.out = fw.out /\ g.line = fw.line
                /\ g.room = fw.room /\ g.steps = fw.steps /\ g.spun = fw.spun
  BY <1>1, FwSet
<1>3. "spin" \in Pcs /\ "delay" \in Pcs /\ "end" \in Pcs
  BY DEF Pcs
<1>4. CASE Drain
  <2>1. /\ UNCHANGED <<job, host, ring, record, perctl>> /\ fw.pc = "drain" /\ fw.out = <<>>
        /\ uart' = Popped
        /\ fw' = IF uart.tx = <<>> THEN [fw EXCEPT !.pc = "spin", !.spun = 0] ELSE fw
    BY <1>4 DEF Drain
  <2>2. /\ uart' \in UartType(File) /\ Len(uart'.rx) <= FifoDepth
        /\ uart'.tx = uart.tx /\ uart'.shift = uart.shift
        /\ uart.rx = <<>> => uart'.rx = <<>>
    BY <2>1, PoppedIs
  <2> DEFINE o == 0
             g == [fw EXCEPT !.pc = "spin"]
             h == [g EXCEPT !.spun = o]
  <2>3. /\ g \in FwType(File) /\ g.pc = "spin" /\ g.out = fw.out /\ g.line = fw.line
        /\ g.room = fw.room /\ g.steps = fw.steps
    BY <1>2, <1>3
  <2>4. fw' = IF uart.tx = <<>> THEN h ELSE fw
    BY <2>1
  <2>a. o \in 0 .. DrainSlots
    BY Parameters
  <2> HIDE DEF g, o
  <2>5. /\ h \in FwType(File) /\ h.pc = g.pc /\ h.out = g.out /\ h.line = g.line
        /\ h.room = g.room /\ h.steps = g.steps /\ h.spun = o
    BY <2>3, <2>a, FwSet
  <2> HIDE DEF h
  <2>6. QED BY <1>1, <2>1, <2>2, <2>3, <2>4, <2>5 DEF o
<1>5. CASE HandOff
  <2>1. /\ UNCHANGED <<job, host, uart, ring, record>> /\ fw.pc = "spin" /\ fw.spun = DrainSlots
        /\ perctl' = [mux |-> 1, run |-> 1, dump |-> 0] /\ fw' = [fw EXCEPT !.pc = "delay"]
    BY <1>5 DEF HandOff
  <2>2. /\ fw' \in FwType(File) /\ fw'.pc = "delay" /\ fw'.out = fw.out /\ fw'.line = fw.line
        /\ fw'.room = fw.room /\ fw'.steps = fw.steps
    BY <1>2, <1>3, <2>1
  <2>3. QED BY <1>1, <2>1, <2>2
<1>6. CASE RecDump
  <2>1. /\ UNCHANGED <<job, host, uart, ring, record>> /\ fw.pc = "delay"
        /\ perctl' = [mux |-> 1, run |-> 1, dump |-> 1] /\ fw' = [fw EXCEPT !.pc = "end"]
    BY <1>6 DEF RecDump
  <2>2. /\ fw' \in FwType(File) /\ fw'.pc = "end" /\ fw'.out = fw.out /\ fw'.line = fw.line
        /\ fw'.room = fw.room /\ fw'.steps = fw.steps
    BY <1>2, <1>3, <2>1
  <2>3. QED BY <1>1, <2>1, <2>2
<1>7. CASE Jump
  <2>1. /\ UNCHANGED <<job, host, uart, ring, record>> /\ fw.pc = "jump" /\ fw.out = <<>>
        /\ perctl' = [perctl EXCEPT !.run = 1] /\ fw' = [fw EXCEPT !.pc = "end"]
    BY <1>7 DEF Jump
  <2>2. /\ fw' \in FwType(File) /\ fw'.pc = "end" /\ fw'.out = fw.out /\ fw'.line = fw.line
        /\ fw'.room = fw.room /\ fw'.steps = fw.steps
    BY <1>2, <1>3, <2>1
  <2>3. /\ perctl' \in [mux : {0, 1}, run : {0, 1}, dump : {0, 1}]
        /\ perctl'.mux = perctl.mux /\ perctl'.run = 1 /\ perctl'.dump = perctl.dump
    BY <1>1, <2>1
  <2>4. QED BY <1>1, <2>1, <2>2, <2>3
<1>8. QED BY <1>4, <1>5, <1>6, <1>7

\* A byte leaves the shift register, and the next one enters.
LEMMA ShiftIs ==
  ASSUME TypeInv
  PROVE  /\ Shift \in UartType(File) /\ Shift.rx = uart.rx /\ Len(Shift.tx) <= FifoDepth
         /\ uart.tx = <<>> => Shift.tx = <<>> /\ Shift.shift = None
         /\ uart.tx # <<>> => Shift.tx = Tail(uart.tx) /\ Shift.shift = Head(uart.tx)
<1> DEFINE s == IF uart.tx = <<>> THEN None ELSE Head(uart.tx)
           t == IF uart.tx = <<>> THEN <<>> ELSE Tail(uart.tx)
           x == [uart EXCEPT !.shift = s]
           y == [x EXCEPT !.tx = t]
<1>1. uart \in UartType(File) /\ Len(uart.tx) <= FifoDepth /\ uart.tx \in Seq(Codes)
  BY Fields DEF TypeInv
<1>2. s \in Codes /\ t \in Seq(Codes) /\ Len(t) <= FifoDepth
  <2>1. CASE uart.tx = <<>>
    BY <1>1, <2>1 DEF Codes
  <2>2. CASE uart.tx # <<>>
    <3>1. Head(uart.tx) \in Codes /\ Tail(uart.tx) \in Seq(Codes)
          /\ Len(Tail(uart.tx)) = Len(uart.tx) - 1 /\ Len(uart.tx) \in Nat
      BY <1>1, <2>2, TailIs
    <3>2. QED BY <1>1, <2>2, <3>1, Parameters
  <2>3. QED BY <2>1, <2>2
<1>3. Shift = y
  BY DEF Shift
<1> HIDE DEF s, t
<1>4. x \in UartType(File) /\ x.shift = s /\ x.rx = uart.rx /\ x.tx = uart.tx
  BY <1>1, <1>2, UartSet
<1> HIDE DEF x
<1>5. y \in UartType(File) /\ y.tx = t /\ y.rx = x.rx /\ y.shift = x.shift
  BY <1>2, <1>4, UartSet
<1> HIDE DEF y
<1>6. QED BY <1>2, <1>3, <1>4, <1>5 DEF s, t

\* What the host sees, and what it makes of it.
LEMMA SeenIs ==
  ASSUME TypeInv
  PROVE  /\ Seen \in HostType(File) /\ Seen.next = host.next /\ Seen.damaged = host.damaged
         /\ perctl.mux = 0 /\ uart.shift = XOFF => Seen.paused = TRUE /\ Seen.credit = Overshoot
         /\ perctl.mux = 0 /\ uart.shift \in On => Seen.paused = FALSE /\ Seen.credit = 0
         /\ perctl.mux = 1 \/ uart.shift \in Plain => Seen = host
<1>1. host \in HostType(File) /\ perctl.mux \in {0, 1} /\ uart.shift \in Codes
  BY Fields DEF TypeInv
<1>2. ASSUME NEW p \in BOOLEAN, NEW c \in 0 .. Overshoot
      PROVE  LET h == [host EXCEPT !.paused = p, !.credit = c]
             IN /\ h \in HostType(File) /\ h.next = host.next /\ h.damaged = host.damaged
                /\ h.paused = p /\ h.credit = c
  <2> DEFINE g == [host EXCEPT !.paused = p]
             h == [g EXCEPT !.credit = c]
  <2>1. /\ g \in HostType(File) /\ g.next = host.next /\ g.damaged = host.damaged
        /\ g.paused = p
    BY <1>1, HostSet
  <2> HIDE DEF g
  <2>2. /\ h \in HostType(File) /\ h.next = g.next /\ h.damaged = g.damaged
        /\ h.paused = g.paused /\ h.credit = c
    BY <2>1, HostSet
  <2> HIDE DEF h
  <2>3. /\ h \in HostType(File) /\ h.next = host.next /\ h.damaged = host.damaged
        /\ h.paused = p /\ h.credit = c
    BY <2>1, <2>2
  <2>4. QED BY <2>3 DEF g, h
<1> DEFINE off == [host EXCEPT !.paused = TRUE, !.credit = Overshoot]
           on  == [host EXCEPT !.paused = FALSE, !.credit = 0]
<1>a. Seen = CASE perctl.mux = 0 /\ uart.shift = XOFF -> off
               [] perctl.mux = 0 /\ uart.shift \in {XON, Prompt} -> on [] OTHER -> host
  BY Zenon DEF Seen
<1> HIDE DEF off, on
<1>3. CASE perctl.mux = 0 /\ uart.shift = XOFF
  <2> DEFINE p == TRUE
             h == [host EXCEPT !.paused = p, !.credit = Overshoot]
  <2>a. perctl.mux = 0 /\ uart.shift = XOFF /\ uart.shift \notin {XON, Prompt}
    BY <1>3 DEF XON, XOFF, Prompt
  <2>b. Seen = off
    BY <1>a, <2>a
  <2>1. Seen = h
    BY <2>b, Zenon DEF off
  <2>2. p \in BOOLEAN /\ Overshoot \in 0 .. Overshoot
    BY Parameters
  <2> HIDE DEF p
  <2>3. /\ h \in HostType(File) /\ h.next = host.next /\ h.damaged = host.damaged
        /\ h.paused = p /\ h.credit = Overshoot
    BY <1>2, <2>2
  <2> HIDE DEF h
  <2>4. QED BY <1>3, <2>1, <2>3 DEF p, On, Plain, XON, XOFF, Prompt, Text, None
<1>4. CASE perctl.mux = 0 /\ uart.shift \in On
  <2> DEFINE p == FALSE
             h == [host EXCEPT !.paused = p, !.credit = 0]
  <2>b. Seen = on
    BY <1>a, <1>4 DEF On, XON, XOFF, Prompt
  <2>1. Seen = h
    BY <2>b, Zenon DEF on
  <2>2. p \in BOOLEAN /\ 0 \in 0 .. Overshoot
    BY Parameters
  <2> HIDE DEF p
  <2>3. /\ h \in HostType(File) /\ h.next = host.next /\ h.damaged = host.damaged
        /\ h.paused = p /\ h.credit = 0
    BY <1>2, <2>2
  <2> HIDE DEF h
  <2>4. QED BY <1>4, <2>1, <2>3 DEF p, On, Plain, XON, XOFF, Prompt, Text, None
<1>5. CASE perctl.mux = 1 \/ uart.shift \in Plain
  <2>a. perctl.mux # 0 \/ (uart.shift # XOFF /\ uart.shift \notin {XON, Prompt})
    BY <1>5 DEF Plain, XON, XOFF, Prompt, Text, None
  <2>1. Seen = host
    BY <1>a, <2>a
  <2>2. QED BY <1>1, <1>5, <2>1 DEF Plain, On, XON, XOFF, Prompt, Text, None
<1>6. QED BY <1>1, <1>3, <1>4, <1>5 DEF Codes, On, Plain

\* A slot begins: the firmware has made no step in it, and another slot of the
\* drain loop is over.
LEMMA SlottedDoes ==
  ASSUME TypeInv, Slotted
  PROVE  /\ fw' \in FwType(File) /\ fw'.pc = fw.pc /\ fw'.out = fw.out /\ fw'.room = fw.room
         /\ fw'.line = fw.line /\ fw'.steps = 0
         /\ fw'.spun = (IF fw.pc = "spin" /\ fw.spun < DrainSlots THEN fw.spun + 1 ELSE fw.spun)
<1> DEFINE n == IF fw.pc = "spin" /\ fw.spun < DrainSlots THEN fw.spun + 1 ELSE fw.spun
           o == 0
           g == [fw EXCEPT !.steps = o]
           h == [g EXCEPT !.spun = n]
<1>1. fw \in FwType(File) /\ o \in 0 .. StepsPerSlot /\ n \in 0 .. DrainSlots
  BY Fields, Parameters DEF TypeInv
<1>2. fw' = h
  BY DEF Slotted
<1> HIDE DEF n, o
<1>3. /\ g \in FwType(File) /\ g.pc = fw.pc /\ g.out = fw.out /\ g.room = fw.room
      /\ g.line = fw.line /\ g.steps = o
  BY <1>1, FwSet
<1> HIDE DEF g
<1>4. /\ h \in FwType(File) /\ h.pc = g.pc /\ h.out = g.out /\ h.room = g.room
      /\ h.line = g.line /\ h.steps = g.steps /\ h.spun = n
  BY <1>1, <1>3, FwSet
<1> HIDE DEF h
<1>5. QED BY <1>2, <1>3, <1>4 DEF n, o

\* A slot in which nothing is received.
LEMMA SlotQuietDoes ==
  ASSUME TypeInv, SlotQuiet
  PROVE  /\ UNCHANGED <<job, ring, record, perctl>> /\ InTime /\ Slotted
         /\ host' = Seen /\ uart' = Shift /\ Waiting' = Waiting
  BY ShiftIs DEF SlotQuiet, Waiting

\* The byte that follows the one that is sent.
LEMMA AfterHere ==
  ASSUME NEW b
  PROVE  After(b) = AfterOf(File, b) /\ (IsLast(b) <=> b[2] = File[b[1]].len)
  BY DEF After, AfterOf, IsLast

\* A slot in which the host sends a byte.
LEMMA SlotSendDoes ==
  ASSUME TypeInv, SlotSend
  PROVE  /\ UNCHANGED <<job, ring, record, perctl>> /\ InTime /\ Slotted /\ MaySend
         /\ host.next \in BytesOf(File)
         /\ host' \in HostType(File) /\ host'.next = AfterOf(File, host.next)
         /\ host'.paused = Seen.paused
         /\ host'.credit = (IF Seen.credit > 0 THEN Seen.credit - 1 ELSE 0)
         /\ \/ host'.damaged = host.damaged
            \/ host.damaged = {} /\ host'.damaged = {host.next}
         /\ uart' \in UartType(File) /\ uart'.tx = Shift.tx /\ uart'.shift = Shift.shift
         /\ Len(uart'.rx) <= FifoDepth
         /\ Len(Waiting) < FifoDepth => Waiting' = Append(Waiting, host.next)
<1>1. /\ UNCHANGED <<job, ring, record, perctl>> /\ InTime /\ Slotted /\ MaySend
      /\ uart' = Received(Shift, host.next)
  BY DEF SlotSend
<1>2. host.next \in BytesOf(File) /\ File \in Files
  <2>1. host.next[1] <= Len(File)
    <3>1. host.next[1] \in Nat /\ Len(File) \in Nat
      BY Fields, PlaceIs, FileIs
    <3>2. ~Sent
      BY <1>1 DEF MaySend
    <3>3. QED BY <3>1, <3>2 DEF Sent
  <2>2. QED BY <2>1, Fields, PlaceIs
<1>3. PICK hit \in BOOLEAN :
        /\ hit => host.damaged = {}
        /\ host' = [Seen EXCEPT !.next = After(@), !.credit = IF @ > 0 THEN @ - 1 ELSE 0,
                                !.damaged = IF hit THEN {host.next} ELSE @]
  BY DEF SlotSend
<1> DEFINE p == AfterOf(File, host.next)
           c == IF Seen.credit > 0 THEN Seen.credit - 1 ELSE 0
           d == IF hit THEN {host.next} ELSE host.damaged
           x == [Seen EXCEPT !.next = p]
           y == [x EXCEPT !.credit = c]
           z == [y EXCEPT !.damaged = d]
<1>4. Seen \in HostType(File) /\ Seen.next = host.next /\ Seen.damaged = host.damaged
  BY SeenIs
<1>5. p \in Places(File) /\ c \in 0 .. Overshoot /\ d \in SUBSET BytesOf(File)
  <2>1. p \in Places(File)
    BY <1>2, AfterIs
  <2>2. Seen.credit \in 0 .. Overshoot
    BY <1>4 DEF HostType
  <2>3. c \in 0 .. Overshoot
    BY <2>2, Parameters
  <2>4. d \in SUBSET BytesOf(File)
    BY <1>2, Fields
  <2>5. QED BY <2>1, <2>3, <2>4
<1>6. host' = z
  <2>1. After(Seen.next) = p
    BY <1>4, AfterHere
  <2>2. QED BY <1>3, <1>4, <2>1
<1>7. d = host.damaged \/ (host.damaged = {} /\ d = {host.next})
  BY <1>3
<1> HIDE DEF p, c, d
<1>8. x \in HostType(File) /\ x.next = p /\ x.paused = Seen.paused
  BY <1>4, <1>5, HostSet
<1> HIDE DEF x
<1>9. y \in HostType(File) /\ y.next = x.next /\ y.paused = x.paused /\ y.credit = c
  BY <1>5, <1>8, HostSet
<1> HIDE DEF y
<1>10. z \in HostType(File) /\ z.next = y.next /\ z.paused = y.paused /\ z.credit = y.credit
       /\ z.damaged = d
  BY <1>5, <1>9, HostSet
<1> HIDE DEF z
<1>11. /\ host' \in HostType(File) /\ host'.next = AfterOf(File, host.next)
       /\ host'.paused = Seen.paused
       /\ host'.credit = (IF Seen.credit > 0 THEN Seen.credit - 1 ELSE 0)
       /\ host'.damaged = host.damaged \/ (host.damaged = {} /\ host'.damaged = {host.next})
  BY <1>6, <1>7, <1>8, <1>9, <1>10 DEF p, c
<1> DEFINE q == Append(uart.rx, host.next)
<1>12. /\ Shift \in UartType(File) /\ Shift.rx = uart.rx /\ uart.rx \in Seq(BytesOf(File))
       /\ Len(uart.rx) <= FifoDepth /\ Len(uart.rx) \in Nat /\ FifoDepth \in Nat
  BY ShiftIs, Fields, Parameters DEF TypeInv
<1>13. uart' = IF Len(uart.rx) < FifoDepth THEN [Shift EXCEPT !.rx = q] ELSE Shift
  BY <1>1, <1>12 DEF Received
<1>14. q \in Seq(BytesOf(File)) /\ Len(q) = Len(uart.rx) + 1
  BY <1>2, <1>12
<1> HIDE DEF q
<1>15. LET u == [Shift EXCEPT !.rx = q]
       IN u \in UartType(File) /\ u.rx = q /\ u.tx = Shift.tx /\ u.shift = Shift.shift
  BY <1>12, <1>14, UartSet
<1>16. /\ uart' \in UartType(File) /\ uart'.tx = Shift.tx /\ uart'.shift = Shift.shift
       /\ Len(uart'.rx) <= FifoDepth
       /\ Len(uart.rx) < FifoDepth => uart'.rx = q
  BY <1>12, <1>13, <1>14, <1>15
<1>17. Len(Waiting) < FifoDepth => Waiting' = Append(Waiting, host.next)
  <2>1. Len(Waiting) = Count(ring) + Len(uart.rx) /\ Count(ring) \in Nat
    BY Fields, Parameters DEF IsHeld
  <2>2. ring \in Rings(BytesOf(File))
    BY DEF TypeInv
  <2>3. Held(ring, q) = Append(Held(ring, uart.rx), host.next)
    BY <1>2, <1>12, <2>2, HeldAppend DEF q
  <2>4. QED BY <1>1, <1>12, <1>16, <2>1, <2>3 DEF Waiting
<1>18. QED BY <1>1, <1>2, <1>11, <1>16, <1>17
-----------------------------------------------------------------------------
(* Type correctness.                                                       *)

\* The file to send does not change, and the types are those of its bytes.
LEMMA TypeKept ==
  ASSUME TypeInv, job' = job, host' \in HostType(File),
         uart' \in UartType(File), Len(uart'.rx) <= FifoDepth, Len(uart'.tx) <= FifoDepth,
         ring' \in Rings(BytesOf(File)),
         fw' \in FwType(File), Len(fw'.line) <= LineSize,
         fw'.pc = "getline" => Len(fw'.line) < LineSize, fw'.pc = "decode" => fw'.line # <<>>,
         record' \in [LinesOf(File) -> Fate],
         perctl' \in [mux : {0, 1}, run : {0, 1}, dump : {0, 1}]
  PROVE  TypeInv' /\ File' = File /\ Main' = Main
<1>1. File' = File /\ Main' = Main
  BY DEF File, Main
<1>2. job' \in [main : Mains, file : Files]
  BY DEF TypeInv
<1>3. QED BY <1>1, <1>2 DEF TypeInv

\* Every firmware begins with empty buffers.
LEMMA TypeInit == Init => TypeInv
<1> SUFFICES ASSUME Init PROVE TypeInv
  OBVIOUS
<1>1. PICK main \in Mains, file \in Files :
        /\ job = [main |-> main, file |-> file]
        /\ fw = [pc |-> "getline", out |-> main.boot, room |-> FALSE, line |-> <<>>,
                 steps |-> 0, spun |-> 0]
        /\ record = [n \in 1 .. Len(file) |-> None]
  BY DEF Init, Mains
<1>2. File = file /\ Main = main /\ main.boot \in Seq(Codes)
  BY <1>1, MainIs DEF File, Main
<1>3. fw \in FwType(file) /\ Len(fw.line) = 0 /\ fw.pc = "getline"
  <2>1. "getline" \in Pcs /\ <<>> \in Seq(BytesOf(file)) /\ 0 \in Nat
        /\ 0 \in 0 .. StepsPerSlot /\ 0 \in 0 .. DrainSlots
    BY Parameters DEF Pcs
  <2>2. QED BY <1>1, <1>2, <2>1 DEF FwType
<1>4. <<1, 1>> \in BytesOf(file)
  <2>1. 1 \in 1 .. Len(file)
    BY FileIs
  <2>2. 1 \in 1 .. file[1].len
    BY <2>1, FileIs
  <2>3. QED BY <2>1, <2>2, ByteIs
<1>5. host \in HostType(file)
  <2>1. host = [next |-> <<1, 1>>, paused |-> TRUE, credit |-> 0, damaged |-> {}]
    BY DEF Init
  <2>2. <<1, 1>> \in Places(file) /\ 0 \in 0 .. Overshoot
    BY <1>4, Parameters DEF Places
  <2>3. QED BY <2>1, <2>2 DEF HostType
<1>6. uart \in UartType(file) /\ Len(uart.rx) <= FifoDepth /\ Len(uart.tx) <= FifoDepth
  <2>1. uart = [rx |-> <<>>, tx |-> <<>>, shift |-> None]
    BY DEF Init
  <2>2. None \in Codes
    BY DEF Codes
  <2>3. QED BY <2>1, <2>2, Parameters DEF UartType
<1>7. ring \in Rings(BytesOf(file))
  <2>1. ring = [buf |-> [k \in 0 .. RingSize - 1 |-> <<1, 1>>], rd |-> 0, wr |-> 0]
    BY DEF Init
  <2>2. 0 \in 0 .. RingSize - 1
    BY Parameters
  <2>3. QED BY <1>4, <2>1, <2>2 DEF Rings
<1>8. record \in [LinesOf(file) -> Fate]
  BY <1>1, <1>2 DEF LinesOf, Fate
<1>9. perctl \in [mux : {0, 1}, run : {0, 1}, dump : {0, 1}] /\ job \in [main : Mains, file : Files]
  BY <1>1 DEF Init
<1>10. Len(fw.line) < LineSize /\ Len(fw.line) <= LineSize /\ fw.pc # "decode"
  BY <1>3, Parameters
<1>11. QED BY <1>2, <1>3, <1>5, <1>6, <1>7, <1>8, <1>9, <1>10 DEF TypeInv

\* A byte of the line is taken while the line is shorter than the buffer.
LEMMA TypeGetAsync ==
  ASSUME TypeInv, GetAsync
  PROVE  TypeInv'
<1>1. /\ UNCHANGED <<job, host, record, perctl>> /\ fw.pc = "getline" /\ fw.out = <<>>
      /\ uart' \in UartType(File) /\ Len(uart'.rx) <= FifoDepth /\ uart'.tx = uart.tx
      /\ ring' \in Rings(BytesOf(File))
      /\ fw' = Step(fw) \/ (Waiting # <<>> /\ fw' = Step(Took(Head(Waiting))))
  BY GetAsyncDoes
<1>2. Len(fw.line) < LineSize /\ Len(fw.line) \in Nat /\ fw.line \in Seq(BytesOf(File))
  BY <1>1, Fields DEF TypeInv
<1>3. /\ fw' \in FwType(File) /\ Len(fw'.line) <= LineSize
      /\ fw'.pc = "getline" => Len(fw'.line) < LineSize
      /\ fw'.pc = "decode" => fw'.line # <<>>
  <2>1. CASE fw' = Step(fw)
    <3>1. fw \in FwType(File)
      BY DEF TypeInv
    <3>2. fw' \in FwType(File) /\ fw'.line = fw.line /\ fw'.pc = fw.pc
      BY <2>1, <3>1, Stepped
    <3>3. QED BY <1>1, <1>2, <3>2, Parameters
  <2>2. CASE Waiting # <<>> /\ fw' = Step(Took(Head(Waiting)))
    <3> DEFINE b == Head(Waiting)
               g == Took(b)
    <3>1. b \in BytesOf(File)
      BY <2>2, Fields, TailIs
    <3>2. fw' = Step(g)
      BY <2>2
    <3> HIDE DEF b
    <3>3. /\ g \in FwType(File) /\ g.line = Append(fw.line, b)
          /\ Len(fw.line) + 1 = LineSize => g.pc = "hung"
      BY <1>1, <3>1, TookIs
    <3> HIDE DEF g
    <3>4. fw' \in FwType(File) /\ fw'.line = g.line /\ fw'.pc = g.pc
      BY <3>2, <3>3, Stepped
    <3>5. Len(fw'.line) = Len(fw.line) + 1 /\ fw'.line # <<>>
      BY <1>2, <3>1, <3>3, <3>4, AppendIs
    <3>6. QED BY <1>2, <3>3, <3>4, <3>5, Parameters
  <2>3. QED BY <1>1, <2>1, <2>2
<1>4. QED BY <1>1, <1>3, TypeKept DEF TypeInv

\* Every step keeps the types.
LEMMA TypeStep == TypeInv /\ [Next]_vars => TypeInv'
<1> SUFFICES ASSUME TypeInv, [Next]_vars PROVE TypeInv'
  OBVIOUS
<1> USE TypeKept
<1>0. /\ host \in HostType(File) /\ uart \in UartType(File) /\ ring \in Rings(BytesOf(File))
      /\ Len(uart.rx) <= FifoDepth /\ Len(uart.tx) <= FifoDepth
      /\ fw \in FwType(File) /\ Len(fw.line) <= LineSize
      /\ fw.pc = "getline" => Len(fw.line) < LineSize
      /\ fw.pc = "decode" => fw.line # <<>>
      /\ record \in [LinesOf(File) -> Fate]
      /\ perctl \in [mux : {0, 1}, run : {0, 1}, dump : {0, 1}]
  BY DEF TypeInv
<1>1. CASE CanWrite
  BY <1>0, <1>1, CanWriteDoes
<1>2. CASE Write
  BY <1>0, <1>2, WriteDoes
<1>3. CASE GetAsync
  BY <1>3, TypeGetAsync
<1>4. CASE Decode
  <2>1. /\ UNCHANGED <<job, host, uart, ring, perctl>> /\ fw' \in FwType(File) /\ fw'.line = <<>>
        /\ record' \in [LinesOf(File) -> Fate]
        /\ fw'.pc \in {"hung", "getline", Main.next} /\ Main.next \in {"drain", "jump"}
    BY <1>4, DecodeDoes, MainIs, Fields DEF DecodeReads
  <2>2. Len(fw'.line) < LineSize /\ Len(fw'.line) <= LineSize /\ fw'.pc # "decode"
    BY <2>1, Parameters
  <2>3. QED BY <1>0, <2>1, <2>2
<1>5. CASE Drain \/ HandOff \/ RecDump \/ Jump
  <2>1. /\ UNCHANGED <<job, host, ring, record>>
        /\ uart' \in UartType(File) /\ Len(uart'.rx) <= FifoDepth /\ uart'.tx = uart.tx
        /\ fw' \in FwType(File) /\ fw'.line = fw.line
        /\ perctl' \in [mux : {0, 1}, run : {0, 1}, dump : {0, 1}]
        /\ fw'.pc \notin {"getline", "decode"}
    BY <1>5, EndingDoes
  <2>2. QED BY <1>0, <2>1
<1>6. CASE SlotQuiet
  <2>1. UNCHANGED <<job, ring, record, perctl>> /\ Slotted /\ host' = Seen /\ uart' = Shift
    BY <1>6, SlotQuietDoes
  <2>2. fw' \in FwType(File) /\ fw'.pc = fw.pc /\ fw'.line = fw.line
    BY <2>1, SlottedDoes
  <2>3. host' \in HostType(File)
    BY <2>1, SeenIs
  <2>4. uart' \in UartType(File) /\ Len(uart'.rx) <= FifoDepth /\ Len(uart'.tx) <= FifoDepth
    BY <1>0, <2>1, ShiftIs
  <2>5. QED BY <1>0, <2>1, <2>2, <2>3, <2>4
<1>7. CASE SlotSend
  <2>1. /\ UNCHANGED <<job, ring, record, perctl>> /\ Slotted /\ host' \in HostType(File)
        /\ uart' \in UartType(File) /\ uart'.tx = Shift.tx /\ Len(uart'.rx) <= FifoDepth
    BY <1>7, SlotSendDoes
  <2>2. fw' \in FwType(File) /\ fw'.pc = fw.pc /\ fw'.line = fw.line
    BY <2>1, SlottedDoes
  <2>3. Len(uart'.tx) <= FifoDepth
    BY <2>1, ShiftIs
  <2>4. QED BY <1>0, <2>1, <2>2, <2>3
<1>8. CASE UNCHANGED vars
  BY <1>0, <1>8 DEF vars
<1>9. QED BY <1>1, <1>2, <1>3, <1>4, <1>5, <1>6, <1>7, <1>8 DEF Next, Firmware

\* The types are TypeOK, which the runs check.
LEMMA TypeOKFromInv == TypeInv => TypeOK
<1> SUFFICES ASSUME TypeInv PROVE TypeOK
  OBVIOUS
<1>1. Bytes = BytesOf(File)
  BY DEF Bytes, BytesOf
<1>2. \A k \in 1 .. Len(fw.line) : fw.line[k] \in Bytes
  BY <1>1, Fields, ElementOfSeq
<1>3. ring.rd \in 0 .. RingSize - 1 /\ ring.wr \in 0 .. RingSize - 1
  BY DEF TypeInv, Rings
<1>4. fw.pc \in {"getline", "decode", "drain", "spin", "delay", "jump", "hung", "end"}
  BY Fields DEF Pcs
<1>5. \A n \in DOMAIN record : record[n] \in Fate
  BY DEF TypeInv
<1>6. QED BY <1>2, <1>3, <1>4, <1>5, Fields DEF TypeInv, TypeOK, Fate

\* No buffer is ever left, the indices of the ring among them (UartBuf in
\* lib/uart/uart.h), whatever the files, the host and the noise.
THEOREM TypeCorrect == Spec => []TypeOK
<1>1. Spec => []TypeInv
  BY TypeInit, TypeStep, PTL DEF Spec
<1>2. QED BY <1>1, TypeOKFromInv, PTL
-----------------------------------------------------------------------------
(* The order of the bytes: those of the line, those that wait (w), and the *)
(* one that the host sends next.                                           *)

Front(w, next) == IF w = <<>> THEN next ELSE w[1]

\* The k-th byte of a line of the loader, which begins with line c of the file;
\* line c + 1 is joined to it if noise has hit the newline between them.
Spot(f, c, k) == IF k <= f[c].len THEN <<c, k>> ELSE <<c + 1, k - f[c].len>>

\* The line that the loader is at.
CurrentOf(w, next, line) == IF line = <<>> THEN Front(w, next)[1] ELSE line[1][1]

OrderOf(f, w, next, line) ==
  /\ \A k \in 1 .. Len(w) - 1 : w[k + 1] = AfterOf(f, w[k])
  /\ w # <<>> => next = AfterOf(f, w[Len(w)])
  /\ \A k \in 1 .. Len(w) : w[k][1] <= next[1]
  /\ \A k \in 1 .. Len(line) : line[k] = Spot(f, line[1][1], k)
  /\ line # <<>> => Front(w, next) = AfterOf(f, line[Len(line)])
  /\ line = <<>> => Front(w, next)[2] = 1

\* The last byte of the line is where the length of the line says.
LEMMA LineIs ==
  ASSUME NEW f \in Files, NEW w, NEW next, NEW line \in Seq(BytesOf(f)),
         OrderOf(f, w, next, line), line # <<>>
  PROVE  LET c == line[1][1]
             b == line[Len(line)]
         IN /\ Len(line) \in Nat /\ Len(line) >= 1 /\ c \in 1 .. Len(f)
            /\ c \in Nat /\ f[c].len \in Nat /\ f[c].len >= 1
            /\ b \in BytesOf(f) /\ b[1] \in 1 .. Len(f) /\ f[b[1]].len \in Nat
            /\ b[1] \in Nat /\ b[2] \in Nat /\ b[2] <= f[b[1]].len
            /\ Len(line) <= f[c].len => b[1] = c /\ b[2] = Len(line)
            /\ Len(line) > f[c].len => b[1] = c + 1 /\ b[2] = Len(line) - f[c].len
            /\ b = Spot(f, c, Len(line))
<1> DEFINE c == line[1][1]
           b == line[Len(line)]
<1>1. Len(line) \in Nat /\ Len(line) >= 1 /\ line[1] \in BytesOf(f)
  BY TailIs
<1>2. b \in BytesOf(f)
  BY <1>1, ElementOfSeq
<1>3. \A k \in 1 .. Len(line) : line[k] = Spot(f, c, k)
  BY DEF OrderOf
<1>4. b = Spot(f, c, Len(line))
  BY <1>1, <1>3
<1>5. c \in 1 .. Len(f) /\ c \in Nat /\ Len(f) \in Nat
  BY <1>1, ByteIs, FileIs
<1>6. f[c].len \in Nat /\ f[c].len >= 1
  BY <1>5, FileIs
<1>7. b[1] \in 1 .. Len(f) /\ b[2] \in 1 .. f[b[1]].len /\ b[1] \in Nat /\ b[2] \in Nat
  BY <1>2, ByteIs
<1>8. f[b[1]].len \in Nat
  BY <1>7, FileIs
<1>9. Len(line) <= f[c].len => b[1] = c /\ b[2] = Len(line)
  BY <1>4 DEF Spot
<1>10. Len(line) > f[c].len => b[1] = c + 1 /\ b[2] = Len(line) - f[c].len
  <2>1. ASSUME Len(line) > f[c].len PROVE b = <<c + 1, Len(line) - f[c].len>>
    <3>1. ~(Len(line) <= f[c].len)
      BY <1>1, <1>6, <2>1
    <3>2. QED BY <1>4, <3>1 DEF Spot
  <2>2. QED BY <2>1
<1> HIDE DEF b, c
<1>11. b[2] <= f[b[1]].len
  BY <1>7, <1>8
<1>12. QED BY <1>1, <1>2, <1>4, <1>5, <1>6, <1>7, <1>8, <1>9, <1>10, <1>11 DEF b, c

\* The loader takes the oldest byte that waits.
LEMMA OrderTakes ==
  ASSUME NEW f \in Files, NEW w \in Seq(BytesOf(f)), NEW next \in Places(f),
         NEW line \in Seq(BytesOf(f)), OrderOf(f, w, next, line), w # <<>>,
         line # <<>> /\ Len(line) > f[line[1][1]].len =>
            line[Len(line)][2] # f[line[Len(line)][1]].len
  PROVE  /\ OrderOf(f, Tail(w), next, Append(line, Head(w)))
         /\ CurrentOf(Tail(w), next, Append(line, Head(w))) = CurrentOf(w, next, line)
         /\ Head(w) = Spot(f, Append(line, Head(w))[1][1], Len(line) + 1)
<1> DEFINE b == Head(w)
           t == Tail(w)
           l == Append(line, b)
<1>1. /\ b = w[1] /\ b \in BytesOf(f) /\ t \in Seq(BytesOf(f)) /\ Len(t) = Len(w) - 1
      /\ Len(w) \in Nat /\ Len(w) >= 1 /\ Len(w) = 1 => t = <<>>
      /\ \A i \in 1 .. Len(w) - 1 : t[i] = w[i + 1]
  BY TailIs
<1>2. /\ l \in Seq(BytesOf(f)) /\ l # <<>> /\ Len(l) = Len(line) + 1 /\ Len(line) \in Nat
      /\ \A i \in 1 .. Len(line) : l[i] = line[i]
      /\ l[Len(line) + 1] = b
  BY <1>1, AppendIs
<1>3. Front(w, next) = b
  BY <1>1 DEF Front
<1>4. Front(t, next) = AfterOf(f, b)
  <2>1. CASE Len(w) = 1
    BY <1>1, <2>1 DEF Front, OrderOf
  <2>2. CASE Len(w) # 1
    <3>1. 1 \in 1 .. Len(w) - 1 /\ t # <<>>
      <4>1. Len(w) >= 2
        BY <1>1, <2>2
      <4>2. Len(t) >= 1 /\ 1 \in 1 .. Len(w) - 1
        BY <1>1, <4>1
      <4>3. \A s : s = <<>> => ~(Len(s) >= 1)
        OBVIOUS
      <4>4. t # <<>>
        <5> HIDE DEF t
        <5>1. QED BY <4>2, <4>3
      <4>5. QED BY <4>2, <4>4
    <3>2. t[1] = w[2] /\ w[2] = AfterOf(f, w[1])
      BY <1>1, <3>1 DEF OrderOf
    <3>3. QED BY <1>1, <3>1, <3>2 DEF Front
  <2>3. QED BY <2>1, <2>2
<1>5. /\ \A k \in 1 .. Len(l) : l[k] = Spot(f, l[1][1], k)
      /\ b = Spot(f, l[1][1], Len(line) + 1)
      /\ l[1][1] = CurrentOf(w, next, line)
  <2>1. CASE line = <<>>
    <3>1. Len(line) = 0 /\ l[1] = b
      BY <1>2, <2>1
    <3>2. b[2] = 1 /\ b = <<b[1], b[2]>> /\ b[1] \in 1 .. Len(f)
      BY <1>1, <1>3, <2>1, ByteIs DEF OrderOf
    <3>3. ASSUME NEW k \in 1 .. Len(l) PROVE k = 1
      BY <1>2, <3>1
    <3>4. 1 <= f[b[1]].len
      BY <3>2, FileIs
    <3>5. b = Spot(f, b[1], 1)
      BY <3>2, <3>4 DEF Spot
    <3>6. b = Spot(f, l[1][1], Len(line) + 1)
      BY <3>1, <3>5
    <3>7. \A k \in 1 .. Len(l) : l[k] = Spot(f, l[1][1], k)
      BY <3>1, <3>3, <3>5
    <3>8. QED BY <1>3, <2>1, <3>1, <3>6, <3>7 DEF CurrentOf
  <2>2. CASE line # <<>>
    <3> DEFINE c == line[1][1]
               e == line[Len(line)]
               j == Len(line)
    <3>1. /\ j \in Nat /\ j >= 1 /\ e \in BytesOf(f) /\ c \in Nat /\ f[c].len \in Nat
          /\ e[1] \in Nat /\ e[2] \in Nat
          /\ j <= f[c].len => e[1] = c /\ e[2] = j
          /\ j > f[c].len => e[1] = c + 1 /\ e[2] = j - f[c].len
      BY <2>2, LineIs
    <3>2. b = AfterOf(f, e)
      BY <1>3, <2>2 DEF OrderOf
    <3>3. j > f[c].len => e[2] # f[e[1]].len
      BY <2>2
    <3>4. /\ e[2] = f[e[1]].len => b = <<e[1] + 1, 1>>
          /\ e[2] # f[e[1]].len => b = <<e[1], e[2] + 1>>
      BY <3>1, <3>2, AfterIs
    <3>6. l[1] = line[1]
      BY <1>2, <3>1
    <3> HIDE DEF c, e, j
    <3>5. b = Spot(f, c, j + 1)
      <4>1. CASE j < f[c].len
        <5>1. b = <<c, j + 1>>
          BY <3>1, <3>4, <4>1
        <5>2. j + 1 <= f[c].len
          BY <3>1, <4>1
        <5>3. QED BY <5>1, <5>2 DEF Spot
      <4>2. CASE j = f[c].len
        <5>1. b = <<c + 1, 1>>
          BY <3>1, <3>4, <4>2
        <5>2. ~(j + 1 <= f[c].len) /\ (j + 1) - f[c].len = 1
          BY <3>1, <4>2
        <5>3. QED BY <5>1, <5>2 DEF Spot
      <4>3. CASE j > f[c].len
        <5>1. b = <<c + 1, (j - f[c].len) + 1>>
          BY <3>1, <3>3, <3>4, <4>3
        <5>2. ~(j + 1 <= f[c].len) /\ (j + 1) - f[c].len = (j - f[c].len) + 1
          BY <3>1, <4>3
        <5>3. QED BY <5>1, <5>2 DEF Spot
      <4>4. QED BY <3>1, <4>1, <4>2, <4>3
    <3>7. ASSUME NEW k \in 1 .. Len(l) PROVE l[k] = Spot(f, c, k)
      <4>1. CASE k \in 1 .. Len(line)
        BY <1>2, <4>1 DEF OrderOf, c
      <4>2. CASE k = Len(line) + 1
        BY <1>2, <3>5, <4>2 DEF j
      <4>3. QED BY <1>2, <4>1, <4>2
    <3>8. l[1][1] = c
      BY <3>6 DEF c
    <3>9. CurrentOf(w, next, line) = c
      BY <2>2 DEF CurrentOf, c
    <3>10. QED BY <3>5, <3>7, <3>8, <3>9 DEF j
  <2>3. QED BY <2>1, <2>2
<1>6. OrderOf(f, t, next, l)
  <2>1. ASSUME NEW k \in 1 .. Len(t) - 1 PROVE t[k + 1] = AfterOf(f, t[k])
    <3>1. k \in 1 .. Len(w) - 1 /\ k + 1 \in 1 .. Len(w) - 1
      BY <1>1
    <3>2. t[k + 1] = w[(k + 1) + 1] /\ t[k] = w[k + 1]
      BY <1>1, <3>1
    <3>3. w[(k + 1) + 1] = AfterOf(f, w[k + 1])
      BY <3>1 DEF OrderOf
    <3>4. QED BY <3>2, <3>3
  <2>2. t # <<>> => next = AfterOf(f, t[Len(t)])
    <3>1. ASSUME t # <<>> PROVE next = AfterOf(f, t[Len(t)])
      <4>1. Len(t) \in 1 .. Len(w) - 1 /\ Len(t) + 1 = Len(w)
        BY <1>1, <3>1
      <4>2. t[Len(t)] = w[Len(w)]
        BY <1>1, <4>1
      <4>3. next = AfterOf(f, w[Len(w)])
        BY DEF OrderOf
      <4>4. QED BY <4>2, <4>3
    <3>2. QED BY <3>1
  <2>3. ASSUME NEW k \in 1 .. Len(t) PROVE t[k][1] <= next[1]
    <3>1. k \in 1 .. Len(w) - 1 /\ k + 1 \in 1 .. Len(w)
      BY <1>1
    <3>2. t[k] = w[k + 1] /\ w[k + 1][1] <= next[1]
      BY <1>1, <3>1 DEF OrderOf
    <3>3. QED BY <3>2
  <2>4. l[Len(l)] = b
    BY <1>2
  <2> HIDE DEF t, l, b
  <2>5. QED BY <1>2, <1>4, <1>5, <2>1, <2>2, <2>3, <2>4 DEF OrderOf
<1>7. CurrentOf(t, next, l) = l[1][1]
  BY <1>2 DEF CurrentOf
<1>8. QED BY <1>5, <1>6, <1>7

\* A byte of the host waits behind the others.
LEMMA OrderSent ==
  ASSUME NEW f \in Files, NEW w \in Seq(BytesOf(f)), NEW next \in BytesOf(f),
         NEW line, OrderOf(f, w, next, line)
  PROVE  /\ OrderOf(f, Append(w, next), AfterOf(f, next), line)
         /\ CurrentOf(Append(w, next), AfterOf(f, next), line) = CurrentOf(w, next, line)
<1> DEFINE a == Append(w, next)
           p == AfterOf(f, next)
<1>1. /\ a \in Seq(BytesOf(f)) /\ a # <<>> /\ Len(a) = Len(w) + 1 /\ Len(w) \in Nat
      /\ \A i \in 1 .. Len(w) : a[i] = w[i]
      /\ a[Len(w) + 1] = next
  BY AppendIs
<1>2. Front(a, p) = Front(w, next)
  <2>1. CASE w = <<>>
    BY <1>1, <2>1 DEF Front
  <2>2. CASE w # <<>>
    <3>1. 1 \in 1 .. Len(w)
      BY <2>2, TailIs
    <3>2. QED BY <1>1, <2>2, <3>1 DEF Front
  <2>3. QED BY <2>1, <2>2
<1>3. next[1] \in Nat /\ p[1] \in Nat /\ next[1] <= p[1]
  BY ByteIs, AfterIs
<1>4. ASSUME NEW k \in 1 .. Len(a) - 1 PROVE a[k + 1] = AfterOf(f, a[k])
  <2>1. k \in 1 .. Len(w)
    BY <1>1
  <2>2. CASE k < Len(w)
    <3>1. k + 1 \in 1 .. Len(w) /\ k \in 1 .. Len(w) - 1
      BY <1>1, <2>1, <2>2
    <3>2. a[k] = w[k] /\ a[k + 1] = w[k + 1] /\ w[k + 1] = AfterOf(f, w[k])
      BY <1>1, <2>1, <3>1 DEF OrderOf
    <3>3. QED BY <3>2
  <2>3. CASE k = Len(w)
    <3>1. w # <<>> /\ a[k + 1] = next /\ a[k] = w[Len(w)]
      BY <1>1, <2>1, <2>3
    <3>2. QED BY <3>1 DEF OrderOf
  <2>4. QED BY <1>1, <2>1, <2>2, <2>3
<1>5. ASSUME NEW k \in 1 .. Len(a) PROVE a[k][1] <= p[1]
  <2>1. CASE k \in 1 .. Len(w)
    <3>1. a[k] = w[k] /\ w[k][1] <= next[1] /\ w[k] \in BytesOf(f)
      BY <1>1, <2>1, ElementOfSeq DEF OrderOf
    <3>2. w[k][1] \in Nat
      BY <3>1, ByteIs
    <3>3. QED BY <1>3, <3>1, <3>2
  <2>2. CASE k = Len(w) + 1
    BY <1>1, <1>3, <2>2
  <2>3. QED BY <1>1, <2>1, <2>2
<1>6. a[Len(a)] = next
  BY <1>1
<1>7. OrderOf(f, a, p, line)
  <2>1. /\ \A k \in 1 .. Len(line) : line[k] = Spot(f, line[1][1], k)
        /\ line # <<>> => Front(a, p) = AfterOf(f, line[Len(line)])
        /\ line = <<>> => Front(a, p)[2] = 1
    BY <1>2 DEF OrderOf
  <2>2. p = AfterOf(f, a[Len(a)])
    BY <1>6
  <2> HIDE DEF a, p
  <2>3. QED BY <1>4, <1>5, <2>1, <2>2 DEF OrderOf
<1>8. CurrentOf(a, p, line) = CurrentOf(w, next, line)
  BY <1>2 DEF CurrentOf
<1>9. QED BY <1>7, <1>8

\* A line that is complete is followed by the first byte of the next one.
LEMMA OrderDecoded ==
  ASSUME NEW f \in Files, NEW w \in Seq(BytesOf(f)), NEW next \in Places(f),
         NEW line \in Seq(BytesOf(f)), OrderOf(f, w, next, line), line # <<>>,
         line[Len(line)][2] = f[line[Len(line)][1]].len
  PROVE  /\ OrderOf(f, w, next, <<>>)
         /\ CurrentOf(w, next, <<>>) = line[Len(line)][1] + 1
         /\ Front(w, next) = <<line[Len(line)][1] + 1, 1>>
<1> DEFINE b == line[Len(line)]
           c == b[1]
           n == <<>>
<1>1. b \in BytesOf(f)
  BY LineIs
<1>2. AfterOf(f, b) = <<c + 1, 1>> /\ AfterOf(f, b)[1] = c + 1 /\ AfterOf(f, b)[2] = 1
  BY <1>1, AfterIs
<1>3. Front(w, next) = AfterOf(f, b)
  BY DEF OrderOf
<1>4. OrderOf(f, w, next, n)
  <2>1. \A k \in 1 .. Len(n) : n[k] = Spot(f, n[1][1], k)
    OBVIOUS
  <2>2. n = <<>>
    OBVIOUS
  <2>3. Front(w, next)[2] = 1
    BY <1>2, <1>3
  <2> HIDE DEF n
  <2>4. QED BY <2>1, <2>2, <2>3 DEF OrderOf
<1>5. QED BY <1>2, <1>3, <1>4 DEF CurrentOf

\* Nothing waits behind the last line, and the host has sent the whole file.
LEMMA OrderEnds ==
  ASSUME NEW f \in Files, NEW w \in Seq(BytesOf(f)), NEW next \in Places(f),
         NEW line \in Seq(BytesOf(f)), OrderOf(f, w, next, line), line # <<>>,
         line[Len(line)][2] = f[line[Len(line)][1]].len, line[Len(line)][1] = Len(f)
  PROVE  w = <<>> /\ next = <<Len(f) + 1, 1>>
<1>1. Front(w, next) = <<Len(f) + 1, 1>> /\ Len(f) \in Nat
  BY OrderDecoded, FileIs
<1>2. ASSUME w # <<>> PROVE FALSE
  <2>1. w[1] \in BytesOf(f) /\ w[1] = <<Len(f) + 1, 1>>
    BY <1>1, <1>2, TailIs DEF Front
  <2>2. w[1][1] <= Len(f) /\ w[1][1] = Len(f) + 1
    BY <2>1, ByteIs
  <2>3. QED BY <1>1, <2>2
<1>3. QED BY <1>1, <1>2 DEF Front

\* The loader is not ahead of the host; what waits and the line are before it.
LEMMA CurrentIs ==
  ASSUME NEW f \in Files, NEW w \in Seq(BytesOf(f)), NEW next \in Places(f),
         NEW line \in Seq(BytesOf(f)), OrderOf(f, w, next, line)
  PROVE  CurrentOf(w, next, line) \in Nat /\ CurrentOf(w, next, line) <= next[1]
<1>1. Front(w, next)[1] \in Nat /\ Front(w, next)[1] <= next[1] /\ next[1] \in Nat
  <2>1. next[1] \in Nat
    BY PlaceIs
  <2>2. CASE w = <<>>
    BY <2>1, <2>2 DEF Front
  <2>3. CASE w # <<>>
    <3>1. w[1] \in BytesOf(f) /\ 1 \in 1 .. Len(w)
      BY <2>3, TailIs
    <3>2. w[1][1] \in Nat /\ w[1][1] <= next[1]
      BY <3>1, ByteIs DEF OrderOf
    <3>3. QED BY <2>1, <2>3, <3>2 DEF Front
  <2>4. QED BY <2>2, <2>3
<1>2. CASE line = <<>>
  BY <1>1, <1>2 DEF CurrentOf
<1>3. CASE line # <<>>
  <2> DEFINE b == line[Len(line)]
             c == line[1][1]
  <2>1. b \in BytesOf(f) /\ b[1] \in {c, c + 1} /\ c \in Nat /\ b[1] \in Nat
    <3>1. /\ b \in BytesOf(f) /\ c \in Nat /\ f[c].len \in Nat /\ Len(line) \in Nat /\ b[1] \in Nat
          /\ Len(line) <= f[c].len => b[1] = c
          /\ Len(line) > f[c].len => b[1] = c + 1
      BY <1>3, LineIs
    <3>2. QED BY <3>1
  <2>2. AfterOf(f, b)[1] \in {b[1], b[1] + 1}
    BY <2>1, AfterIs
  <2>3. Front(w, next) = AfterOf(f, b)
    BY <1>3 DEF OrderOf
  <2>4. CurrentOf(w, next, line) = c
    BY <1>3 DEF CurrentOf
  <2> HIDE DEF b, c
  <2>5. QED BY <1>1, <2>1, <2>2, <2>3, <2>4
<1>4. QED BY <1>2, <1>3
-----------------------------------------------------------------------------
(* What the loader has digested.                                           *)

\* A byte of d, which noise has hit, is in line n, or is the newline before it.
Struck(f, n, d) == \E b \in d : IF b[2] = f[b[1]].len THEN b[1] = n - 1 ELSE b[1] = n

\* The lines before c fit, and each of their records was read, or noise has hit it.
Digested(f, c, m, d) ==
  \A n \in 1 .. Len(f) :
    /\ m[n] \in {"skipped", "open"} => Struck(f, n, d)
    /\ n < c => f[n].len < LineSize /\ m[n] \in {"good", "skipped", "open"}

\* The line of the loader ends with a newline, which noise has not hit.
Closed(f, line, d) ==
  LET b == line[Len(line)] IN b[2] = f[b[1]].len /\ b \notin d

Core(f, pc, w, next, line, m, d) ==
  /\ OrderOf(f, w, next, line)
  /\ \A a, b \in d : a = b
  /\ line # <<>> /\ Len(line) > f[line[1][1]].len => <<line[1][1], f[line[1][1]].len>> \in d
  /\ pc = "getline" /\ line # <<>> => ~Closed(f, line, d)
  /\ pc = "decode" => line # <<>> /\ Len(line) < LineSize /\ Closed(f, line, d)
  /\ pc \in Ended => /\ line = <<>> /\ w = <<>> /\ next = <<Len(f) + 1, 1>>
                     /\ m[Len(f)] = "good" /\ \A n \in 1 .. Len(f) : m[n] # "open"
  /\ Digested(f, CurrentOf(w, next, line), m, d)

CoreInv ==
  fw.pc # "hung" => Core(File, fw.pc, Waiting, host.next, fw.line, record, host.damaged)

\* A loader that gives up has a reason.
HungInv == fw.pc = "hung" => ~Fits \/ host.damaged # {}

\* A poll that found room is followed by the write.
RoomInv == fw.room = TRUE => fw.out # <<>> /\ Len(uart.tx) < FifoDepth

\* The hand-off: on the noelv board the line is given away after the text has
\* left the UART, and the program starts with it.
HandOverInv ==
  /\ fw.pc \in {"drain", "spin", "delay"} => Main = Noelv
  /\ fw.pc = "jump" => Main # Noelv
  /\ fw.pc \in {"spin", "delay", "end"} => fw.out = <<>>
  /\ fw.pc = "spin" => uart.tx = <<>> /\ (fw.spun >= 1 => uart.shift = None)
  /\ fw.pc \in {"delay", "end"} /\ Main = Noelv =>
       perctl.mux = 1 /\ uart.tx = <<>> /\ uart.shift = None
  /\ perctl.run = 1 => fw.pc \in {"delay", "end"}
  /\ perctl.dump = 1 => Main = Noelv /\ fw.pc = "end" /\ perctl.run = 1
  /\ perctl.mux = 1 => fw.pc \in {"delay", "end"}

\* The first byte is on its way, and nothing is known to be wrong.
LEMMA CoreInit == Init => CoreInv /\ HungInv /\ RoomInv /\ HandOverInv
<1> SUFFICES ASSUME Init PROVE CoreInv /\ HungInv /\ RoomInv /\ HandOverInv
  OBVIOUS
<1>1. TypeInv
  BY TypeInit
<1>2. PICK main \in Mains, file \in Files :
        /\ job = [main |-> main, file |-> file]
        /\ fw = [pc |-> "getline", out |-> main.boot, room |-> FALSE, line |-> <<>>,
                 steps |-> 0, spun |-> 0]
        /\ record = [n \in 1 .. Len(file) |-> None]
  BY DEF Init, Mains
<1>3. /\ host = [next |-> <<1, 1>>, paused |-> TRUE, credit |-> 0, damaged |-> {}]
      /\ uart = [rx |-> <<>>, tx |-> <<>>, shift |-> None]
      /\ ring = [buf |-> [k \in 0 .. RingSize - 1 |-> <<1, 1>>], rd |-> 0, wr |-> 0]
      /\ perctl = [mux |-> 0, run |-> 0, dump |-> 0]
  BY DEF Init
<1>4. fw.pc = "getline" /\ fw.line = <<>> /\ fw.room = FALSE
  BY <1>2
<1>5. Waiting = <<>>
  <2>1. uart.rx = <<>> /\ ring.rd = ring.wr /\ ring \in Rings(BytesOf(File))
        /\ uart.rx \in Seq(BytesOf(File))
    BY <1>1, <1>3, Fields DEF TypeInv
  <2>2. Held(ring, uart.rx) = uart.rx
    BY <2>1, HeldTaken
  <2>3. QED BY <2>1, <2>2 DEF Waiting
<1>6. host.next[1] = 1 /\ host.next[2] = 1 /\ host.damaged = {}
  BY <1>3
<1>7. Front(<<>>, host.next) = host.next
  BY DEF Front
<1>8. OrderOf(File, <<>>, host.next, <<>>)
  <2> DEFINE e == <<>>
  <2>1. /\ \A k \in 1 .. Len(e) - 1 : e[k + 1] = AfterOf(File, e[k])
        /\ \A k \in 1 .. Len(e) : e[k][1] <= host.next[1]
        /\ \A k \in 1 .. Len(e) : e[k] = Spot(File, e[1][1], k)
    OBVIOUS
  <2>2. e = <<>> /\ Front(e, host.next)[2] = 1
    BY <1>6, <1>7
  <2> HIDE DEF e
  <2>3. OrderOf(File, e, host.next, e)
    BY <2>1, <2>2 DEF OrderOf
  <2>4. QED BY <2>2, <2>3
<1>9. Digested(File, CurrentOf(<<>>, host.next, <<>>), record, host.damaged)
  <2>1. CurrentOf(<<>>, host.next, <<>>) = 1
    BY <1>6, <1>7 DEF CurrentOf
  <2>2. Len(File) \in Nat
    BY <1>1, Fields, FileIs
  <2>3. \A n \in 1 .. Len(File) : ~(n < 1)
    BY <2>2
  <2>4. \A n \in 1 .. Len(File) : record[n] = None
    BY <1>2 DEF File
  <2>5. \A n \in 1 .. Len(File) : record[n] \notin {"skipped", "open"}
    BY <2>4 DEF None
  <2>6. QED BY <2>1, <2>3, <2>5 DEF Digested
<1>10. CoreInv
  BY <1>4, <1>5, <1>6, <1>8, <1>9 DEF CoreInv, Core, Ended
<1>11. HandOverInv
  BY <1>3, <1>4 DEF HandOverInv
<1>12. QED BY <1>4, <1>10, <1>11 DEF HungInv, RoomInv

\* Nothing that matters here changes.
LEMMA CoreKept ==
  ASSUME CoreInv, HungInv, job' = job, fw'.pc = fw.pc, fw'.line = fw.line,
         fw.pc # "hung" => Waiting' = Waiting,
         host'.next = host.next, host'.damaged = host.damaged, record' = record
  PROVE  CoreInv' /\ HungInv'
<1>1. File' = File
  BY DEF File
<1>2. CoreInv'
  BY <1>1 DEF CoreInv
<1>3. Fits' = Fits
  BY <1>1 DEF Fits
<1>4. QED BY <1>2, <1>3 DEF HungInv

\* GetAsync: a byte of the line, its end, or the end of the buffer.
LEMMA CoreTakes ==
  ASSUME TypeInv, CoreInv, HungInv, GetAsync
  PROVE  /\ CoreInv' /\ HungInv'
         /\ fw'.pc # "hung" => CurrentOf(Waiting', host'.next, fw'.line)
                               = CurrentOf(Waiting, host.next, fw.line)
         /\ fw'.pc = "decode" => Len(fw'.line) >= File[CurrentOf(Waiting, host.next, fw.line)].len
<1> DEFINE w == Waiting
           b == Head(w)
           g == Took(b)
           l == Append(fw.line, b)
<1>1. /\ UNCHANGED <<job, host, record, perctl>> /\ fw.pc = "getline" /\ fw.out = <<>>
      /\ \/ w = <<>> /\ Waiting' = w /\ fw' = Step(fw)
         \/ w # <<>> /\ Waiting' = Tail(w) /\ fw' = Step(g)
  BY GetAsyncDoes
<1>2. /\ File \in Files /\ w \in Seq(BytesOf(File)) /\ host.next \in Places(File)
      /\ fw.line \in Seq(BytesOf(File)) /\ fw \in FwType(File) /\ File' = File
      /\ Len(fw.line) < LineSize /\ Len(fw.line) \in Nat
  BY <1>1, Fields DEF TypeInv, File
<1>3. Core(File, "getline", w, host.next, fw.line, record, host.damaged)
  BY <1>1 DEF CoreInv
<1>4. CASE w = <<>> /\ Waiting' = w /\ fw' = Step(fw)
  <2>1. fw'.pc = fw.pc /\ fw'.line = fw.line
    BY <1>2, <1>4, Stepped
  <2>2. host'.next = host.next /\ host'.damaged = host.damaged /\ record' = record /\ job' = job
    BY <1>1
  <2>3. QED BY <1>1, <1>4, <2>1, <2>2, CoreKept
<1>5. CASE w # <<>> /\ Waiting' = Tail(w) /\ fw' = Step(g)
  <2>1. b \in BytesOf(File)
    BY <1>2, <1>5, TailIs
  <2>2. /\ OrderOf(File, w, host.next, fw.line)
        /\ \A x, y \in host.damaged : x = y
        /\ fw.line # <<>> /\ Len(fw.line) > File[fw.line[1][1]].len =>
             <<fw.line[1][1], File[fw.line[1][1]].len>> \in host.damaged
        /\ fw.line # <<>> => ~Closed(File, fw.line, host.damaged)
        /\ Digested(File, CurrentOf(w, host.next, fw.line), record, host.damaged)
    BY <1>3 DEF Core
  <2>a. ASSUME fw.line # <<>>
        PROVE  LET e == fw.line[Len(fw.line)]
                   c == fw.line[1][1]
               IN /\ Len(fw.line) > File[c].len => e[2] # File[e[1]].len
                  /\ Len(fw.line) >= File[c].len => <<c, File[c].len>> \in host.damaged
    <3> DEFINE e == fw.line[Len(fw.line)]
               c == fw.line[1][1]
    <3>1. /\ Len(fw.line) \in Nat /\ File[c].len \in Nat /\ c \in Nat /\ e \in BytesOf(File)
          /\ Len(fw.line) <= File[c].len => e[1] = c /\ e[2] = Len(fw.line)
          /\ Len(fw.line) > File[c].len => e[1] = c + 1 /\ e = Spot(File, c, Len(fw.line))
      BY <1>2, <2>2, <2>a, LineIs
    <3>2. e[2] = File[e[1]].len => e \in host.damaged
      BY <2>2, <2>a DEF Closed
    <3>3. Len(fw.line) > File[c].len => <<c, File[c].len>> \in host.damaged
      BY <2>2, <2>a
    <3>4. e = <<e[1], e[2]>>
      BY <1>2, <3>1, ByteIs
    <3> HIDE DEF e, c
    <3>5. ASSUME Len(fw.line) > File[c].len, e[2] = File[e[1]].len PROVE FALSE
      <4>1. e = <<c, File[c].len>>
        BY <2>2, <3>2, <3>3, <3>5
      <4>2. e[1] = c /\ e[1] = c + 1
        BY <3>1, <3>5, <4>1
      <4>3. QED BY <3>1, <4>2
    <3>6. ASSUME Len(fw.line) = File[c].len PROVE <<c, File[c].len>> \in host.damaged
      <4>1. e[1] = c /\ e[2] = File[c].len
        BY <3>1, <3>6
      <4>2. e = <<c, File[c].len>>
        BY <3>4, <4>1
      <4>3. QED BY <3>2, <4>1, <4>2
    <3>7. QED BY <3>1, <3>3, <3>5, <3>6 DEF e, c
  <2>3. /\ OrderOf(File, Tail(w), host.next, l)
        /\ CurrentOf(Tail(w), host.next, l) = CurrentOf(w, host.next, fw.line)
        /\ b = Spot(File, l[1][1], Len(fw.line) + 1)
    BY <1>2, <1>5, <2>2, <2>a, OrderTakes
  <2>4. l \in Seq(BytesOf(File)) /\ l # <<>> /\ Len(l) = Len(fw.line) + 1 /\ l[Len(l)] = b
        /\ (fw.line # <<>> => l[1][1] = fw.line[1][1])
    <3>1. l \in Seq(BytesOf(File)) /\ l # <<>> /\ Len(l) = Len(fw.line) + 1
          /\ (\A i \in 1 .. Len(fw.line) : l[i] = fw.line[i]) /\ l[Len(fw.line) + 1] = b
      BY <1>2, <2>1, AppendIs
    <3>2. fw.line # <<>> => 1 \in 1 .. Len(fw.line)
      BY <1>2, TailIs
    <3> HIDE DEF l, b
    <3>3. QED BY <3>1, <3>2
  <2>5. CurrentOf(Tail(w), host.next, l) = l[1][1]
    BY <2>4 DEF CurrentOf
  <2>6. /\ l[1][1] \in 1 .. Len(File) /\ l[1][1] \in Nat /\ File[l[1][1]].len \in Nat
        /\ File[l[1][1]].len >= 1 /\ b[2] \in Nat /\ b[2] <= File[b[1]].len
        /\ Len(l) <= File[l[1][1]].len => b[1] = l[1][1] /\ b[2] = Len(l)
    <3> DEFINE t == Tail(w)
    <3>1. l \in Seq(BytesOf(File)) /\ l # <<>> /\ OrderOf(File, t, host.next, l)
      BY <2>3, <2>4
    <3> HIDE DEF l, b, t
    <3>2. /\ l[1][1] \in 1 .. Len(File) /\ l[1][1] \in Nat /\ File[l[1][1]].len \in Nat
          /\ File[l[1][1]].len >= 1
      BY <1>2, <3>1, LineIs
    <3>3. /\ l[Len(l)][2] \in Nat /\ l[Len(l)][2] <= File[l[Len(l)][1]].len
      BY <1>2, <3>1, LineIs
    <3>4. Len(l) <= File[l[1][1]].len => l[Len(l)][1] = l[1][1] /\ l[Len(l)][2] = Len(l)
      BY <1>2, <3>1, LineIs
    <3>5. l[Len(l)] = b
      BY <2>4
    <3>6. QED BY <3>2, <3>3, <3>4, <3>5
  <2>7. Len(l) > File[l[1][1]].len => <<l[1][1], File[l[1][1]].len>> \in host.damaged
    <3>1. CASE fw.line = <<>>
      <4>1. Len(l) = 1
        BY <2>4, <3>1
      <4>2. QED BY <2>6, <4>1
    <3>2. CASE fw.line # <<>>
      <4>1. Len(l) > File[l[1][1]].len => Len(fw.line) >= File[l[1][1]].len
        BY <1>2, <2>4, <2>6
      <4>2. QED BY <2>4, <2>a, <3>2, <4>1
    <3>3. QED BY <3>1, <3>2
  <2>8. Ends(b) <=> Closed(File, l, host.damaged)
    BY <2>4 DEF Ends, IsLast, Closed
  <2>9. /\ Digested(File, CurrentOf(Tail(w), host.next, l), record, host.damaged)
        /\ \A x, y \in host.damaged : x = y
    BY <2>2, <2>3
  <2>10. /\ g \in FwType(File) /\ g.line = l
         /\ Len(fw.line) + 1 = LineSize => g.pc = "hung"
         /\ Len(fw.line) + 1 # LineSize /\ Ends(b) => g.pc = "decode"
         /\ Len(fw.line) + 1 # LineSize /\ ~Ends(b) => g.pc = "getline"
    BY <1>1, <2>1, TookIs
  <2>11. fw'.pc = g.pc /\ fw'.line = l
    BY <1>5, <2>10, Stepped
  <2> HIDE DEF g, l, b, w
  <2>12. CASE Len(fw.line) + 1 = LineSize
    <3>1. fw'.pc = "hung"
      BY <2>10, <2>11, <2>12
    <3>2. ~Fits' \/ host.damaged # {}
      <4>1. CASE Len(l) > File[l[1][1]].len
        BY <2>7, <4>1
      <4>2. CASE Len(l) <= File[l[1][1]].len
        <5>1. ~(File[l[1][1]].len < LineSize)
          BY <2>4, <2>6, <2>12, <4>2, Parameters
        <5>2. QED BY <1>2, <2>6, <5>1 DEF Fits
      <4>3. QED BY <1>2, <2>4, <2>6, <4>1, <4>2
    <3>3. QED BY <1>1, <3>1, <3>2 DEF CoreInv, HungInv
  <2>13. CASE Len(fw.line) + 1 # LineSize /\ Ends(b)
    <3>1. fw'.pc = "decode"
      BY <2>10, <2>11, <2>13
    <3>2. Len(l) < LineSize
      BY <1>2, <2>4, <2>13, Parameters
    <3>3. Closed(File, l, host.damaged)
      BY <2>8, <2>13
    <3>4. Core(File, "decode", Tail(w), host.next, l, record, host.damaged)
      BY <2>3, <2>4, <2>7, <2>9, <3>2, <3>3 DEF Core, Ended
    <3>5. CoreInv'
      BY <1>1, <1>2, <1>5, <2>11, <3>1, <3>4 DEF CoreInv
    <3>6. Len(l) >= File[l[1][1]].len
      <4>1. Len(l) <= File[l[1][1]].len => Len(l) = File[l[1][1]].len
        BY <2>4, <2>6, <3>3 DEF Closed
      <4>2. QED BY <1>2, <2>4, <2>6, <4>1
    <3>7. QED BY <1>1, <1>5, <2>3, <2>5, <2>11, <3>1, <3>5, <3>6 DEF HungInv, w
  <2>14. CASE Len(fw.line) + 1 # LineSize /\ ~Ends(b)
    <3>1. fw'.pc = "getline"
      BY <2>10, <2>11, <2>14
    <3>2. ~Closed(File, l, host.damaged)
      BY <2>8, <2>14
    <3>3. Core(File, "getline", Tail(w), host.next, l, record, host.damaged)
      BY <2>3, <2>4, <2>7, <2>9, <3>2 DEF Core, Ended
    <3>4. CoreInv'
      BY <1>1, <1>2, <1>5, <2>11, <3>1, <3>3 DEF CoreInv
    <3>5. QED BY <1>1, <1>5, <2>3, <2>11, <3>1, <3>4 DEF HungInv, w
  <2>15. QED BY <2>12, <2>13, <2>14
<1>6. QED BY <1>1, <1>4, <1>5

\* Noise has hit a record, or the newline before it.
LEMMA StruckIs ==
  ASSUME NEW n, TypeInv
  PROVE  Struck(File, n, host.damaged) <=> HitIn(n) \/ HitBefore(n)
  BY DEF Struck, HitIn, HitBefore, IsLast

\* Decode: the records of a line are read, or the loader gives up.
LEMMA CoreDecodes ==
  ASSUME TypeInv, CoreInv, HungInv, Decode
  PROVE  CoreInv' /\ HungInv'
<1> DEFINE c == fw.line[1][1]
           m == fw.line[Len(fw.line)][1]
           w == Waiting
<1>1. /\ UNCHANGED <<job, host, uart, ring, perctl>> /\ Waiting' = w
      /\ fw.pc = "decode" /\ fw.out = <<>> /\ fw.line # <<>> /\ c \in 1 .. Len(File)
      /\ m \in 1 .. Len(File) /\ fw'.line = <<>>
      /\ \/ fw'.pc = "hung" /\ DecodeGivesUp
         \/ \E fate \in Fates(m), eof \in BOOLEAN : DecodeReads(c, m, fate, eof)
  BY DecodeDoes
<1>2. /\ File \in Files /\ w \in Seq(BytesOf(File)) /\ host.next \in Places(File)
      /\ fw.line \in Seq(BytesOf(File)) /\ File' = File /\ Fits' = Fits
      /\ record \in [LinesOf(File) -> Fate]
      /\ host.damaged \in SUBSET BytesOf(File)
  BY <1>1, Fields DEF TypeInv, File, Fits
<1>3. Core(File, "decode", w, host.next, fw.line, record, host.damaged)
  BY <1>1 DEF CoreInv
<1>4. /\ OrderOf(File, w, host.next, fw.line) /\ Closed(File, fw.line, host.damaged)
      /\ Len(fw.line) < LineSize /\ \A x, y \in host.damaged : x = y
      /\ Digested(File, c, record, host.damaged)
  <2>1. CurrentOf(w, host.next, fw.line) = c
    BY <1>1 DEF CurrentOf
  <2>2. QED BY <1>3, <2>1 DEF Core
<1>5. /\ c \in Nat /\ m \in {c, c + 1} /\ Len(File) \in Nat
      /\ File[c].len < LineSize /\ File[m].len < LineSize
  <2> DEFINE e == fw.line[Len(fw.line)]
             k == Len(fw.line)
  <2>1. /\ k \in Nat /\ c \in Nat /\ File[c].len \in Nat /\ File[m].len \in Nat /\ m = e[1]
        /\ k <= File[c].len => e[1] = c /\ e[2] = k
        /\ k > File[c].len => e[1] = c + 1 /\ e[2] = k - File[c].len
    BY <1>1, <1>2, <1>4, LineIs
  <2>2. e[2] = File[e[1]].len
    BY <1>4 DEF Closed
  <2>3. k < LineSize /\ LineSize \in Nat /\ Len(File) \in Nat
    BY <1>2, <1>4, FileIs, Parameters
  <2> HIDE DEF e, k, c, m
  <2>4. CASE k <= File[c].len
    BY <2>1, <2>2, <2>3, <2>4
  <2>5. CASE k > File[c].len
    <3>1. m = c + 1 /\ File[m].len = k - File[c].len
      BY <2>1, <2>2, <2>5
    <3>2. \A x, y, z, s \in Nat : x > y /\ z = x - y /\ x < s => y < s /\ z < s
      OBVIOUS
    <3>3. File[c].len < LineSize /\ File[m].len < LineSize
      BY <2>1, <2>3, <2>5, <3>1, <3>2
    <3>4. QED BY <2>1, <2>3, <3>1, <3>3
  <2>6. QED BY <2>1, <2>4, <2>5
<1>6. CASE fw'.pc = "hung" /\ DecodeGivesUp
  <2>1. host.damaged # {}
    <3>1. CASE Open # {}
      <4>1. PICK n \in Open : TRUE
        BY <3>1
      <4>2. n \in 1 .. Len(File) /\ record[n] = "open"
        BY <1>2 DEF Open, LinesOf
      <4>3. QED BY <1>4, <4>2 DEF Digested, Struck
    <3>2. CASE HitIn(m)
      BY <3>2 DEF HitIn
    <3>3. QED BY <1>6, <3>1, <3>2 DEF DecodeGivesUp
  <2>2. QED BY <1>1, <1>6, <2>1 DEF CoreInv, HungInv
<1>7. ASSUME NEW fate \in Fates(m), NEW eof \in BOOLEAN, DecodeReads(c, m, fate, eof)
      PROVE  CoreInv' /\ HungInv'
  <2>1. /\ OrderOf(File, w, host.next, <<>>)
        /\ CurrentOf(w, host.next, <<>>) = m + 1
        /\ Front(w, host.next) = <<m + 1, 1>>
    BY <1>1, <1>2, <1>4, OrderDecoded DEF Closed
  <2>2. /\ Open = {} /\ eof = (fate = "good" /\ File[m].type = "eof")
        /\ record' = [k \in LinesOf(File) |-> IF k = m THEN fate ELSE IF k = c THEN "good" ELSE record[k]]
        /\ eof => fw'.pc = Main.next
        /\ ~eof => fw'.pc = "getline"
    BY <1>7 DEF DecodeReads
  <2>3. fate \in {"good", "skipped", "open"}
        /\ (fate # "good" => Struck(File, m, host.damaged))
    BY StruckIs DEF Fates
  <2>4. ASSUME NEW n \in 1 .. Len(File)
        PROVE  /\ record'[n] \in {"skipped", "open"} => Struck(File, n, host.damaged)
               /\ n < m + 1 => File[n].len < LineSize /\ record'[n] \in {"good", "skipped", "open"}
               /\ record'[n] = "open" => n = m /\ fate = "open"
    <3>1. n \in LinesOf(File) /\ n \in Nat /\ m \in Nat
      BY <1>1, <1>5 DEF LinesOf
    <3>2. record'[n] = IF n = m THEN fate ELSE IF n = c THEN "good" ELSE record[n]
      BY <2>2, <3>1
    <3>3. CASE n = m
      BY <1>5, <2>3, <3>2, <3>3
    <3>4. CASE n # m /\ n = c
      BY <1>5, <3>2, <3>4
    <3>5. CASE n # m /\ n # c
      <4>1. record'[n] = record[n]
        BY <3>2, <3>5
      <4>2. n < m + 1 => n < c
        <5>1. \A x, y, z \in Nat : z \in {y, y + 1} /\ x # z /\ x # y /\ x < z + 1 => x < y
          OBVIOUS
        <5>2. QED BY <1>5, <3>1, <3>5, <5>1
      <4>3. record[n] # "open"
        BY <1>2, <2>2, <3>1 DEF Open
      <4>4. QED BY <1>4, <4>1, <4>2, <4>3 DEF Digested
    <3>6. QED BY <3>3, <3>4, <3>5
  <2>5. Digested(File, CurrentOf(w, host.next, <<>>), record', host.damaged)
    BY <2>1, <2>4 DEF Digested
  <2>6. CASE eof
    <3>1. m = Len(File) /\ fw'.pc \in {"drain", "jump"} /\ fate = "good"
      BY <1>1, <1>2, <2>2, <2>6, FileIs, MainIs, Fields
    <3>2. w = <<>> /\ host.next = <<Len(File) + 1, 1>>
      BY <1>1, <1>2, <1>4, <3>1, OrderEnds DEF Closed
    <3>3. record'[Len(File)] = "good" /\ \A n \in 1 .. Len(File) : record'[n] # "open"
      <4>1. m \in LinesOf(File)
        BY <1>1 DEF LinesOf
      <4>2. record'[m] = fate
        BY <2>2, <4>1
      <4>3. QED BY <2>4, <3>1, <4>2
    <3> DEFINE e == <<>>
    <3>4. e = <<>> /\ OrderOf(File, w, host.next, e)
          /\ Digested(File, CurrentOf(w, host.next, e), record', host.damaged)
      BY <2>1, <2>5
    <3> HIDE DEF e, w, m, c
    <3>5. Core(File, fw'.pc, w, host.next, e, record', host.damaged)
      BY <1>4, <3>1, <3>2, <3>3, <3>4 DEF Core
    <3>6. CoreInv'
      BY <1>1, <1>2, <3>4, <3>5 DEF CoreInv
    <3>7. QED BY <3>1, <3>6 DEF HungInv
  <2>7. CASE ~eof
    <3>1. fw'.pc = "getline"
      BY <2>2, <2>7
    <3> DEFINE e == <<>>
    <3>2. e = <<>> /\ OrderOf(File, w, host.next, e)
          /\ Digested(File, CurrentOf(w, host.next, e), record', host.damaged)
      BY <2>1, <2>5
    <3> HIDE DEF e, w, m, c
    <3>3. Core(File, fw'.pc, w, host.next, e, record', host.damaged)
      BY <1>4, <3>1, <3>2 DEF Core, Ended
    <3>4. CoreInv'
      BY <1>1, <1>2, <3>2, <3>3 DEF CoreInv
    <3>5. QED BY <3>1, <3>4 DEF HungInv
  <2>8. QED BY <2>6, <2>7
<1>8. QED BY <1>1, <1>6, <1>7

\* SlotSend: a byte joins those that wait; if noise hits it, its line is still
\* to be decoded, and it is the only one.
LEMMA CoreSends ==
  ASSUME TypeInv, CoreInv, HungInv, SlotSend, fw.pc # "hung" => Len(Waiting) < FifoDepth
  PROVE  /\ CoreInv' /\ HungInv'
         /\ fw.pc # "hung" => CurrentOf(Waiting', host'.next, fw'.line)
                              = CurrentOf(Waiting, host.next, fw.line)
<1> DEFINE p == AfterOf(File, host.next)
           a == Append(Waiting, host.next)
<1>1. /\ UNCHANGED <<job, ring, record, perctl>> /\ Slotted /\ host.next \in BytesOf(File)
      /\ host'.next = p
      /\ host'.damaged = host.damaged \/ (host.damaged = {} /\ host'.damaged = {host.next})
      /\ Len(Waiting) < FifoDepth => Waiting' = a
  BY SlotSendDoes
<1>2. fw'.pc = fw.pc /\ fw'.line = fw.line
  BY <1>1, SlottedDoes
<1>3. File' = File /\ Fits' = Fits
  BY <1>1 DEF File, Fits
<1>4. HungInv'
  BY <1>1, <1>2, <1>3 DEF HungInv
<1>5. CASE fw.pc = "hung"
  BY <1>2, <1>4, <1>5 DEF CoreInv
<1>6. CASE fw.pc # "hung"
  <2>1. Core(File, fw.pc, Waiting, host.next, fw.line, record, host.damaged)
    BY <1>6 DEF CoreInv
  <2>2. Waiting' = a
    BY <1>1, <1>6
  <2>3. /\ File \in Files /\ Waiting \in Seq(BytesOf(File)) /\ host.next \in Places(File)
        /\ fw.line \in Seq(BytesOf(File))
    BY Fields
  <2>4. OrderOf(File, Waiting, host.next, fw.line)
    BY <2>1 DEF Core
  <2>5. /\ OrderOf(File, a, p, fw.line)
        /\ CurrentOf(a, p, fw.line) = CurrentOf(Waiting, host.next, fw.line)
    BY <1>1, <2>3, <2>4, OrderSent
  <2>6. host.damaged \subseteq host'.damaged /\ \A x, y \in host'.damaged : x = y
    BY <1>1, <2>1 DEF Core
  <2>7. fw.pc = "decode" => Closed(File, fw.line, host'.damaged)
    <3>1. CASE host'.damaged = host.damaged
      BY <2>1, <3>1 DEF Core
    <3>2. CASE fw.pc = "decode" /\ host'.damaged = {host.next}
      <4> DEFINE b == fw.line[Len(fw.line)]
      <4>1. fw.line # <<>> /\ b[2] = File[b[1]].len
        BY <2>1, <3>2 DEF Core, Closed
      <4>2. Front(Waiting, host.next) = <<b[1] + 1, 1>>
        BY <2>3, <2>4, <4>1, OrderDecoded
      <4>3. CurrentOf(Waiting, host.next, <<>>) = b[1] + 1 /\ OrderOf(File, Waiting, host.next, <<>>)
        BY <2>3, <2>4, <4>1, OrderDecoded
      <4>4. <<>> \in Seq(BytesOf(File))
        OBVIOUS
      <4>5. b[1] + 1 <= host.next[1]
        <5> DEFINE e == <<>>
        <5>1. e \in Seq(BytesOf(File)) /\ OrderOf(File, Waiting, host.next, e)
              /\ CurrentOf(Waiting, host.next, e) = b[1] + 1
          BY <4>3, <4>4
        <5> HIDE DEF e, b
        <5>2. QED BY <2>3, <5>1, CurrentIs
      <4>6. b[1] \in Nat
        BY <2>3, <2>4, <4>1, LineIs
      <4>7. b # host.next
        <5>1. ASSUME b = host.next PROVE FALSE
          <6>1. b[1] = host.next[1]
            BY <5>1
          <6> HIDE DEF b
          <6>2. QED BY <4>5, <4>6, <6>1
        <5>2. QED BY <5>1
      <4>8. QED BY <3>2, <4>1, <4>7 DEF Closed
    <3>3. QED BY <1>1, <3>1, <3>2
  <2>a. fw.pc = "getline" /\ fw.line # <<>> => ~Closed(File, fw.line, host'.damaged)
    BY <2>1, <2>6 DEF Core, Closed
  <2>8. Digested(File, CurrentOf(a, p, fw.line), record, host'.damaged)
    <3>1. Digested(File, CurrentOf(a, p, fw.line), record, host.damaged)
      BY <2>1, <2>5 DEF Core
    <3>2. \A n : Struck(File, n, host.damaged) => Struck(File, n, host'.damaged)
      BY <2>6 DEF Struck
    <3>3. QED BY <3>1, <3>2 DEF Digested
  <2>9. fw.pc \notin Ended
    <3>1. ASSUME fw.pc \in Ended PROVE FALSE
      <4>1. host.next = <<Len(File) + 1, 1>>
        BY <2>1, <3>1 DEF Core
      <4>2. host.next[1] = Len(File) + 1 /\ host.next[1] <= Len(File) /\ Len(File) \in Nat
        BY <1>1, <2>3, <4>1, ByteIs, FileIs
      <4>3. QED BY <4>2
    <3>2. QED BY <3>1
  <2> HIDE DEF a, p
  <2>10. Core(File, fw.pc, a, p, fw.line, record, host'.damaged)
    BY <2>1, <2>5, <2>6, <2>7, <2>a, <2>8, <2>9 DEF Core
  <2>11. CoreInv'
    BY <1>1, <1>2, <1>3, <2>2, <2>10 DEF CoreInv
  <2>12. QED BY <1>1, <1>2, <1>4, <2>2, <2>5, <2>11
<1>7. QED BY <1>5, <1>6

\* The hand-off: nothing waits any more.
LEMMA CoreEnds ==
  ASSUME TypeInv, CoreInv, HungInv, Drain \/ HandOff \/ RecDump \/ Jump
  PROVE  CoreInv' /\ HungInv'
<1>1. /\ UNCHANGED <<job, host, ring, record>>
      /\ uart.rx = <<>> => uart'.rx = <<>>
      /\ fw'.line = fw.line /\ fw.pc \in Ended /\ fw'.pc \in Ended
  BY EndingDoes DEF Ended
<1>2. Core(File, fw.pc, Waiting, host.next, fw.line, record, host.damaged)
  BY <1>1 DEF CoreInv, Ended
<1>3. Waiting = <<>>
  BY <1>1, <1>2 DEF Core
<1>4. Waiting' = Waiting
  <2>1. Len(Waiting) = Count(ring) + Len(uart.rx) /\ Count(ring) \in 0 .. RingSize - 1
        /\ Len(uart.rx) \in Nat /\ uart.rx \in Seq(BytesOf(File))
    BY Fields DEF IsHeld
  <2>2. Len(Waiting) = 0
    BY <1>3
  <2>3. Len(uart.rx) = 0
    BY <2>1, <2>2, Parameters
  <2>4. uart.rx = <<>>
    BY <2>1, <2>3, EmptyIs
  <2>5. QED BY <1>1, <2>4 DEF Waiting
<1>5. Core(File, fw'.pc, Waiting, host.next, fw.line, record, host.damaged)
  BY <1>1, <1>2 DEF Core, Ended
<1>6. File' = File
  BY <1>1 DEF File
<1>7. fw'.pc # "hung"
  BY <1>1 DEF Ended
<1>8. QED BY <1>1, <1>4, <1>5, <1>6, <1>7 DEF CoreInv, HungInv
-----------------------------------------------------------------------------
(* Flow control: between the newline of a line and the moment at which the *)
(* host has seen XOFF, no more than Backlog bytes arrive.                  *)

\* What follows asks the host for a line: text, and then XON or the prompt.
EndsOn(s) == Len(s) >= 1 /\ s[Len(s)] \in On /\ \A i \in 1 .. Len(s) - 1 : s[i] \in Plain

\* At most one byte waits, and it came in this slot.
Synced(n, steps) == n = 0 \/ (n = 1 /\ steps < StepsPerSlot)
Two(k) == IF k < 2 THEN k ELSE 2

\* The host sends, and the loader reads.
Running(h, u, g, n) ==
  /\ g.pc = "getline" /\ g.out = <<>> /\ h.paused = FALSE /\ u.tx = <<>> /\ u.shift = None
  /\ Synced(n, g.steps) \/ 2 * n + Len(g.line) + Two(g.steps) <= 2 * Backlog - 2

\* A line is complete, and XOFF is to be written.
Ending(h, u, g, n) ==
  /\ g.pc = "decode" /\ g.out = <<XOFF>> /\ h.paused = FALSE /\ u.tx = <<>> /\ u.shift = None
  /\ n <= 1 /\ (n = 1 => g.steps + (IF g.room = TRUE THEN 1 ELSE 2) <= StepsPerSlot)

\* XOFF is on its way while the line is decoded.
Halting(h, u, g, n) ==
  /\ g.pc = "decode" /\ g.out = <<>>
  /\ \/ h.paused = TRUE /\ u.tx = <<>> /\ u.shift = None /\ n + h.credit <= Backlog
     \/ h.paused = FALSE /\ u.tx = <<XOFF>> /\ u.shift = None /\ n <= 1
     \/ h.paused = FALSE /\ u.tx = <<>> /\ u.shift = XOFF /\ n <= 2

\* The next line has been requested: the host waits, and will see that, ...
Waits(h, u, g, n) ==
  /\ g.pc = "getline" /\ (g.out # <<>> => g.line = <<>>)
  /\ h.paused = TRUE /\ u.shift \in Plain /\ EndsOn(u.tx \o g.out)
  /\ Len(g.line) + n + h.credit <= Backlog

\* ... or sees it now, ...
Sees(h, u, g, n) ==
  /\ g.pc = "getline" /\ g.out = <<>>
  /\ h.paused = TRUE /\ u.shift \in On /\ u.tx = <<>>
  /\ Len(g.line) + n + h.credit <= Backlog
  /\ Synced(n, g.steps) \/ Len(g.line) >= Two(g.steps)

\* ... or XOFF, which is before it, has not been seen yet.
Overtakes(h, u, g, n) ==
  /\ g.pc = "getline" /\ (g.out # <<>> => g.line = <<>>) /\ h.paused = FALSE
  /\ \/ u.shift = XOFF /\ EndsOn(u.tx \o g.out) /\ Len(g.line) + n <= 2
     \/ /\ u.shift = None /\ u.tx # <<>> /\ u.tx[1] = XOFF /\ EndsOn(Tail(u.tx) \o g.out)
        /\ Len(g.line) + n <= 1

Flow(h, u, g, n) ==
  \/ Running(h, u, g, n) \/ Ending(h, u, g, n) \/ Halting(h, u, g, n)
  \/ Waits(h, u, g, n) \/ Sees(h, u, g, n) \/ Overtakes(h, u, g, n)

\* The numbers that the flow control is about.
LEMMA Numbers ==
  ASSUME TypeInv
  PROVE  /\ Len(Waiting) \in Nat /\ Len(fw.line) \in Nat /\ fw.steps \in Nat /\ host.credit \in Nat
         /\ fw.steps <= StepsPerSlot /\ host.credit <= Overshoot
         /\ Backlog \in Nat /\ Backlog >= 3 /\ StepsPerSlot \in Nat /\ StepsPerSlot >= 2
         /\ FifoDepth \in Nat /\ Backlog <= FifoDepth /\ Backlog < RingSize /\ RingSize \in Nat
         /\ Overshoot \in Nat /\ Overshoot <= Backlog - 2
         /\ Overshoot > 0 => Overshoot = Backlog - 2
         /\ More(fw.steps) \in Nat /\ More(fw.steps) <= fw.steps + 1
         /\ More(fw.steps) <= StepsPerSlot
  BY Fields, Parameters DEF More

\* The bytes that wait are no more than Backlog.
LEMMA FlowBound ==
  ASSUME NEW h, NEW u, NEW g, NEW n \in Nat, h.credit \in Nat, Len(g.line) \in Nat,
         g.steps \in Nat, Flow(h, u, g, n)
  PROVE  n <= Backlog
<1>1. Backlog \in Nat /\ Backlog >= 3
  BY Parameters
<1>2. CASE Running(h, u, g, n)
  <2>1. CASE Synced(n, g.steps)
    BY <1>1, <2>1 DEF Synced
  <2>2. CASE 2 * n + Len(g.line) + Two(g.steps) <= 2 * Backlog - 2
    <3>1. \A x, y, z, c \in Nat : 2 * x + y + z <= 2 * c - 2 => x <= c
      OBVIOUS
    <3>2. Two(g.steps) \in Nat
      BY DEF Two
    <3>3. QED BY <1>1, <2>2, <3>1, <3>2
  <2>3. QED BY <1>2, <2>1, <2>2 DEF Running
<1>3. CASE Ending(h, u, g, n)
  BY <1>1, <1>3 DEF Ending
<1>4. CASE Halting(h, u, g, n)
  BY <1>1, <1>4 DEF Halting
<1>5. CASE Waits(h, u, g, n)
  BY <1>1, <1>5 DEF Waits
<1>6. CASE Sees(h, u, g, n)
  BY <1>1, <1>6 DEF Sees
<1>7. CASE Overtakes(h, u, g, n)
  BY <1>1, <1>7 DEF Overtakes
<1>8. QED BY <1>2, <1>3, <1>4, <1>5, <1>6, <1>7 DEF Flow

\* Text before a byte that asks for a line.
LEMMA EndsOnText ==
  ASSUME NEW o \in Seq({Text}), NEW x \in On
  PROVE  EndsOn(Append(o, x))
<1>1. o \in Seq(Codes) /\ x \in Codes
  BY SeqMonotonic DEF Codes, On
<1>2. /\ Len(Append(o, x)) = Len(o) + 1 /\ Len(o) \in Nat
      /\ \A i \in 1 .. Len(o) : Append(o, x)[i] = o[i]
      /\ Append(o, x)[Len(o) + 1] = x
  BY <1>1, AppendIs
<1>3. \A i \in 1 .. Len(o) : o[i] \in Plain
  BY ElementOfSeq DEF Plain
<1>4. QED BY <1>2, <1>3 DEF EndsOn

\* The first of the bytes that ask for a line leaves.
LEMMA EndsOnTail ==
  ASSUME NEW s \in Seq(Codes), EndsOn(s)
  PROVE  /\ s # <<>>
         /\ \/ Head(s) \in On /\ Tail(s) = <<>>
            \/ Head(s) \in Plain /\ EndsOn(Tail(s))
<1>1. s # <<>>
  BY DEF EndsOn
<1>2. /\ Head(s) = s[1] /\ Len(Tail(s)) = Len(s) - 1 /\ Len(s) \in Nat /\ Len(s) >= 1
      /\ Len(s) = 1 => Tail(s) = <<>>
      /\ \A i \in 1 .. Len(s) - 1 : Tail(s)[i] = s[i + 1]
  BY <1>1, TailIs
<1>3. CASE Len(s) = 1
  BY <1>1, <1>2, <1>3 DEF EndsOn
<1>4. CASE Len(s) > 1
  <2>1. Head(s) \in Plain
    BY <1>2, <1>4 DEF EndsOn
  <2>2. Len(s) - 1 \in 1 .. Len(s) - 1 /\ Tail(s)[Len(s) - 1] = s[Len(s)]
    BY <1>2, <1>4
  <2>3. ASSUME NEW i \in 1 .. Len(Tail(s)) - 1 PROVE Tail(s)[i] \in Plain
    <3>1. i \in 1 .. Len(s) - 1 /\ i + 1 \in 1 .. Len(s) - 1
      BY <1>2
    <3>2. QED BY <1>2, <3>1 DEF EndsOn
  <2>4. Len(Tail(s)) >= 1 /\ Tail(s)[Len(Tail(s))] \in On
    BY <1>2, <1>4, <2>2 DEF EndsOn
  <2>5. EndsOn(Tail(s))
    BY <2>3, <2>4 DEF EndsOn
  <2>6. QED BY <1>1, <2>1, <2>5
<1>5. Len(s) = 1 \/ Len(s) > 1
  BY <1>2
<1>6. QED BY <1>3, <1>4, <1>5

\* The bytes in the FIFO and those still to be written.
LEMMA OutputIs ==
  ASSUME NEW t \in Seq(Codes), NEW o \in Seq(Codes)
  PROVE  /\ t \o o \in Seq(Codes)
         /\ t = <<>> => t \o o = o
         /\ t \o o = <<>> => t = <<>> /\ o = <<>>
         /\ t # <<>> => Head(t \o o) = Head(t) /\ Tail(t \o o) = Tail(t) \o o
<1> DEFINE s == t \o o
<1>1. s \in Seq(Codes) /\ Joined(s, t, o)
  BY ConcatIs
<1>2. Len(s) = Len(t) + Len(o) /\ Len(t) \in Nat /\ Len(o) \in Nat
      /\ (\A i \in 1 .. Len(t) : s[i] = t[i]) /\ (\A i \in 1 .. Len(o) : s[Len(t) + i] = o[i])
  BY <1>1 DEF Joined
<1>3. ASSUME t = <<>> PROVE s = o
  BY <1>3
<1>4. ASSUME s = <<>> PROVE t = <<>> /\ o = <<>>
  <2>1. Len(s) = 0
    BY <1>4
  <2>2. Len(t) = 0 /\ Len(o) = 0
    BY <1>2, <2>1
  <2>3. QED BY <2>2, EmptyIs
<1>5. ASSUME t # <<>> PROVE Head(s) = Head(t) /\ Tail(s) = Tail(t) \o o
  <2>1. /\ Tail(t) \in Seq(Codes) /\ Head(t) = t[1] /\ Len(Tail(t)) = Len(t) - 1 /\ Len(t) >= 1
        /\ \A i \in 1 .. Len(t) - 1 : Tail(t)[i] = t[i + 1]
    BY <1>5, TailIs
  <2>2. s # <<>>
    BY <1>4, <1>5
  <2>3. /\ Tail(s) \in Seq(Codes) /\ Head(s) = s[1] /\ Len(Tail(s)) = Len(s) - 1
        /\ \A i \in 1 .. Len(s) - 1 : Tail(s)[i] = s[i + 1]
    BY <1>1, <2>2, TailIs
  <2> DEFINE r == Tail(t) \o o
  <2>4. r \in Seq(Codes) /\ Joined(r, Tail(t), o)
    BY <2>1, ConcatIs
  <2>5. Len(r) = Len(Tail(t)) + Len(o) /\ (\A i \in 1 .. Len(Tail(t)) : r[i] = Tail(t)[i])
        /\ (\A i \in 1 .. Len(o) : r[Len(Tail(t)) + i] = o[i])
    BY <2>4 DEF Joined
  <2>6. Len(Tail(s)) = Len(r)
    BY <1>2, <2>1, <2>3, <2>5
  <2> HIDE DEF s, r
  <2>7. ASSUME NEW i \in 1 .. Len(Tail(s)) PROVE Tail(s)[i] = r[i]
    <3>1. i \in 1 .. Len(s) - 1 /\ i \in Nat
      BY <1>2, <2>1, <2>3
    <3>2. Tail(s)[i] = s[i + 1]
      BY <2>3, <3>1
    <3>3. CASE i <= Len(t) - 1
      <4>1. i \in 1 .. Len(t) - 1 /\ i \in 1 .. Len(Tail(t)) /\ i + 1 \in 1 .. Len(t)
        BY <1>2, <2>1, <3>1, <3>3
      <4>2. QED BY <1>2, <2>1, <2>5, <3>2, <4>1
    <3>4. CASE ~(i <= Len(t) - 1)
      <4> DEFINE j == i - (Len(t) - 1)
      <4>1. j \in 1 .. Len(o) /\ i + 1 = Len(t) + j /\ i = Len(Tail(t)) + j
        BY <1>2, <2>1, <3>1, <3>4
      <4>2. s[Len(t) + j] = o[j] /\ r[Len(Tail(t)) + j] = o[j]
        BY <1>2, <2>5, <4>1
      <4>3. QED BY <3>2, <4>1, <4>2
    <3>5. QED BY <3>3, <3>4
  <2>8. Tail(s) = r
    BY <2>3, <2>4, <2>6, <2>7, SeqEqual
  <2>9. Head(s) = Head(t)
    BY <1>2, <2>1, <2>3
  <2>10. QED BY <2>8, <2>9 DEF r
<1>6. QED BY <1>1, <1>3, <1>4, <1>5

\* CanWrite: the loader polls for room, and the slot goes by.
LEMMA FlowPolls ==
  ASSUME TypeInv, CanWrite, Flow(host, uart, fw, Len(Waiting))
  PROVE  Flow(host', uart', fw', Len(Waiting)) /\ Waiting' = Waiting
<1> DEFINE n == Len(Waiting)
<1>1. /\ UNCHANGED <<job, host, record, perctl>> /\ fw.out # <<>> /\ fw.room = FALSE
      /\ fw'.pc = fw.pc /\ fw'.out = fw.out /\ fw'.line = fw.line
      /\ fw'.steps = More(fw.steps) /\ fw'.room = (Len(uart.tx) < FifoDepth)
      /\ uart'.tx = uart.tx /\ uart'.shift = uart.shift
      /\ Len(Waiting) < RingSize => Waiting' = Waiting
  BY CanWriteDoes
<1>2. /\ n \in Nat /\ Len(fw.line) \in Nat /\ fw.steps \in Nat /\ host.credit \in Nat
      /\ Backlog \in Nat /\ Backlog < RingSize /\ RingSize \in Nat /\ FifoDepth \in Nat
      /\ Backlog <= FifoDepth /\ Backlog >= 3 /\ StepsPerSlot \in Nat
      /\ More(fw.steps) \in Nat /\ More(fw.steps) <= fw.steps + 1
  BY Numbers
<1>3. Waiting' = Waiting
  <2>1. n <= Backlog
    BY <1>2, FlowBound
  <2>2. QED BY <1>1, <1>2, <2>1
<1> HIDE DEF n
<1>4. Flow(host', uart', fw', n)
  <2>1. ~Running(host, uart, fw, n) /\ ~Halting(host, uart, fw, n) /\ ~Sees(host, uart, fw, n)
    BY <1>1 DEF Running, Halting, Sees
  <2>2. CASE Ending(host, uart, fw, n)
    <3>1. fw'.room = TRUE
      <4>1. Len(uart.tx) = 0
        BY <2>2 DEF Ending
      <4>2. Len(uart.tx) < FifoDepth
        BY <1>2, <4>1
      <4>3. QED BY <1>1, <4>2, Zenon
    <3>2. n = 1 => fw'.steps + 1 <= StepsPerSlot
      BY <1>1, <1>2, <2>2 DEF Ending
    <3>3. Ending(host', uart', fw', n)
      BY <1>1, <2>2, <3>1, <3>2 DEF Ending
    <3>4. QED BY <3>3 DEF Flow
  <2>3. CASE Waits(host, uart, fw, n)
    BY <1>1, <2>3 DEF Waits, Flow
  <2>4. CASE Overtakes(host, uart, fw, n)
    BY <1>1, <2>4 DEF Overtakes, Flow
  <2>5. QED BY <2>1, <2>2, <2>3, <2>4 DEF Flow, n
<1>5. QED BY <1>3, <1>4 DEF n

\* Write: a byte joins those in the FIFO.
LEMMA FlowWrites ==
  ASSUME TypeInv, RoomInv, Write, Flow(host, uart, fw, Len(Waiting))
  PROVE  Flow(host', uart', fw', Len(Waiting)) /\ Waiting' = Waiting
<1> DEFINE n == Len(Waiting)
<1>1. /\ UNCHANGED <<job, host, ring, record, perctl>> /\ fw.out # <<>> /\ fw.room = TRUE
      /\ fw'.pc = fw.pc /\ fw'.out = Tail(fw.out) /\ fw'.line = fw.line
      /\ uart'.shift = uart.shift
      /\ uart'.tx = (IF Len(uart.tx) < FifoDepth THEN Append(uart.tx, Head(fw.out)) ELSE uart.tx)
      /\ Waiting' = Waiting
  BY WriteDoes
<1>2. uart'.tx = Append(uart.tx, Head(fw.out))
  BY <1>1 DEF RoomInv
<1>3. fw.out \in Seq(Codes) /\ uart.tx \in Seq(Codes)
  BY Fields
<1>4. uart'.tx \o fw'.out = uart.tx \o fw.out
  <2>1. Append(uart.tx, Head(fw.out)) \o Tail(fw.out) = uart.tx \o fw.out
    BY <1>1, <1>3, Moved
  <2>2. QED BY <1>1, <1>2, <2>1
<1>5. Head(fw.out) \in Codes
  BY <1>1, <1>3, TailIs
<1> HIDE DEF n
<1>6. Flow(host', uart', fw', n)
  <2>1. ~Running(host, uart, fw, n) /\ ~Halting(host, uart, fw, n) /\ ~Sees(host, uart, fw, n)
    BY <1>1 DEF Running, Halting, Sees
  <2>2. CASE Ending(host, uart, fw, n)
    <3>1. fw.out = <<XOFF>> /\ uart.tx = <<>>
      BY <2>2 DEF Ending
    <3>2. fw'.out = <<>> /\ uart'.tx = <<XOFF>>
      <4>1. Head(<<XOFF>>) = XOFF /\ Tail(<<XOFF>>) = <<>> /\ Append(<<>>, XOFF) = <<XOFF>>
        OBVIOUS
      <4>2. fw'.out = Tail(<<XOFF>>) /\ uart'.tx = Append(<<>>, Head(<<XOFF>>))
        BY <1>1, <1>2, <3>1
      <4>3. QED BY <4>1, <4>2
    <3>3. Halting(host', uart', fw', n)
      BY <1>1, <2>2, <3>2 DEF Ending, Halting
    <3>4. QED BY <3>3 DEF Flow
  <2>3. CASE Waits(host, uart, fw, n)
    <3>1. Waits(host', uart', fw', n)
      BY <1>1, <1>4, <2>3 DEF Waits
    <3>2. QED BY <3>1 DEF Flow
  <2>4. CASE Overtakes(host, uart, fw, n)
    <3>1. fw'.pc = "getline" /\ (fw'.out # <<>> => fw'.line = <<>>) /\ host'.paused = FALSE
          /\ fw'.line = fw.line
      BY <1>1, <2>4 DEF Overtakes
    <3>2. CASE uart.shift = XOFF /\ EndsOn(uart.tx \o fw.out) /\ Len(fw.line) + n <= 2
      BY <1>1, <1>4, <3>1, <3>2 DEF Overtakes, Flow
    <3>3. CASE /\ uart.shift = None /\ uart.tx # <<>> /\ uart.tx[1] = XOFF
               /\ EndsOn(Tail(uart.tx) \o fw.out) /\ Len(fw.line) + n <= 1
      <4>1. uart'.tx # <<>> /\ uart'.tx[1] = XOFF
        <5>1. 1 \in 1 .. Len(uart.tx)
          BY <1>3, <3>3, TailIs
        <5>2. QED BY <1>2, <1>3, <1>5, <3>3, <5>1, AppendIs
      <4>2. uart'.tx \in Seq(Codes) /\ fw'.out \in Seq(Codes)
        BY <1>1, <1>2, <1>3, <1>5, AppendIs, TailIs
      <4>3. Tail(uart'.tx) \o fw'.out = Tail(uart.tx) \o fw.out
        <5>1. Tail(uart'.tx) \o fw'.out = Tail(uart'.tx \o fw'.out)
          BY <4>1, <4>2, OutputIs
        <5>2. Tail(uart.tx) \o fw.out = Tail(uart.tx \o fw.out)
          BY <1>3, <3>3, OutputIs
        <5>3. QED BY <1>4, <5>1, <5>2
      <4>4. EndsOn(Tail(uart'.tx) \o fw'.out)
        BY <3>3, <4>3
      <4>5. Overtakes(host', uart', fw', n)
        BY <1>1, <3>1, <3>3, <4>1, <4>4 DEF Overtakes
      <4>6. QED BY <4>5 DEF Flow
    <3>4. QED BY <2>4, <3>2, <3>3 DEF Overtakes
  <2>5. QED BY <2>1, <2>2, <2>3, <2>4 DEF Flow, n
<1>7. QED BY <1>1, <1>6 DEF n

\* What GetAsync does to the numbers.
LEMMA TakesIs ==
  ASSUME TypeInv, GetAsync
  PROVE  /\ UNCHANGED <<job, host, record, perctl>> /\ fw.pc = "getline" /\ fw.out = <<>>
         /\ uart'.tx = uart.tx /\ uart'.shift = uart.shift
         /\ fw'.room = fw.room /\ fw'.steps = More(fw.steps) /\ Len(fw'.line) \in Nat
         /\ \/ /\ Waiting = <<>> /\ Waiting' = <<>> /\ fw'.pc = "getline" /\ fw'.out = <<>>
               /\ fw'.line = fw.line
            \/ /\ Waiting # <<>> /\ Len(Waiting) >= 1 /\ Len(Waiting') = Len(Waiting) - 1
               /\ Len(fw'.line) = Len(fw.line) + 1
               /\ \/ fw'.pc = "hung"
                  \/ fw'.pc = "getline" /\ fw'.out = <<>>
                  \/ fw'.pc = "decode" /\ fw'.out = IF Main.flow THEN <<XOFF>> ELSE <<>>
<1> DEFINE w == Waiting
           b == Head(w)
           g == Took(b)
<1>1. /\ UNCHANGED <<job, host, record, perctl>> /\ fw.pc = "getline" /\ fw.out = <<>>
      /\ uart'.tx = uart.tx /\ uart'.shift = uart.shift
      /\ \/ w = <<>> /\ Waiting' = w /\ fw' = Step(fw)
         \/ w # <<>> /\ Waiting' = Tail(w) /\ fw' = Step(g)
  BY GetAsyncDoes
<1>2. /\ w \in Seq(BytesOf(File)) /\ fw.line \in Seq(BytesOf(File)) /\ fw \in FwType(File)
      /\ Len(fw.line) \in Nat
  BY Fields DEF TypeInv
<1>3. CASE w = <<>> /\ Waiting' = w /\ fw' = Step(fw)
  <2>1. fw'.pc = fw.pc /\ fw'.line = fw.line /\ fw'.out = fw.out /\ fw'.room = fw.room
        /\ fw'.steps = More(fw.steps)
    BY <1>2, <1>3, Stepped
  <2>2. QED BY <1>1, <1>2, <1>3, <2>1
<1>4. CASE w # <<>> /\ Waiting' = Tail(w) /\ fw' = Step(g)
  <2>1. b \in BytesOf(File) /\ Len(w) >= 1 /\ Len(Tail(w)) = Len(w) - 1
    BY <1>2, <1>4, TailIs
  <2> HIDE DEF b
  <2>2. /\ g \in FwType(File) /\ g.line = Append(fw.line, b) /\ g.room = fw.room
        /\ g.steps = fw.steps
        /\ \/ g.pc = "hung"
           \/ g.pc = "getline" /\ g.out = <<>>
           \/ g.pc = "decode" /\ g.out = IF Main.flow THEN <<XOFF>> ELSE <<>>
    BY <1>1, <2>1, TookIs
  <2>3. Len(g.line) = Len(fw.line) + 1
    BY <1>2, <2>1, <2>2, AppendIs
  <2> HIDE DEF g
  <2>4. fw'.pc = g.pc /\ fw'.line = g.line /\ fw'.out = g.out /\ fw'.room = g.room
        /\ fw'.steps = More(g.steps)
    BY <1>4, <2>2, Stepped
  <2>5. Len(Waiting') = Len(Waiting) - 1 /\ Len(fw'.line) = Len(fw.line) + 1
        /\ Len(fw'.line) \in Nat
    BY <1>2, <1>4, <2>1, <2>3, <2>4
  <2> HIDE DEF w
  <2>6. QED BY <1>1, <1>4, <2>1, <2>2, <2>4, <2>5 DEF w
<1>5. QED BY <1>1, <1>3, <1>4

\* A byte fewer waits, and the line is a byte longer.
LEMMA Fewer ==
  \A n, m, l, k, s, t, B \in Nat :
    n >= 1 /\ m = n - 1 /\ k = l + 1 /\ 2 * n + l + s <= 2 * B - 2 =>
      /\ t <= s + 1 => 2 * m + k + t <= 2 * B - 2
      /\ k < 2 * B - 2
  OBVIOUS

\* GetAsync: a byte goes from those that wait to the line.  While the host is
\* not stopped the bytes that wait become fewer as the line grows, so that
\* none or one is left when it ends.
LEMMA FlowTakes ==
  ASSUME TypeInv, RoomInv, GetAsync, Main.flow = TRUE, Flow(host, uart, fw, Len(Waiting)),
         fw'.pc # "hung", fw'.pc = "decode" => Len(fw'.line) >= 2 * Backlog - 2
  PROVE  Flow(host', uart', fw', Len(Waiting'))
<1> DEFINE n == Len(Waiting)
           m == Len(Waiting')
<1>1. /\ host' = host /\ fw.pc = "getline" /\ fw.out = <<>>
      /\ uart'.tx = uart.tx /\ uart'.shift = uart.shift
      /\ fw'.room = fw.room /\ fw'.steps = More(fw.steps) /\ Len(fw'.line) \in Nat
      /\ \/ /\ n = 0 /\ m = 0 /\ fw'.pc = "getline" /\ fw'.out = <<>> /\ fw'.line = fw.line
         \/ /\ n >= 1 /\ m = n - 1 /\ Len(fw'.line) = Len(fw.line) + 1
            /\ \/ fw'.pc = "getline" /\ fw'.out = <<>>
               \/ fw'.pc = "decode" /\ fw'.out = <<XOFF>>
  BY TakesIs
<1>2. /\ n \in Nat /\ Len(fw.line) \in Nat /\ fw.steps \in Nat /\ host.credit \in Nat
      /\ Backlog \in Nat /\ Backlog >= 3 /\ StepsPerSlot \in Nat /\ StepsPerSlot >= 2
      /\ fw.steps <= StepsPerSlot
      /\ More(fw.steps) \in Nat /\ More(fw.steps) <= fw.steps + 1
      /\ More(fw.steps) <= StepsPerSlot
  BY Numbers
<1>3. fw.room = FALSE
  BY <1>1, Fields DEF RoomInv
<1> HIDE DEF n, m
<1>4. m \in Nat
  BY <1>1, <1>2
<1>n. /\ n \in Nat /\ m \in Nat /\ Len(fw.line) \in Nat /\ Len(fw'.line) \in Nat
      /\ Backlog \in Nat /\ Backlog >= 3
  BY <1>1, <1>2, <1>4
<1>m. \/ n = 0 /\ m = 0 /\ Len(fw'.line) = Len(fw.line)
      \/ n >= 1 /\ m = n - 1 /\ Len(fw'.line) = Len(fw.line) + 1
  BY <1>1
<1>5. ~Ending(host, uart, fw, n) /\ ~Halting(host, uart, fw, n)
  BY <1>1 DEF Ending, Halting
<1>6. CASE Running(host, uart, fw, n)
  <2>1. host'.paused = FALSE /\ uart'.tx = <<>> /\ uart'.shift = None
        /\ (Synced(n, fw.steps) \/ 2 * n + Len(fw.line) + Two(fw.steps) <= 2 * Backlog - 2)
    BY <1>1, <1>6 DEF Running
  <2>2. CASE fw'.pc = "getline"
    <3>1. fw'.out = <<>>
      BY <1>1, <2>2
    <3>2. Synced(m, fw'.steps) \/ 2 * m + Len(fw'.line) + Two(fw'.steps) <= 2 * Backlog - 2
      <4>1. CASE n = 0 /\ m = 0
        BY <4>1 DEF Synced
      <4>2. CASE n >= 1 /\ m = n - 1 /\ Len(fw'.line) = Len(fw.line) + 1
        <5>1. CASE Synced(n, fw.steps)
          <6>1. n = 1
            BY <1>n, <4>2, <5>1 DEF Synced
          <6>2. m = 0
            BY <4>2, <6>1
          <6>3. QED BY <6>2 DEF Synced
        <5>2. CASE 2 * n + Len(fw.line) + Two(fw.steps) <= 2 * Backlog - 2
          <6>1. Two(fw'.steps) <= Two(fw.steps) + 1 /\ Two(fw'.steps) \in Nat /\ Two(fw.steps) \in Nat
            BY <1>1, <1>2 DEF Two
          <6>2. 2 * m + Len(fw'.line) + Two(fw'.steps) <= 2 * Backlog - 2
            BY <1>n, <4>2, <5>2, <6>1, Fewer
          <6>3. QED BY <6>2
        <5>3. QED BY <2>1, <5>1, <5>2
      <4>3. QED BY <1>1, <4>1, <4>2
    <3>3. Running(host', uart', fw', m)
      BY <2>1, <2>2, <3>1, <3>2 DEF Running
    <3>4. QED BY <3>3 DEF Flow, m
  <2>3. CASE fw'.pc = "decode"
    <3>1. fw'.out = <<XOFF>> /\ n >= 1 /\ m = n - 1 /\ Len(fw'.line) = Len(fw.line) + 1
          /\ Len(fw'.line) >= 2 * Backlog - 2
      BY <1>1, <2>3
    <3>2. m = 0
      <4>1. CASE Synced(n, fw.steps)
        BY <1>2, <3>1, <4>1 DEF Synced
      <4>2. CASE 2 * n + Len(fw.line) + Two(fw.steps) <= 2 * Backlog - 2
        <5>1. Two(fw.steps) \in Nat
          BY <1>2 DEF Two
        <5>2. Len(fw'.line) < 2 * Backlog - 2
          BY <1>n, <3>1, <4>2, <5>1, Fewer
        <5>3. QED BY <1>n, <3>1, <5>2
      <4>3. QED BY <2>1, <4>1, <4>2
    <3>3. Ending(host', uart', fw', m)
      BY <2>1, <2>3, <3>1, <3>2 DEF Ending
    <3>4. QED BY <3>3 DEF Flow, m
  <2>4. QED BY <1>1, <2>2, <2>3
<1>7. ASSUME Len(fw.line) + n <= Backlog PROVE fw'.pc = "getline" /\ fw'.out = <<>>
  <2>1. ASSUME fw'.pc = "decode" PROVE FALSE
    BY <1>1, <1>2, <1>7, <2>1
  <2>2. QED BY <1>1, <2>1
<1>8. Len(fw'.line) + m = Len(fw.line) + n
  BY <1>n, <1>m
<1>9. CASE Waits(host, uart, fw, n)
  <2>1. Len(fw.line) + n + host.credit <= Backlog
    BY <1>9 DEF Waits
  <2>2. fw'.pc = "getline" /\ fw'.out = <<>>
    BY <1>2, <1>7, <2>1
  <2>3. Len(fw'.line) + m + host.credit <= Backlog
    BY <1>1, <1>2, <1>4, <1>8, <2>1
  <2>4. Waits(host', uart', fw', m)
    BY <1>1, <1>9, <2>2, <2>3 DEF Waits
  <2>5. QED BY <2>4 DEF Flow, m
<1>10. CASE Sees(host, uart, fw, n)
  <2>1. Len(fw.line) + n + host.credit <= Backlog
        /\ (Synced(n, fw.steps) \/ Len(fw.line) >= Two(fw.steps))
    BY <1>10 DEF Sees
  <2>2. fw'.pc = "getline" /\ fw'.out = <<>>
    BY <1>2, <1>7, <2>1
  <2>3. Len(fw'.line) + m + host.credit <= Backlog
    BY <1>1, <1>2, <1>4, <1>8, <2>1
  <2>4. Synced(m, fw'.steps) \/ Len(fw'.line) >= Two(fw'.steps)
    <3>1. CASE n = 0 /\ m = 0
      BY <3>1 DEF Synced
    <3>2. CASE n >= 1 /\ m = n - 1 /\ Len(fw'.line) = Len(fw.line) + 1
      <4>1. CASE Synced(n, fw.steps)
        BY <1>2, <3>2, <4>1 DEF Synced
      <4>2. CASE Len(fw.line) >= Two(fw.steps)
        <5>1. Two(fw'.steps) <= Two(fw.steps) + 1 /\ Two(fw'.steps) \in Nat /\ Two(fw.steps) \in Nat
          BY <1>1, <1>2 DEF Two
        <5>2. QED BY <1>2, <3>2, <4>2, <5>1
      <4>3. QED BY <2>1, <4>1, <4>2
    <3>3. QED BY <1>1, <3>1, <3>2
  <2>5. Sees(host', uart', fw', m)
    BY <1>1, <1>10, <2>2, <2>3, <2>4 DEF Sees
  <2>6. QED BY <2>5 DEF Flow, m
<1>11. CASE Overtakes(host, uart, fw, n)
  <2>1. Len(fw.line) + n <= 2
    BY <1>2, <1>11 DEF Overtakes
  <2>2. fw'.pc = "getline" /\ fw'.out = <<>>
    BY <1>2, <1>7, <2>1
  <2>3. Overtakes(host', uart', fw', m)
    BY <1>1, <1>8, <1>11, <2>2 DEF Overtakes
  <2>4. QED BY <2>3 DEF Flow, m
<1>12. QED BY <1>5, <1>6, <1>9, <1>10, <1>11 DEF Flow, n

\* Decode: the next line is requested while XOFF is still on its way.
LEMMA FlowDecodes ==
  ASSUME TypeInv, Decode, Main.flow = TRUE, Flow(host, uart, fw, Len(Waiting)), fw'.pc = "getline"
  PROVE  Flow(host', uart', fw', Len(Waiting'))
<1> DEFINE n == Len(Waiting)
<1>1. /\ UNCHANGED <<job, host, uart, ring, perctl>> /\ Waiting' = Waiting
      /\ fw.pc = "decode" /\ fw.out = <<>> /\ fw'.line = <<>>
      /\ \/ fw'.pc = "hung" /\ DecodeGivesUp
         \/ \E fate \in Fates(fw.line[Len(fw.line)][1]), eof \in BOOLEAN :
              DecodeReads(fw.line[1][1], fw.line[Len(fw.line)][1], fate, eof)
  BY DecodeDoes
<1>2. Main.next # "getline"
  BY Fields, MainIs
<1>3. PICK q \in Seq({Text}) : fw'.out = Append(q, XON)
  BY <1>1, <1>2 DEF DecodeReads
<1>4. EndsOn(fw'.out) /\ fw'.out \in Seq(Codes)
  <2>1. XON \in On
    BY DEF On
  <2>2. EndsOn(Append(q, XON))
    BY <2>1, EndsOnText
  <2>3. Append(q, XON) \in Seq(Codes)
    <3>1. q \in Seq(Codes) /\ XON \in Codes
      BY SeqMonotonic DEF Codes
    <3>2. QED BY <3>1
  <2>4. QED BY <1>3, <2>2, <2>3
<1>5. /\ n \in Nat /\ host.credit \in Nat /\ Backlog \in Nat /\ Len(fw'.line) = 0
  BY <1>1, Numbers
<1>6. <<>> \o fw'.out = fw'.out
  <2>1. <<>> \in Seq(Codes)
    OBVIOUS
  <2>2. QED BY <1>4, <2>1, OutputIs
<1> HIDE DEF n
<1>7. Halting(host, uart, fw, n)
  BY <1>1 DEF Flow, Running, Ending, Waits, Sees, Overtakes, n
<1>8. CASE host.paused = TRUE /\ uart.tx = <<>> /\ uart.shift = None /\ n + host.credit <= Backlog
  <2>1. Waits(host', uart', fw', n)
    BY <1>1, <1>4, <1>5, <1>6, <1>8 DEF Waits, Plain
  <2>2. QED BY <1>1, <2>1 DEF Flow, n
<1>9. CASE host.paused = FALSE /\ uart.tx = <<XOFF>> /\ uart.shift = None /\ n <= 1
  <2>1. uart'.tx # <<>> /\ uart'.tx[1] = XOFF /\ Tail(uart'.tx) = <<>>
    BY <1>1, <1>9
  <2>2. EndsOn(Tail(uart'.tx) \o fw'.out)
    BY <1>4, <1>6, <2>1
  <2>3. Overtakes(host', uart', fw', n)
    BY <1>1, <1>5, <1>9, <2>1, <2>2 DEF Overtakes
  <2>4. QED BY <1>1, <2>3 DEF Flow, n
<1>10. CASE host.paused = FALSE /\ uart.tx = <<>> /\ uart.shift = XOFF /\ n <= 2
  <2>1. EndsOn(uart'.tx \o fw'.out)
    BY <1>1, <1>4, <1>6, <1>10
  <2>2. Overtakes(host', uart', fw', n)
    BY <1>1, <1>5, <1>10, <2>1 DEF Overtakes
  <2>3. QED BY <1>1, <2>2 DEF Flow, n
<1>11. QED BY <1>7, <1>8, <1>9, <1>10 DEF Halting

\* A slot goes by, in which the host may have sent a byte of its credit.
LEMMA Spent ==
  \A n, m, c, d, o, B \in Nat :
    /\ (m = n /\ d = c) \/ (m = n + 1 /\ c > 0 /\ d = c - 1) => m + d = n + c
    /\ B >= 3 /\ o <= B - 2 /\ ((m = n /\ d = o) \/ (m = n + 1 /\ d = IF o > 0 THEN o - 1 ELSE 0)) =>
         m + d <= n + (B - 2)
  OBVIOUS

\* The line is long enough to make up for what waits.
LEMMA MadeUp ==
  \A n, m, l, c, B \in Nat :
    m = n \/ (m = n + 1 /\ c > 0) =>
      /\ l >= 2 /\ l + n + c <= B => 2 * m + l + 0 <= 2 * B - 2
      /\ 2 * n + l + 2 <= 2 * B - 2 => 2 * m + l + 0 <= 2 * B - 2
  OBVIOUS

\* SlotQuiet and SlotSend: m bytes wait after the slot.
LEMMA FlowSlots ==
  ASSUME TypeInv, HandOverInv, InTime, Slotted, Flow(host, uart, fw, Len(Waiting)),
         host'.paused = Seen.paused, uart'.tx = Shift.tx, uart'.shift = Shift.shift,
         NEW m \in Nat,
         \/ m = Len(Waiting) /\ host'.credit = Seen.credit
         \/ /\ m = Len(Waiting) + 1 /\ (host.paused = TRUE => host.credit > 0)
            /\ host'.credit = IF Seen.credit > 0 THEN Seen.credit - 1 ELSE 0
  PROVE  Flow(host', uart', fw', m)
<1> DEFINE n == Len(Waiting)
           l == Len(fw.line)
<1>1. /\ n \in Nat /\ l \in Nat /\ fw.steps \in Nat /\ host.credit \in Nat
      /\ Backlog \in Nat /\ Backlog >= 3 /\ StepsPerSlot \in Nat /\ StepsPerSlot >= 2
      /\ Overshoot \in Nat /\ Overshoot <= Backlog - 2
  BY Numbers
<1>2. /\ fw'.pc = fw.pc /\ fw'.out = fw.out /\ fw'.room = fw.room /\ fw'.line = fw.line
      /\ fw'.steps = 0
  BY SlottedDoes
<1>3. /\ uart.tx \in Seq(Codes) /\ fw.out \in Seq(Codes) /\ host.paused \in BOOLEAN
      /\ perctl.mux \in {0, 1}
  BY Fields
<1>4. perctl.mux = 0
  <2>1. fw.pc \in {"getline", "decode"}
    BY DEF Flow, Running, Ending, Halting, Waits, Sees, Overtakes
  <2>2. QED BY <1>3, <2>1 DEF HandOverInv
<1>5. /\ uart.shift = XOFF => Seen.paused = TRUE /\ Seen.credit = Overshoot
      /\ uart.shift \in On => Seen.paused = FALSE /\ Seen.credit = 0
      /\ uart.shift \in Plain => Seen.paused = host.paused /\ Seen.credit = host.credit
  BY <1>4, SeenIs
<1>6. /\ uart.tx = <<>> => uart'.tx = <<>> /\ uart'.shift = None
      /\ uart.tx # <<>> => uart'.tx = Tail(uart.tx) /\ uart'.shift = Head(uart.tx)
  BY ShiftIs
<1>7. fw.out # <<>> \/ fw.pc = "getline" => fw.steps = StepsPerSlot
  BY DEF InTime
<1>8. m = n \/ m = n + 1
  OBVIOUS
<1>9. /\ uart.shift \in Plain => host'.paused = host.paused
      /\ uart.shift = XOFF => host'.paused = TRUE
      /\ uart.shift \in On => host'.paused = FALSE
  BY <1>5
<1>10. ASSUME uart.shift \in Plain, host.paused = TRUE PROVE m + host'.credit = n + host.credit
  <2>1. \/ m = n /\ host'.credit = host.credit
        \/ m = n + 1 /\ host.credit > 0 /\ host'.credit = host.credit - 1
    BY <1>1, <1>5, <1>10
  <2>2. host'.credit \in Nat
    BY <1>1, <2>1
  <2> HIDE DEF n
  <2>3. QED BY <1>1, <2>1, <2>2, Spent
<1>11. ASSUME uart.shift = XOFF PROVE m + host'.credit <= n + (Backlog - 2) /\ host'.credit \in Nat
  <2>1. \/ m = n /\ host'.credit = Overshoot
        \/ m = n + 1 /\ host'.credit = IF Overshoot > 0 THEN Overshoot - 1 ELSE 0
    BY <1>5, <1>11
  <2>2. host'.credit \in Nat
    BY <1>1, <2>1
  <2> HIDE DEF n
  <2>3. QED BY <1>1, <2>1, <2>2, Spent
<1>12. None \in Plain /\ XOFF \notin Plain /\ XOFF # None
  BY DEF Plain, None, XOFF, Text
<1>c. m = n + 1 /\ host.paused = TRUE => host.credit > 0
  OBVIOUS
<1> HIDE DEF n
<1>13. ASSUME fw.pc = "getline", fw.out # <<>> => fw.line = <<>>, EndsOn(uart.tx \o fw.out),
              host'.paused = TRUE, l + m + host'.credit <= Backlog
       PROVE  Flow(host', uart', fw', m)
  <2>1. CASE uart.tx = <<>>
    <3>1. EndsOn(uart'.tx \o fw'.out) /\ uart'.shift \in Plain
      BY <1>2, <1>6, <1>12, <1>13, <2>1
    <3>2. Waits(host', uart', fw', m)
      BY <1>2, <1>13, <3>1 DEF Waits
    <3>3. QED BY <3>2 DEF Flow
  <2>2. CASE uart.tx # <<>>
    <3> DEFINE s == uart.tx \o fw.out
    <3>1. s \in Seq(Codes) /\ Head(s) = Head(uart.tx) /\ Tail(s) = Tail(uart.tx) \o fw.out
      BY <1>3, <2>2, OutputIs
    <3>2. EndsOn(s)
      BY <1>13
    <3> HIDE DEF s
    <3>3. CASE Head(s) \in On /\ Tail(s) = <<>>
      <4>1. Tail(uart.tx) \in Seq(Codes)
        BY <1>3, <2>2, TailIs
      <4>2. Tail(uart.tx) = <<>> /\ fw.out = <<>>
        BY <1>3, <3>1, <3>3, <4>1, OutputIs
      <4>3. uart'.tx = <<>> /\ uart'.shift \in On /\ fw'.out = <<>>
        BY <1>2, <1>6, <2>2, <3>1, <3>3, <4>2
      <4>4. Len(fw'.line) >= Two(fw'.steps)
        BY <1>1, <1>2 DEF Two
      <4>5. Sees(host', uart', fw', m)
        BY <1>2, <1>13, <4>3, <4>4 DEF Sees
      <4>6. QED BY <4>5 DEF Flow
    <3>4. CASE Head(s) \in Plain /\ EndsOn(Tail(s))
      <4>1. uart'.shift \in Plain /\ EndsOn(uart'.tx \o fw'.out)
        BY <1>2, <1>6, <2>2, <3>1, <3>4
      <4>2. Waits(host', uart', fw', m)
        BY <1>2, <1>13, <4>1 DEF Waits
      <4>3. QED BY <4>2 DEF Flow
    <3>5. QED BY <3>1, <3>2, <3>3, <3>4, EndsOnTail
  <2>3. QED BY <2>1, <2>2
<1>14. ASSUME Synced(n, StepsPerSlot) PROVE Synced(m, fw'.steps)
  <2>1. n = 0
    BY <1>1, <1>14 DEF Synced
  <2>2. m = 0 \/ m = 1
    BY <1>8, <2>1
  <2>3. QED BY <1>1, <1>2, <2>2 DEF Synced
<1>15. Two(StepsPerSlot) = 2 /\ Two(fw'.steps) = 0
  BY <1>1, <1>2 DEF Two
<1>16. CASE Running(host, uart, fw, n)
  <2>1. /\ fw.pc = "getline" /\ fw.out = <<>> /\ host.paused = FALSE /\ uart.tx = <<>>
        /\ uart.shift = None
        /\ Synced(n, fw.steps) \/ 2 * n + l + Two(fw.steps) <= 2 * Backlog - 2
    BY <1>16 DEF Running
  <2>2. fw.steps = StepsPerSlot
    BY <1>7, <2>1
  <2>3. Synced(m, fw'.steps) \/ 2 * m + l + Two(fw'.steps) <= 2 * Backlog - 2
    <3>1. CASE Synced(n, fw.steps)
      BY <1>14, <2>2, <3>1
    <3>2. CASE 2 * n + l + Two(fw.steps) <= 2 * Backlog - 2
      <4>1. 2 * n + l + 2 <= 2 * Backlog - 2
        BY <1>15, <2>2, <3>2
      <4>2. 2 * m + l + 0 <= 2 * Backlog - 2
        <5>1. 1 \in Nat /\ 1 > 0
          OBVIOUS
        <5> HIDE DEF l
        <5>2. QED BY <1>1, <1>8, <4>1, <5>1, MadeUp
      <4>3. QED BY <1>15, <4>2
    <3>3. QED BY <2>1, <3>1, <3>2
  <2>4. Running(host', uart', fw', m)
    BY <1>2, <1>6, <1>9, <1>12, <2>1, <2>3 DEF Running
  <2>5. QED BY <2>4 DEF Flow
<1>17. CASE Ending(host, uart, fw, n)
  <2>1. /\ fw.pc = "decode" /\ fw.out = <<XOFF>> /\ host.paused = FALSE /\ uart.tx = <<>>
        /\ uart.shift = None /\ n <= 1
        /\ n = 1 => fw.steps + (IF fw.room = TRUE THEN 1 ELSE 2) <= StepsPerSlot
    BY <1>17 DEF Ending
  <2>2. fw.steps = StepsPerSlot
    BY <1>7, <2>1
  <2>3. n = 0
    BY <1>1, <2>1, <2>2
  <2>4. m <= 1 /\ (m = 1 => fw'.steps + (IF fw'.room = TRUE THEN 1 ELSE 2) <= StepsPerSlot)
    BY <1>1, <1>2, <1>8, <2>3
  <2>5. Ending(host', uart', fw', m)
    BY <1>2, <1>6, <1>9, <1>12, <2>1, <2>4 DEF Ending
  <2>6. QED BY <2>5 DEF Flow
<1>18. CASE Halting(host, uart, fw, n)
  <2>1. fw'.pc = "decode" /\ fw'.out = <<>>
    BY <1>2, <1>18 DEF Halting
  <2>2. CASE host.paused = TRUE /\ uart.tx = <<>> /\ uart.shift = None /\ n + host.credit <= Backlog
    <3>1. m + host'.credit <= Backlog
      BY <1>10, <1>12, <2>2
    <3>2. Halting(host', uart', fw', m)
      BY <1>6, <1>9, <1>12, <2>1, <2>2, <3>1 DEF Halting
    <3>3. QED BY <3>2 DEF Flow
  <2>3. CASE host.paused = FALSE /\ uart.tx = <<XOFF>> /\ uart.shift = None /\ n <= 1
    <3>1. Head(<<XOFF>>) = XOFF /\ Tail(<<XOFF>>) = <<>> /\ <<XOFF>> # <<>>
      OBVIOUS
    <3>2. uart'.tx = <<>> /\ uart'.shift = XOFF /\ host'.paused = FALSE /\ m <= 2
      BY <1>1, <1>6, <1>8, <1>9, <1>12, <2>3, <3>1
    <3>3. Halting(host', uart', fw', m)
      BY <2>1, <3>2 DEF Halting
    <3>4. QED BY <3>3 DEF Flow
  <2>4. CASE host.paused = FALSE /\ uart.tx = <<>> /\ uart.shift = XOFF /\ n <= 2
    <3>1. m + host'.credit <= Backlog
      BY <1>1, <1>11, <2>4
    <3>2. Halting(host', uart', fw', m)
      BY <1>6, <1>9, <2>1, <2>4, <3>1 DEF Halting
    <3>3. QED BY <3>2 DEF Flow
  <2>5. QED BY <1>18, <2>2, <2>3, <2>4 DEF Halting
<1>19. CASE Waits(host, uart, fw, n)
  <2>1. /\ fw.pc = "getline" /\ (fw.out # <<>> => fw.line = <<>>)
        /\ host.paused = TRUE /\ uart.shift \in Plain /\ EndsOn(uart.tx \o fw.out)
        /\ l + n + host.credit <= Backlog
    BY <1>19 DEF Waits
  <2>2. m + host'.credit = n + host.credit /\ host'.paused = TRUE
    BY <1>9, <1>10, <2>1
  <2>3. host'.credit \in Nat
    BY <1>1, <1>5, <2>1
  <2>4. l + m + host'.credit <= Backlog
    BY <1>1, <2>1, <2>2, <2>3
  <2>5. QED BY <1>13, <2>1, <2>2, <2>4
<1>20. CASE Sees(host, uart, fw, n)
  <2>1. /\ fw.pc = "getline" /\ fw.out = <<>>
        /\ host.paused = TRUE /\ uart.shift \in On /\ uart.tx = <<>>
        /\ l + n + host.credit <= Backlog
        /\ Synced(n, fw.steps) \/ l >= Two(fw.steps)
    BY <1>20 DEF Sees
  <2>2. fw.steps = StepsPerSlot
    BY <1>7, <2>1
  <2>3. Synced(m, fw'.steps) \/ 2 * m + l + Two(fw'.steps) <= 2 * Backlog - 2
    <3>1. CASE Synced(n, fw.steps)
      BY <1>14, <2>2, <3>1
    <3>2. CASE l >= Two(fw.steps)
      <4>1. l >= 2 /\ (m = n \/ (m = n + 1 /\ host.credit > 0))
        BY <1>8, <1>15, <1>c, <2>1, <2>2, <3>2
      <4>2. 2 * m + l + 0 <= 2 * Backlog - 2
        <5> HIDE DEF l
        <5>1. QED BY <1>1, <2>1, <4>1, MadeUp
      <4>3. QED BY <1>15, <4>2
    <3>3. QED BY <2>1, <3>1, <3>2
  <2>4. Running(host', uart', fw', m)
    BY <1>2, <1>6, <1>9, <2>1, <2>3 DEF Running
  <2>5. QED BY <2>4 DEF Flow
<1>21. CASE Overtakes(host, uart, fw, n)
  <2>1. fw.pc = "getline" /\ (fw.out # <<>> => fw.line = <<>>) /\ host.paused = FALSE
    BY <1>21 DEF Overtakes
  <2>2. CASE uart.shift = XOFF /\ EndsOn(uart.tx \o fw.out) /\ l + n <= 2
    <3>1. m + host'.credit <= n + (Backlog - 2) /\ host'.credit \in Nat /\ host'.paused = TRUE
      BY <1>9, <1>11, <2>2
    <3>2. l + m + host'.credit <= Backlog
      BY <1>1, <2>2, <3>1
    <3>3. QED BY <1>13, <2>1, <2>2, <3>1, <3>2
  <2>3. CASE /\ uart.shift = None /\ uart.tx # <<>> /\ uart.tx[1] = XOFF
             /\ EndsOn(Tail(uart.tx) \o fw.out) /\ l + n <= 1
    <3>1. Head(uart.tx) = XOFF
      BY <1>3, <2>3, TailIs
    <3>2. uart'.shift = XOFF /\ uart'.tx = Tail(uart.tx) /\ host'.paused = FALSE
      BY <1>6, <1>9, <1>12, <2>1, <2>3, <3>1
    <3>3. Len(fw'.line) + m <= 2
      BY <1>1, <1>2, <1>8, <2>3
    <3>4. Overtakes(host', uart', fw', m)
      BY <1>2, <2>1, <2>3, <3>2, <3>3 DEF Overtakes
    <3>5. QED BY <3>4 DEF Flow
  <2>4. QED BY <1>21, <2>2, <2>3 DEF Overtakes
<1>22. QED BY <1>16, <1>17, <1>18, <1>19, <1>20, <1>21 DEF Flow, n
-----------------------------------------------------------------------------
(* The inductive invariant.                                                *)

Current == CurrentOf(Waiting, host.next, fw.line)

\* There are bytes of the file to come after the line of the loader.
MoreToCome(g, c) ==
  (g.pc = "getline" /\ c <= Len(File)) \/ (g.pc = "decode" /\ c < Len(File))

FlowInv ==
  Main.flow = TRUE /\ MoreToCome(fw, Current) =>
    Flow(host, uart, fw, Len(Waiting))

\* Without flow control the host waits for the text that ends a line.
PaceInv ==
  Main.flow = FALSE =>
    /\ fw.pc = "getline" /\ fw.out = <<>> => Synced(Len(Waiting), fw.steps)
    /\ fw.pc = "decode" \/ (fw.pc = "getline" /\ fw.out # <<>>) =>
         Waiting = <<>> /\ host.next[2] = 1

Inv ==
  TypeInv /\ CoreInv /\ HungInv /\ RoomInv /\ HandOverInv /\ FlowInv /\ PaceInv

\* What a firmware with flow control prints first ends with the prompt.
LEMMA BootIs ==
  ASSUME NEW m \in Mains, m.flow = TRUE
  PROVE  EndsOn(m.boot)
<1>1. Prompt \in On /\ Text \in Plain
  BY DEF On, Plain
<1>2. CASE m.boot = <<Prompt>>
  BY <1>1, <1>2 DEF EndsOn
<1>3. CASE m.boot = <<Text, Prompt>>
  BY <1>1, <1>3 DEF EndsOn
<1>4. QED BY <1>2, <1>3 DEF Mains, Noelv, Exec, Ddr3, Muntjac

\* The host waits for the prompt.
LEMMA FlowInit == Init => FlowInv /\ PaceInv
<1> SUFFICES ASSUME Init PROVE FlowInv /\ PaceInv
  OBVIOUS
<1>1. TypeInv
  BY TypeInit
<1>2. PICK main \in Mains, file \in Files :
        /\ job = [main |-> main, file |-> file]
        /\ fw = [pc |-> "getline", out |-> main.boot, room |-> FALSE, line |-> <<>>,
                 steps |-> 0, spun |-> 0]
  BY DEF Init, Mains
<1>3. /\ host = [next |-> <<1, 1>>, paused |-> TRUE, credit |-> 0, damaged |-> {}]
      /\ uart = [rx |-> <<>>, tx |-> <<>>, shift |-> None]
      /\ ring.rd = ring.wr
  BY DEF Init
<1>4. fw.pc = "getline" /\ fw.line = <<>> /\ fw.out = main.boot
  BY <1>2
<1>5. Waiting = <<>>
  <2>1. uart.rx = <<>> /\ ring.rd = ring.wr /\ ring \in Rings(BytesOf(File))
        /\ uart.rx \in Seq(BytesOf(File))
    BY <1>1, <1>3, Fields DEF TypeInv
  <2>2. Held(ring, uart.rx) = uart.rx
    BY <2>1, HeldTaken
  <2>3. QED BY <2>1, <2>2 DEF Waiting
<1>6. host.next[2] = 1 /\ host.paused = TRUE /\ host.credit = 0
  BY <1>3
<1>7. uart.tx = <<>> /\ uart.shift = None
  BY <1>3
<1>8. Backlog \in Nat /\ Len(fw.line) = 0 /\ Len(Waiting) = 0
  BY <1>4, <1>5, Parameters
<1>9. Main.flow = TRUE => EndsOn(uart.tx \o fw.out)
  <2>1. fw.out \in Seq(Codes) /\ uart.tx \in Seq(Codes) /\ Main = main
    BY <1>1, <1>2, Fields DEF Main
  <2>3. Main.flow = TRUE => EndsOn(fw.out)
    BY <1>4, <2>1, BootIs
  <2>2. QED BY <1>7, <2>1, <2>3, OutputIs
<1>10. Main.flow = TRUE => Waits(host, uart, fw, Len(Waiting))
  BY <1>4, <1>6, <1>7, <1>8, <1>9 DEF Waits, Plain
<1>11. PaceInv
  BY <1>4, <1>5, <1>6, <1>8 DEF PaceInv, Synced
<1>12. QED BY <1>10, <1>11 DEF FlowInv, Flow

\* Nothing waits while the last line is decoded.
LEMMA LastLine ==
  ASSUME TypeInv, CoreInv, fw.pc = "decode"
  PROVE  /\ Current = fw.line[1][1] /\ Current \in 1 .. Len(File) /\ Len(File) \in Nat
         /\ ~(Current < Len(File)) => Waiting = <<>> /\ host.next = <<Len(File) + 1, 1>>
<1> DEFINE b == fw.line[Len(fw.line)]
<1>1. /\ File \in Files /\ Waiting \in Seq(BytesOf(File)) /\ host.next \in Places(File)
      /\ fw.line \in Seq(BytesOf(File)) /\ fw.line # <<>>
  BY Fields DEF TypeInv
<1>2. OrderOf(File, Waiting, host.next, fw.line) /\ b[2] = File[b[1]].len
  BY DEF CoreInv, Core, Closed
<1>3. Current = fw.line[1][1]
  BY <1>1 DEF Current, CurrentOf
<1>4. Current \in 1 .. Len(File) /\ Len(File) \in Nat /\ b[1] \in 1 .. Len(File)
      /\ b[1] \in {Current, Current + 1}
  <2>1. /\ Current \in 1 .. Len(File) /\ b[1] \in 1 .. Len(File) /\ Len(File) \in Nat
        /\ Len(fw.line) \in Nat /\ File[Current].len \in Nat
        /\ Len(fw.line) <= File[Current].len => b[1] = Current
        /\ Len(fw.line) > File[Current].len => b[1] = Current + 1
    BY <1>1, <1>2, <1>3, LineIs, FileIs
  <2>2. QED BY <2>1
<1>5. ASSUME ~(Current < Len(File)) PROVE Waiting = <<>> /\ host.next = <<Len(File) + 1, 1>>
  <2>1. b[1] = Len(File)
    <3> HIDE DEF b
    <3>1. QED BY <1>4, <1>5
  <2>2. QED BY <1>1, <1>2, <2>1, OrderEnds
<1>6. QED BY <1>3, <1>4, <1>5

\* Nothing waits when the end of the file has gone by.
LEMMA PastEnd ==
  ASSUME TypeInv, CoreInv, fw.pc = "getline", ~(Current <= Len(File))
  PROVE  Waiting = <<>> /\ host.next = <<Len(File) + 1, 1>>
<1>1. /\ File \in Files /\ Waiting \in Seq(BytesOf(File)) /\ host.next \in Places(File)
      /\ fw.line \in Seq(BytesOf(File)) /\ Len(File) \in Nat
  BY Fields, FileIs
<1>2. OrderOf(File, Waiting, host.next, fw.line)
  BY DEF CoreInv, Core
<1>3. fw.line = <<>>
  <2>1. ASSUME fw.line # <<>> PROVE FALSE
    <3>1. Current = fw.line[1][1]
      BY <2>1 DEF Current, CurrentOf
    <3>2. Current \in 1 .. Len(File)
      BY <1>1, <1>2, <2>1, <3>1, LineIs
    <3>3. QED BY <1>1, <3>2
  <2>2. QED BY <2>1
<1>4. Current = Front(Waiting, host.next)[1]
  BY <1>3 DEF Current, CurrentOf
<1>5. Waiting = <<>>
  <2>1. ASSUME Waiting # <<>> PROVE FALSE
    <3>1. Waiting[1] \in BytesOf(File) /\ Current = Waiting[1][1]
      BY <1>1, <1>4, <2>1, TailIs DEF Front
    <3>2. Current <= Len(File)
      BY <1>1, <3>1, ByteIs
    <3>3. QED BY <3>2
  <2>2. QED BY <2>1
<1>6. host.next[1] > Len(File)
  <2>1. Current = host.next[1] /\ host.next[1] \in Nat
    BY <1>1, <1>4, <1>5, PlaceIs DEF Front
  <2>2. QED BY <1>1, <2>1
<1>7. QED BY <1>1, <1>5, <1>6, PlaceIs

\* Until the loader gives up, neither the FIFO nor the ring is asked for more
\* than it holds.
LEMMA Bounded ==
  ASSUME Inv, fw.pc # "hung"
  PROVE  Len(Waiting) <= Backlog /\ Len(Waiting) < RingSize
<1> USE DEF Inv
<1>1. /\ Len(Waiting) \in Nat /\ Backlog \in Nat /\ Backlog >= 3 /\ Backlog < RingSize
      /\ RingSize \in Nat /\ Len(fw.line) \in Nat /\ fw.steps \in Nat /\ host.credit \in Nat
  BY Numbers
<1>2. Len(Waiting) <= Backlog
  <2>1. CASE Waiting = <<>>
    BY <1>1, <2>1
  <2>2. CASE Flow(host, uart, fw, Len(Waiting))
    BY <1>1, <2>2, FlowBound
  <2>3. CASE Synced(Len(Waiting), fw.steps)
    <3>1. Len(Waiting) = 0 \/ Len(Waiting) = 1
      BY <2>3 DEF Synced
    <3>2. \A n, B \in Nat : B >= 3 /\ (n = 0 \/ n = 1) => n <= B
      OBVIOUS
    <3>3. QED BY <1>1, <3>1, <3>2
  <2>4. CASE fw.pc \in Ended
    BY <2>1, <2>4 DEF CoreInv, Core
  <2>5. CASE fw.pc = "decode" /\ ~(Current < Len(File))
    BY <2>1, <2>5, LastLine
  <2>a. CASE fw.pc = "getline" /\ ~(Current <= Len(File))
    BY <2>1, <2>a, PastEnd
  <2>6. fw.pc \in Pcs /\ Main.flow \in BOOLEAN
    BY Fields, MainIs
  <2>7. CASE /\ Main.flow = TRUE /\ fw.pc \notin Ended /\ ~(fw.pc = "decode" /\ ~(Current < Len(File)))
             /\ ~(fw.pc = "getline" /\ ~(Current <= Len(File)))
    <3>1. MoreToCome(fw, Current)
      BY <2>6, <2>7 DEF Pcs, Ended, MoreToCome
    <3>2. QED BY <2>2, <2>7, <3>1 DEF FlowInv
  <2>8. CASE Main.flow = FALSE /\ fw.pc \notin Ended
    <3>1. fw.pc = "getline" \/ fw.pc = "decode"
      BY <2>6, <2>8 DEF Pcs, Ended
    <3>2. QED BY <2>1, <2>3, <2>8, <3>1 DEF PaceInv
  <2>9. QED BY <2>4, <2>5, <2>a, <2>6, <2>7, <2>8
<1>3. QED BY <1>1, <1>2

\* The steps one by one.  CanWrite:
LEMMA InvPolls ==
  ASSUME Inv, CanWrite
  PROVE  CoreInv' /\ HungInv' /\ RoomInv' /\ HandOverInv' /\ FlowInv' /\ PaceInv'
<1> USE DEF Inv
<1>1. /\ UNCHANGED <<job, host, record, perctl>> /\ fw.out # <<>> /\ fw.room = FALSE
      /\ fw'.pc = fw.pc /\ fw'.out = fw.out /\ fw'.line = fw.line /\ fw'.spun = fw.spun
      /\ fw'.room = (Len(uart.tx) < FifoDepth)
      /\ uart'.tx = uart.tx /\ uart'.shift = uart.shift
      /\ Len(Waiting) < RingSize => Waiting' = Waiting
  BY CanWriteDoes
<1>2. fw.pc # "hung" => Waiting' = Waiting
  BY <1>1, Bounded
<1>3. CoreInv' /\ HungInv'
  <2>1. job' = job /\ host'.next = host.next /\ host'.damaged = host.damaged /\ record' = record
    BY <1>1
  <2>2. QED BY <1>1, <1>2, <2>1, CoreKept
<1>4. RoomInv'
  <2>1. ASSUME fw'.room = TRUE PROVE Len(uart.tx) < FifoDepth
    BY <1>1, <2>1, Zenon
  <2>2. fw'.out # <<>> /\ uart'.tx = uart.tx
    BY <1>1
  <2>3. QED BY <2>1, <2>2 DEF RoomInv
<1>5. File' = File /\ Main' = Main
  BY <1>1 DEF File, Main
<1>6. HandOverInv'
  BY <1>1, <1>5 DEF HandOverInv
<1>7. FlowInv'
  <2> SUFFICES ASSUME Main'.flow = TRUE,
                      MoreToCome(fw', Current')
               PROVE  Flow(host', uart', fw', Len(Waiting'))
    BY <1>5 DEF FlowInv, MoreToCome
  <2>1. fw.pc # "hung"
    BY <1>1 DEF MoreToCome
  <2>2. Current' = Current
    BY <1>1, <1>2, <2>1 DEF Current
  <2>3. Flow(host, uart, fw, Len(Waiting))
    BY <1>1, <1>5, <2>2 DEF FlowInv, MoreToCome
  <2>4. QED BY <1>2, <2>1, <2>3, FlowPolls
<1>8. PaceInv'
  BY <1>1, <1>2, <1>5 DEF PaceInv
<1>9. QED BY <1>3, <1>4, <1>6, <1>7, <1>8

\* Write:
LEMMA InvWrites ==
  ASSUME Inv, Write
  PROVE  CoreInv' /\ HungInv' /\ RoomInv' /\ HandOverInv' /\ FlowInv' /\ PaceInv'
<1> USE DEF Inv
<1>1. /\ UNCHANGED <<job, host, ring, record, perctl>> /\ fw.out # <<>>
      /\ fw'.pc = fw.pc /\ fw'.line = fw.line /\ fw'.spun = fw.spun
      /\ fw'.room = FALSE /\ uart'.shift = uart.shift /\ Waiting' = Waiting
  BY WriteDoes
<1>2. CoreInv' /\ HungInv'
  <2>1. job' = job /\ host'.next = host.next /\ host'.damaged = host.damaged /\ record' = record
    BY <1>1
  <2>2. QED BY <1>1, <2>1, CoreKept
<1>3. RoomInv'
  BY <1>1 DEF RoomInv
<1>4. File' = File /\ Main' = Main
  BY <1>1 DEF File, Main
<1>5. HandOverInv'
  <2>1. fw.pc \notin {"spin", "delay", "end"}
    BY <1>1 DEF HandOverInv
  <2>2. QED BY <1>1, <1>4, <2>1 DEF HandOverInv
<1>6. FlowInv'
  <2> SUFFICES ASSUME Main'.flow = TRUE,
                      MoreToCome(fw', Current')
               PROVE  Flow(host', uart', fw', Len(Waiting'))
    BY <1>4 DEF FlowInv, MoreToCome
  <2>1. Current' = Current
    BY <1>1 DEF Current
  <2>2. Flow(host, uart, fw, Len(Waiting))
    BY <1>1, <1>4, <2>1 DEF FlowInv, MoreToCome
  <2>3. QED BY <1>1, <2>2, FlowWrites
<1>7. PaceInv'
  <2>1. Waiting = <<>> => Synced(Len(Waiting), fw'.steps)
    BY DEF Synced
  <2>2. QED BY <1>1, <1>4, <2>1 DEF PaceInv
<1>8. QED BY <1>2, <1>3, <1>5, <1>6, <1>7

\* GetAsync:
LEMMA InvTakes ==
  ASSUME Inv, TypeInv', GetAsync
  PROVE  CoreInv' /\ HungInv' /\ RoomInv' /\ HandOverInv' /\ FlowInv' /\ PaceInv'
<1> USE DEF Inv
<1>1. /\ UNCHANGED <<job, host, record, perctl>> /\ fw.pc = "getline" /\ fw.out = <<>>
      /\ uart'.tx = uart.tx /\ uart'.shift = uart.shift
      /\ fw'.room = fw.room /\ fw'.steps = More(fw.steps) /\ Len(fw'.line) \in Nat
      /\ \/ /\ Waiting = <<>> /\ Waiting' = <<>> /\ fw'.pc = "getline" /\ fw'.out = <<>>
            /\ fw'.line = fw.line
         \/ /\ Waiting # <<>> /\ Len(Waiting) >= 1 /\ Len(Waiting') = Len(Waiting) - 1
            /\ Len(fw'.line) = Len(fw.line) + 1
            /\ \/ fw'.pc = "hung"
               \/ fw'.pc = "getline" /\ fw'.out = <<>>
               \/ fw'.pc = "decode" /\ fw'.out = IF Main.flow THEN <<XOFF>> ELSE <<>>
  BY TakesIs
<1>2. CoreInv' /\ HungInv'
  BY CoreTakes
<1>3. fw.room = FALSE
  BY <1>1, Fields DEF RoomInv
<1>4. RoomInv'
  BY <1>1, <1>3 DEF RoomInv
<1>5. File' = File /\ Main' = Main
  BY <1>1 DEF File, Main
<1>6. fw'.pc \in {"hung", "getline", "decode"}
  BY <1>1
<1>a. /\ File \in Files /\ Waiting' \in Seq(BytesOf(File)) /\ host'.next \in Places(File)
      /\ fw'.line \in Seq(BytesOf(File)) /\ (fw'.pc = "decode" => fw'.line # <<>>)
  <2>1. ring' \in Rings(BytesOf(File)) /\ uart' \in UartType(File)
    BY GetAsyncDoes
  <2>2. uart'.rx \in Seq(BytesOf(File))
    BY <2>1 DEF UartType
  <2>3. Waiting' \in Seq(BytesOf(File))
    BY <2>1, <2>2, HeldIs DEF Waiting
  <2>4. fw' \in FwType(File) /\ (fw'.pc = "decode" => fw'.line # <<>>)
    BY <1>5 DEF TypeInv
  <2>5. fw'.line \in Seq(BytesOf(File))
    BY <2>4 DEF FwType
  <2>6. File \in Files /\ host'.next \in Places(File)
    BY <1>1, Fields
  <2>7. QED BY <2>3, <2>4, <2>5, <2>6
<1>b. fw'.pc = "decode" =>
        /\ OrderOf(File, Waiting', host'.next, fw'.line)
        /\ Closed(File, fw'.line, host'.damaged)
  BY <1>2, <1>5 DEF CoreInv, Core
<1>7. HandOverInv'
  BY <1>1, <1>5, <1>6 DEF HandOverInv
<1>8. FlowInv'
  <2> SUFFICES ASSUME Main'.flow = TRUE,
                      MoreToCome(fw', Current')
               PROVE  Flow(host', uart', fw', Len(Waiting'))
    BY <1>5 DEF FlowInv, MoreToCome
  <2>0. Current' = Current
    BY <1>1, CoreTakes DEF MoreToCome, Current
  <2>1. Flow(host, uart, fw, Len(Waiting))
    <3>1. Current <= Len(File)
      <4>1. Len(File) \in Nat /\ Current \in Nat
        <5>1. File \in Files /\ Len(File) \in Nat /\ OrderOf(File, Waiting, host.next, fw.line)
          BY <1>1, Fields, FileIs DEF CoreInv, Core
        <5>2. QED BY <5>1, CurrentIs, Fields DEF Current
      <4>2. QED BY <1>5, <2>0, <4>1 DEF MoreToCome
    <3>2. QED BY <1>1, <1>5, <3>1 DEF FlowInv, MoreToCome
  <2>2. ASSUME fw'.pc = "decode" PROVE Len(fw'.line) >= 2 * Backlog - 2
    <3>1. Current' = fw'.line[1][1]
      BY <1>a, <2>2 DEF Current, CurrentOf
    <3>2. fw'.line[1][1] \in 1 .. Len(File)
      BY <1>a, <1>b, <2>2, LineIs
    <3>3. Current' < Len(File)
      BY <1>5, <2>2 DEF MoreToCome
    <3>4. Current \in 1 .. Len(File) /\ Current < Len(File)
      BY <2>0, <3>1, <3>2, <3>3
    <3>5. Len(fw'.line) >= File[Current].len
      BY <2>2, CoreTakes DEF Current
    <3>6. File[Current].len >= 2 * Backlog - 2 /\ File[Current].len \in Nat
      BY <1>a, <3>4, FileIs
    <3>7. Backlog \in Nat /\ Len(fw'.line) \in Nat
      BY <1>1, Parameters
    <3>8. QED BY <3>5, <3>6, <3>7
  <2>3. QED BY <1>5, <1>6, <2>1, <2>2, FlowTakes DEF MoreToCome
<1>9. PaceInv'
  <2> SUFFICES ASSUME Main.flow = FALSE
               PROVE  /\ fw'.pc = "getline" /\ fw'.out = <<>> => Synced(Len(Waiting'), fw'.steps)
                      /\ fw'.pc = "decode" \/ (fw'.pc = "getline" /\ fw'.out # <<>>) =>
                           Waiting' = <<>> /\ host'.next[2] = 1
    BY <1>5 DEF PaceInv
  <2>1. Synced(Len(Waiting), fw.steps)
    BY <1>1 DEF PaceInv
  <2>2. Len(Waiting') = 0
    <3>1. Len(Waiting) = 0 \/ Len(Waiting) = 1
      BY <2>1 DEF Synced
    <3>2. Waiting' = <<>> \/ (Len(Waiting) >= 1 /\ Len(Waiting') = Len(Waiting) - 1)
      BY <1>1
    <3>3. CASE Waiting' = <<>>
      BY <3>3
    <3>4. CASE Len(Waiting) >= 1 /\ Len(Waiting') = Len(Waiting) - 1
      <4>1. Len(Waiting) = 1
        BY <3>1, <3>4
      <4>2. QED BY <3>4, <4>1
    <3>5. QED BY <3>2, <3>3, <3>4
  <2>3. Waiting' = <<>>
    BY <1>a, <2>2, EmptyIs
  <2>4. ASSUME fw'.pc = "decode" PROVE host'.next[2] = 1
    <3>1. OrderOf(File, Waiting', host'.next, <<>>)
      BY <1>a, <1>b, <2>4, OrderDecoded DEF Closed
    <3>2. Front(Waiting', host'.next)[2] = 1
      BY <3>1 DEF OrderOf
    <3>3. QED BY <2>3, <3>2 DEF Front
  <2>5. QED BY <1>1, <2>2, <2>3, <2>4 DEF Synced
<1>10. QED BY <1>2, <1>4, <1>7, <1>8, <1>9

\* Decode:
LEMMA InvDecodes ==
  ASSUME Inv, Decode
  PROVE  CoreInv' /\ HungInv' /\ RoomInv' /\ HandOverInv' /\ FlowInv' /\ PaceInv'
<1> USE DEF Inv
<1> DEFINE c == fw.line[1][1]
           m == fw.line[Len(fw.line)][1]
<1>1. /\ UNCHANGED <<job, host, uart, ring, perctl>> /\ Waiting' = Waiting
      /\ fw.pc = "decode" /\ fw.out = <<>> /\ c \in 1 .. Len(File) /\ fw'.room = fw.room
      /\ fw'.line = <<>> /\ fw.line # <<>> /\ m \in 1 .. Len(File)
      /\ fw'.pc \in {"hung", "getline", Main.next}
  BY DecodeDoes DEF DecodeReads
<1>2. Main.next \in {"drain", "jump"} /\ (Main.next = "drain" <=> Main = Noelv)
  BY Fields, MainIs
<1>3. CoreInv' /\ HungInv'
  BY CoreDecodes
<1>4. RoomInv'
  BY <1>1, Fields DEF RoomInv
<1>5. File' = File /\ Main' = Main
  BY <1>1 DEF File, Main
<1>6. fw'.pc \in {"hung", "getline"} \/ (fw'.pc = Main.next /\ fw'.pc \in {"drain", "jump"})
  BY <1>1, <1>2
<1>7. HandOverInv'
  <2>1. perctl.run # 1 /\ perctl.dump # 1 /\ perctl.mux # 1
    BY <1>1 DEF HandOverInv
  <2>2. /\ fw'.pc \in {"drain", "spin", "delay"} => Main = Noelv
        /\ fw'.pc = "jump" => Main # Noelv
        /\ fw'.pc \notin {"spin", "delay", "end"}
    BY <1>2, <1>6
  <2>3. QED BY <1>1, <1>5, <2>1, <2>2 DEF HandOverInv
<1>8. FlowInv'
  <2> SUFFICES ASSUME Main'.flow = TRUE, fw'.pc = "getline", Current' <= Len(File)
               PROVE  Flow(host', uart', fw', Len(Waiting'))
    <3>1. fw'.pc # "decode"
      BY <1>2, <1>6
    <3>2. QED BY <1>5, <3>1 DEF FlowInv, MoreToCome
  <2>1. Current < Len(File)
    <3>1. /\ File \in Files /\ Waiting \in Seq(BytesOf(File)) /\ host.next \in Places(File)
          /\ fw.line \in Seq(BytesOf(File)) /\ OrderOf(File, Waiting, host.next, fw.line)
          /\ Closed(File, fw.line, host.damaged)
      BY <1>1, Fields DEF CoreInv, Core
    <3>2. CurrentOf(Waiting, host.next, <<>>) = m + 1
      BY <1>1, <3>1, OrderDecoded DEF Closed
    <3>3. Current' = m + 1
      BY <1>1, <3>2 DEF Current
    <3>4. Current = c /\ c \in Nat
      BY <1>1, <3>1, LineIs DEF Current, CurrentOf
    <3>5. /\ c \in Nat /\ File[c].len \in Nat /\ Len(fw.line) \in Nat /\ Len(File) \in Nat
          /\ Len(fw.line) <= File[c].len => m = c
          /\ Len(fw.line) > File[c].len => m = c + 1
      BY <1>1, <3>1, LineIs, FileIs
    <3> HIDE DEF c, m
    <3>6. m = c \/ m = c + 1
      BY <3>5
    <3>7. QED BY <3>3, <3>4, <3>5, <3>6
  <2>2. Flow(host, uart, fw, Len(Waiting))
    BY <1>1, <1>5, <2>1 DEF FlowInv, MoreToCome
  <2>3. QED BY <1>5, <2>2, FlowDecodes
<1>9. PaceInv'
  <2> SUFFICES ASSUME Main.flow = FALSE
               PROVE  /\ fw'.pc = "getline" /\ fw'.out = <<>> => Synced(Len(Waiting'), fw'.steps)
                      /\ fw'.pc = "decode" \/ (fw'.pc = "getline" /\ fw'.out # <<>>) =>
                           Waiting' = <<>> /\ host'.next[2] = 1
    BY <1>5 DEF PaceInv
  <2>1. Waiting = <<>> /\ host.next[2] = 1
    BY <1>1 DEF PaceInv
  <2>2. Waiting' = <<>> /\ host'.next[2] = 1
    BY <1>1, <2>1
  <2>3. Len(Waiting') = 0
    BY <2>2
  <2>4. QED BY <2>2, <2>3 DEF Synced
<1>10. QED BY <1>3, <1>4, <1>7, <1>8, <1>9

\* Drain, HandOff, RecDump and Jump:
LEMMA InvEnds ==
  ASSUME Inv, Drain \/ HandOff \/ RecDump \/ Jump
  PROVE  CoreInv' /\ HungInv' /\ RoomInv' /\ HandOverInv' /\ FlowInv' /\ PaceInv'
<1> USE DEF Inv
<1>1. /\ UNCHANGED <<job, host, ring, record>>
      /\ uart'.tx = uart.tx /\ uart'.shift = uart.shift
      /\ fw'.out = fw.out /\ fw'.room = fw.room
      /\ \/ /\ fw.pc = "drain" /\ perctl' = perctl /\ fw.out = <<>>
            /\ fw' = fw \/ (uart.tx = <<>> /\ fw'.pc = "spin" /\ fw'.spun = 0)
         \/ /\ fw.pc = "spin" /\ fw.spun = DrainSlots /\ fw'.pc = "delay"
            /\ perctl'.mux = 1 /\ perctl'.run = 1 /\ perctl'.dump = 0
         \/ /\ fw.pc = "delay" /\ fw'.pc = "end"
            /\ perctl'.mux = 1 /\ perctl'.run = 1 /\ perctl'.dump = 1
         \/ /\ fw.pc = "jump" /\ fw'.pc = "end" /\ fw.out = <<>>
            /\ perctl'.mux = perctl.mux /\ perctl'.run = 1 /\ perctl'.dump = perctl.dump
  BY EndingDoes
<1>2. CoreInv' /\ HungInv'
  BY CoreEnds
<1>3. RoomInv'
  BY <1>1 DEF RoomInv
<1>4. File' = File /\ Main' = Main
  BY <1>1 DEF File, Main
<1>5. fw'.pc \in {"drain", "spin", "delay", "end"}
  BY <1>1
<1>6. HandOverInv'
  <2>1. CASE /\ fw.pc = "drain" /\ perctl' = perctl /\ fw.out = <<>>
             /\ fw' = fw \/ (uart.tx = <<>> /\ fw'.pc = "spin" /\ fw'.spun = 0)
    BY <1>1, <1>4, <2>1 DEF HandOverInv
  <2>2. CASE /\ fw.pc = "spin" /\ fw.spun = DrainSlots /\ fw'.pc = "delay"
             /\ perctl'.mux = 1 /\ perctl'.run = 1 /\ perctl'.dump = 0
    <3>1. fw.spun >= 1
      BY <2>2, Parameters
    <3>2. Main = Noelv /\ fw.out = <<>> /\ uart.tx = <<>> /\ uart.shift = None
      BY <2>2, <3>1 DEF HandOverInv
    <3>3. QED BY <1>1, <1>4, <2>2, <3>2 DEF HandOverInv
  <2>3. CASE /\ fw.pc = "delay" /\ fw'.pc = "end"
             /\ perctl'.mux = 1 /\ perctl'.run = 1 /\ perctl'.dump = 1
    <3>1. Main = Noelv /\ fw.out = <<>> /\ uart.tx = <<>> /\ uart.shift = None
      BY <2>3 DEF HandOverInv
    <3>2. QED BY <1>1, <1>4, <2>3, <3>1 DEF HandOverInv
  <2>4. CASE /\ fw.pc = "jump" /\ fw'.pc = "end" /\ fw.out = <<>>
             /\ perctl'.mux = perctl.mux /\ perctl'.run = 1 /\ perctl'.dump = perctl.dump
    <3>1. Main # Noelv /\ perctl.dump # 1
      BY <2>4 DEF HandOverInv
    <3>2. QED BY <1>1, <1>4, <2>4, <3>1 DEF HandOverInv
  <2>5. QED BY <1>1, <2>1, <2>2, <2>3, <2>4
<1>7. FlowInv' /\ PaceInv'
  BY <1>5 DEF FlowInv, PaceInv, MoreToCome
<1>8. QED BY <1>2, <1>3, <1>6, <1>7

\* The room that a poll found and the end of the text are still there after a
\* slot.
LEMMA SlotKeeps ==
  ASSUME Inv, Slotted, UNCHANGED <<job, perctl>>, uart'.tx = Shift.tx, uart'.shift = Shift.shift
  PROVE  RoomInv' /\ HandOverInv'
<1> USE DEF Inv
<1>1. /\ fw'.pc = fw.pc /\ fw'.out = fw.out /\ fw'.room = fw.room
      /\ fw'.spun = (IF fw.pc = "spin" /\ fw.spun < DrainSlots THEN fw.spun + 1 ELSE fw.spun)
  BY SlottedDoes
<1>2. /\ uart.tx = <<>> => uart'.tx = <<>> /\ uart'.shift = None
      /\ uart.tx # <<>> => uart'.tx = Tail(uart.tx)
  BY ShiftIs
<1>3. uart.tx \in Seq(Codes) /\ FifoDepth \in Nat
  BY Fields, Parameters
<1>4. Len(uart.tx) < FifoDepth => Len(uart'.tx) < FifoDepth
  <2>1. CASE uart.tx = <<>>
    BY <1>2, <2>1
  <2>2. CASE uart.tx # <<>>
    <3>1. Len(uart'.tx) = Len(uart.tx) - 1 /\ Len(uart.tx) \in Nat
      BY <1>2, <1>3, <2>2, TailIs
    <3>2. QED BY <1>3, <3>1
  <2>3. QED BY <2>1, <2>2
<1>5. RoomInv'
  BY <1>1, <1>4 DEF RoomInv
<1>6. Main' = Main
  BY DEF Main
<1>7. HandOverInv'
  BY <1>1, <1>2, <1>6 DEF HandOverInv
<1>8. QED BY <1>5, <1>7

\* SlotQuiet:
LEMMA InvQuiet ==
  ASSUME Inv, SlotQuiet
  PROVE  CoreInv' /\ HungInv' /\ RoomInv' /\ HandOverInv' /\ FlowInv' /\ PaceInv'
<1> USE DEF Inv
<1>1. /\ UNCHANGED <<job, ring, record, perctl>> /\ InTime /\ Slotted
      /\ host' = Seen /\ uart' = Shift /\ Waiting' = Waiting
  BY SlotQuietDoes
<1>2. fw'.pc = fw.pc /\ fw'.out = fw.out /\ fw'.line = fw.line /\ fw'.steps = 0
  BY <1>1, SlottedDoes
<1>3. host'.next = host.next /\ host'.damaged = host.damaged
  BY <1>1, SeenIs
<1>4. CoreInv' /\ HungInv'
  <2>1. job' = job /\ record' = record
    BY <1>1
  <2>2. QED BY <1>1, <1>2, <1>3, <2>1, CoreKept
<1>5. RoomInv' /\ HandOverInv'
  BY <1>1, SlotKeeps
<1>6. File' = File /\ Main' = Main
  BY <1>1 DEF File, Main
<1>7. FlowInv'
  <2> SUFFICES ASSUME Main'.flow = TRUE,
                      MoreToCome(fw', Current')
               PROVE  Flow(host', uart', fw', Len(Waiting'))
    BY <1>6 DEF FlowInv, MoreToCome
  <2>1. Current' = Current
    BY <1>1, <1>2, <1>3 DEF Current
  <2>2. Flow(host, uart, fw, Len(Waiting))
    BY <1>2, <1>6, <2>1 DEF FlowInv, MoreToCome
  <2>3. Len(Waiting) \in Nat
    BY Numbers
  <2>4. host'.paused = Seen.paused /\ uart'.tx = Shift.tx /\ uart'.shift = Shift.shift
        /\ host'.credit = Seen.credit
    BY <1>1
  <2>5. Flow(host', uart', fw', Len(Waiting))
    BY <1>1, <2>2, <2>3, <2>4, FlowSlots
  <2>6. QED BY <1>1, <2>5
<1>8. PaceInv'
  <2> SUFFICES ASSUME Main.flow = FALSE
               PROVE  /\ fw'.pc = "getline" /\ fw'.out = <<>> => Synced(Len(Waiting'), fw'.steps)
                      /\ fw'.pc = "decode" \/ (fw'.pc = "getline" /\ fw'.out # <<>>) =>
                           Waiting' = <<>> /\ host'.next[2] = 1
    BY <1>6 DEF PaceInv
  <2>1. ASSUME fw.pc = "getline", fw.out = <<>> PROVE Synced(Len(Waiting), fw'.steps)
    <3>1. Synced(Len(Waiting), fw.steps) /\ fw.steps = StepsPerSlot
      BY <1>1, <2>1 DEF PaceInv, InTime
    <3>2. Len(Waiting) = 0
      BY <3>1, Numbers DEF Synced
    <3>3. QED BY <3>2 DEF Synced
  <2>2. QED BY <1>1, <1>2, <1>3, <2>1 DEF PaceInv
<1>9. QED BY <1>4, <1>5, <1>7, <1>8

\* SlotSend: there is room in the FIFO for what the host sends.
LEMMA InvSends ==
  ASSUME Inv, SlotSend
  PROVE  CoreInv' /\ HungInv' /\ RoomInv' /\ HandOverInv' /\ FlowInv' /\ PaceInv'
<1> USE DEF Inv
<1> DEFINE n == Len(Waiting)
<1>1. /\ UNCHANGED <<job, ring, record, perctl>> /\ InTime /\ Slotted /\ MaySend
      /\ host.next \in BytesOf(File) /\ host' \in HostType(File)
      /\ host'.next = AfterOf(File, host.next)
      /\ host'.paused = Seen.paused
      /\ host'.credit = (IF Seen.credit > 0 THEN Seen.credit - 1 ELSE 0)
      /\ uart'.tx = Shift.tx /\ uart'.shift = Shift.shift
      /\ n < FifoDepth => Waiting' = Append(Waiting, host.next)
  BY SlotSendDoes
<1>2. /\ fw'.pc = fw.pc /\ fw'.out = fw.out /\ fw'.line = fw.line /\ fw'.steps = 0
  BY <1>1, SlottedDoes
<1>3. /\ n \in Nat /\ Len(fw.line) \in Nat /\ Backlog \in Nat /\ Backlog >= 3
      /\ Backlog <= FifoDepth /\ FifoDepth \in Nat /\ StepsPerSlot \in Nat /\ StepsPerSlot >= 2
      /\ fw.steps \in Nat
  BY Numbers
<1>4. File' = File /\ Main' = Main /\ File \in Files /\ Main.flow \in BOOLEAN /\ fw.pc \in Pcs
      /\ host.paused \in BOOLEAN
  BY <1>1, Fields, MainIs DEF File, Main
<1>5. host.paused = TRUE => host.credit > 0
  BY <1>1 DEF MaySend
<1>6. host.next # <<Len(File) + 1, 1>>
  <2>1. ASSUME host.next = <<Len(File) + 1, 1>> PROVE FALSE
    <3>1. host.next[1] = Len(File) + 1 /\ host.next[1] <= Len(File) /\ Len(File) \in Nat
      BY <1>1, <1>4, <2>1, ByteIs, FileIs
    <3>2. QED BY <3>1
  <2>2. QED BY <2>1
<1>7. fw.pc # "hung" => fw.pc \in {"getline", "decode"}
  <2>1. fw.pc \notin Ended
    BY <1>6 DEF CoreInv, Core, Ended
  <2>2. QED BY <1>4, <2>1 DEF Pcs, Ended
<1>8. fw.pc # "hung" => MoreToCome(fw, Current)
  BY <1>6, <1>7, LastLine, PastEnd DEF MoreToCome
<1>9. ASSUME fw.pc # "hung", Main.flow = TRUE PROVE Flow(host', uart', fw', n + 1)
  <2>1. Flow(host, uart, fw, n)
    BY <1>7, <1>8, <1>9 DEF FlowInv
  <2>2. n + 1 \in Nat
    BY <1>3
  <2> DEFINE m == n + 1
  <2>3. m = n + 1 /\ m \in Nat
    BY <2>2
  <2> HIDE DEF m
  <2>4. Flow(host', uart', fw', m)
    BY <1>1, <1>5, <2>1, <2>3, FlowSlots
  <2>5. QED BY <2>3, <2>4
<1>10. ASSUME fw.pc # "hung", Main.flow = FALSE
       PROVE  fw.pc = "getline" /\ fw.out = <<>> /\ n = 0
  <2>1. host.next[2] > 1 \/ (fw.pc = "getline" /\ fw.out = <<>>)
    BY <1>1, <1>10 DEF MaySend, Paced
  <2>2. ASSUME fw.pc = "decode" \/ (fw.pc = "getline" /\ fw.out # <<>>) PROVE FALSE
    <3>1. host.next[2] = 1
      BY <1>10, <2>2 DEF PaceInv
    <3>2. fw.pc = "getline" /\ fw.out = <<>>
      BY <2>1, <3>1
    <3>3. QED BY <2>2, <3>2
  <2>3. fw.pc = "getline" /\ fw.out = <<>>
    BY <1>7, <1>10, <2>2
  <2>4. Synced(n, fw.steps) /\ fw.steps = StepsPerSlot
    BY <1>1, <1>10, <2>3 DEF PaceInv, InTime
  <2>5. n = 0
    BY <1>3, <2>4 DEF Synced
  <2>6. QED BY <2>3, <2>5
<1>11. fw.pc # "hung" => n < FifoDepth
  <2>1. CASE fw.pc # "hung" /\ Main.flow = TRUE
    <3> DEFINE m == n + 1
    <3>0. m \in Nat
      BY <1>3
    <3>1. Flow(host', uart', fw', m)
      <4>1. Flow(host', uart', fw', n + 1)
        BY <1>9, <2>1
      <4>2. QED BY <4>1
    <3>2. host'.credit \in Nat /\ Len(fw'.line) \in Nat /\ fw'.steps \in Nat
      <4>1. host'.credit \in 0 .. Overshoot
        BY <1>1 DEF HostType
      <4>2. QED BY <1>2, <1>3, <4>1
    <3> HIDE DEF m
    <3>3. m <= Backlog
      BY <3>0, <3>1, <3>2, FlowBound
    <3>4. n + 1 <= Backlog
      BY <3>3 DEF m
    <3> HIDE DEF n
    <3>5. QED BY <1>3, <3>4
  <2>2. CASE fw.pc # "hung" /\ Main.flow = FALSE
    <3>1. n = 0
      BY <1>10, <2>2
    <3>2. \A x, b, d \in Nat : b >= 3 /\ b <= d /\ x = 0 => x < d
      OBVIOUS
    <3> HIDE DEF n
    <3>3. QED BY <1>3, <3>1, <3>2
  <2>3. QED BY <1>4, <2>1, <2>2
<1>12. CoreInv' /\ HungInv'
  BY <1>11, CoreSends
<1>13. RoomInv' /\ HandOverInv'
  BY <1>1, SlotKeeps
<1>14. ASSUME fw.pc # "hung" PROVE Len(Waiting') = n + 1
  <2>1. Waiting' = Append(Waiting, host.next)
    BY <1>1, <1>11, <1>14
  <2>2. Waiting \in Seq(BytesOf(File))
    BY Fields
  <2>3. QED BY <1>1, <2>1, <2>2, AppendIs
<1>15. FlowInv'
  <2> SUFFICES ASSUME Main'.flow = TRUE,
                      MoreToCome(fw', Current')
               PROVE  Flow(host', uart', fw', Len(Waiting'))
    BY <1>4 DEF FlowInv, MoreToCome
  <2>1. fw.pc # "hung" /\ Main.flow = TRUE
    BY <1>2, <1>4 DEF MoreToCome
  <2>2. QED BY <1>9, <1>14, <2>1
<1>16. PaceInv'
  <2> SUFFICES ASSUME Main.flow = FALSE, fw'.pc # "hung"
               PROVE  /\ fw'.pc = "getline" /\ fw'.out = <<>> => Synced(Len(Waiting'), fw'.steps)
                      /\ fw'.pc = "decode" \/ (fw'.pc = "getline" /\ fw'.out # <<>>) =>
                           Waiting' = <<>> /\ host'.next[2] = 1
    BY <1>4 DEF PaceInv
  <2>1. fw.pc = "getline" /\ fw.out = <<>> /\ n = 0
    BY <1>2, <1>10
  <2>2. Len(Waiting') = 1 /\ fw'.steps < StepsPerSlot
    BY <1>2, <1>3, <1>14, <2>1
  <2>3. QED BY <1>2, <2>1, <2>2 DEF Synced
<1>17. QED BY <1>12, <1>13, <1>15, <1>16

\* Every step keeps the invariant.
LEMMA InvStep == Inv /\ [Next]_vars => Inv'
<1> SUFFICES ASSUME Inv, [Next]_vars PROVE Inv'
  OBVIOUS
<1>1. TypeInv'
  BY TypeStep DEF Inv
<1>2. CASE UNCHANGED vars
  <2>1. job' = job /\ host' = host /\ uart' = uart /\ ring' = ring /\ fw' = fw /\ record' = record
        /\ perctl' = perctl
    BY <1>2 DEF vars
  <2>2. File' = File /\ Main' = Main /\ Waiting' = Waiting
    BY <2>1 DEF File, Main, Waiting
  <2>3. Current' = Current /\ Fits' = Fits
    BY <2>1, <2>2 DEF Current, Fits
  <2>4. CoreInv' /\ HungInv' /\ RoomInv' /\ HandOverInv'
    BY <2>1, <2>2, <2>3 DEF Inv, CoreInv, HungInv, RoomInv, HandOverInv
  <2>5. FlowInv' /\ PaceInv'
    BY <2>1, <2>2, <2>3 DEF Inv, FlowInv, PaceInv, MoreToCome
  <2>6. QED BY <1>1, <2>4, <2>5 DEF Inv
<1>3. ASSUME Next PROVE CoreInv' /\ HungInv' /\ RoomInv' /\ HandOverInv' /\ FlowInv' /\ PaceInv'
  <2>1. CASE CanWrite
    BY <2>1, InvPolls
  <2>2. CASE Write
    BY <2>2, InvWrites
  <2>3. CASE GetAsync
    BY <1>1, <2>3, InvTakes
  <2>4. CASE Decode
    BY <2>4, InvDecodes
  <2>5. CASE Drain \/ HandOff \/ RecDump \/ Jump
    BY <2>5, InvEnds
  <2>6. CASE SlotQuiet
    BY <2>6, InvQuiet
  <2>7. CASE SlotSend
    BY <2>7, InvSends
  <2>8. QED BY <1>3, <2>1, <2>2, <2>3, <2>4, <2>5, <2>6, <2>7 DEF Next, Firmware
<1>4. QED BY <1>1, <1>2, <1>3 DEF Inv

\* The invariant holds in every state.
LEMMA Invariant == Spec => []Inv
<1>1. Init => Inv
  BY TypeInit, CoreInit, FlowInit DEF Inv
<1>2. QED BY <1>1, InvStep, PTL DEF Spec
-----------------------------------------------------------------------------
(* What the runs check.                                                    *)

\* The bytes of the line and those that wait, in one row.
LEMMA OrderJoined ==
  ASSUME NEW f \in Files, NEW w \in Seq(BytesOf(f)), NEW next \in Places(f),
         NEW line \in Seq(BytesOf(f)), OrderOf(f, w, next, line),
         NEW a, Joined(a, line, w), Len(a) >= 1
  PROVE  /\ line # <<>> => a[1][2] = 1
         /\ \A k \in 1 .. Len(a) - 1 : a[k + 1] = AfterOf(f, a[k])
         /\ AfterOf(f, a[Len(a)]) = next
<1> DEFINE n == Len(line)
<1>1. /\ Len(a) = n + Len(w) /\ n \in Nat /\ Len(w) \in Nat
      /\ \A i \in 1 .. n : a[i] = line[i]
      /\ \A i \in 1 .. Len(w) : a[n + i] = w[i]
  BY DEF Joined
<1>2. ASSUME line # <<>>
      PROVE  /\ n >= 1 /\ a[1][2] = 1 /\ a[n] = line[n] /\ Front(w, next) = AfterOf(f, a[n])
             /\ \A k \in 1 .. n - 1 : a[k + 1] = AfterOf(f, a[k])
  <2> DEFINE c == line[1][1]
             v == f[c].len
  <2>1. /\ n >= 1 /\ c \in 1 .. Len(f) /\ v \in Nat /\ v >= 1
        /\ \A k \in 1 .. n : line[k] = Spot(f, c, k)
    BY <1>2, LineIs DEF OrderOf
  <2>2. a[1] = line[1] /\ line[1] = <<c, 1>> /\ a[n] = line[n]
    <3>1. 1 \in 1 .. n /\ n \in 1 .. n /\ 1 <= v
      BY <1>1, <2>1
    <3>2. QED BY <1>1, <2>1, <3>1 DEF Spot
  <2>3. Front(w, next) = AfterOf(f, a[n])
    BY <1>2, <2>2 DEF OrderOf
  <2>4. a[1][2] = 1
    <3>1. \A x, y : y = <<x, 1>> => y[2] = 1
      OBVIOUS
    <3>2. QED BY <2>2, <3>1
  <2>5. ASSUME NEW k \in 1 .. n - 1 PROVE a[k + 1] = AfterOf(f, a[k])
    <3>1. k \in 1 .. n /\ k + 1 \in 1 .. n /\ k \in Nat /\ a[k] = line[k] /\ a[k + 1] = line[k + 1]
      BY <1>1
    <3>2. a[k] = Spot(f, c, k) /\ a[k + 1] = Spot(f, c, k + 1)
      BY <2>1, <3>1
    <3>3. a[k] \in BytesOf(f) /\ a[k + 1] \in BytesOf(f)
      BY <3>1, ElementOfSeq
    <3>4. CASE k < v
      <4>1. a[k] = <<c, k>> /\ a[k + 1] = <<c, k + 1>>
        BY <2>1, <3>1, <3>2, <3>4 DEF Spot
      <4>2. a[k][1] = c /\ a[k][2] = k /\ k # v
        BY <3>4, <4>1
      <4>3. QED BY <3>3, <4>1, <4>2, AfterIs
    <3>5. CASE k = v
      <4>1. ~(v + 1 <= v) /\ (v + 1) - v = 1 /\ v <= v
        BY <2>1
      <4>2. a[k] = <<c, v>> /\ a[k + 1] = <<c + 1, 1>>
        BY <3>2, <3>5, <4>1 DEF Spot
      <4>3. a[k][1] = c /\ a[k][2] = v
        BY <4>2
      <4>4. QED BY <3>3, <4>2, <4>3, AfterIs
    <3>6. CASE k > v
      <4> DEFINE Sum(x, y) == x > y => ~(x <= y) /\ ~(x + 1 <= y) /\ (x + 1) - y = (x - y) + 1
      <4>0. \A x, y \in Nat : Sum(x, y)
        OBVIOUS
      <4>1. ~(k <= v) /\ ~(k + 1 <= v) /\ (k + 1) - v = (k - v) + 1
        <5>1. k \in Nat /\ v \in Nat
          BY <2>1, <3>1
        <5>2. Sum(k, v)
          BY <4>0, <5>1
        <5>3. QED BY <5>2, <3>6
      <4>2. a[k] = <<c + 1, k - v>> /\ a[k + 1] = <<c + 1, (k - v) + 1>>
        BY <3>2, <4>1 DEF Spot
      <4>3. a[k][1] = c + 1 /\ a[k][2] = k - v /\ a[k + 1][1] = c + 1 /\ a[k + 1][2] = (k - v) + 1
        BY <4>2
      <4>4. a[k + 1][2] \in 1 .. f[a[k + 1][1]].len /\ f[a[k + 1][1]].len \in Nat
        BY <3>3, ByteIs, FileIs
      <4>5. k - v # f[c + 1].len
        BY <2>1, <3>1, <4>3, <4>4
      <4>6. QED BY <3>3, <4>2, <4>3, <4>5, AfterIs
    <3>7. QED BY <2>1, <3>1, <3>4, <3>5, <3>6
  <2>6. QED BY <2>1, <2>2, <2>3, <2>4, <2>5
<1>3. ASSUME NEW k \in 1 .. Len(a) - 1 PROVE a[k + 1] = AfterOf(f, a[k])
  <2>1. CASE k < n
    <3>1. line # <<>> /\ k \in 1 .. n - 1
      BY <1>1, <2>1
    <3>2. QED BY <1>2, <3>1
  <2>2. CASE k = n
    <3>1. line # <<>> /\ 1 \in 1 .. Len(w) /\ w # <<>>
      BY <1>1, <2>2
    <3>2. a[n + 1] = w[1] /\ Front(w, next) = w[1]
      BY <1>1, <3>1 DEF Front
    <3>3. QED BY <1>2, <2>2, <3>1, <3>2
  <2>3. CASE k > n
    <3> DEFINE j == k - n
    <3>1. j \in 1 .. Len(w) - 1 /\ j \in 1 .. Len(w) /\ j + 1 \in 1 .. Len(w)
          /\ k = n + j /\ k + 1 = n + (j + 1)
      BY <1>1, <2>3
    <3>2. a[k] = w[j] /\ a[k + 1] = w[j + 1]
      <4> HIDE DEF n, j
      <4>1. a[n + j] = w[j] /\ a[n + (j + 1)] = w[j + 1]
        BY <1>1, <3>1
      <4>2. QED BY <3>1, <4>1, Zenon
    <3>3. w[j + 1] = AfterOf(f, w[j])
      BY <3>1 DEF OrderOf
    <3>4. QED BY <3>2, <3>3
  <2>4. QED BY <1>1, <2>1, <2>2, <2>3
<1>4. AfterOf(f, a[Len(a)]) = next
  <2>1. CASE w = <<>>
    <3>1. Len(a) = n /\ line # <<>>
      BY <1>1, <2>1
    <3>2. QED BY <1>2, <2>1, <3>1 DEF Front
  <2>2. CASE w # <<>>
    <3>1. Len(w) \in 1 .. Len(w)
      BY <2>2, TailIs
    <3>2. a[Len(a)] = w[Len(w)]
      BY <1>1, <3>1
    <3>3. QED BY <2>2, <3>2 DEF OrderOf
  <2>3. QED BY <2>1, <2>2
<1>5. QED BY <1>2, <1>3, <1>4

\* What has arrived is the line, and then what waits.
LEMMA ArrivedIs ==
  ASSUME TypeInv
  PROVE  Arrived \in Seq(BytesOf(File)) /\ Joined(Arrived, fw.line, Waiting)
<1>1. /\ fw.line \in Seq(BytesOf(File)) /\ uart.rx \in Seq(BytesOf(File))
      /\ Waiting \in Seq(BytesOf(File)) /\ InRing = RingBytes(ring)
  BY Fields
<1>2. RingBytes(ring) \in Seq(BytesOf(File))
  BY RingIs DEF TypeInv
<1>3. (fw.line \o RingBytes(ring)) \o uart.rx = fw.line \o (RingBytes(ring) \o uart.rx)
  <2> DEFINE S == BytesOf(File)
             s == fw.line
             t == RingBytes(ring)
             u == uart.rx
  <2>1. s \in Seq(S) /\ t \in Seq(S) /\ u \in Seq(S)
    BY <1>1, <1>2
  <2> HIDE DEF S, s, t, u
  <2>2. (s \o t) \o u = s \o (t \o u)
    BY <2>1, ConcatAssociative
  <2>3. QED BY <2>2 DEF s, t, u
<1>4. Arrived = fw.line \o Waiting
  BY <1>1, <1>3 DEF Arrived, Waiting, Held
<1>5. QED BY <1>1, <1>4, ConcatIs

\* Until the loader stops, every byte that the host has sent and that is not
\* in a line already digested is in the line, the ring or the FIFO, once and in
\* its place (CanWrite and GetAsync of lib/uart/uart.cc:54-82), whatever the
\* file, and however many bytes come after XOFF.
THEOREM NoByteLost == Spec => []NothingLost
<1>1. ASSUME Inv PROVE NothingLost
  <2> SUFFICES ASSUME Loading, Arrived # <<>>
               PROVE  /\ Arrived[1][2] = 1 \/ fw.line = <<>>
                      /\ \A k \in 1 .. Len(Arrived) - 1 : Arrived[k + 1] = After(Arrived[k])
                      /\ After(Arrived[Len(Arrived)]) = host.next
    BY DEF NothingLost
  <2>1. TypeInv /\ fw.pc # "hung" /\ CoreInv
    BY <1>1 DEF Inv, Loading
  <2>2. /\ File \in Files /\ Waiting \in Seq(BytesOf(File)) /\ host.next \in Places(File)
        /\ fw.line \in Seq(BytesOf(File))
    BY <2>1, Fields
  <2>3. OrderOf(File, Waiting, host.next, fw.line)
    BY <2>1 DEF CoreInv, Core
  <2>4. Arrived \in Seq(BytesOf(File)) /\ Joined(Arrived, fw.line, Waiting)
    BY <2>1, ArrivedIs
  <2>5. Len(Arrived) >= 1
    BY <2>4, TailIs
  <2>6. /\ fw.line # <<>> => Arrived[1][2] = 1
        /\ \A k \in 1 .. Len(Arrived) - 1 : Arrived[k + 1] = AfterOf(File, Arrived[k])
        /\ AfterOf(File, Arrived[Len(Arrived)]) = host.next
    BY <2>2, <2>3, <2>4, <2>5, OrderJoined
  <2>7. QED BY <2>6, AfterHere
<1>2. QED BY <1>1, Invariant, PTL

\* No loader starts a program unless the end of the file has been read, and
\* every record as it was sent, or skipped because noise has hit it; on the noelv
\* board the text has left the UART and the line has been given away by then.
\* None gives up unless noise has hit a byte or a line is too long (main of
\* bin/noelv_serv_upload and of the others).
THEOREM StartsOnlyWhole == Spec => []StartsWholeFile
<1>1. ASSUME Inv PROVE StartsWholeFile
  <2> USE <1>1 DEF Inv
  <2>1. ASSUME perctl.run = 1
        PROVE  /\ Fits /\ Sent /\ record[Len(File)] = "good"
               /\ \A n \in DOMAIN record :
                    record[n] = "good" \/ (record[n] = "skipped" /\ (HitIn(n) \/ HitBefore(n)))
               /\ Main = Noelv => perctl.mux = 1 /\ uart.tx = <<>> /\ uart.shift = None
    <3>1. fw.pc \in {"delay", "end"}
      BY <2>1 DEF HandOverInv
    <3>2. Core(File, fw.pc, Waiting, host.next, fw.line, record, host.damaged)
      BY <3>1 DEF CoreInv
    <3>3. /\ fw.line = <<>> /\ Waiting = <<>> /\ host.next = <<Len(File) + 1, 1>>
          /\ record[Len(File)] = "good" /\ \A n \in 1 .. Len(File) : record[n] # "open"
      BY <3>1, <3>2 DEF Core, Ended
    <3>4. host.next[1] = Len(File) + 1 /\ Len(File) \in Nat /\ File \in Files
      BY <3>3, Fields, FileIs
    <3>5. CurrentOf(Waiting, host.next, fw.line) = Len(File) + 1
      BY <3>3, <3>4 DEF CurrentOf, Front
    <3>6. Digested(File, Len(File) + 1, record, host.damaged)
      BY <3>2, <3>5 DEF Core
    <3>7. \A n \in 1 .. Len(File) : n < Len(File) + 1
      BY <3>4
    <3>8. ASSUME NEW n \in 1 .. Len(File)
          PROVE  /\ File[n].len < LineSize
                 /\ record[n] = "good" \/ (record[n] = "skipped" /\ (HitIn(n) \/ HitBefore(n)))
      <4>1. /\ File[n].len < LineSize /\ record[n] \in {"good", "skipped", "open"}
            /\ record[n] = "skipped" => Struck(File, n, host.damaged)
        BY <3>6, <3>7 DEF Digested
      <4>2. QED BY <3>3, <4>1, StruckIs
    <3>9. Fits
      BY <3>8 DEF Fits
    <3>10. Sent
      BY <3>4 DEF Sent
    <3>11. DOMAIN record = 1 .. Len(File)
      BY DEF TypeInv, LinesOf
    <3>12. Main = Noelv => perctl.mux = 1 /\ uart.tx = <<>> /\ uart.shift = None
      BY <3>1 DEF HandOverInv
    <3>13. QED BY <3>3, <3>8, <3>9, <3>10, <3>11, <3>12
  <2>2. perctl.dump = 1 => perctl.run = 1 /\ perctl.mux = 1
    BY DEF HandOverInv
  <2>3. QED BY <2>1, <2>2 DEF StartsWholeFile, HungInv
<1>2. QED BY <1>1, Invariant, PTL
=============================================================================
