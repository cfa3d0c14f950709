------------------------ MODULE InterruptPathProofs -------------------------
(* Proofs about the interrupt path for every reload value, width of the    *)
(* counter, depth of the FIFOs, length of the buffer and time of a byte.   *)
EXTENDS InterruptPath, TLAPS

-----------------------------------------------------------------------------
(* The inductive invariant.                                                *)

\* An access ends on this edge.
Done == cyc = 1 /\ (cpu.at \in UartAccesses \/ ack = 1)

\* The processor is set up before the interrupts are, and ack follows cyc.
ControlInv ==
  /\ cyc = 1 => cpu.think = 0
  /\ ack = 1 => cyc = 1 /\ cpu.at \notin UartAccesses
  /\ cpu.at \in Setup => pic.mask = {} /\ ~cpu.mie /\ Timer \notin ghost.missed
  /\ cpu.at \notin Setup => pic.mask = cpu.mask /\ cpu.mie
  /\ Timer \in cpu.mask /\ pic.irqs \subseteq pic.mask

\* What the handler has read, and what has come since.
ServedInv ==
  /\ cpu.at \in {"reload", "tclear"} => Timer \in cpu.irqs
  /\ cpu.at = "drain" => Uart \in cpu.irqs
  /\ cpu.at \in {"reload", "tclear", "drain", "clear"} =>
       cpu.irqs \subseteq pic.mask /\ pic.irqs \subseteq cpu.irqs \cup ghost.late

\* Room in the FIFO that a poll has seen stays, but for the handler's byte.
RoomInv ==
  /\ cpu.at = "bangput" => uart.tx < FifoDepth
  /\ cpu.at = "put" => uart.tx < FifoDepth \/ cpu.preempted
  /\ cpu.ret = "put" => cpu.preempted

\* The most clocks until the access under way, or the next one, is over.
Left == IF cyc = 0 THEN (MaxThink - cpu.think) + 3 ELSE 2 - ack

\* The timer has just been reloaded when its interrupt is cleared, and when
\* the interrupts are enabled.
ReloadInv ==
  /\ cpu.at = "tclear" => timer.count >= Left + Access
  /\ cpu.at = "mask1" => timer.count >= Left

\* An expiry that the handler cannot have served is on its way to it.
OwedInv ==
  ghost.owed =>
    /\ Timer \in pic.mask
    /\ timer.irq = 1 \/ Timer \in pic.irqs \/ Timer \in ToServe \/ Timer \in ghost.missed
    /\ cpu.at \in {"tclear", "drain", "clear"} /\ Timer \in cpu.irqs =>
         timer.irq = 1 \/ Timer \in ghost.late \/ Timer \in ghost.missed

\* Nobody will tell the driver of the bytes in the FIFO.
Untold == Uart \in ghost.missed \/ ghost.early \/ ghost.left

\* But for those, a byte in the FIFO is on its way as well.
BytesInv ==
  /\ Uart \in pic.mask /\ uart.rx > 0 =>
       /\ UartIrq \/ Uart \in pic.irqs \/ Uart \in ToServe \/ Untold
       /\ cpu.at = "clear" /\ Uart \in cpu.irqs =>
            UartIrq \/ Uart \in ghost.late \/ Untold
  /\ ghost.left => ubuf.overrun

\* The clocks that the handler may take from this access on.
Budget ==
  CASE cpu.at = "bang" -> 4 * Access + (IF uart.tx < FifoDepth THEN Left
                                        ELSE (ByteClocks - uart.line) + Access)
    [] cpu.at = "bangput" -> Left + 3 * Access
    [] cpu.at = "rmask"   -> Left + 2 * Access
    [] cpu.at = "rirqs"   -> Left + Access
    [] cpu.at = "tclear"  -> Left + Access
    [] OTHER -> Left

\* Those until the interrupt that is pending enters it, and those that follow.
Latency == HandlerClocks + (IF cyc = 0 THEN (MaxThink - cpu.think) + 1
                            ELSE (2 - ack) + MaxThink + 1)

\* With the mask of pic_test, the timer does not expire while the handler is
\* between its interrupt and its reload, nor until it has returned.
DeadlineInv ==
  cpu.mask = {Timer} =>
    /\ Timer \notin ghost.missed
    /\ cpu.at \in InLoop =>
         /\ timer.irq = 1 => timer.count = 2^Width - 1 /\ pic.irqs = {}
         /\ pic.irqs # {} => timer.count >= Latency
    /\ cpu.at \in Called => timer.irq = 0 /\ timer.count >= Budget
    /\ cpu.at \in {"bang", "bangput", "rmask", "rirqs"} => Timer \in pic.irqs
    /\ cpu.at \in {"reload", "tclear", "clear"} => Timer \notin ghost.late

IInv == /\ TypeOK /\ ControlInv /\ ServedInv /\ RoomInv /\ ReloadInv /\ OwedInv
        /\ BytesInv /\ DeadlineInv

-----------------------------------------------------------------------------
(* What the parts of a step do, field by field.                            *)

CpuType ==
  [at : Setup \cup InLoop \cup Called, ret : InLoop \cup {"none"}, irqs : SUBSET Interrupts,
   mask : SUBSET Interrupts, mie : BOOLEAN, think : 0 .. MaxThink, preempted : BOOLEAN]

\* The constants, as the proofs use them.
LEMMA Parameters ==
  /\ MaxThink \in Nat /\ Reload \in Nat /\ 2^Width \in Nat /\ 1 <= Reload /\ Reload < 2^Width
  /\ FifoDepth \in Nat /\ FifoDepth >= 1 /\ ByteClocks \in Nat /\ ByteClocks >= 1
  /\ BufferSize \in Nat /\ BufferSize >= 1
<1>1. {Width, FifoDepth, ByteClocks, BufferSize} \subseteq Nat \ {0}
  BY InterruptAssumption
<1>2. Reload \in 1 .. 2^Width - 1 /\ MaxThink \in Nat
  BY InterruptAssumption
<1>3. 2^Width \in Nat
  <2>1. Width \in Nat \ {0}
    BY <1>1
  <2>2. QED
    BY <1>2, <2>1
<1>4. QED
  BY <1>1, <1>2, <1>3

\* The access that ends is the one under way.
LEMMA EndsIs ==
  /\ \A a : Ends(a) <=> Done /\ cpu.at = a
  /\ \A S : Wrote(S) <=> Done /\ cpu.at \in S
<1>1. \A a : Ends(a) <=> Done /\ cpu.at = a
  BY DEF Ends, Done
<1>2. QED
  BY <1>1 DEF Wrote

\* The timer counts down, or is reloaded.
LEMMA TimerIs ==
  ASSUME TypeOK, TimerClock
  PROVE  /\ timer' \in [count : 0 .. 2^Width - 1, irq : {0, 1}]
         /\ timer'.count = IF Done /\ cpu.at \in {"count0", "count1", "reload"} THEN Reload
                           ELSE IF timer.count = 0 THEN 2^Width - 1 ELSE timer.count - 1
         /\ timer'.irq = IF Done /\ cpu.at \in {"tirq0", "tclear"} THEN 0
                         ELSE IF timer.count = 0 THEN 1 ELSE 0
<1>a. timer.count \in 0 .. 2^Width - 1 /\ 2^Width \in Nat /\ Reload \in 0 .. 2^Width - 1
  BY Parameters DEF TypeOK
<1>1. (timer.count - 1) % 2^Width = IF timer.count = 0 THEN 2^Width - 1 ELSE timer.count - 1
  <2>1. \A M \in Nat \ {0} : \A n \in 0 .. M - 1 :
          (n - 1) % M = IF n = 0 THEN M - 1 ELSE n - 1
    OBVIOUS
  <2>2. 2^Width \in Nat \ {0}
    BY <1>a
  <2>3. QED
    BY <1>a, <2>1, <2>2
<1> DEFINE count == IF Done /\ cpu.at \in {"count0", "count1", "reload"} THEN Reload
                    ELSE IF timer.count = 0 THEN 2^Width - 1 ELSE timer.count - 1
           irq == IF Done /\ cpu.at \in {"tirq0", "tclear"} THEN 0
                  ELSE IF timer.count = 0 THEN 1 ELSE 0
<1>2. timer' = [count |-> count, irq |-> irq]
  BY <1>1, EndsIs DEF TimerClock
<1>3. count \in 0 .. 2^Width - 1 /\ irq \in {0, 1}
  BY <1>a
<1> HIDE DEF count, irq
<1>4. timer' \in [count : 0 .. 2^Width - 1, irq : {0, 1}] /\ timer'.count = count /\ timer'.irq = irq
  BY <1>2, <1>3
<1>5. QED
  BY <1>4 DEF count, irq

\* The PIC latches what its mask lets through.
LEMMA PicIs ==
  ASSUME TypeOK, PicClock
  PROVE  /\ pic' \in [mask : SUBSET Interrupts, irqs : SUBSET Interrupts]
         /\ pic'.mask = IF Done /\ cpu.at = "mask0" THEN {}
                        ELSE IF Done /\ cpu.at = "mask1" THEN cpu.mask ELSE pic.mask
         /\ pic'.irqs = IF Done /\ cpu.at \in {"irqs0", "clear"} THEN {} ELSE Latched
<1>a. pic.mask \subseteq Interrupts /\ pic.irqs \subseteq Interrupts /\ cpu.mask \subseteq Interrupts
  BY DEF TypeOK
<1> DEFINE mask == IF Done /\ cpu.at = "mask0" THEN {}
                   ELSE IF Done /\ cpu.at = "mask1" THEN cpu.mask ELSE pic.mask
           irqs == IF Done /\ cpu.at \in {"irqs0", "clear"} THEN {} ELSE Latched
<1>1. Wrote({"mask0"}) <=> (Done /\ cpu.at = "mask0")
  BY EndsIs
<1>2. Wrote({"mask1"}) <=> (Done /\ cpu.at = "mask1")
  BY EndsIs
<1>3. Wrote({"irqs0", "clear"}) <=> (Done /\ cpu.at \in {"irqs0", "clear"})
  BY EndsIs
<1>4. pic' = [mask |-> mask, irqs |-> irqs]
  BY <1>1, <1>2, <1>3 DEF PicClock
<1>5. mask \in SUBSET Interrupts
  BY <1>a
<1>6. irqs \in SUBSET Interrupts
  BY <1>a DEF Latched
<1> HIDE DEF mask, irqs
<1>7. /\ pic' \in [mask : SUBSET Interrupts, irqs : SUBSET Interrupts]
      /\ pic'.mask = mask /\ pic'.irqs = irqs
  BY <1>4, <1>5, <1>6
<1>8. QED
  BY <1>7 DEF mask, irqs

\* The UART receives, sends and is accessed.
LEMMA UartIs ==
  ASSUME TypeOK, UartClock
  PROVE  /\ uart' \in [rx : 0 .. FifoDepth, tx : 0 .. FifoDepth, line : 0 .. ByteClocks - 1,
                       rxWasEmpty : BOOLEAN, txWasEmpty : BOOLEAN]
         /\ uart'.rxWasEmpty <=> uart.rx = 0
         /\ ~(Done /\ cpu.at \in {"poll", "bang", "drain"}) => uart'.rx >= uart.rx
         /\ ~(Done /\ cpu.at \in {"put", "bangput"}) => uart'.tx <= uart.tx
         /\ uart.line = ByteClocks - 1 /\ uart.tx > 0
              /\ ~(Done /\ cpu.at \in {"put", "bangput"}) => uart'.tx = uart.tx - 1
         /\ uart.line # ByteClocks - 1 => uart'.line = uart.line + 1
<1>a. /\ uart.rx \in 0 .. FifoDepth /\ uart.tx \in 0 .. FifoDepth
      /\ uart.line \in 0 .. ByteClocks - 1 /\ FifoDepth \in Nat /\ ByteClocks \in Nat
      /\ FifoDepth >= 1 /\ ByteClocks >= 1
  BY Parameters DEF TypeOK
<1> DEFINE due == uart.line = ByteClocks - 1
<1>1. PICK come \in 0 .. 1 :
        uart' = [rx |-> (uart.rx + (IF uart.rx < FifoDepth THEN come ELSE 0)) - Reads,
                 tx |-> (uart.tx - (IF due /\ uart.tx > 0 THEN 1 ELSE 0)) + Writes,
                 rxWasEmpty |-> uart.rx = 0, txWasEmpty |-> uart.tx = 0,
                 line |-> IF due THEN 0 ELSE uart.line + 1]
  BY DEF UartClock
<1>2. Reads = IF Done /\ cpu.at \in {"poll", "bang", "drain"} /\ uart.rx > 0 THEN 1 ELSE 0
  <2>1. (\E at \in {"poll", "bang", "drain"} : Ends(at)) <=>
          (Done /\ cpu.at \in {"poll", "bang", "drain"})
    BY EndsIs
  <2>2. QED BY <2>1 DEF Reads
<1>3. Writes = IF Done /\ cpu.at \in {"put", "bangput"} /\ uart.tx < FifoDepth THEN 1 ELSE 0
  <2>1. (\E at \in {"put", "bangput"} : Ends(at)) <=> (Done /\ cpu.at \in {"put", "bangput"})
    BY EndsIs
  <2>2. QED BY <2>1 DEF Writes
<1> DEFINE rx == (uart.rx + (IF uart.rx < FifoDepth THEN come ELSE 0)) - Reads
           tx == (uart.tx - (IF due /\ uart.tx > 0 THEN 1 ELSE 0)) + Writes
           line == IF due THEN 0 ELSE uart.line + 1
<1>4. rx \in 0 .. FifoDepth /\ (~(Done /\ cpu.at \in {"poll", "bang", "drain"}) => rx >= uart.rx)
  BY <1>a, <1>2
<1>5. /\ tx \in 0 .. FifoDepth
      /\ ~(Done /\ cpu.at \in {"put", "bangput"}) => tx <= uart.tx
      /\ due /\ uart.tx > 0 /\ ~(Done /\ cpu.at \in {"put", "bangput"}) => tx = uart.tx - 1
  BY <1>a, <1>3
<1>6. line \in 0 .. ByteClocks - 1
  BY <1>a
<1>7. uart' = [rx |-> rx, tx |-> tx, rxWasEmpty |-> uart.rx = 0, txWasEmpty |-> uart.tx = 0,
               line |-> line]
  BY <1>1
<1>8. ~due => line = uart.line + 1
  OBVIOUS
<1> HIDE DEF rx, tx, line
<1>9. uart'.rx = rx /\ uart'.tx = tx /\ uart'.line = line /\ (uart'.rxWasEmpty <=> uart.rx = 0)
  BY <1>7
<1>10. uart' \in [rx : 0 .. FifoDepth, tx : 0 .. FifoDepth, line : 0 .. ByteClocks - 1,
                  rxWasEmpty : BOOLEAN, txWasEmpty : BOOLEAN]
  BY <1>4, <1>5, <1>6, <1>7
<1>11. QED
  BY <1>4, <1>5, <1>8, <1>9, <1>10

\* The type of the history.
GhostType == [owed : BOOLEAN, late : SUBSET Interrupts, missed : SUBSET Interrupts,
              early : BOOLEAN, left : BOOLEAN]

\* What is remembered of expiries and pulses.
LEMMA GhostIs ==
  ASSUME TypeOK, Remember
  PROVE  /\ ghost' \in GhostType
         /\ ghost'.owed => /\ ~(Done /\ cpu.at = "reload")
                           /\ ghost.owed \/ (timer.count = 0 /\ Timer \in pic.mask)
         /\ ghost'.late = IF Done /\ cpu.at = "rirqs" THEN Pulses ELSE ghost.late \cup Pulses
         /\ \A i \in ghost.missed :
              ~(Done /\ cpu.at = "rirqs" /\ i \in pic.irqs) /\ (i = Uart => uart'.rx # 0)
                => i \in ghost'.missed
         /\ \A i \in ghost'.late :
              Done /\ cpu.at = "clear" /\ (i = Uart => uart'.rx # 0) => i \in ghost'.missed
         /\ Done /\ cpu.at = "mask1" /\ uart.rx > 0 /\ uart'.rx # 0 => ghost'.early
         /\ Done /\ cpu.at = "drain" /\ cpu'.at = "clear" /\ uart.rx > 0 /\ uart'.rx # 0
              => ghost'.left
         /\ ~(Done /\ cpu.at = "rirqs" /\ Uart \in pic.irqs) /\ uart'.rx # 0 =>
              (ghost.early => ghost'.early) /\ (ghost.left => ghost'.left)
         /\ ghost'.left => ghost.left \/ (/\ Done /\ cpu.at = "drain" /\ cpu'.at = "clear"
                                         /\ uart.rx > 0)
         /\ \A i \in ghost'.missed : i # Uart =>
              i \in ghost.missed \/ (Done /\ cpu.at = "clear" /\ i \in ghost'.late)
<1>a. /\ ghost.late \subseteq Interrupts /\ ghost.missed \subseteq Interrupts
      /\ pic.irqs \subseteq Interrupts /\ Pulses \subseteq Interrupts /\ {Uart} \subseteq Interrupts
  BY DEF TypeOK, Pulses, Interrupts
<1> DEFINE owed == ~Wrote({"reload"}) /\ (ghost.owed \/ (timer.count = 0 /\ Timer \in pic.mask))
           missed == ((IF Ends("rirqs") THEN ghost.missed \ pic.irqs ELSE ghost.missed)
                        \cup (IF Ends("clear") THEN Late ELSE {}))
                       \ (IF uart'.rx = 0 THEN {Uart} ELSE {})
           early == StillThere /\ (ghost.early \/ (Ends("mask1") /\ uart.rx > 0))
           left == StillThere /\ (ghost.left \/ (Ends("drain") /\ cpu'.at = "clear" /\ uart.rx > 0))
<1>1. ghost' = [owed |-> owed, late |-> Late, missed |-> missed, early |-> early, left |-> left]
  BY DEF Remember
<1>2. Late = IF Done /\ cpu.at = "rirqs" THEN Pulses ELSE ghost.late \cup Pulses
  BY EndsIs DEF Late
<1>3. Late \subseteq Interrupts
  BY <1>a, <1>2
<1>4. StillThere <=> uart'.rx # 0 /\ ~(Done /\ cpu.at = "rirqs" /\ Uart \in pic.irqs)
  BY EndsIs DEF StillThere
<1>5. /\ Done /\ cpu.at = "mask1" /\ uart.rx > 0 /\ uart'.rx # 0 => early
      /\ Done /\ cpu.at = "drain" /\ cpu'.at = "clear" /\ uart.rx > 0 /\ uart'.rx # 0 => left
      /\ ~(Done /\ cpu.at = "rirqs" /\ Uart \in pic.irqs) /\ uart'.rx # 0 =>
           (ghost.early => early) /\ (ghost.left => left)
      /\ left => ghost.left \/ (Done /\ cpu.at = "drain" /\ cpu'.at = "clear" /\ uart.rx > 0)
      /\ early \in BOOLEAN /\ left \in BOOLEAN
  BY <1>4, EndsIs
<1>6. missed \subseteq Interrupts
  BY <1>a, <1>3
<1>7. owed \in BOOLEAN
  OBVIOUS
<1>8. owed => /\ ~(Done /\ cpu.at = "reload")
              /\ ghost.owed \/ (timer.count = 0 /\ Timer \in pic.mask)
  BY EndsIs
<1>9. \A i \in ghost.missed :
        ~(Done /\ cpu.at = "rirqs" /\ i \in pic.irqs) /\ (i = Uart => uart'.rx # 0) => i \in missed
  BY EndsIs
<1>10. \A i \in Late : Done /\ cpu.at = "clear" /\ (i = Uart => uart'.rx # 0) => i \in missed
  BY EndsIs
<1>12. \A i \in missed : i # Uart =>
         i \in ghost.missed \/ (Done /\ cpu.at = "clear" /\ i \in Late)
  BY EndsIs
<1> HIDE DEF owed, missed, early, left
<1>13. /\ ghost' \in GhostType
       /\ ghost'.late = Late /\ ghost'.missed = missed /\ (ghost'.owed <=> owed)
       /\ (ghost'.early <=> early) /\ (ghost'.left <=> left)
  BY <1>1, <1>3, <1>5, <1>6, <1>7 DEF GhostType
<1>14. QED
  BY <1>2, <1>5, <1>8, <1>9, <1>10, <1>12, <1>13

\* The processor thinks, issues an access or waits for it.
LEMMA StillIs ==
  ASSUME TypeOK, Think \/ Issue \/ Wait
  PROVE  /\ ~Done /\ ubuf' = ubuf
         /\ cpu' \in CpuType
         /\ cpu'.at = cpu.at /\ cpu'.ret = cpu.ret /\ cpu'.irqs = cpu.irqs /\ cpu'.mask = cpu.mask
         /\ cpu'.mie = cpu.mie /\ cpu'.preempted = cpu.preempted
         /\ \/ cyc = 0 /\ cyc' = 0 /\ cpu'.think = cpu.think + 1
            \/ cyc = 0 /\ cyc' = 1 /\ cpu'.think = 0 /\ ~Enabled
            \/ cyc = 1 /\ cyc' = 1 /\ cpu'.think = cpu.think
<1>a. cpu \in CpuType /\ MaxThink \in Nat
  BY Parameters DEF TypeOK, CpuType
<1>1. CASE Think
  BY <1>a, <1>1 DEF Think, Done, CpuType
<1>2. CASE Issue
  BY <1>a, <1>2 DEF Issue, Done, CpuType
<1>3. CASE Wait
  BY <1>a, <1>3 DEF Wait, Done, Ends
<1>4. QED
  BY <1>1, <1>2, <1>3

\* An interrupt is taken.
LEMMA EnterIs ==
  ASSUME TypeOK, ControlInv, Enter
  PROVE  /\ ~Done /\ ubuf' = ubuf /\ cyc = 0 /\ cyc' = 0 /\ Enabled
         /\ cpu' \in CpuType
         /\ cpu'.at = "bang" /\ cpu'.ret = cpu.at /\ cpu'.irqs = cpu.irqs /\ cpu'.mask = cpu.mask
         /\ cpu'.mie = cpu.mie /\ cpu'.think = 0 /\ (cpu.at = "put" => cpu'.preempted)
         /\ cpu.at \in InLoop
<1>a. cpu \in CpuType /\ MaxThink \in Nat
  BY Parameters DEF TypeOK, CpuType
<1>b. cpu.at \in InLoop
  <2>1. ~InHandler /\ (InHandler <=> cpu.at \in Called) /\ cpu.at \notin Setup
    BY DEF TypeOK, Enter, Enabled, ControlInv
  <2>2. QED
    BY <1>a, <2>1 DEF CpuType
<1>1. cyc = 0 /\ cyc' = 0 /\ Enabled /\ ubuf' = ubuf
  BY DEF Enter
<1>2. cpu' = [cpu EXCEPT !.ret = cpu.at, !.at = "bang", !.think = 0,
                         !.preempted = cpu.at = "put"]
  BY DEF Enter
<1>3. /\ cpu'.at = "bang" /\ cpu'.ret = cpu.at /\ cpu'.irqs = cpu.irqs /\ cpu'.mask = cpu.mask
      /\ cpu'.mie = cpu.mie /\ cpu'.think = 0 /\ (cpu'.preempted <=> cpu.at = "put")
  BY <1>a, <1>2 DEF CpuType
<1>4. cpu' \in CpuType
  <2> DEFINE put == cpu.at = "put"
  <2>1. put \in BOOLEAN /\ "bang" \in Called /\ 0 \in 0 .. MaxThink
    BY <1>a DEF Called
  <2>2. cpu' = [cpu EXCEPT !.ret = cpu.at, !.at = "bang", !.think = 0, !.preempted = put]
    BY <1>2
  <2> HIDE DEF put
  <2>3. QED
    BY <1>a, <1>b, <2>1, <2>2 DEF CpuType
<1>5. QED
  BY <1>b, <1>1, <1>3, <1>4 DEF Done

\* The locals that an access leaves alone.
Stays ==
  /\ cpu'.ret = cpu.ret /\ cpu'.irqs = cpu.irqs
  /\ cpu'.mie = cpu.mie /\ cpu'.preempted = cpu.preempted

\* What follows an access of main.
MainTable ==
  /\ cpu.at \in Setup \ {"mask1"} =>
       Stays /\ cpu'.at \in Setup /\ (cpu'.at = "mask1" => cpu.at = "count1")
  /\ cpu.at = "mask1" =>
       cpu'.at = "counter" /\ cpu'.mie = TRUE /\ cpu'.ret = cpu.ret /\ cpu'.irqs = cpu.irqs
  /\ cpu.at \in {"counter", "poll"} =>
       Stays /\ cpu'.at \in {"poll", "put"} /\ (cpu'.at = "put" => uart.tx < FifoDepth)
  /\ cpu.at = "put" =>
       cpu'.at \in {"poll", "counter"} /\ cpu'.mie = cpu.mie
         /\ cpu'.ret = cpu.ret /\ cpu'.irqs = cpu.irqs

\* What follows an access of the handler.
HandlerTable ==
  /\ cpu.at = "bang" =>
       Stays /\ \/ cpu'.at = "bangput" /\ uart.tx < FifoDepth
                \/ cpu'.at = "bang" /\ ~(uart.tx < FifoDepth)
  /\ cpu.at = "bangput" => Stays /\ cpu'.at = "rmask"
  /\ cpu.at = "rmask" => Stays /\ cpu'.at = "rirqs"
  /\ cpu.at = "rirqs" =>
       /\ cpu'.irqs = pic.irqs /\ cpu'.mie = cpu.mie
       /\ cpu'.ret = cpu.ret /\ cpu'.preempted = cpu.preempted
       /\ cpu'.at = IF Timer \in pic.irqs THEN "reload"
                    ELSE IF Uart \in pic.irqs THEN "drain" ELSE "clear"
  /\ cpu.at = "reload" => Stays /\ cpu'.at = "tclear"
  /\ cpu.at = "tclear" => Stays /\ cpu'.at = IF Uart \in cpu.irqs THEN "drain" ELSE "clear"
  /\ cpu.at = "drain" =>
       Stays /\ (cpu'.at = "drain" \/ cpu'.at = "clear")
  /\ cpu.at = "clear" =>
       /\ cpu'.at = cpu.ret /\ cpu'.ret = "none" /\ cpu'.irqs = {} /\ cpu'.mie = cpu.mie
       /\ cpu'.preempted = cpu.preempted

\* An access of main ends.
LEMMA MainIs ==
  ASSUME TypeOK, Main
  PROVE  /\ Done /\ cyc = 1 /\ cyc' = 0 /\ ubuf' = ubuf
         /\ cpu' \in CpuType
         /\ cpu'.think = cpu.think /\ cpu'.mask = cpu.mask
         /\ cpu.at \in Setup \cup InLoop /\ MainTable
<1>a. cpu \in CpuType
  BY DEF TypeOK, CpuType
<1> DEFINE S == Setup \cup InLoop \cup Called
<1>b. ASSUME NEW at \in Setup \cup InLoop, NEW next \in Setup \cup InLoop, Plain(at, next)
      PROVE  /\ Done /\ cyc = 1 /\ cyc' = 0 /\ ubuf' = ubuf /\ cpu' \in CpuType
             /\ cpu'.think = cpu.think /\ cpu'.mask = cpu.mask
             /\ cpu.at = at /\ cpu'.at = next /\ Stays
  <2>1. Done /\ cpu.at = at /\ cyc = 1 /\ cyc' = 0 /\ ubuf' = ubuf
    BY <1>b, EndsIs DEF Plain, Then, Done
  <2>2. cpu' = [cpu EXCEPT !.at = next]
    BY <1>b DEF Plain, Then
  <2>3. QED
    BY <1>a, <2>1, <2>2 DEF CpuType, Stays
<1>1. CASE PicCtor
  <2>1. \/ Plain("mask0", "irqs0") /\ cpu.at = "mask0"
        \/ Plain("irqs0", "count0") /\ cpu.at = "irqs0"
    BY <1>1, EndsIs DEF PicCtor, Plain, Then
  <2>2. QED
    BY <1>b, <2>1 DEF Setup, MainTable
<1>2. CASE TimerCtor
  <2>1. \/ Plain("count0", "tirq0") /\ cpu.at = "count0"
        \/ Plain("tirq0", "count1") /\ cpu.at = "tirq0"
    BY <1>2, EndsIs DEF TimerCtor, Plain, Then
  <2>2. QED
    BY <1>b, <2>1 DEF Setup, MainTable
<1>3. CASE SetTimer
  BY <1>b, <1>3 DEF SetTimer, Setup, MainTable
<1>4. CASE SetMask
  <2>1. Done /\ cpu.at = "mask1" /\ cyc = 1 /\ cyc' = 0 /\ ubuf' = ubuf
    BY <1>4, EndsIs DEF SetMask, Done
  <2>2. cpu' = [cpu EXCEPT !.at = "counter", !.mie = TRUE]
    BY <1>4 DEF SetMask
  <2>3. /\ cpu' \in CpuType
        /\ cpu'.at = "counter" /\ cpu'.mie = TRUE /\ cpu'.ret = cpu.ret /\ cpu'.irqs = cpu.irqs
        /\ cpu'.think = cpu.think /\ cpu'.mask = cpu.mask
    BY <1>a, <2>2 DEF CpuType, InLoop
  <2>4. QED
    BY <2>1, <2>3 DEF Setup, MainTable
<1>5. CASE ReadCounter
  BY <1>b, <1>5 DEF ReadCounter, Setup, InLoop, MainTable
<1>6. CASE Poll
  <2>1. \/ Plain("poll", "put") /\ uart.tx < FifoDepth
        \/ Plain("poll", "poll")
    BY <1>6 DEF Poll
  <2>2. QED
    BY <1>b, <2>1 DEF Setup, InLoop, MainTable
<1>7. CASE Put
  <2>1. Done /\ cpu.at = "put" /\ cyc = 1 /\ cyc' = 0 /\ ubuf' = ubuf
    BY <1>7, EndsIs DEF Put, Done
  <2>2. PICK next \in {"poll", "counter"} : cpu' = [cpu EXCEPT !.at = next, !.preempted = FALSE]
    BY <1>7 DEF Put
  <2>3. /\ cpu' \in CpuType
        /\ cpu'.at = next /\ cpu'.mie = cpu.mie /\ cpu'.ret = cpu.ret /\ cpu'.irqs = cpu.irqs
        /\ cpu'.think = cpu.think /\ cpu'.mask = cpu.mask
    BY <1>a, <2>2 DEF CpuType, InLoop
  <2>4. QED
    BY <2>1, <2>3 DEF Setup, InLoop, MainTable
<1>8. QED
  BY <1>1, <1>2, <1>3, <1>4, <1>5, <1>6, <1>7 DEF Main

\* An access of the handler ends.
LEMMA HandlerIs ==
  ASSUME TypeOK, Handler, ~Enter
  PROVE  /\ Done /\ cyc = 1 /\ cyc' = 0
         /\ cpu' \in CpuType
         /\ ubuf' \in [begin : 0 .. BufferSize - 1, overrun : BOOLEAN]
         /\ cpu'.think = cpu.think /\ cpu'.mask = cpu.mask
         /\ cpu.at \in Called /\ cpu.ret \in InLoop /\ HandlerTable
<1>a. /\ cpu \in CpuType /\ ubuf \in [begin : 0 .. BufferSize - 1, overrun : BOOLEAN]
      /\ BufferSize \in Nat /\ BufferSize >= 1
  BY Parameters DEF TypeOK, CpuType
<1>r. cpu.at \in Called => cpu.ret \in InLoop
  <2>1. cpu.at \in Called => cpu.ret # "none"
    BY DEF TypeOK, InHandler
  <2>2. QED BY <1>a, <2>1 DEF CpuType
<1>b. ASSUME NEW at \in Called, NEW next \in Called, Plain(at, next)
      PROVE  /\ Done /\ cyc = 1 /\ cyc' = 0 /\ cpu' \in CpuType
             /\ ubuf' \in [begin : 0 .. BufferSize - 1, overrun : BOOLEAN]
             /\ cpu'.think = cpu.think /\ cpu'.mask = cpu.mask
             /\ cpu.at = at /\ cpu'.at = next /\ cpu.ret \in InLoop /\ Stays
  <2>1. Done /\ cpu.at = at /\ cyc = 1 /\ cyc' = 0 /\ ubuf' = ubuf
    BY <1>b, EndsIs DEF Plain, Then, Done
  <2>2. cpu' = [cpu EXCEPT !.at = next]
    BY <1>b DEF Plain, Then
  <2>3. QED
    BY <1>a, <1>r, <2>1, <2>2 DEF CpuType, Stays
<1>1. CASE Bang
  <2>1. \/ Plain("bang", "bangput") /\ uart.tx < FifoDepth
        \/ Plain("bang", "bang") /\ ~(uart.tx < FifoDepth)
    BY <1>1 DEF Bang
  <2>2. QED
    BY <1>b, <2>1 DEF Called, HandlerTable
<1>2. CASE BangPut
  BY <1>b, <1>2 DEF BangPut, Called, HandlerTable
<1>3. CASE ReadMask
  BY <1>b, <1>3 DEF ReadMask, Called, HandlerTable
<1>4. CASE ReadIrqs
  <2>1. Done /\ cpu.at = "rirqs" /\ cyc = 1 /\ cyc' = 0 /\ ubuf' = ubuf
    BY <1>4, EndsIs DEF ReadIrqs, Done
  <2> DEFINE next == IF Timer \in pic.irqs THEN "reload"
                     ELSE IF Uart \in pic.irqs THEN "drain" ELSE "clear"
  <2>2. cpu' = [cpu EXCEPT !.irqs = pic.irqs, !.at = next]
    BY <1>4 DEF ReadIrqs
  <2>3. next \in Called /\ pic.irqs \in SUBSET Interrupts
    BY DEF Called, TypeOK
  <2> HIDE DEF next
  <2>4. /\ cpu' \in CpuType
        /\ cpu'.at = next /\ cpu'.mie = cpu.mie /\ cpu'.ret = cpu.ret /\ cpu'.irqs = pic.irqs
        /\ cpu'.think = cpu.think /\ cpu'.mask = cpu.mask /\ cpu'.preempted = cpu.preempted
    BY <1>a, <2>2, <2>3 DEF CpuType
  <2>5. QED
    BY <1>a, <1>r, <2>1, <2>4 DEF Called, HandlerTable, next
<1>5. CASE WriteCounter
  BY <1>b, <1>5 DEF WriteCounter, Called, HandlerTable
<1>6. CASE ClearTimer
  <2>1. \/ Plain("tclear", "drain") /\ Uart \in cpu.irqs
        \/ Plain("tclear", "clear") /\ Uart \notin cpu.irqs
    BY <1>6 DEF ClearTimer
  <2>2. QED
    BY <1>b, <2>1 DEF Called, HandlerTable
<1>7. CASE Drain
  <2>1. Done /\ cpu.at = "drain" /\ cyc = 1 /\ cyc' = 0
    BY <1>7, EndsIs DEF Drain, Done
  <2> DEFINE begin == (ubuf.begin + 1) % BufferSize
  <2>2. begin \in 0 .. BufferSize - 1
    <3>1. \A M \in Nat \ {0}, n \in Int : n % M \in 0 .. M - 1
      OBVIOUS
    <3>2. ubuf.begin + 1 \in Int /\ BufferSize \in Nat \ {0}
      BY <1>a
    <3>3. QED BY <3>1, <3>2
  <2>3. \/ cpu' = [cpu EXCEPT !.at = "clear"] /\ ubuf' = ubuf /\ uart.rx = 0
        \/ cpu' = [cpu EXCEPT !.at = "clear"] /\ ubuf' = [begin |-> 0, overrun |-> TRUE]
        \/ cpu' = cpu /\ ubuf' = [ubuf EXCEPT !.begin = begin]
    BY <1>7 DEF Drain
  <2> HIDE DEF begin
  <2>4. /\ cpu' \in CpuType /\ (cpu'.at = "drain" \/ cpu'.at = "clear") /\ Stays
        /\ cpu'.think = cpu.think /\ cpu'.mask = cpu.mask
    <3>1. CASE cpu' = [cpu EXCEPT !.at = "clear"]
      BY <1>a, <3>1 DEF CpuType, Called, Stays
    <3>2. CASE cpu' = cpu
      BY <1>a, <2>1, <3>2 DEF Stays
    <3>3. QED BY <2>3, <3>1, <3>2
  <2>5. ubuf' \in [begin : 0 .. BufferSize - 1, overrun : BOOLEAN]
    <3>1. 0 \in 0 .. BufferSize - 1
      BY <1>a
    <3>2. CASE ubuf' = [begin |-> 0, overrun |-> TRUE]
      BY <3>1, <3>2
    <3>3. CASE ubuf' = [ubuf EXCEPT !.begin = begin]
      BY <1>a, <2>2, <3>3
    <3>4. QED BY <1>a, <2>3, <3>2, <3>3
  <2>6. QED
    BY <1>r, <2>1, <2>4, <2>5 DEF Called, HandlerTable
<1>8. CASE ClearIrq
  <2>1. Done /\ cpu.at = "clear" /\ cyc = 1 /\ cyc' = 0 /\ ubuf' = ubuf
    BY <1>8, EndsIs DEF ClearIrq, Done
  <2>2. cpu' = [cpu EXCEPT !.at = cpu.ret, !.ret = "none", !.irqs = {}]
    BY <1>8 DEF ClearIrq
  <2>3. cpu.ret \in InLoop
    BY <1>r, <2>1 DEF Called
  <2>4. /\ cpu' \in CpuType
        /\ cpu'.at = cpu.ret /\ cpu'.mie = cpu.mie /\ cpu'.ret = "none" /\ cpu'.irqs = {}
        /\ cpu'.think = cpu.think /\ cpu'.mask = cpu.mask /\ cpu'.preempted = cpu.preempted
    BY <1>a, <2>2, <2>3 DEF CpuType
  <2>5. QED
    BY <1>a, <2>1, <2>3, <2>4 DEF Called, HandlerTable
<1>9. QED
  BY <1>1, <1>2, <1>3, <1>4, <1>5, <1>6, <1>7, <1>8 DEF Handler

-----------------------------------------------------------------------------
(* The invariant is inductive.                                             *)

\* A step of the processor is of one of four kinds.
LEMMA Kinds ==
  ASSUME Next
  PROVE  \/ Think \/ Issue \/ Wait
         \/ Enter
         \/ Main
         \/ Handler /\ ~Enter
  BY DEF Next, Processor

\* No location is of two kinds.
LEMMA Places ==
  /\ \A a \in Setup : a \notin InLoop /\ a \notin Called /\ a \notin UartAccesses /\ a # "none"
  /\ \A a \in InLoop : a \notin Setup /\ a \notin Called /\ a # "none"
  /\ \A a \in Called : a \notin Setup /\ a \notin InLoop /\ a # "none"
  BY DEF Setup, InLoop, Called, UartAccesses

\* ack is high for the second clock of a register access only.
LEMMA AckIs ==
  ASSUME TypeOK, Decoder
  PROVE  /\ ack' \in {0, 1}
         /\ ack' = 1 <=> cyc = 1 /\ ack = 0 /\ cpu.at \notin UartAccesses
  BY DEF TypeOK, Decoder

\* Ranges, and the handler's frame.
LEMMA TypeKept ==
  ASSUME TypeOK, ControlInv, Next
  PROVE  TypeOK'
<1>1. /\ timer' \in [count : 0 .. 2^Width - 1, irq : {0, 1}]
      /\ pic' \in [mask : SUBSET Interrupts, irqs : SUBSET Interrupts]
      /\ uart' \in [rx : 0 .. FifoDepth, tx : 0 .. FifoDepth, line : 0 .. ByteClocks - 1,
                    rxWasEmpty : BOOLEAN, txWasEmpty : BOOLEAN]
      /\ ghost' \in GhostType
      /\ ack' \in {0, 1}
  BY TimerIs, PicIs, UartIs, GhostIs, AckIs DEF Next
<1>2. ubuf \in [begin : 0 .. BufferSize - 1, overrun : BOOLEAN] /\ cyc \in {0, 1}
  BY DEF TypeOK
<1>3. cpu.ret # "none" <=> cpu.at \in Called
  BY DEF TypeOK, InHandler
<1>4. /\ ubuf' \in [begin : 0 .. BufferSize - 1, overrun : BOOLEAN] /\ cyc' \in {0, 1}
      /\ cpu' \in CpuType /\ (cpu'.ret # "none" <=> cpu'.at \in Called)
  <2>1. CASE Think \/ Issue \/ Wait
    BY <1>2, <1>3, <2>1, StillIs
  <2>2. CASE Enter
    BY <1>2, <2>2, EnterIs, Places DEF Called
  <2>3. CASE Main
    <3>1. /\ ubuf' = ubuf /\ cyc' = 0 /\ cpu' \in CpuType
          /\ cpu.at \in Setup \cup InLoop /\ MainTable
      BY <2>3, MainIs
    <3>2. cpu.ret = "none"
      BY <1>3, <3>1, Places
    <3>3. cpu'.ret = cpu.ret /\ cpu'.at \in Setup \cup InLoop
      BY <3>1 DEF MainTable, Stays, Setup, InLoop
    <3>4. QED
      BY <1>2, <3>1, <3>2, <3>3, Places
  <2>4. CASE Handler /\ ~Enter
    <3>1. /\ ubuf' \in [begin : 0 .. BufferSize - 1, overrun : BOOLEAN] /\ cyc' = 0
          /\ cpu' \in CpuType /\ cpu.at \in Called /\ cpu.ret \in InLoop /\ HandlerTable
      BY <2>4, HandlerIs
    <3>2. \/ cpu'.ret = cpu.ret /\ cpu'.at \in Called
          \/ cpu'.ret = "none" /\ cpu'.at = cpu.ret
      BY <3>1 DEF HandlerTable, Stays, Called
    <3>3. QED
      BY <3>1, <3>2, Places
  <2>5. QED
    BY <2>1, <2>2, <2>3, <2>4, Kinds
<1>5. QED
  BY <1>1, <1>4 DEF TypeOK, GhostType, CpuType, InHandler

\* The processor is set up before the interrupts are, and ack follows cyc.
LEMMA ControlKept ==
  ASSUME TypeOK, ControlInv, Next
  PROVE  ControlInv'
<1>a. /\ cyc \in {0, 1} /\ ack \in {0, 1} /\ cpu \in CpuType
      /\ pic.irqs \subseteq pic.mask /\ Timer \in cpu.mask
      /\ cpu.at \in Setup => pic.mask = {}
      /\ cpu.at \notin Setup => pic.mask = cpu.mask
      /\ cyc = 1 => cpu.think = 0
      /\ ack = 1 => cyc = 1 /\ cpu.at \notin UartAccesses
  BY DEF TypeOK, CpuType, ControlInv
<1>m. cpu.at \in Setup => ~cpu.mie /\ Timer \notin ghost.missed
  BY DEF ControlInv
<1>n. cpu.at \notin Setup => cpu.mie
  BY DEF ControlInv
<1>1. /\ pic'.mask = IF Done /\ cpu.at = "mask0" THEN {}
                     ELSE IF Done /\ cpu.at = "mask1" THEN cpu.mask ELSE pic.mask
      /\ pic'.irqs = IF Done /\ cpu.at \in {"irqs0", "clear"} THEN {} ELSE Latched
      /\ ack' = 1 <=> cyc = 1 /\ ack = 0 /\ cpu.at \notin UartAccesses
  BY PicIs, AckIs DEF Next
<1>2. \A i \in ghost'.missed : i # Uart =>
        i \in ghost.missed \/ (Done /\ cpu.at = "clear" /\ i \in ghost'.late)
  BY GhostIs DEF Next
<1>3. Timer # Uart
  BY DEF Timer, Uart
<1>4. Latched \subseteq pic.mask
  BY <1>a DEF Latched
<1>5. pic'.irqs \subseteq pic'.mask
  <2>1. CASE Done /\ cpu.at \in {"mask0", "mask1"}
    BY <1>a, <1>1, <1>4, <2>1 DEF Setup
  <2>2. CASE ~(Done /\ cpu.at \in {"mask0", "mask1"})
    BY <1>1, <1>4, <2>2
  <2>3. QED BY <2>1, <2>2
<1>6. cpu'.at \in Setup => cpu.at \in Setup /\ (cpu'.mie = cpu.mie)
                             /\ ~(Done /\ cpu.at = "mask1")
  <2>1. CASE Think \/ Issue \/ Wait
    BY <2>1, StillIs
  <2>2. CASE Enter
    BY <2>2, EnterIs DEF Setup
  <2>3. CASE Main
    <3>1. cpu.at \in Setup \cup InLoop /\ MainTable
      BY <2>3, MainIs
    <3>2. QED BY <3>1 DEF MainTable, Stays, Setup, InLoop
  <2>4. CASE Handler /\ ~Enter
    <3>1. cpu.at \in Called /\ cpu.ret \in InLoop /\ HandlerTable
      BY <2>4, HandlerIs
    <3>2. cpu'.at \in Called \cup InLoop
      BY <3>1 DEF HandlerTable, Stays, Called
    <3>3. QED BY <3>2, Places
  <2>5. QED
    BY <2>1, <2>2, <2>3, <2>4, Kinds
<1>7. cpu'.at \notin Setup => \/ cpu.at \notin Setup /\ (cpu'.mie = cpu.mie)
                              \/ Done /\ cpu.at = "mask1" /\ cpu'.mie = TRUE
  <2>1. CASE Think \/ Issue \/ Wait
    BY <2>1, StillIs
  <2>2. CASE Enter
    BY <2>2, EnterIs, Places
  <2>3. CASE Main
    <3>1. Done /\ cpu.at \in Setup \cup InLoop /\ MainTable
      BY <2>3, MainIs
    <3>2. QED BY <3>1 DEF MainTable, Stays, Setup, InLoop
  <2>4. CASE Handler /\ ~Enter
    <3>1. cpu.at \in Called /\ HandlerTable
      BY <2>4, HandlerIs
    <3>2. cpu'.mie = cpu.mie
      BY <3>1 DEF HandlerTable, Stays, Called
    <3>3. QED BY <3>1, <3>2, Places
  <2>5. QED
    BY <2>1, <2>2, <2>3, <2>4, Kinds
<1>8. /\ cyc' = 1 => cpu'.think = 0
      /\ ack' = 1 => cyc' = 1 /\ cpu'.at = cpu.at
      /\ cpu'.mask = cpu.mask
  <2>1. CASE Think \/ Issue \/ Wait
    <3>1. /\ cpu'.at = cpu.at /\ cpu'.mask = cpu.mask
          /\ \/ cyc = 0 /\ cyc' = 0
             \/ cyc = 0 /\ cyc' = 1 /\ cpu'.think = 0
             \/ cyc = 1 /\ cyc' = 1 /\ cpu'.think = cpu.think
      BY <2>1, StillIs
    <3>2. QED BY <1>a, <1>1, <3>1
  <2>2. CASE Enter
    <3>1. cyc = 0 /\ cyc' = 0 /\ cpu'.mask = cpu.mask
      BY <2>2, EnterIs
    <3>2. QED BY <1>1, <3>1
  <2>3. CASE Main
    <3>1. Done /\ cyc' = 0 /\ cpu'.mask = cpu.mask
      BY <2>3, MainIs
    <3>2. QED BY <1>a, <1>1, <3>1 DEF Done
  <2>4. CASE Handler /\ ~Enter
    <3>1. Done /\ cyc' = 0 /\ cpu'.mask = cpu.mask
      BY <2>4, HandlerIs
    <3>2. QED BY <1>a, <1>1, <3>1 DEF Done
  <2>5. QED
    BY <2>1, <2>2, <2>3, <2>4, Kinds
<1>9. cpu'.at \in Setup => pic'.mask = {} /\ Timer \notin ghost'.missed
  BY <1>a, <1>m, <1>1, <1>2, <1>3, <1>6, Places DEF Called
<1>10. cpu'.at \in Setup => ~cpu'.mie
  BY <1>m, <1>6
<1>11. cpu'.at \notin Setup => pic'.mask = cpu'.mask
  <2>1. CASE Done /\ cpu.at = "mask1"
    BY <1>1, <1>8, <2>1
  <2>2. CASE ~(Done /\ cpu.at = "mask1")
    <3>1. cpu'.at \notin Setup => cpu.at \notin Setup
      BY <1>7, <2>2
    <3>2. cpu.at = "mask0" => cpu.at \in Setup
      BY DEF Setup
    <3>3. QED BY <1>a, <1>1, <1>8, <2>2, <3>1, <3>2
  <2>3. QED BY <2>1, <2>2
<1>12. cpu'.at \notin Setup => cpu'.mie
  BY <1>n, <1>7
<1>13. QED
  BY <1>a, <1>1, <1>5, <1>8, <1>9, <1>10, <1>11, <1>12 DEF ControlInv

\* Once it is set up, the PIC forgets interrupts only when the handler is done.
LEMMA PicAfterSetup ==
  ASSUME TypeOK, ControlInv, Next, cpu.at \notin Setup
  PROVE  /\ pic'.mask = pic.mask
         /\ pic'.irqs = IF Done /\ cpu.at = "clear" THEN {} ELSE Latched
         /\ pic.irqs \subseteq Latched /\ Latched \subseteq pic.irqs \cup Pulses
<1>1. cpu.at \notin {"mask0", "mask1", "irqs0"}
  BY DEF Setup
<1>2. QED
  BY <1>1, PicIs DEF Latched, Next

\* What the handler has read, and what has come since.
LEMMA ServedKept ==
  ASSUME TypeOK, ControlInv, ServedInv, Next
  PROVE  ServedInv'
<1> DEFINE Serving == {"reload", "tclear", "drain", "clear"}
<1>a. /\ cpu.at \in {"reload", "tclear"} => Timer \in cpu.irqs
      /\ cpu.at = "drain" => Uart \in cpu.irqs
      /\ cpu.at \in Serving =>
           cpu.irqs \subseteq pic.mask /\ pic.irqs \subseteq cpu.irqs \cup ghost.late
      /\ pic.irqs \subseteq pic.mask
  BY DEF ServedInv, ControlInv
<1>1. ghost'.late = IF Done /\ cpu.at = "rirqs" THEN Pulses ELSE ghost.late \cup Pulses
  BY GhostIs DEF Next
<1>2. cpu.at \in Called =>
        /\ pic'.mask = pic.mask
        /\ pic'.irqs = IF Done /\ cpu.at = "clear" THEN {} ELSE Latched
        /\ Latched \subseteq pic.irqs \cup Pulses
  BY PicAfterSetup, Places
<1>3. CASE Think \/ Issue \/ Wait
  <2>1. ~Done /\ cpu'.at = cpu.at /\ cpu'.irqs = cpu.irqs
    BY <1>3, StillIs
  <2>2. cpu.at \in Serving => cpu.at \in Called
    BY DEF Called
  <2>3. QED
    BY <1>a, <1>1, <1>2, <2>1, <2>2 DEF ServedInv
<1>4. CASE Enter
  <2>1. cpu'.at = "bang"
    BY <1>4, EnterIs
  <2>2. QED BY <2>1 DEF ServedInv
<1>5. CASE Main
  <2>1. cpu'.at \in Setup \cup InLoop
    <3>1. cpu.at \in Setup \cup InLoop /\ MainTable
      BY <1>5, MainIs
    <3>2. QED BY <3>1 DEF MainTable, Setup, InLoop
  <2>2. cpu'.at \notin Serving
    BY <2>1 DEF Setup, InLoop
  <2>3. QED BY <2>2 DEF ServedInv
<1>6. CASE Handler /\ ~Enter
  <2>1. Done /\ cpu.at \in Called /\ cpu.ret \in InLoop /\ HandlerTable
    BY <1>6, HandlerIs
  <2>2. CASE cpu.at = "rirqs"
    <3>1. /\ cpu'.irqs = pic.irqs
          /\ cpu'.at = IF Timer \in pic.irqs THEN "reload"
                       ELSE IF Uart \in pic.irqs THEN "drain" ELSE "clear"
      BY <2>1, <2>2 DEF HandlerTable
    <3>2. ghost'.late = Pulses /\ pic'.mask = pic.mask /\ pic'.irqs \subseteq pic.irqs \cup Pulses
      BY <1>1, <1>2, <2>1, <2>2
    <3>3. QED
      BY <1>a, <3>1, <3>2 DEF ServedInv
  <2>3. CASE cpu.at \in {"reload", "tclear", "drain"}
    <3>1. /\ cpu'.irqs = cpu.irqs
          /\ cpu'.at = "tclear" => cpu.at = "reload"
          /\ cpu'.at = "drain" => cpu.at = "drain" \/ Uart \in cpu.irqs
          /\ cpu'.at # "reload"
      BY <2>1, <2>3 DEF HandlerTable, Stays
    <3>2. /\ ghost'.late = ghost.late \cup Pulses /\ pic'.mask = pic.mask
          /\ pic'.irqs \subseteq pic.irqs \cup Pulses
      BY <1>1, <1>2, <2>1, <2>3
    <3>3. QED
      BY <1>a, <2>3, <3>1, <3>2 DEF ServedInv
  <2>4. CASE cpu.at \in {"bang", "bangput", "rmask", "clear"}
    <3>1. cpu'.at \notin Serving
      BY <2>1, <2>4 DEF HandlerTable, InLoop
    <3>2. QED BY <3>1 DEF ServedInv
  <2>5. QED
    BY <2>1, <2>2, <2>3, <2>4 DEF Called
<1>7. QED
  BY <1>3, <1>4, <1>5, <1>6, Kinds

\* Room in the FIFO that a poll has seen stays, but for the handler's byte.
LEMMA RoomKept ==
  ASSUME TypeOK, ControlInv, RoomInv, Next
  PROVE  RoomInv'
<1>a. uart.tx \in Nat /\ FifoDepth \in Nat /\ uart'.tx \in Nat
  <2>1. uart.tx \in 0 .. FifoDepth /\ uart'.tx \in 0 .. FifoDepth /\ FifoDepth \in Nat
    BY Parameters, TypeKept DEF TypeOK
  <2>2. QED BY <2>1
<1>b. cpu.at = "bangput" => uart.tx < FifoDepth
  BY DEF RoomInv
<1>c. cpu.at = "put" => uart.tx < FifoDepth \/ cpu.preempted
  BY DEF RoomInv
<1>d. cpu.ret = "put" => cpu.preempted
  BY DEF RoomInv
<1>1. ~(Done /\ cpu.at \in {"put", "bangput"}) /\ uart.tx < FifoDepth => uart'.tx < FifoDepth
  <2>1. ~(Done /\ cpu.at \in {"put", "bangput"}) => uart'.tx <= uart.tx
    BY UartIs DEF Next
  <2>2. QED BY <1>a, <2>1
<1>2. CASE Think \/ Issue \/ Wait
  <2>1. /\ ~Done /\ cpu'.at = cpu.at /\ cpu'.ret = cpu.ret
        /\ cpu'.preempted = cpu.preempted
    BY <1>2, StillIs
  <2>2. QED BY <1>b, <1>c, <1>d, <1>1, <2>1 DEF RoomInv
<1>3. CASE Enter
  <2>1. cpu'.at = "bang" /\ cpu'.ret = cpu.at /\ (cpu.at = "put" => cpu'.preempted)
    BY <1>3, EnterIs
  <2>2. QED BY <2>1 DEF RoomInv
<1>4. CASE Main
  <2>1. cpu.at \in Setup \cup InLoop /\ MainTable
    BY <1>4, MainIs
  <2>2. cpu'.at # "bangput"
    BY <2>1 DEF MainTable, Setup, InLoop
  <2>3. cpu.ret # "put" /\ cpu'.ret = cpu.ret
    <3>1. cpu.ret = "none"
      BY <2>1, Places DEF TypeOK, InHandler
    <3>2. QED BY <2>1, <3>1 DEF MainTable, Stays, Setup, InLoop
  <2>4. cpu'.at = "put" => cpu.at \in {"counter", "poll"} /\ uart.tx < FifoDepth
    BY <2>1 DEF MainTable, Setup, InLoop
  <2>5. cpu'.at = "put" => uart'.tx < FifoDepth
    BY <1>1, <2>4
  <2>6. QED BY <2>2, <2>3, <2>5 DEF RoomInv
<1>5. CASE Handler /\ ~Enter
  <2>1. cpu.at \in Called /\ cpu.ret \in InLoop /\ HandlerTable
    BY <1>5, HandlerIs
  <2>2. cpu'.preempted = cpu.preempted
    BY <2>1 DEF HandlerTable, Stays, Called
  <2>3. cpu'.at = "bangput" => cpu.at = "bang" /\ uart.tx < FifoDepth
    BY <2>1 DEF HandlerTable, Stays, Called, InLoop
  <2>4. cpu'.at = "put" => cpu.ret = "put"
    BY <2>1 DEF HandlerTable, Stays, Called
  <2>5. cpu'.ret = "put" => cpu.ret = "put"
    BY <2>1 DEF HandlerTable, Stays, Called
  <2>6. cpu'.at = "bangput" => uart'.tx < FifoDepth
    BY <1>1, <2>3
  <2>7. QED BY <1>d, <2>2, <2>4, <2>5, <2>6 DEF RoomInv
<1>6. QED
  BY <1>2, <1>3, <1>4, <1>5, Kinds

\* An access that does not end has fewer clocks left; the next has Access.
LEMMA LeftIs ==
  ASSUME TypeOK, ControlInv, Next
  PROVE  /\ Left \in Nat /\ Left' \in Nat /\ Left >= 1 /\ Left' >= 1 /\ Left' <= Access
         /\ Think \/ Issue \/ Wait => Left' <= Left - 1
         /\ Done => cyc = 1 /\ cyc' = 0 /\ cpu'.think = 0
<1>a. /\ cyc \in {0, 1} /\ ack \in {0, 1} /\ cpu.think \in 0 .. MaxThink /\ MaxThink \in Nat
      /\ cyc' \in {0, 1} /\ ack' \in {0, 1} /\ cpu'.think \in 0 .. MaxThink
  BY TypeKept, Parameters DEF TypeOK
<1>b. /\ cyc = 1 => cpu.think = 0
      /\ ack = 1 => cyc = 1 /\ cpu.at \notin UartAccesses
  BY DEF ControlInv
<1>1. ack' = 1 <=> cyc = 1 /\ ack = 0 /\ cpu.at \notin UartAccesses
  BY AckIs DEF Next
<1>2. Left \in Nat /\ Left' \in Nat /\ Left >= 1 /\ Left' >= 1 /\ Left' <= Access
  <2>1. ASSUME NEW c \in {0, 1}, NEW k \in {0, 1}, NEW t \in 0 .. MaxThink
        PROVE  /\ (IF c = 0 THEN (MaxThink - t) + 3 ELSE 2 - k) \in Nat
               /\ (IF c = 0 THEN (MaxThink - t) + 3 ELSE 2 - k) >= 1
               /\ (IF c = 0 THEN (MaxThink - t) + 3 ELSE 2 - k) <= MaxThink + 3
    <3>1. CASE c = 0
      BY <1>a, <3>1
    <3>2. CASE c = 1
      BY <1>a, <3>2
    <3>3. QED BY <3>1, <3>2
  <2>2. Left \in Nat /\ Left >= 1
    BY <1>a, <2>1 DEF Left
  <2>3. Left' \in Nat /\ Left' >= 1 /\ Left' <= MaxThink + 3
    BY <1>a, <2>1 DEF Left
  <2>4. QED
    BY <2>2, <2>3 DEF Access
<1>3. ASSUME Think \/ Issue \/ Wait PROVE Left' <= Left - 1
  <2>1. /\ ~Done
        /\ \/ cyc = 0 /\ cyc' = 0 /\ cpu'.think = cpu.think + 1
           \/ cyc = 0 /\ cyc' = 1
           \/ cyc = 1 /\ cyc' = 1
    BY <1>3, StillIs
  <2>2. cyc = 1 => ack = 0 /\ ack' = 1
    BY <1>a, <1>1, <2>1 DEF Done
  <2>3. QED
    BY <1>a, <1>b, <2>1, <2>2 DEF Left
<1>4. ASSUME Done PROVE cyc = 1 /\ cyc' = 0 /\ cpu'.think = 0
  <2>1. ~(Think \/ Issue \/ Wait) /\ ~Enter
    BY <1>4, StillIs, EnterIs
  <2>2. cyc = 1 /\ cyc' = 0 /\ cpu'.think = cpu.think
    BY <2>1, Kinds, MainIs, HandlerIs
  <2>3. QED BY <1>b, <2>2
<1>5. QED
  BY <1>2, <1>3, <1>4

\* The timer counts down on the way to the write that clears its interrupt.
LEMMA ReloadKept ==
  ASSUME TypeOK, ControlInv, ReloadInv, Next
  PROVE  ReloadInv'
<1>a. /\ timer.count \in Nat /\ timer'.count \in Nat /\ MaxThink \in Nat /\ Access \in Nat
      /\ Reload \in Nat /\ 2^Width \in Nat /\ 2 * Access <= Reload
  <2>1. timer.count \in 0 .. 2^Width - 1 /\ timer'.count \in 0 .. 2^Width - 1
    BY TypeKept DEF TypeOK
  <2>2. QED BY <2>1, Parameters, FastHandler DEF Access
<1>b. timer'.count = IF Done /\ cpu.at \in {"count0", "count1", "reload"} THEN Reload
                     ELSE IF timer.count = 0 THEN 2^Width - 1 ELSE timer.count - 1
  BY TimerIs DEF Next
<1>c. /\ Left \in Nat /\ Left' \in Nat /\ Left >= 1 /\ Left' <= Access
      /\ Think \/ Issue \/ Wait => Left' <= Left - 1
  BY LeftIs
<1>1. CASE Think \/ Issue \/ Wait
  <2>1. ~Done /\ cpu'.at = cpu.at
    BY <1>1, StillIs
  <2>2. /\ cpu.at = "tclear" => timer.count >= Left + Access
        /\ cpu.at = "mask1" => timer.count >= Left
    BY DEF ReloadInv
  <2>3. cpu.at \in {"tclear", "mask1"} => timer'.count = timer.count - 1
    BY <1>a, <1>b, <1>c, <2>1, <2>2
  <2>4. cpu'.at = "tclear" => timer'.count >= Left' + Access
    BY <1>1, <1>a, <1>c, <2>1, <2>2, <2>3
  <2>5. cpu'.at = "mask1" => timer'.count >= Left'
    BY <1>1, <1>a, <1>c, <2>1, <2>2, <2>3
  <2>6. QED BY <2>4, <2>5 DEF ReloadInv, Access
<1>2. CASE ~(Think \/ Issue \/ Wait)
  <2>1. cpu'.at = "tclear" => Done /\ cpu.at = "reload"
    <3>1. CASE Enter
      BY <3>1, EnterIs
    <3>2. CASE Main
      <4>1. cpu.at \in Setup \cup InLoop /\ MainTable
        BY <3>2, MainIs
      <4>2. QED BY <4>1 DEF MainTable, Setup, InLoop
    <3>3. CASE Handler /\ ~Enter
      <4>1. Done /\ cpu.at \in Called /\ cpu.ret \in InLoop /\ HandlerTable
        BY <3>3, HandlerIs
      <4>2. QED BY <4>1 DEF HandlerTable, Called, InLoop
    <3>4. QED BY <1>2, <3>1, <3>2, <3>3, Kinds
  <2>2. cpu'.at = "mask1" => Done /\ cpu.at = "count1"
    <3>1. CASE Enter
      BY <3>1, EnterIs
    <3>2. CASE Main
      <4>1. Done /\ cpu.at \in Setup \cup InLoop /\ MainTable
        BY <3>2, MainIs
      <4>2. QED BY <4>1 DEF MainTable, Setup, InLoop
    <3>3. CASE Handler /\ ~Enter
      <4>1. cpu.at \in Called /\ cpu.ret \in InLoop /\ HandlerTable
        BY <3>3, HandlerIs
      <4>2. QED BY <4>1 DEF HandlerTable, Called, InLoop
    <3>4. QED BY <1>2, <3>1, <3>2, <3>3, Kinds
  <2>3. cpu'.at \in {"tclear", "mask1"} => timer'.count = Reload
    BY <1>b, <2>1, <2>2
  <2>4. cpu'.at = "tclear" => timer'.count >= Left' + Access
    BY <1>a, <1>c, <2>3
  <2>5. cpu'.at = "mask1" => timer'.count >= Left'
    BY <1>a, <1>c, <2>3
  <2>6. QED BY <2>4, <2>5 DEF ReloadInv, Access
<1>3. QED BY <1>1, <1>2

\* An interrupt that is let through stays pending, or is remembered.
LEMMA Comes ==
  ASSUME TypeOK, ControlInv, ServedInv, Next, cpu.at \notin Setup, NEW i \in pic.mask,
         i = Uart => uart'.rx # 0
  PROVE  /\ i \in Pulses \cup pic.irqs /\ ~(Done /\ cpu.at = "clear") => i \in pic'.irqs
         /\ i \in Pulses \cup ghost.late /\ ~(Done /\ cpu.at = "rirqs") => i \in ghost'.late
         /\ i \in ghost.missed /\ ~(Done /\ cpu.at = "rirqs") => i \in ghost'.missed
         /\ i \in ghost.missed => i \in ghost'.missed \/ i \in pic'.irqs
         /\ Done /\ cpu.at = "clear" /\ i \in Pulses \cup ghost.late \cup ghost.missed
              => i \in ghost'.missed
         /\ cpu.at = "clear" /\ i \in pic.irqs /\ i \notin cpu.irqs => i \in ghost.late
<1>1. /\ pic'.irqs = IF Done /\ cpu.at = "clear" THEN {} ELSE Latched
      /\ pic.irqs \subseteq Latched
  BY PicAfterSetup
<1>2. i \in Pulses => i \in Latched
  BY DEF Latched
<1>3. ghost'.late = IF Done /\ cpu.at = "rirqs" THEN Pulses ELSE ghost.late \cup Pulses
  BY GhostIs DEF Next
<1>4. \A j \in ghost.missed :
        ~(Done /\ cpu.at = "rirqs" /\ j \in pic.irqs) /\ (j = Uart => uart'.rx # 0)
          => j \in ghost'.missed
  BY GhostIs DEF Next
<1>5. \A j \in ghost'.late :
        Done /\ cpu.at = "clear" /\ (j = Uart => uart'.rx # 0) => j \in ghost'.missed
  BY GhostIs DEF Next
<1>6. cpu.at = "clear" => pic.irqs \subseteq cpu.irqs \cup ghost.late
  BY DEF ServedInv
<1>7. i \in ghost.missed /\ ~(Done /\ cpu.at = "rirqs" /\ i \in pic.irqs) => i \in ghost'.missed
  BY <1>4
<1>8. i \in ghost'.late /\ Done /\ cpu.at = "clear" => i \in ghost'.missed
  BY <1>5
<1>9. cpu.at = "clear" => cpu.at # "rirqs"
  OBVIOUS
<1>10. QED
  BY <1>1, <1>2, <1>3, <1>6, <1>7, <1>8, <1>9

\* An expiry that the handler cannot have served is on its way to it.
LEMMA OwedKept ==
  ASSUME TypeOK, ControlInv, ServedInv, ReloadInv, OwedInv, Next
  PROVE  OwedInv'
<1> SUFFICES ASSUME ghost'.owed PROVE OwedInv'
  BY DEF OwedInv
<1>1. /\ ~(Done /\ cpu.at = "reload")
      /\ ghost.owed \/ (timer.count = 0 /\ Timer \in pic.mask)
  BY GhostIs DEF Next
<1>2. Timer \in pic.mask
  BY <1>1 DEF OwedInv
<1>3. cpu.at \notin Setup
  BY <1>2 DEF ControlInv
<1>4. Timer \in pic'.mask
  BY <1>2, <1>3, PicAfterSetup
<1>5. Timer # Uart
  BY DEF Timer, Uart
<1>6. /\ Timer \in Pulses \cup pic.irqs /\ ~(Done /\ cpu.at = "clear") => Timer \in pic'.irqs
      /\ Timer \in Pulses \cup ghost.late /\ ~(Done /\ cpu.at = "rirqs") => Timer \in ghost'.late
      /\ Timer \in ghost.missed /\ ~(Done /\ cpu.at = "rirqs") => Timer \in ghost'.missed
      /\ Timer \in ghost.missed => Timer \in ghost'.missed \/ Timer \in pic'.irqs
      /\ Done /\ cpu.at = "clear" /\ Timer \in Pulses \cup ghost.late \cup ghost.missed
           => Timer \in ghost'.missed
      /\ cpu.at = "clear" /\ Timer \in pic.irqs /\ Timer \notin cpu.irqs => Timer \in ghost.late
  BY <1>2, <1>3, <1>5, Comes
<1>7. timer.irq = 1 => Timer \in Pulses
  BY DEF Pulses
<1>8. timer.count = 0 => timer'.irq = 1
  <2>1. Left \in Nat /\ Left >= 1 /\ Access \in Nat
    BY LeftIs, Parameters DEF Access
  <2>2. cpu.at = "tclear" => timer.count >= Left + Access
    BY DEF ReloadInv
  <2>3. timer.count = 0 => cpu.at # "tclear"
    BY <2>1, <2>2
  <2>4. cpu.at # "tirq0"
    BY <1>3 DEF Setup
  <2>5. timer'.irq = IF Done /\ cpu.at \in {"tirq0", "tclear"} THEN 0
                     ELSE IF timer.count = 0 THEN 1 ELSE 0
    BY TimerIs DEF Next
  <2>6. QED BY <2>3, <2>4, <2>5
<1>9. ghost.owed =>
        /\ timer.irq = 1 \/ Timer \in pic.irqs \/ Timer \in ToServe \/ Timer \in ghost.missed
        /\ cpu.at \in {"tclear", "drain", "clear"} /\ Timer \in cpu.irqs =>
             timer.irq = 1 \/ Timer \in ghost.late \/ Timer \in ghost.missed
  BY DEF OwedInv
<1>10. Timer \in ToServe => Timer \in pic.irqs \/ (cpu.at = "reload" /\ Timer \in cpu.irqs)
  BY DEF ToServe
<1>11. cpu.at = "reload" => Timer \in ToServe'
  <2>1. CASE Think \/ Issue \/ Wait
    <3>1. cpu'.at = cpu.at /\ cpu'.irqs = cpu.irqs
      BY <2>1, StillIs
    <3>2. QED BY <3>1 DEF ToServe, ServedInv
  <2>2. CASE Enter
    BY <2>2, EnterIs DEF InLoop
  <2>3. CASE Main \/ (Handler /\ ~Enter)
    <3>1. Done
      BY <2>3, MainIs, HandlerIs
    <3>2. QED BY <1>1, <3>1
  <2>4. QED BY <2>1, <2>2, <2>3, Kinds
<1>12. timer'.irq = 1 \/ Timer \in pic'.irqs \/ Timer \in ToServe' \/ Timer \in ghost'.missed
  <2>1. CASE timer.count = 0
    BY <1>8, <2>1
  <2>2. CASE ghost.owed /\ ~(Done /\ cpu.at = "clear")
    BY <1>6, <1>7, <1>9, <1>10, <1>11, <2>2
  <2>3. CASE ghost.owed /\ Done /\ cpu.at = "clear"
    BY <1>6, <1>7, <1>9, <1>10, <2>3
  <2>4. QED BY <1>1, <2>1, <2>2, <2>3
<1>13. cpu'.at \in {"tclear", "drain", "clear"} /\ Timer \in cpu'.irqs =>
         /\ cpu.at \in {"tclear", "drain", "clear"} /\ Timer \in cpu.irqs
         /\ ~(Done /\ cpu.at = "rirqs")
  <2>1. CASE Think \/ Issue \/ Wait
    BY <2>1, StillIs
  <2>2. CASE Enter
    BY <2>2, EnterIs
  <2>3. CASE Main
    <3>1. cpu.at \in Setup \cup InLoop /\ MainTable
      BY <2>3, MainIs
    <3>2. cpu'.at \in Setup \cup InLoop
      BY <3>1 DEF MainTable, Setup, InLoop
    <3>3. QED BY <3>2 DEF Setup, InLoop
  <2>4. CASE Handler /\ ~Enter
    <3>1. Done /\ cpu.at \in Called /\ cpu.ret \in InLoop /\ HandlerTable
      BY <2>4, HandlerIs
    <3>2. cpu.at # "reload"
      BY <1>1, <3>1
    <3>3. CASE cpu.at \in {"bang", "bangput", "rmask", "rirqs"}
      BY <3>1, <3>3 DEF HandlerTable
    <3>4. CASE cpu.at \in {"tclear", "drain"}
      BY <3>1, <3>4 DEF HandlerTable, Stays
    <3>5. CASE cpu.at = "clear"
      BY <3>1, <3>5 DEF HandlerTable, InLoop
    <3>6. QED BY <3>1, <3>2, <3>3, <3>4, <3>5 DEF Called
  <2>5. QED BY <2>1, <2>2, <2>3, <2>4, Kinds
<1>14. cpu'.at \in {"tclear", "drain", "clear"} /\ Timer \in cpu'.irqs =>
         timer'.irq = 1 \/ Timer \in ghost'.late \/ Timer \in ghost'.missed
  <2>1. CASE timer.count = 0
    BY <1>8, <2>1
  <2>2. CASE ghost.owed
    BY <1>6, <1>7, <1>9, <1>13, <2>2
  <2>3. QED BY <1>1, <2>1, <2>2
<1>15. QED
  BY <1>4, <1>12, <1>14 DEF OwedInv

\* The buffer of lib::Uart stays overrun, and is when the driver leaves bytes.
LEMMA OverrunIs ==
  ASSUME TypeOK, ControlInv, Next
  PROVE  /\ ubuf.overrun => ubuf'.overrun
         /\ Done /\ cpu.at = "drain" /\ cpu'.at = "clear" /\ uart.rx > 0 => ubuf'.overrun
<1>1. CASE Think \/ Issue \/ Wait
  BY <1>1, StillIs
<1>2. CASE Enter
  BY <1>2, EnterIs
<1>3. CASE Main
  BY <1>3, MainIs, Places DEF Called
<1>4. CASE Handler /\ ~Enter /\ ~Drain
  <2>1. ubuf' = ubuf /\ cpu.at # "drain"
    BY <1>4, EndsIs DEF Handler, Bang, BangPut, ReadMask, ReadIrqs, WriteCounter, ClearTimer,
                        ClearIrq, Plain, Then
  <2>2. QED BY <2>1
<1>5. CASE Drain
  <2>1. /\ ubuf \in [begin : 0 .. BufferSize - 1, overrun : BOOLEAN] /\ cpu \in CpuType
        /\ uart.rx \in Nat /\ Done /\ cpu.at = "drain"
    <3>1. uart.rx \in 0 .. FifoDepth /\ FifoDepth \in Nat
      BY Parameters DEF TypeOK
    <3>2. QED BY <1>5, <3>1, EndsIs DEF Drain, TypeOK, CpuType
  <2>2. CASE uart.rx = 0
    <3>1. ubuf' = ubuf /\ ~(uart.rx > 0)
      BY <1>5, <2>2 DEF Drain
    <3>2. QED BY <3>1
  <2>3. CASE uart.rx # 0
    <3>1. \/ cpu' = cpu /\ ubuf' = [ubuf EXCEPT !.begin = (ubuf.begin + 1) % BufferSize]
          \/ ubuf' = [begin |-> 0, overrun |-> TRUE]
      BY <1>5, <2>3 DEF Drain
    <3>2. QED BY <2>1, <3>1
  <2>4. QED BY <2>2, <2>3
<1>6. QED BY <1>1, <1>2, <1>3, <1>4, <1>5, Kinds

\* A byte that is in the FIFO is on its way to the handler.
LEMMA BytesKept ==
  ASSUME TypeOK, ControlInv, ServedInv, BytesInv, Next
  PROVE  BytesInv'
<1>o. ghost'.left => ubuf'.overrun
  <2>1. ghost.left => ubuf.overrun
    BY DEF BytesInv
  <2>2. ghost'.left => ghost.left \/ (Done /\ cpu.at = "drain" /\ cpu'.at = "clear" /\ uart.rx > 0)
    BY GhostIs DEF Next
  <2>3. /\ ubuf.overrun => ubuf'.overrun
        /\ Done /\ cpu.at = "drain" /\ cpu'.at = "clear" /\ uart.rx > 0 => ubuf'.overrun
    BY OverrunIs
  <2>4. QED BY <2>1, <2>2, <2>3
<1> SUFFICES ASSUME Uart \in pic'.mask, uart'.rx > 0
             PROVE  /\ UartIrq' \/ Uart \in pic'.irqs \/ Uart \in ToServe' \/ Untold'
                    /\ cpu'.at = "clear" /\ Uart \in cpu'.irqs =>
                         UartIrq' \/ Uart \in ghost'.late \/ Untold'
  BY <1>o DEF BytesInv
<1>a. uart.rx \in Nat /\ uart'.rx \in Nat /\ uart'.rx # 0
  <2>1. uart.rx \in 0 .. FifoDepth /\ uart'.rx \in 0 .. FifoDepth /\ FifoDepth \in Nat
    BY Parameters, TypeKept DEF TypeOK
  <2>2. QED BY <2>1
<1>1. CASE uart.rx = 0
  <2>1. uart'.rxWasEmpty
    BY <1>1, UartIs DEF Next
  <2>2. UartIrq'
    BY <2>1 DEF UartIrq
  <2>3. QED BY <2>2
<1>2. CASE uart.rx > 0 /\ cpu.at \in Setup
  <2>1. pic.mask = {}
    BY <1>2 DEF ControlInv
  <2>2. Done /\ cpu.at = "mask1"
    BY <2>1, PicIs DEF Next
  <2>3. Untold'
    BY <1>2, <1>a, <2>2, GhostIs DEF Next, Untold
  <2>4. cpu'.at # "clear"
    <3>1. ~(Think \/ Issue \/ Wait) /\ ~Enter
      BY <2>2, StillIs, EnterIs
    <3>2. ~(Handler /\ ~Enter)
      BY <1>2, HandlerIs, Places
    <3>3. cpu.at \in Setup \cup InLoop /\ MainTable
      BY <3>1, <3>2, MainIs, Kinds
    <3>4. QED BY <2>2, <3>3 DEF MainTable
  <2>5. QED BY <2>3, <2>4
<1>3. CASE uart.rx > 0 /\ cpu.at \notin Setup
  <2>1. Uart \in pic.mask
    BY <1>3, PicAfterSetup
  <2>2. /\ Uart \in Pulses \cup pic.irqs /\ ~(Done /\ cpu.at = "clear") => Uart \in pic'.irqs
        /\ Uart \in Pulses \cup ghost.late /\ ~(Done /\ cpu.at = "rirqs") => Uart \in ghost'.late
        /\ Untold /\ ~(Done /\ cpu.at = "rirqs") => Untold'
        /\ Untold => Untold' \/ Uart \in pic'.irqs
        /\ Done /\ cpu.at = "clear" /\ (Uart \in Pulses \cup ghost.late \/ Untold) => Untold'
        /\ cpu.at = "clear" /\ Uart \in pic.irqs /\ Uart \notin cpu.irqs => Uart \in ghost.late
    <3>1. /\ Uart \in Pulses \cup pic.irqs /\ ~(Done /\ cpu.at = "clear") => Uart \in pic'.irqs
          /\ Uart \in Pulses \cup ghost.late /\ ~(Done /\ cpu.at = "rirqs") => Uart \in ghost'.late
          /\ Uart \in ghost.missed /\ ~(Done /\ cpu.at = "rirqs") => Uart \in ghost'.missed
          /\ Uart \in ghost.missed => Uart \in ghost'.missed \/ Uart \in pic'.irqs
          /\ Done /\ cpu.at = "clear" /\ Uart \in Pulses \cup ghost.late \cup ghost.missed
               => Uart \in ghost'.missed
          /\ cpu.at = "clear" /\ Uart \in pic.irqs /\ Uart \notin cpu.irqs => Uart \in ghost.late
      BY <1>3, <1>a, <2>1, Comes
    <3>2. ~(Done /\ cpu.at = "rirqs" /\ Uart \in pic.irqs) =>
            (ghost.early => ghost'.early) /\ (ghost.left => ghost'.left)
      BY <1>a, GhostIs DEF Next
    <3>3. cpu.at = "clear" => cpu.at # "rirqs"
      OBVIOUS
    <3>4. QED BY <3>1, <3>2, <3>3 DEF Untold
  <2>3. UartIrq => Uart \in Pulses
    BY DEF Pulses
  <2>4. /\ UartIrq \/ Uart \in pic.irqs \/ Uart \in ToServe \/ Untold
        /\ cpu.at = "clear" /\ Uart \in cpu.irqs => UartIrq \/ Uart \in ghost.late \/ Untold
    BY <1>3, <2>1 DEF BytesInv
  <2>5. Timer # Uart
    BY DEF Timer, Uart
  <2>6. Done /\ cpu.at = "drain" /\ cpu'.at = "clear" => Untold'
    BY <1>3, <1>a, GhostIs DEF Next, Untold
  <2>7. Uart \in ToServe =>
          \/ Uart \in pic.irqs
          \/ cpu.at \in {"reload", "tclear", "drain"} /\ Uart \in cpu.irqs
    BY DEF ToServe
  <2>8. cpu.at \in {"reload", "tclear", "drain"} /\ Uart \in cpu.irqs =>
          Uart \in ToServe' \/ Untold'
    <3>1. CASE Think \/ Issue \/ Wait
      <4>1. cpu'.at = cpu.at /\ cpu'.irqs = cpu.irqs
        BY <3>1, StillIs
      <4>2. QED BY <2>5, <4>1 DEF ToServe
    <3>2. CASE Enter
      BY <3>2, EnterIs DEF InLoop
    <3>3. CASE Main
      BY <3>3, MainIs DEF Setup, InLoop
    <3>4. CASE Handler /\ ~Enter
      <4>1. Done /\ HandlerTable
        BY <3>4, HandlerIs
      <4>2. QED BY <2>5, <2>6, <4>1 DEF HandlerTable, Stays, ToServe
    <3>5. QED BY <3>1, <3>2, <3>3, <3>4, Kinds
  <2>9. UartIrq' \/ Uart \in pic'.irqs \/ Uart \in ToServe' \/ Untold'
    <3>1. CASE ~(Done /\ cpu.at = "clear")
      BY <2>2, <2>3, <2>4, <2>7, <2>8, <3>1
    <3>2. CASE Done /\ cpu.at = "clear"
      BY <2>2, <2>3, <2>4, <2>7, <3>2
    <3>3. QED BY <3>1, <3>2
  <2>10. cpu'.at = "clear" /\ Uart \in cpu'.irqs =>
           \/ cpu.at = "clear" /\ Uart \in cpu.irqs /\ ~Done
           \/ Untold'
    <3>1. CASE Think \/ Issue \/ Wait
      BY <3>1, StillIs
    <3>2. CASE Enter
      BY <3>2, EnterIs
    <3>3. CASE Main
      <4>1. cpu.at \in Setup \cup InLoop /\ MainTable
        BY <3>3, MainIs
      <4>2. QED BY <4>1 DEF MainTable, Setup, InLoop
    <3>4. CASE Handler /\ ~Enter
      <4>1. Done /\ cpu.at \in Called /\ cpu.ret \in InLoop /\ HandlerTable
        BY <3>4, HandlerIs
      <4>2. QED BY <2>6, <4>1 DEF HandlerTable, Stays, Called, InLoop
    <3>5. QED BY <3>1, <3>2, <3>3, <3>4, Kinds
  <2>11. cpu'.at = "clear" /\ Uart \in cpu'.irqs =>
           UartIrq' \/ Uart \in ghost'.late \/ Untold'
    BY <2>2, <2>3, <2>4, <2>10
  <2>12. QED
    BY <2>9, <2>11
<1>4. QED
  BY <1>a, <1>1, <1>2, <1>3

\* In the loop, an expiry is latched and enters the handler in time.
LEMMA LoopDeadline ==
  ASSUME TypeOK, ControlInv, DeadlineInv, Next, cpu.mask = {Timer},
         cpu.at \in InLoop, cpu'.at \in InLoop
  PROVE  /\ timer'.irq = 1 => timer'.count = 2^Width - 1 /\ pic'.irqs = {}
         /\ pic'.irqs # {} => timer'.count >= Latency'
<1>a. /\ timer.count \in Nat /\ timer'.count \in Nat /\ MaxThink \in Nat /\ 2^Width \in Nat
      /\ HandlerClocks \in Nat /\ HandlerClocks + (MaxThink + 3) + 2 <= 2^Width
      /\ cyc \in {0, 1} /\ ack \in {0, 1} /\ cpu.think \in 0 .. MaxThink
      /\ cyc' \in {0, 1} /\ ack' \in {0, 1} /\ cpu'.think \in 0 .. MaxThink
      /\ timer.irq \in {0, 1}
  <2>1. timer.count \in 0 .. 2^Width - 1 /\ timer'.count \in 0 .. 2^Width - 1
    BY TypeKept DEF TypeOK
  <2>2. timer.count \in Nat /\ timer'.count \in Nat
    BY <2>1, Parameters
  <2>3. HandlerClocks \in Nat /\ HandlerClocks + (MaxThink + 3) + 2 <= 2^Width
    BY Parameters, FastHandler DEF HandlerClocks, Access
  <2>4. timer.irq \in {0, 1}
    BY DEF TypeOK
  <2>5. /\ cyc \in {0, 1} /\ ack \in {0, 1} /\ cpu.think \in 0 .. MaxThink
        /\ cyc' \in {0, 1} /\ ack' \in {0, 1} /\ cpu'.think \in 0 .. MaxThink
    BY TypeKept DEF TypeOK
  <2>6. QED BY <2>2, <2>3, <2>4, <2>5, Parameters
<1>b. /\ timer.irq = 1 => timer.count = 2^Width - 1 /\ pic.irqs = {}
      /\ pic.irqs # {} => timer.count >= Latency
  BY DEF DeadlineInv
<1>c. /\ timer'.count = IF timer.count = 0 THEN 2^Width - 1 ELSE timer.count - 1
      /\ timer'.irq = IF timer.count = 0 THEN 1 ELSE 0
  <2>1. cpu.at \notin {"count0", "count1", "reload", "tirq0", "tclear"}
    BY DEF InLoop
  <2>2. QED BY <2>1, TimerIs DEF Next
<1>d. pic'.irqs = Latched /\ pic.mask = {Timer}
  <2>1. cpu.at \notin Setup /\ cpu.at # "clear"
    BY Places DEF Called
  <2>2. QED BY <2>1, PicAfterSetup DEF ControlInv
<1>e. pic'.irqs # {} => pic.irqs # {} \/ timer.irq = 1
  <2>1. Timer # Uart
    BY DEF Timer, Uart
  <2>2. QED BY <1>d, <2>1 DEF Latched, Pulses
<1>f. cyc = 1 => cpu.think = 0
  BY DEF ControlInv
<1> DEFINE wait == IF cyc = 0 THEN (MaxThink - cpu.think) + 1 ELSE (2 - ack) + MaxThink + 1
           next == IF cyc' = 0 THEN (MaxThink - cpu'.think) + 1 ELSE (2 - ack') + MaxThink + 1
<1>1. wait \in Nat /\ wait >= 1
  <2>1. CASE cyc = 0
    BY <1>a, <2>1
  <2>2. CASE cyc = 1
    BY <1>a, <2>2
  <2>3. QED BY <1>a, <2>1, <2>2
<1>2. next \in Nat /\ next <= MaxThink + 3
  <2>1. ASSUME NEW c \in {0, 1}, NEW k \in {0, 1}, NEW t \in 0 .. MaxThink
        PROVE  /\ (IF c = 0 THEN (MaxThink - t) + 1 ELSE (2 - k) + MaxThink + 1) \in Nat
               /\ (IF c = 0 THEN (MaxThink - t) + 1 ELSE (2 - k) + MaxThink + 1) <= MaxThink + 3
    <3>1. CASE c = 0
      BY <1>a, <3>1
    <3>2. CASE c = 1
      BY <1>a, <3>2
    <3>3. QED BY <3>1, <3>2
  <2>2. QED BY <1>a, <2>1
<1>3. pic.irqs # {} => next <= wait - 1
  <2> SUFFICES ASSUME pic.irqs # {} PROVE next <= wait - 1
    OBVIOUS
  <2>1. CASE Think \/ Issue \/ Wait
    <3>1. Enabled
      BY Places DEF Enabled, ControlInv, TypeOK, InHandler
    <3>2. /\ ~Done
          /\ \/ cyc = 0 /\ cyc' = 0 /\ cpu'.think = cpu.think + 1
             \/ cyc = 1 /\ cyc' = 1 /\ cpu'.think = cpu.think
      BY <2>1, <3>1, StillIs
    <3>3. cyc = 1 => ack = 0 /\ ack' = 1
      BY <1>a, <3>2, AckIs DEF Done, Next
    <3>4. CASE cyc = 0 /\ cyc' = 0 /\ cpu'.think = cpu.think + 1
      BY <1>a, <3>4
    <3>5. CASE cyc = 1 /\ cyc' = 1
      BY <1>a, <3>3, <3>5
    <3>6. QED BY <3>2, <3>4, <3>5
  <2>2. CASE Enter
    <3>1. cpu'.at = "bang"
      BY <2>2, EnterIs
    <3>2. QED BY <3>1 DEF InLoop
  <2>3. CASE Main \/ (Handler /\ ~Enter)
    <3>1. cyc = 1 /\ cyc' = 0 /\ cpu'.think = 0
      BY <2>3, MainIs, HandlerIs, LeftIs
    <3>2. QED BY <1>a, <3>1
  <2>4. QED BY <2>1, <2>2, <2>3, Kinds
<1>4. Latency = HandlerClocks + wait /\ Latency' = HandlerClocks + next
  BY DEF Latency
<1> HIDE DEF wait, next
<1>5. pic'.irqs # {} => timer'.count >= Latency'
  <2>1. CASE timer.irq = 1
    BY <1>a, <1>b, <1>c, <1>2, <1>4, <2>1
  <2>2. CASE pic.irqs # {}
    BY <1>a, <1>b, <1>c, <1>1, <1>2, <1>3, <1>4, <2>2
  <2>3. QED BY <1>e, <2>1, <2>2
<1>6. timer'.irq = 1 => timer'.count = 2^Width - 1 /\ pic'.irqs = {}
  <2> SUFFICES ASSUME timer'.irq = 1 PROVE timer'.count = 2^Width - 1 /\ pic'.irqs = {}
    OBVIOUS
  <2>1. timer.count = 0 /\ timer'.count = 2^Width - 1
    BY <1>c
  <2>2. pic.irqs = {}
    BY <1>a, <1>b, <1>1, <1>4, <2>1
  <2>3. timer.irq # 1
    BY <1>a, <1>b, <2>1
  <2>4. QED BY <1>e, <2>1, <2>2, <2>3
<1>7. QED
  BY <1>5, <1>6

\* A reload of the timer leaves the rest of the handler its time.
LEMMA HandlerDeadline ==
  ASSUME TypeOK, ControlInv, ServedInv, ReloadInv, DeadlineInv, Next, cpu.mask = {Timer},
         cpu.at \in Called, cpu'.at \in Called
  PROVE  /\ timer'.irq = 0 /\ timer'.count >= Budget'
         /\ cpu'.at \in {"bang", "bangput", "rmask", "rirqs"} => Timer \in pic'.irqs
         /\ cpu'.at \in {"reload", "tclear", "clear"} => Timer \notin ghost'.late
<1>a. /\ timer.count \in Nat /\ timer'.count \in Nat /\ MaxThink \in Nat /\ Access \in Nat
      /\ Reload \in Nat /\ 2 * Access <= Reload /\ ByteClocks \in Nat
      /\ uart.line \in 0 .. ByteClocks - 1 /\ uart'.line \in 0 .. ByteClocks - 1
      /\ uart.tx \in 0 .. FifoDepth /\ uart'.tx \in 0 .. FifoDepth /\ FifoDepth \in Nat
      /\ FifoDepth >= 1
  <2>1. timer.count \in 0 .. 2^Width - 1 /\ timer'.count \in 0 .. 2^Width - 1
    BY TypeKept DEF TypeOK
  <2>2. timer.count \in Nat /\ timer'.count \in Nat
    BY <2>1, Parameters
  <2>3. /\ uart.line \in 0 .. ByteClocks - 1 /\ uart'.line \in 0 .. ByteClocks - 1
        /\ uart.tx \in 0 .. FifoDepth /\ uart'.tx \in 0 .. FifoDepth
    BY TypeKept DEF TypeOK
  <2>4. Access \in Nat /\ 2 * Access <= Reload
    BY Parameters, FastHandler DEF Access
  <2>5. QED BY <2>2, <2>3, <2>4, Parameters
<1>b. /\ timer.irq = 0 /\ timer.count >= Budget
      /\ cpu.at \in {"bang", "bangput", "rmask", "rirqs"} => Timer \in pic.irqs
      /\ cpu.at \in {"reload", "tclear", "clear"} => Timer \notin ghost.late
  BY DEF DeadlineInv
<1>c. /\ Left \in Nat /\ Left' \in Nat /\ Left >= 1 /\ Left' >= 1 /\ Left' <= Access
      /\ Think \/ Issue \/ Wait => Left' <= Left - 1
  BY LeftIs
<1>d. cpu.at # "drain"
  <2>1. cpu.at = "drain" => Uart \in cpu.irqs /\ cpu.irqs \subseteq pic.mask
    BY DEF ServedInv
  <2>2. pic.mask = {Timer}
    BY Places DEF ControlInv
  <2>3. QED BY <2>1, <2>2 DEF Timer, Uart
<1>e. Uart \notin cpu.irqs \/ cpu.at # "tclear"
  <2>1. cpu.at = "tclear" => cpu.irqs \subseteq pic.mask
    BY DEF ServedInv
  <2>2. pic.mask = {Timer}
    BY Places DEF ControlInv
  <2>3. QED BY <2>1, <2>2 DEF Timer, Uart
<1>f. Budget \in Nat /\ Budget >= 1
  BY <1>a, <1>c DEF Budget
<1>g. timer.count # 0
  BY <1>a, <1>b, <1>f
<1>h. /\ timer'.irq = 0
      /\ timer'.count = IF Done /\ cpu.at = "reload" THEN Reload ELSE timer.count - 1
  <2>1. cpu.at \notin {"count0", "count1"}
    BY DEF Called
  <2>2. QED BY <1>g, <2>1, TimerIs DEF Next
<1>i. ~(Done /\ cpu.at = "clear") => pic.irqs \subseteq pic'.irqs
  BY Places, PicAfterSetup
<1>j. Timer \notin Pulses /\ (Timer \notin ghost.late \/ (Done /\ cpu.at = "rirqs")
                                => Timer \notin ghost'.late)
  <2>1. Timer \notin Pulses
    BY <1>b DEF Pulses, Timer, Uart
  <2>2. ghost'.late = IF Done /\ cpu.at = "rirqs" THEN Pulses ELSE ghost.late \cup Pulses
    BY GhostIs DEF Next
  <2>3. QED BY <2>1, <2>2
<1>k. Access \in Nat /\ Left \in Nat /\ Left' \in Nat /\ Left' <= Access /\ Left >= 1
  BY <1>a, <1>c
<1>l. ASSUME cpu.at = "bang", cpu'.at = "bang", ~(uart.tx < FifoDepth)
      PROVE  Budget' <= Budget - 1
  <2>1. /\ Budget = 4 * Access + ((ByteClocks - uart.line) + Access)
        /\ uart'.tx < FifoDepth => Budget' = 4 * Access + Left'
        /\ ~(uart'.tx < FifoDepth) =>
             Budget' = 4 * Access + ((ByteClocks - uart'.line) + Access)
    BY <1>l DEF Budget, Access
  <2>2. /\ uart.line = ByteClocks - 1 /\ uart.tx > 0 => uart'.tx = uart.tx - 1
        /\ uart.line # ByteClocks - 1 => uart'.line = uart.line + 1
    BY <1>l, UartIs DEF Next
  <2>3. CASE uart'.tx < FifoDepth
    <3>1. ByteClocks - uart.line >= 1 /\ ByteClocks - uart.line \in Nat
      BY <1>a
    <3>2. Budget' = 4 * Access + Left'
      BY <2>1, <2>3
    <3>3. QED BY <1>k, <2>1, <3>1, <3>2
  <2>4. CASE ~(uart'.tx < FifoDepth)
    <3>1. uart'.line = uart.line + 1
      BY <1>a, <1>l, <2>2, <2>4
    <3>2. Budget' = 4 * Access + ((ByteClocks - uart'.line) + Access)
      BY <2>1, <2>4
    <3>3. ByteClocks - uart'.line = (ByteClocks - uart.line) - 1 /\ ByteClocks - uart.line \in Nat
      BY <1>a, <3>1
    <3>4. QED BY <1>k, <2>1, <3>2, <3>3
  <2>5. QED BY <2>3, <2>4
<1>1. CASE Think \/ Issue \/ Wait
  <2>1. ~Done /\ cpu'.at = cpu.at
    BY <1>1, StillIs
  <2>2. Left' <= Left - 1
    BY <1>1, <1>c
  <2>3. Budget' <= Budget - 1
    <3>1. CASE cpu.at = "bang" /\ uart.tx < FifoDepth
      <4>1. uart'.tx <= uart.tx
        BY <2>1, UartIs DEF Next
      <4>2. uart'.tx < FifoDepth
        BY <1>a, <3>1, <4>1
      <4>3. Budget = 4 * Access + Left /\ Budget' = 4 * Access + Left'
        BY <2>1, <3>1, <4>2 DEF Budget, Access
      <4>4. ASSUME NEW A \in Nat, NEW l \in Nat, NEW m \in Nat, m <= l - 1
            PROVE  4 * A + m <= (4 * A + l) - 1
        BY <4>4
      <4>5. QED BY <1>k, <2>2, <4>3, <4>4
    <3>2. CASE cpu.at = "bangput"
      BY <1>a, <1>c, <2>1, <2>2, <3>2 DEF Budget, Access
    <3>3. CASE cpu.at = "rmask"
      BY <1>a, <1>c, <2>1, <2>2, <3>3 DEF Budget, Access
    <3>4. CASE cpu.at \in {"rirqs", "tclear"}
      BY <1>a, <1>c, <2>1, <2>2, <3>4 DEF Budget, Access
    <3>5. CASE cpu.at \in {"reload", "clear"}
      BY <1>a, <1>c, <2>1, <2>2, <3>5 DEF Budget
    <3>6. CASE cpu.at = "bang" /\ ~(uart.tx < FifoDepth)
      BY <1>l, <2>1, <3>6
    <3>7. QED BY <1>d, <3>1, <3>2, <3>3, <3>4, <3>5, <3>6 DEF Called
  <2>4. Budget' \in Int
    BY <1>a, <1>c DEF Budget, Access
  <2>5. timer'.count >= Budget'
    BY <1>a, <1>b, <1>f, <1>h, <2>1, <2>3, <2>4
  <2>6. QED BY <1>b, <1>h, <1>i, <1>j, <2>1, <2>5
<1>2. CASE Enter
  BY <1>2, EnterIs, Places
<1>3. CASE Main
  BY <1>3, MainIs, Places
<1>4. CASE Handler /\ ~Enter
  <2>1. Done /\ HandlerTable
    BY <1>4, HandlerIs
  <2>2. CASE cpu.at = "bang" /\ cpu'.at = "bang"
    <3>1. ~(uart.tx < FifoDepth)
      BY <2>1, <2>2 DEF HandlerTable
    <3>2. Budget' <= Budget - 1
      BY <2>2, <3>1, <1>l
    <3>3. Budget' \in Int
      BY <1>a, <1>c DEF Budget, Access
    <3>4. timer'.count >= Budget'
      BY <1>a, <1>b, <1>f, <1>h, <2>2, <3>2, <3>3
    <3>5. QED BY <1>b, <1>h, <1>i, <2>2, <3>4
  <2>3. CASE cpu.at = "bang" /\ cpu'.at # "bang"
    <3>1. cpu'.at = "bangput" /\ uart.tx < FifoDepth
      BY <2>1, <2>3 DEF HandlerTable
    <3>2. Budget = 4 * Access + Left /\ Budget' = Left' + 3 * Access
      BY <2>3, <3>1 DEF Budget, Access
    <3>3. timer'.count >= Budget'
      BY <1>a, <1>b, <1>h, <1>k, <2>3, <3>2
    <3>4. QED BY <1>b, <1>h, <1>i, <2>3, <3>1, <3>3
  <2>4. CASE cpu.at = "bangput"
    <3>1. cpu'.at = "rmask"
      BY <2>1, <2>4 DEF HandlerTable
    <3>2. Budget = Left + 3 * Access /\ Budget' = Left' + 2 * Access
      BY <2>4, <3>1 DEF Budget, Access
    <3>3. timer'.count >= Budget'
      BY <1>a, <1>b, <1>h, <1>k, <2>4, <3>2
    <3>4. QED BY <1>b, <1>h, <1>i, <2>4, <3>1, <3>3
  <2>5. CASE cpu.at = "rmask"
    <3>1. cpu'.at = "rirqs"
      BY <2>1, <2>5 DEF HandlerTable
    <3>2. Budget = Left + 2 * Access /\ Budget' = Left' + Access
      BY <2>5, <3>1 DEF Budget, Access
    <3>3. timer'.count >= Budget'
      BY <1>a, <1>b, <1>h, <1>k, <2>5, <3>2
    <3>4. QED BY <1>b, <1>h, <1>i, <2>5, <3>1, <3>3
  <2>6. CASE cpu.at = "rirqs"
    <3>1. cpu'.at = "reload"
      BY <1>b, <2>1, <2>6 DEF HandlerTable
    <3>2. Budget = Left + Access /\ Budget' = Left'
      BY <2>6, <3>1 DEF Budget, Access
    <3>3. timer'.count >= Budget'
      BY <1>a, <1>b, <1>h, <1>k, <2>6, <3>2
    <3>4. Timer \notin ghost'.late
      BY <1>j, <2>1, <2>6
    <3>5. QED BY <1>h, <3>1, <3>3, <3>4
  <2>7. CASE cpu.at = "reload"
    <3>1. cpu'.at = "tclear"
      BY <2>1, <2>7 DEF HandlerTable
    <3>2. Budget' = Left' + Access
      BY <3>1 DEF Budget, Access
    <3>3. timer'.count = Reload
      BY <1>h, <2>1, <2>7
    <3>6. ASSUME NEW A \in Nat, NEW m \in Nat, m <= A, 2 * A <= Reload
          PROVE  Reload >= m + A
      BY <1>a, <3>6
    <3>7. timer'.count >= Budget'
      BY <1>a, <1>k, <3>2, <3>3, <3>6
    <3>4. Timer \notin ghost'.late
      BY <1>b, <1>j, <2>7
    <3>5. QED BY <1>h, <3>1, <3>7, <3>4
  <2>8. CASE cpu.at = "tclear"
    <3>1. cpu'.at = "clear"
      BY <1>e, <2>1, <2>8 DEF HandlerTable
    <3>2. Budget = Left + Access /\ Budget' = Left'
      BY <2>8, <3>1 DEF Budget, Access
    <3>3. timer'.count >= Budget'
      BY <1>a, <1>b, <1>h, <1>k, <2>8, <3>2
    <3>4. Timer \notin ghost'.late
      BY <1>b, <1>j, <2>8
    <3>5. QED BY <1>h, <3>1, <3>3, <3>4
  <2>9. CASE cpu.at = "clear"
    <3>1. cpu'.at \in InLoop
      BY <1>4, <2>1, <2>9, HandlerIs DEF HandlerTable
    <3>2. QED BY <3>1, Places
  <2>10. QED
    BY <1>d, <2>2, <2>3, <2>4, <2>5, <2>6, <2>7, <2>8, <2>9 DEF Called
<1>5. QED
  BY <1>1, <1>2, <1>3, <1>4, Kinds

\* The timer does not expire while it is served.
LEMMA DeadlineKept ==
  ASSUME TypeOK, ControlInv, ServedInv, ReloadInv, DeadlineInv, Next
  PROVE  DeadlineInv'
<1>1. cpu'.mask = cpu.mask
  BY Kinds, StillIs, EnterIs, MainIs, HandlerIs
<1> SUFFICES ASSUME cpu.mask = {Timer} PROVE DeadlineInv'
  BY <1>1 DEF DeadlineInv
<1>a. /\ timer.count \in Nat /\ timer'.count \in Nat /\ MaxThink \in Nat /\ Access \in Nat
      /\ ByteClocks \in Nat /\ uart'.line \in 0 .. ByteClocks - 1
      /\ HandlerClocks = ByteClocks + 5 * Access
  <2>1. timer.count \in 0 .. 2^Width - 1 /\ timer'.count \in 0 .. 2^Width - 1
    BY TypeKept DEF TypeOK
  <2>2. uart'.line \in 0 .. ByteClocks - 1
    BY TypeKept DEF TypeOK
  <2>3. timer.count \in Nat /\ timer'.count \in Nat
    BY <2>1, Parameters
  <2>4. Access \in Nat /\ HandlerClocks = ByteClocks + 5 * Access
    BY Parameters DEF Access, HandlerClocks
  <2>5. QED BY <2>2, <2>3, <2>4, Parameters
<1>b. /\ Timer \notin ghost.missed
      /\ cpu.at \in InLoop =>
           /\ timer.irq = 1 => timer.count = 2^Width - 1 /\ pic.irqs = {}
           /\ pic.irqs # {} => timer.count >= Latency
      /\ cpu.at \in Called => timer.irq = 0 /\ timer.count >= Budget
      /\ cpu.at \in {"reload", "tclear", "clear"} => Timer \notin ghost.late
  BY DEF DeadlineInv
<1>c. Left \in Nat /\ Left' \in Nat /\ Left >= 1 /\ Left' >= 1 /\ Left' <= Access
  BY LeftIs
<1>2. Timer \notin ghost'.missed
  <2>1. Timer \in ghost'.missed => Done /\ cpu.at = "clear" /\ Timer \in ghost'.late
    BY <1>b, GhostIs DEF Next, Timer, Uart
  <2>2. cpu.at = "clear" => timer.irq = 0 /\ Timer \notin ghost.late
    BY <1>b DEF Called
  <2>3. ghost'.late \subseteq ghost.late \cup Pulses
    BY GhostIs DEF Next
  <2>4. timer.irq = 0 => Timer \notin Pulses
    BY DEF Pulses, Timer, Uart
  <2>5. QED BY <2>1, <2>2, <2>3, <2>4
<1>3. ASSUME cpu'.at \in InLoop
      PROVE  /\ timer'.irq = 1 => timer'.count = 2^Width - 1 /\ pic'.irqs = {}
             /\ pic'.irqs # {} => timer'.count >= Latency'
  <2>1. CASE cpu.at \in InLoop
    BY <1>3, <2>1, LoopDeadline
  <2>2. CASE cpu.at \in Setup
    <3>1. Done /\ cpu.at = "mask1"
      <4>1. ~(Think \/ Issue \/ Wait) /\ ~Enter /\ ~(Handler /\ ~Enter)
        BY <1>3, <2>2, StillIs, EnterIs, HandlerIs, Places
      <4>2. Done /\ MainTable
        BY <4>1, Kinds, MainIs
      <4>3. cpu.at \in Setup \ {"mask1"} => cpu'.at \in Setup
        BY <4>2 DEF MainTable
      <4>4. QED BY <1>3, <2>2, <4>2, <4>3, Places
    <3>2. timer.count >= Left
      BY <3>1 DEF ReloadInv
    <3>3. timer.count # 0
      BY <1>a, <1>c, <3>2
    <3>4. timer'.irq = 0
      BY <3>1, <3>3, TimerIs DEF Next
    <3>5. pic.mask = {} /\ pic.irqs = {}
      BY <2>2 DEF ControlInv
    <3>6. pic'.irqs = {}
      BY <3>1, <3>5, PicIs DEF Next, Latched
    <3>7. QED BY <3>4, <3>6
  <2>3. CASE cpu.at \in Called
    <3>1. Done /\ cpu.at = "clear"
      <4>1. ~(Think \/ Issue \/ Wait) /\ ~Enter /\ ~Main
        BY <1>3, <2>3, StillIs, EnterIs, MainIs, Places
      <4>2. Done /\ HandlerTable
        BY <4>1, Kinds, HandlerIs
      <4>3. cpu.at # "clear" => cpu'.at \in Called
        BY <2>3, <4>2 DEF HandlerTable, Called
      <4>4. QED BY <1>3, <4>2, <4>3, Places
    <3>2. timer.count >= Left
      BY <1>b, <2>3, <3>1 DEF Budget
    <3>3. timer.count # 0
      BY <1>a, <1>c, <3>2
    <3>4. timer'.irq = 0
      BY <3>1, <3>3, TimerIs DEF Next
    <3>5. pic'.irqs = {}
      BY <3>1, PicIs DEF Next
    <3>6. QED BY <3>4, <3>5
  <2>4. QED
    BY <2>1, <2>2, <2>3 DEF TypeOK
<1>4. ASSUME cpu'.at \in Called
      PROVE  /\ timer'.irq = 0 /\ timer'.count >= Budget'
             /\ cpu'.at \in {"bang", "bangput", "rmask", "rirqs"} => Timer \in pic'.irqs
             /\ cpu'.at \in {"reload", "tclear", "clear"} => Timer \notin ghost'.late
  <2>1. CASE cpu.at \in Called
    BY <1>4, <2>1, HandlerDeadline
  <2>2. CASE cpu.at \notin Called
    <3>1. Enter
      <4>1. ~(Think \/ Issue \/ Wait) /\ ~(Handler /\ ~Enter)
        BY <1>4, <2>2, StillIs, HandlerIs
      <4>2. ~Main
        <5>1. SUFFICES ASSUME Main PROVE FALSE
          OBVIOUS
        <5>2. cpu.at \in Setup \cup InLoop /\ MainTable
          BY <5>1, MainIs
        <5>3. cpu'.at \in Setup \cup InLoop
          BY <5>2 DEF MainTable, Setup, InLoop
        <5>4. QED BY <1>4, <5>3, Places
      <4>3. QED BY <4>1, <4>2, Kinds
    <3>2. ~Done /\ cyc = 0 /\ pic.irqs # {} /\ cpu'.at = "bang" /\ cpu.at \in InLoop
      BY <3>1, EnterIs DEF Enabled
    <3>3. pic.irqs = {Timer}
      BY <3>2, Places DEF ControlInv
    <3>4. timer.irq = 0 /\ timer.count >= Latency
      <4>1. timer.irq \in {0, 1}
        BY DEF TypeOK
      <4>2. QED BY <1>b, <3>2, <4>1
    <3>5. Latency >= HandlerClocks + 1 /\ Latency \in Nat
      <4>1. cpu.think \in 0 .. MaxThink
        BY DEF TypeOK
      <4>2. Latency = HandlerClocks + ((MaxThink - cpu.think) + 1)
        BY <3>2 DEF Latency
      <4>3. QED BY <1>a, <4>1, <4>2
    <3>6. timer.count # 0
      BY <1>a, <3>4, <3>5
    <3>7. timer'.irq = 0 /\ timer'.count = timer.count - 1
      BY <3>2, <3>6, TimerIs DEF Next
    <3>8. Budget' <= HandlerClocks /\ Budget' \in Nat
      <4>1. Budget' = 4 * Access + (IF uart'.tx < FifoDepth THEN Left'
                                    ELSE (ByteClocks - uart'.line) + Access)
        BY <3>2 DEF Budget, Access
      <4>2. CASE uart'.tx < FifoDepth
        <5>1. Budget' = 4 * Access + Left'
          BY <4>1, <4>2
        <5>2. ASSUME NEW A \in Nat, NEW m \in Nat, m <= A
              PROVE  4 * A + m <= ByteClocks + 5 * A /\ 4 * A + m \in Nat
          BY <1>a, <5>2
        <5>3. QED BY <1>a, <1>c, <5>1, <5>2
      <4>3. CASE ~(uart'.tx < FifoDepth)
        <5>1. ByteClocks - uart'.line <= ByteClocks /\ ByteClocks - uart'.line \in Nat
          BY <1>a
        <5>2. QED BY <1>a, <4>1, <4>3, <5>1
      <4>4. QED BY <4>2, <4>3
    <3>9. timer'.count >= Budget'
      BY <1>a, <3>4, <3>5, <3>7, <3>8
    <3>10. Timer \in pic'.irqs
      BY <3>2, <3>3, Places, PicAfterSetup DEF Timer
    <3>11. QED BY <3>2, <3>7, <3>9, <3>10
  <2>3. QED BY <2>1, <2>2
<1>5. cpu'.at \in InLoop =>
        /\ timer'.irq = 1 => timer'.count = 2^Width - 1 /\ pic'.irqs = {}
        /\ pic'.irqs # {} => timer'.count >= Latency'
  BY <1>3
<1>6. cpu'.at \in Called => timer'.irq = 0 /\ timer'.count >= Budget'
  BY <1>4
<1>7. cpu'.at \in {"bang", "bangput", "rmask", "rirqs"} => Timer \in pic'.irqs
  BY <1>4 DEF Called
<1>8. cpu'.at \in {"reload", "tclear", "clear"} => Timer \notin ghost'.late
  BY <1>4 DEF Called
<1>9. QED
  BY <1>2, <1>5, <1>6, <1>7, <1>8 DEF DeadlineInv

-----------------------------------------------------------------------------
(* What holds of every behaviour.                                          *)

\* The program starts with the interrupts masked.
LEMMA InitHolds == Init => IInv
<1> SUFFICES ASSUME Init PROVE IInv
  OBVIOUS
<1>1. PICK mask \in Masks :
        cpu = [at |-> "mask0", ret |-> "none", irqs |-> {}, mie |-> FALSE, think |-> 0,
               mask |-> mask, preempted |-> FALSE]
  BY DEF Init
<1>2. Timer \in mask /\ mask \in SUBSET Interrupts
  BY InterruptAssumption DEF Interrupts
<1>3. /\ cpu.at = "mask0" /\ cpu.ret = "none" /\ cpu.irqs = {} /\ cpu.think = 0 /\ ~cpu.mie
      /\ cpu.mask = mask /\ "mask0" \in Setup
  BY <1>1 DEF Setup
<1>4. /\ timer = [count |-> 2^Width - 1, irq |-> 0] /\ pic = [mask |-> {}, irqs |-> {}]
      /\ uart = [rx |-> 0, tx |-> 0, rxWasEmpty |-> TRUE, txWasEmpty |-> TRUE, line |-> 0]
      /\ cyc = 0 /\ ack = 0
      /\ ubuf = [begin |-> 0, overrun |-> FALSE]
      /\ ghost = [owed |-> FALSE, late |-> {}, missed |-> {}, early |-> FALSE, left |-> FALSE]
  BY DEF Init
<1>5. TypeOK
  <2>1. cpu \in CpuType
    <3>1. 0 \in 0 .. MaxThink
      BY Parameters
    <3>2. QED BY <1>1, <1>2, <1>3, <3>1 DEF CpuType
  <2>2. InHandler <=> cpu.at \in Called
    BY <1>3 DEF InHandler, Called
  <2>3. timer \in [count : 0 .. 2^Width - 1, irq : {0, 1}]
    <3>1. 2^Width - 1 \in 0 .. 2^Width - 1
      BY Parameters
    <3>2. QED BY <1>4, <3>1
  <2>4. uart \in [rx : 0 .. FifoDepth, tx : 0 .. FifoDepth, line : 0 .. ByteClocks - 1,
                  rxWasEmpty : BOOLEAN, txWasEmpty : BOOLEAN]
    <3>1. 0 \in 0 .. FifoDepth /\ 0 \in 0 .. ByteClocks - 1
      BY Parameters
    <3>2. QED BY <1>4, <3>1
  <2>5. ubuf \in [begin : 0 .. BufferSize - 1, overrun : BOOLEAN]
    <3>1. 0 \in 0 .. BufferSize - 1
      BY Parameters
    <3>2. QED BY <1>4, <3>1
  <2>6. pic \in [mask : SUBSET Interrupts, irqs : SUBSET Interrupts]
    BY <1>4
  <2>7. ghost \in GhostType
    BY <1>4 DEF GhostType
  <2>8. QED
    BY <1>4, <2>1, <2>2, <2>3, <2>4, <2>5, <2>6, <2>7 DEF TypeOK, GhostType, CpuType
<1>6. ControlInv
  BY <1>2, <1>3, <1>4 DEF ControlInv
<1>7. ServedInv /\ RoomInv /\ ReloadInv
  BY <1>3 DEF ServedInv, RoomInv, ReloadInv
<1>8. OwedInv /\ BytesInv
  BY <1>4 DEF OwedInv, BytesInv
<1>9. DeadlineInv
  BY <1>3, <1>4 DEF DeadlineInv, InLoop, Called
<1>10. QED
  BY <1>5, <1>6, <1>7, <1>8, <1>9 DEF IInv

\* Every clock keeps the invariant.
LEMMA StepHolds == IInv /\ [Next]_vars => IInv'
<1> SUFFICES ASSUME IInv, [Next]_vars PROVE IInv'
  OBVIOUS
<1>1. CASE Next
  <2>1. /\ TypeOK /\ ControlInv /\ ServedInv /\ RoomInv /\ ReloadInv /\ OwedInv /\ BytesInv
        /\ DeadlineInv
    BY DEF IInv
  <2>2. TypeOK' /\ ControlInv' /\ ServedInv' /\ RoomInv' /\ ReloadInv'
    BY <1>1, <2>1, TypeKept, ControlKept, ServedKept, RoomKept, ReloadKept
  <2>3. OwedInv' /\ BytesInv' /\ DeadlineInv'
    BY <1>1, <2>1, OwedKept, BytesKept, DeadlineKept
  <2>4. QED BY <2>2, <2>3 DEF IInv
<1>2. CASE UNCHANGED vars
  <2>1. /\ timer' = timer /\ pic' = pic /\ uart' = uart /\ cyc' = cyc /\ ack' = ack
        /\ cpu' = cpu /\ ubuf' = ubuf /\ ghost' = ghost
    BY <1>2 DEF vars
  <2>2. TypeOK'
    BY <2>1 DEF IInv, TypeOK, InHandler
  <2>3. ControlInv' /\ ServedInv' /\ RoomInv'
    BY <2>1 DEF IInv, ControlInv, ServedInv, RoomInv
  <2>4. Left' = Left /\ Budget' = Budget /\ Latency' = Latency
    BY <2>1 DEF Left, Budget, Latency, Access, HandlerClocks
  <2>5. ReloadInv'
    BY <2>1, <2>4 DEF IInv, ReloadInv, Access
  <2>6. UartIrq' = UartIrq /\ ToServe' = ToServe
    BY <2>1 DEF UartIrq, ToServe
  <2>7. OwedInv'
    BY <2>1, <2>6 DEF IInv, OwedInv
  <2>8. BytesInv'
    BY <2>1, <2>6 DEF IInv, BytesInv, Untold
  <2>9. DeadlineInv'
    BY <2>1, <2>4 DEF IInv, DeadlineInv
  <2>10. QED
    BY <2>2, <2>3, <2>5, <2>7, <2>8, <2>9 DEF IInv
<1>3. QED
  BY <1>1, <1>2

\* The invariant holds at all times.
LEMMA Holds == Spec => []IInv
<1>1. QED
  BY InitHolds, StepHolds, PTL DEF Spec

\* Registers, locals and buffer stay in their ranges, lib::Uart writes within
\* its buffer, and the handler runs only after the drivers are set.
THEOREM TypeCorrect == Spec => []TypeOK
<1>1. IInv => TypeOK
  BY DEF IInv
<1>2. QED
  BY <1>1, Holds, PTL

\* No expiry of the timer and no byte in the FIFO is forgotten on its way to
\* its driver, but for what ClearIrq clears unread, bytes that come before
\* SetMask, and bytes that lib::Uart leaves when its buffer runs over.  Under the
\* mask of pic_test an expiry never is, because the handler is faster than the
\* timer.
THEOREM WakeUpsKept == Spec => []NoWakeUpLost
<1>1. IInv => NoWakeUpLost
  <2> SUFFICES ASSUME IInv PROVE NoWakeUpLost
    OBVIOUS
  <2>1. ghost.owed => \/ timer.irq = 1 \/ Timer \in pic.irqs
                      \/ Timer \in ToServe \/ Timer \in ghost.missed
    BY DEF IInv, OwedInv
  <2>2. (Uart \in pic.mask /\ uart.rx > 0) =>
          \/ UartIrq \/ Uart \in pic.irqs \/ Uart \in ToServe
          \/ Uart \in ghost.missed \/ ghost.early \/ ghost.left
    BY DEF IInv, BytesInv, Untold
  <2>3. cpu.mask = {Timer} => Timer \notin ghost.missed
    BY DEF IInv, DeadlineInv
  <2>4. ghost.left => ubuf.overrun
    BY DEF IInv, BytesInv
  <2>5. QED BY <2>1, <2>2, <2>3, <2>4 DEF NoWakeUpLost
<1>2. QED
  BY <1>1, Holds, PTL

\* The printing loop loses a byte only to the handler's '!', which itself is
\* never lost.
THEOREM HandlerDropsOnly == Spec => OnlyHandlerDropsByte
<1> DEFINE Drops == /\ Ends("bangput") => uart.tx < FifoDepth
                    /\ (Ends("put") /\ uart.tx = FifoDepth) => cpu.preempted
<1>1. IInv => Drops
  <2> SUFFICES ASSUME IInv PROVE Drops
    OBVIOUS
  <2>1. Ends("bangput") => uart.tx < FifoDepth
    BY EndsIs DEF IInv, RoomInv
  <2>2. uart.tx = FifoDepth => ~(uart.tx < FifoDepth)
    BY Parameters
  <2>3. (Ends("put") /\ uart.tx = FifoDepth) => cpu.preempted
    BY <2>2, EndsIs DEF IInv, RoomInv
  <2>4. QED BY <2>1, <2>3
<1>2. IInv /\ [Next]_vars => [Drops]_vars
  BY <1>1
<1>3. QED
  BY <1>2, Holds, PTL DEF Spec, OnlyHandlerDropsByte

=============================================================================
