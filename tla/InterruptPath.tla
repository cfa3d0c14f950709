--------------------------- MODULE InterruptPath ----------------------------
(***************************************************************************)
(* The interrupt path of the SERV processor: ip/wb/timer.vhdl, the pulses  *)
(* of ip/wb_uart, ip/wb/pic.vhdl behind ip/wb/mmreg_decoder.vhdl, and the  *)
(* software on it: lib/pic.cc, lib/timer.cc, lib/uart.cc and the program   *)
(* bin/pic_test, which prints all the time through lib/uart/uart.cc.       *)
(*                                                                         *)
(* A step is one rising edge of clk.  The processor makes one register     *)
(* access after another and may think up to MaxThink clocks in between;    *)
(* cpu.at is the access that it makes, or makes next.                      *)
(***************************************************************************)
EXTENDS Integers, FiniteSets

CONSTANTS
  Width,       \* bits of the counter: 32
  Reload,      \* clocks that pic_test gives the timer: 100000
  Masks,       \* what the program may pass to SetMask
  FifoDepth,   \* bytes of each FIFO of the UART: 8
  ByteClocks,  \* clocks of a byte on the line
  BufferSize,  \* kBufferSize of lib/uart.h: 256
  MaxThink

\* Bits 0 and 1 of the registers of the PIC.
Timer == "timer"
Uart == "uart"

ASSUME InterruptAssumption ==
  /\ {Width, FifoDepth, ByteClocks, BufferSize} \subseteq Nat \ {0}
  /\ MaxThink \in Nat
  /\ Reload \in 1 .. 2^Width - 1
  /\ \A mask \in Masks : Timer \in mask /\ mask \subseteq {Timer, Uart}

\* The most clocks that an access of a register takes, with the thinking.
Access == MaxThink + 3

\* The most that the handler takes until it has reloaded the timer: a byte
\* may have to leave the UART first.
HandlerClocks == ByteClocks + 5 * Access

\* The handler is fast: it is over before the timer that it has reloaded
\* expires, and has begun before the one that called it has gone round.
ASSUME FastHandler ==
  /\ 2 * Access <= Reload
  /\ HandlerClocks + Access + 2 <= 2^Width

VARIABLES
  timer,   \* registers of the timer
  pic,     \* registers of the PIC
  uart,    \* bytes in the FIFOs, their emptiness a clock ago, time of a byte
  cyc,     \* 1 while the processor has an access on the bus
  ack,     \* ack of the decoder that it addresses
  cpu,     \* access, the access an interrupt returns to, locals, mie
  ubuf,    \* the buffer of lib::Uart; nobody calls its Read, so end_ stays
  ghost    \* what the properties remember

vars == <<timer, pic, uart, cyc, ack, cpu, ubuf, ghost>>

UartAccesses == {"poll", "put", "bang", "bangput", "drain"}
InHandler == cpu.ret # "none"

\* The access is over on this edge.  The decoder latches it on one edge and
\* the register is read or written on the next; the UART answers at once.
Ends(at) == cyc = 1 /\ cpu.at = at /\ (at \in UartAccesses \/ ack = 1)
Wrote(ats) == \E at \in ats : Ends(at)

Decoder == ack' = IF cyc = 1 /\ ack = 0 /\ cpu.at \notin UartAccesses THEN 1 ELSE 0

-----------------------------------------------------------------------------
(* The peripherals on an edge.                                             *)

\* Count down, and pulse irq when zero is reached; a write overrides both.
TimerClock ==
  timer' = [count |-> IF Wrote({"count0", "count1", "reload"}) THEN Reload
                      ELSE (timer.count - 1) % 2^Width,
            irq   |-> IF Wrote({"tirq0", "tclear"}) THEN 0
                      ELSE IF timer.count = 0 THEN 1 ELSE 0]

\* The UART pulses when a FIFO is empty no longer.
UartIrq == (uart.rxWasEmpty /\ uart.rx > 0) \/ (uart.txWasEmpty /\ uart.tx > 0)

Pulses == (IF timer.irq = 1 THEN {Timer} ELSE {}) \cup (IF UartIrq THEN {Uart} ELSE {})
Latched == pic.irqs \cup (Pulses \cap pic.mask)

\* Mutant: the write that clears the interrupts clears the mask as well.
PicClockUnmasks ==
  pic' = [mask |-> IF Wrote({"mask0", "clear"}) THEN {}
                   ELSE IF Wrote({"mask1"}) THEN cpu.mask ELSE pic.mask,
          irqs |-> IF Wrote({"irqs0", "clear"}) THEN {} ELSE Latched]

\* A write of irqs replaces every bit, those of this clock included.
PicClock ==
  pic' = [mask |-> IF Wrote({"mask0"}) THEN {}
                   ELSE IF Wrote({"mask1"}) THEN cpu.mask ELSE pic.mask,
          irqs |-> IF Wrote({"irqs0", "clear"}) THEN {} ELSE Latched]

\* A read takes a byte, if there is one; a write to a full FIFO is dropped.
\* Once in ByteClocks a byte may come and one goes.
Reads  == IF (\E at \in {"poll", "bang", "drain"} : Ends(at)) /\ uart.rx > 0 THEN 1 ELSE 0
Writes == IF (\E at \in {"put", "bangput"} : Ends(at)) /\ uart.tx < FifoDepth THEN 1 ELSE 0

UartClock ==
  LET due == uart.line = ByteClocks - 1
  IN \E come \in 0 .. 1 :
       /\ come = 1 => due
       /\ uart' = [rx |-> (uart.rx + (IF uart.rx < FifoDepth THEN come ELSE 0)) - Reads,
                   tx |-> (uart.tx - (IF due /\ uart.tx > 0 THEN 1 ELSE 0)) + Writes,
                   rxWasEmpty |-> uart.rx = 0, txWasEmpty |-> uart.tx = 0,
                   line |-> IF due THEN 0 ELSE uart.line + 1]

-----------------------------------------------------------------------------
(* The processor.                                                          *)

Enabled == cpu.mie /\ ~InHandler /\ pic.irqs # {}

Think ==
  /\ cyc = 0 /\ cpu.think < MaxThink
  /\ cyc' = 0 /\ cpu' = [cpu EXCEPT !.think = @ + 1] /\ UNCHANGED ubuf

Issue ==
  /\ cyc = 0 /\ ~Enabled
  /\ cyc' = 1 /\ cpu' = [cpu EXCEPT !.think = 0] /\ UNCHANGED ubuf

\* The interrupt is taken between two accesses.
Enter ==
  /\ cyc = 0 /\ Enabled
  /\ cyc' = 0 /\ UNCHANGED ubuf
  /\ cpu' = [cpu EXCEPT !.ret = cpu.at, !.at = "bang", !.think = 0,
                        !.preempted = cpu.at = "put"]

Wait ==
  /\ cyc = 1 /\ ~Ends(cpu.at)
  /\ cyc' = 1 /\ UNCHANGED <<cpu, ubuf>>

\* An access ends and the next one follows.
Then(at, next) == Ends(at) /\ cyc' = 0 /\ cpu' = [cpu EXCEPT !.at = next]
Plain(at, next) == Then(at, next) /\ UNCHANGED ubuf

\* Pic::Pic, Timer::Timer, and what main does before its loop.
PicCtor   == Plain("mask0", "irqs0") \/ Plain("irqs0", "count0")
TimerCtor == Plain("count0", "tirq0") \/ Plain("tirq0", "count1")
SetTimer  == Plain("count1", "mask1")
SetMask   == /\ Ends("mask1") /\ cyc' = 0 /\ UNCHANGED ubuf
             /\ cpu' = [cpu EXCEPT !.at = "counter", !.mie = TRUE]

\* The loop: read the counter, and print it byte by byte.
ReadCounter == Plain("counter", "poll")

\* Mutant: the poll does not look whether there is room.
PollIgnoresFull == Plain("poll", "put")

Poll == Plain("poll", IF uart.tx < FifoDepth THEN "put" ELSE "poll")

Put  == /\ Ends("put") /\ cyc' = 0 /\ UNCHANGED ubuf
        /\ \E next \in {"poll", "counter"} :
             cpu' = [cpu EXCEPT !.at = next, !.preempted = FALSE]

\* Pic::InterruptHandler.
Bang    == Plain("bang", IF uart.tx < FifoDepth THEN "bangput" ELSE "bang")
BangPut == Plain("bangput", "rmask")
ReadMask == Plain("rmask", "rirqs")

\* Mutant: one driver is called in an interrupt.
ReadIrqsOne ==
  /\ Ends("rirqs") /\ cyc' = 0 /\ UNCHANGED ubuf
  /\ cpu' = [cpu EXCEPT !.irqs = pic.irqs,
                        !.at = IF Uart \in pic.irqs THEN "drain" ELSE "reload"]

ReadIrqs ==
  /\ Ends("rirqs") /\ cyc' = 0 /\ UNCHANGED ubuf
  /\ cpu' = [cpu EXCEPT !.irqs = pic.irqs,
                        !.at = IF Timer \in pic.irqs THEN "reload"
                               ELSE IF Uart \in pic.irqs THEN "drain" ELSE "clear"]

\* Timer::InterruptHandler.
WriteCounter == Plain("reload", "tclear")
ClearTimer   == Plain("tclear", IF Uart \in cpu.irqs THEN "drain" ELSE "clear")

\* Mutant: begin_ is not wrapped.
DrainUnwrapped ==
  /\ Ends("drain") /\ cyc' = 0
  /\ IF uart.rx = 0
     THEN cpu' = [cpu EXCEPT !.at = "clear"] /\ UNCHANGED ubuf
     ELSE UNCHANGED cpu /\ ubuf' = [ubuf EXCEPT !.begin = @ + 1]

\* Uart::InterruptHandler: read until the FIFO is empty or the buffer runs over.
Drain ==
  /\ Ends("drain") /\ cyc' = 0
  /\ IF uart.rx = 0
     THEN cpu' = [cpu EXCEPT !.at = "clear"] /\ UNCHANGED ubuf
     ELSE LET begin == (ubuf.begin + 1) % BufferSize
          IN IF begin = 0
             THEN cpu' = [cpu EXCEPT !.at = "clear"] /\ ubuf' = [begin |-> 0, overrun |-> TRUE]
             ELSE UNCHANGED cpu /\ ubuf' = [ubuf EXCEPT !.begin = begin]

\* ClearIrq writes 0 whatever its argument is; the handler returns.
ClearIrq ==
  /\ Ends("clear") /\ cyc' = 0 /\ UNCHANGED ubuf
  /\ cpu' = [cpu EXCEPT !.at = cpu.ret, !.ret = "none", !.irqs = {}]

Handler == Enter \/ Bang \/ BangPut \/ ReadMask \/ ReadIrqs \/ WriteCounter \/ ClearTimer
             \/ Drain \/ ClearIrq
Main == PicCtor \/ TimerCtor \/ SetTimer \/ SetMask \/ ReadCounter \/ Poll \/ Put
Processor == Think \/ Issue \/ Wait \/ Main \/ Handler

-----------------------------------------------------------------------------
(* What the properties remember: an expiry since the last reload, the      *)
(* pulses since the handler has read the pending interrupts, those of them *)
(* that its write of 0 has cleared, and bytes in the FIFO that no pulse    *)
(* will announce.                                                          *)

Late == IF Ends("rirqs") THEN Pulses ELSE ghost.late \cup Pulses

\* The bytes in the FIFO still wait for a call of lib::Uart.
StillThere == uart'.rx # 0 /\ ~(Ends("rirqs") /\ Uart \in pic.irqs)

Remember ==
  ghost' = [owed   |-> ~Wrote({"reload"}) /\ (ghost.owed \/ (timer.count = 0 /\ Timer \in pic.mask)),
            late   |-> Late,
            missed |-> ((IF Ends("rirqs") THEN ghost.missed \ pic.irqs ELSE ghost.missed)
                          \cup (IF Ends("clear") THEN Late ELSE {}))
                         \ (IF uart'.rx = 0 THEN {Uart} ELSE {}),
            early  |-> StillThere /\ (ghost.early \/ (Ends("mask1") /\ uart.rx > 0)),
            left   |-> StillThere /\ (ghost.left \/ (Ends("drain") /\ cpu'.at = "clear" /\ uart.rx > 0))]

Init ==
  /\ timer = [count |-> 2^Width - 1, irq |-> 0]
  /\ pic = [mask |-> {}, irqs |-> {}]
  /\ uart = [rx |-> 0, tx |-> 0, rxWasEmpty |-> TRUE, txWasEmpty |-> TRUE, line |-> 0]
  /\ cyc = 0 /\ ack = 0
  /\ \E mask \in Masks :
       cpu = [at |-> "mask0", ret |-> "none", irqs |-> {}, mie |-> FALSE, think |-> 0,
              mask |-> mask, preempted |-> FALSE]
  /\ ubuf = [begin |-> 0, overrun |-> FALSE]
  /\ ghost = [owed |-> FALSE, late |-> {}, missed |-> {}, early |-> FALSE, left |-> FALSE]

Next == Processor /\ Decoder /\ TimerClock /\ PicClock /\ UartClock /\ Remember
Spec == Init /\ [][Next]_vars
\* The clock runs.
FairSpec == Spec /\ WF_vars(Next)

-----------------------------------------------------------------------------
(* Properties.                                                             *)

Setup  == {"mask0", "irqs0", "count0", "tirq0", "count1", "mask1"}
InLoop == {"counter", "poll", "put"}
Called == {"bang", "bangput", "rmask", "rirqs", "reload", "tclear", "drain", "clear"}

Interrupts == {Timer, Uart}

\* Registers and locals have their ranges; lib::Uart writes within its buffer
\* (lib/uart.cc:24), and the handler runs only after pic_test has set the
\* drivers that it calls (lib/pic.h:76 leaves the pointers uninitialized).
TypeOK ==
  /\ timer \in [count : 0 .. 2^Width - 1, irq : {0, 1}]
  /\ pic \in [mask : SUBSET Interrupts, irqs : SUBSET Interrupts]
  /\ uart \in [rx : 0 .. FifoDepth, tx : 0 .. FifoDepth, line : 0 .. ByteClocks - 1,
               rxWasEmpty : BOOLEAN, txWasEmpty : BOOLEAN]
  /\ cyc \in {0, 1} /\ ack \in {0, 1}
  /\ cpu \in [at : Setup \cup InLoop \cup Called, ret : InLoop \cup {"none"},
              irqs : SUBSET Interrupts, mask : SUBSET Interrupts, mie : BOOLEAN,
              think : 0 .. MaxThink, preempted : BOOLEAN]
  /\ InHandler <=> cpu.at \in Called
  /\ ubuf \in [begin : 0 .. BufferSize - 1, overrun : BOOLEAN]
  /\ ghost \in [owed : BOOLEAN, late : SUBSET Interrupts, missed : SUBSET Interrupts,
                early : BOOLEAN, left : BOOLEAN]

\* Interrupts that were pending when the handler read the register and
\* whose driver it has still to call.
ToServe == CASE cpu.at \in {"bang", "bangput", "rmask", "rirqs"} -> pic.irqs
             [] cpu.at = "reload" -> cpu.irqs
             [] cpu.at \in {"tclear", "drain"} -> cpu.irqs \ {Timer}
             [] OTHER -> {}

\* An expiry of the timer, or a byte in the FIFO, is on its way to its driver
\* until that is called, whatever edges it meets (pic.vhdl:108, timer.vhdl:
\* 103), with three exceptions.  The handler clears every pending bit, those
\* that have come since it read them included (lib/pic.cc:102): under the mask
\* {timer, uart} either interrupt may be lost so, under the mask of pic_test the
\* expiry never is.  Bytes that come before SetMask are not announced.  And
\* lib::Uart leaves bytes in the FIFO when its buffer runs over, then only
\* (lib/uart.cc:28).
NoWakeUpLost ==
  /\ ghost.owed => \/ timer.irq = 1 \/ Timer \in pic.irqs
                   \/ Timer \in ToServe \/ Timer \in ghost.missed
  /\ (Uart \in pic.mask /\ uart.rx > 0) =>
       \/ UartIrq \/ Uart \in pic.irqs \/ Uart \in ToServe
       \/ Uart \in ghost.missed \/ ghost.early \/ ghost.left
  /\ cpu.mask = {Timer} => Timer \notin ghost.missed
  /\ ghost.left => ubuf.overrun

\* UartBuf::Put looks for room and then writes (lib/uart/uart.cc:84): its
\* byte is dropped only if the handler has put its '!' in between, and the
\* handler's own byte never is.
OnlyHandlerDropsByte ==
  [][/\ Ends("bangput") => uart.tx < FifoDepth
     /\ (Ends("put") /\ uart.tx = FifoDepth) => cpu.preempted]_vars

\* The timer that pic_test sets is served again and again: no interrupt of
\* its own, of the UART or of the printing loop stops it for good.
TimerServed == cpu.mask = {Timer} => []<>(cpu.at = "tclear")
=============================================================================
