---------------------------- MODULE SdCardProofs ----------------------------
(***************************************************************************)
(* Proofs about the SD card driver and its peripheral, for every divider,  *)
(* number of polls and retries, block length, delay and content of a card. *)
(***************************************************************************)
EXTENDS SdCard, SequenceTheorems, TLAPS

\* What the peripheral shifts, and what the driver waits for, fit together.
ShiftInv ==
  /\ spi.busy = (IF spi.state = "IDLE" THEN 0 ELSE 1)
  /\ regs.ack = 1 => cyc = 1
  /\ cyc = 1 => drv.at # "none"
  /\ spi.state # "IDLE" => drv.at = "status" \/ (drv.at = "put" /\ regs.ack = 1)
  /\ drv.at = "put" /\ regs.ack = 1 => spi.state = "TRANSFER"
  /\ drv.at = "status" /\ regs.ack = 1 /\ regs.rdt.ctrl.busy = 0 => spi.state = "IDLE"

\* What may come after a row of transfers.
RowPcs == {"off", "sent", "poll", "dummies", "r7", "token", "data", "crc"}

\* The driver is in the middle of a row of transfers.
Transferring(d) == d.at \in {"put", "status", "get"}

\* Where the driver can be, and the locals that are set there.
Flow(d) ==
  /\ d.call = "none" <=> d.at = "none"
  /\ d.call = "ReadBlock" => d.addr \in DOMAIN Content /\ d.inited
  /\ d.call = "Init" => ~d.inited
  /\ Transferring(d) =>
       /\ d.send # <<>>
       /\ d.pc \in RowPcs
       /\ d.pc \in {"sent", "poll"} =>
            /\ d.cmd \in Commands
            /\ d.call = (IF d.cmd = CMD17 THEN "ReadBlock" ELSE "Init")
            /\ d.cmd \in {CMD55, ACMD41} => d.retries > 0
            /\ d.cmd = CMD17 => d.buffer = <<>>
       /\ d.pc \in {"dummies", "r7"} => d.call = "Init"
       /\ d.pc \in {"token", "data", "crc"} => d.call = "ReadBlock"
       /\ d.pc = "token" => d.retries > 0 /\ d.buffer = <<>>
       /\ d.pc = "data" => Len(d.buffer) < BlockLen
  /\ d.at \in {"readcs", "setcs"} =>
       \/ d.pc = "off"
       \/ d.pc = "cmd0" /\ d.call = "Init"
       \/ d.pc = "cmd17" /\ d.call = "ReadBlock" /\ d.buffer = <<>>
  /\ d.at \in {"slow", "fast"} => d.call = "Init"

\* The chip select: set between Select and Deselect, and only there.
Selects(d, cs) ==
  /\ d.at = "setcs" => d.ctrl.cs = (IF d.pc = "off" THEN 1 ELSE 0)
  /\ Transferring(d) => cs = (IF d.pc \in {"off", "dummies"} THEN 1 ELSE 0)
  /\ d.at \in {"none", "slow", "fast"} => cs = 1

\* The divider: Init transfers with the slow one, and no other write of the
\* control register changes it.
Clocks(d, div) ==
  /\ d.at = "setcs" => d.ctrl.div = div
  /\ d.call = "Init" /\ d.at \notin {"slow", "fast"} => div = SlowDiv

\* A driver with these locals may run with this control register.
Driving(d, cs, div) ==
  /\ d \in DrvType /\ Len(d.buffer) <= BlockLen
  /\ Flow(d) /\ Selects(d, cs) /\ Clocks(d, div)

\* The control register of an access that has been taken, and what a
\* deselected card forgets.
TakenInv ==
  /\ regs.cs = 1 => card.queue = <<>> /\ card.got = <<>>
  /\ drv.at = "setcs" /\ regs.ack = 1 => regs.cs = drv.ctrl.cs
  /\ drv.at = "readcs" /\ regs.ack = 1 => regs.rdt.ctrl.div = regs.clk_div
  /\ drv.at = "slow" /\ regs.ack = 1 => regs.clk_div = SlowDiv

DriverInv == Driving(drv, regs.cs, regs.clk_div)
-----------------------------------------------------------------------------
(* The bytes that a driver sends.                                          *)

\* The parameters, one by one.
LEMMA Parameters ==
  /\ Bits \in Nat \ {0} /\ SlowDiv \in Nat \ {0} /\ FastDiv \in Nat \ {0}
  /\ Dummies \in Nat \ {0} /\ Polls \in Nat \ {0} /\ Retries \in Nat \ {0}
  /\ BlockLen \in Nat \ {0} /\ NcrMax \in Nat /\ TokenMax \in Nat /\ NcrMax < Polls
  /\ DOMAIN Content \subseteq Nat
  /\ \A a \in DOMAIN Content : Content[a] \in [1 .. BlockLen -> Bytes]
  BY SdAssumption

\* An address of the card has 32 bits.
LEMMA Addresses == \A a \in DOMAIN Content : a \in Nat /\ a \div 16777216 < 256
  BY SdAssumption

\* A row of dummy clocks is a sequence of bytes.
LEMMA IdlesType ==
  ASSUME NEW n \in Nat
  PROVE  /\ Idles(n) \in Seq(Bytes)
         /\ Len(Idles(n)) = n
         /\ \A i \in 1 .. n : Idles(n)[i] = Idle
<1>1. Idle \in Bytes
  BY DEF Idle, Bytes
<1>2. Idles(n) \in [1 .. n -> Bytes]
  BY <1>1 DEF Idles
<1>3. Idles(n) \in Seq(Bytes)
  BY <1>2
<1>4. QED
  BY <1>2, <1>3 DEF Idles

\* The bytes of an argument are bytes.
LEMMA ByteOfType ==
  ASSUME NEW arg \in Nat
  PROVE  /\ ByteOf(arg, 3) \in Bytes /\ ByteOf(arg, 2) \in Bytes
         /\ ByteOf(arg, 1) \in Bytes /\ ByteOf(arg, 0) \in Bytes
<1>1. ASSUME NEW p \in Nat \ {0} PROVE (arg \div p) % 256 \in Bytes
  <2>1. arg \div p \in Int
    OBVIOUS
  <2>2. QED BY <2>1 DEF Bytes
<1>2. QED
  BY <1>1 DEF ByteOf

\* The codes of the commands are bytes, and differ.
LEMMA CommandBytes ==
  /\ Commands \subseteq Bytes
  /\ Idle \in Bytes /\ Idle \notin Commands
  BY DEF Commands, CMD0, CMD8, CMD17, CMD55, ACMD41, Idle, Bytes

\* What Transfers makes of the locals.
LEMMA TransfersIs ==
  ASSUME NEW d \in DrvType, NEW bytes \in Seq(Bytes),
         NEW pc \in RowPcs
  PROVE  LET e == Transfers(d, bytes, pc)
         IN /\ e \in DrvType
            /\ e.at = "put" /\ e.send = bytes /\ e.pc = pc
            /\ e.call = d.call /\ e.inited = d.inited /\ e.cmd = d.cmd /\ e.polls = d.polls
            /\ e.retries = d.retries /\ e.addr = d.addr /\ e.buffer = d.buffer
            /\ e.ret = d.ret /\ e.ctrl = d.ctrl
  BY DEF Transfers, DrvType, RowPcs

\* A frame is a sequence of seven bytes.
LEMMA FrameType ==
  ASSUME NEW cmd \in Commands, NEW arg \in Nat, NEW crc \in Bytes
  PROVE  /\ CommandFrame(cmd, arg, crc) \in Seq(Bytes)
         /\ Len(CommandFrame(cmd, arg, crc)) = 7
         /\ CommandFrame(cmd, arg, crc) # <<>>
  BY ByteOfType, CommandBytes DEF CommandFrame

\* What SendCommand makes of the locals.
LEMMA SendCommandIs ==
  ASSUME NEW d \in DrvType, NEW cmd \in Commands, NEW arg \in Nat, NEW crc \in Bytes
  PROVE  LET e == SendCommand(d, cmd, arg, crc)
         IN /\ e \in DrvType
            /\ e.at = "put" /\ e.send = CommandFrame(cmd, arg, crc) /\ e.pc = "sent"
            /\ e.call = d.call /\ e.inited = d.inited /\ e.cmd = cmd /\ e.polls = 0
            /\ e.retries = d.retries /\ e.addr = d.addr /\ e.buffer = d.buffer
            /\ e.ret = d.ret /\ e.ctrl = d.ctrl
<1> DEFINE frame == CommandFrame(cmd, arg, crc)
           f == [d EXCEPT !.cmd = cmd, !.polls = 0]
<1>1. frame \in Seq(Bytes)
  BY FrameType
<1>2. f \in DrvType
  <2>1. 0 \in 0 .. Polls - 1
    BY Parameters
  <2>2. QED BY <2>1 DEF DrvType
<1>3. /\ f.cmd = cmd /\ f.polls = 0 /\ f.call = d.call /\ f.inited = d.inited
      /\ f.retries = d.retries /\ f.addr = d.addr /\ f.buffer = d.buffer
      /\ f.ret = d.ret /\ f.ctrl = d.ctrl
  BY DEF DrvType
<1>4. SendCommand(d, cmd, arg, crc) = Transfers(f, frame, "sent")
  BY DEF SendCommand
<1> HIDE DEF f, frame
<1>5. "sent" \in RowPcs
  BY DEF RowPcs
<1>6. QED
  BY <1>1, <1>2, <1>3, <1>4, <1>5, TransfersIs DEF frame
-----------------------------------------------------------------------------
(* The driver.  Each function of the driver keeps its locals in their      *)
(* types, and leads to a place that Driving allows.                        *)

\* A transfer of one or more dummy bytes.
LEMMA IdleRowStarts ==
  ASSUME NEW d, NEW cs, NEW div, NEW bytes \in Seq(Bytes), bytes # <<>>,
         d \in DrvType, Len(d.buffer) <= BlockLen,
         d.call = "ReadBlock" => d.addr \in DOMAIN Content /\ d.inited,
         d.call = "Init" => ~d.inited /\ div = SlowDiv,
         NEW pc \in {"off", "dummies", "r7", "token", "data", "crc"},
         d.call # "none",
         pc \in {"dummies", "r7"} => d.call = "Init",
         pc \in {"token", "data", "crc"} => d.call = "ReadBlock",
         pc = "token" => d.retries > 0 /\ d.buffer = <<>>,
         pc = "data" => Len(d.buffer) < BlockLen,
         cs = (IF pc \in {"off", "dummies"} THEN 1 ELSE 0)
  PROVE  Driving(Transfers(d, bytes, pc), cs, div)
<1> DEFINE e == Transfers(d, bytes, pc)
<1>0. pc \in RowPcs
  BY DEF RowPcs
<1>1. e \in DrvType
  BY <1>0, TransfersIs
<1>2. /\ e.at = "put" /\ e.send = bytes /\ e.pc = pc /\ e.call = d.call /\ e.inited = d.inited
      /\ e.addr = d.addr /\ e.retries = d.retries /\ e.buffer = d.buffer /\ e.ctrl = d.ctrl
  BY <1>0, TransfersIs
<1> HIDE DEF e
<1>3. Flow(e) /\ Selects(e, cs) /\ Clocks(e, div)
  BY <1>0, <1>2 DEF Flow, Selects, Clocks, Transferring
<1>4. QED
  BY <1>1, <1>2, <1>3 DEF Driving, e

\* A poll for the answer to the command that has been sent.
LEMMA PollStarts ==
  ASSUME NEW d, NEW cs, NEW div, Driving(d, cs, div), Transferring(d), d.pc \in {"sent", "poll"},
         NEW p \in 0 .. Polls - 1
  PROVE  Driving(Transfers([d EXCEPT !.polls = p], <<Idle>>, "poll"), cs, div)
<1> DEFINE f == [d EXCEPT !.polls = p]
           e == Transfers(f, <<Idle>>, "poll")
<1>1. d \in DrvType /\ Len(d.buffer) <= BlockLen /\ Flow(d) /\ Selects(d, cs) /\ Clocks(d, div)
  BY DEF Driving
<1>2. f \in DrvType
  BY <1>1 DEF DrvType
<1>b. <<Idle>> \in Seq(Bytes) /\ "poll" \in RowPcs
  BY CommandBytes DEF RowPcs
<1>f. /\ f.cmd = d.cmd /\ f.call = d.call /\ f.inited = d.inited
      /\ f.retries = d.retries /\ f.addr = d.addr /\ f.buffer = d.buffer /\ f.ctrl = d.ctrl
  BY <1>1 DEF DrvType
<1> HIDE DEF f
<1>3. e \in DrvType
  BY <1>2, <1>b, TransfersIs
<1>4. /\ e.at = "put" /\ e.send = <<Idle>> /\ e.pc = "poll" /\ e.call = d.call
      /\ e.inited = d.inited /\ e.addr = d.addr /\ e.retries = d.retries
      /\ e.buffer = d.buffer /\ e.ctrl = d.ctrl /\ e.cmd = d.cmd
  BY <1>2, <1>b, <1>f, TransfersIs
<1> HIDE DEF e
<1>5. Flow(e)
  BY <1>1, <1>4, <1>b DEF Flow, Transferring
<1>6. Selects(e, cs) /\ Clocks(e, div)
  BY <1>1, <1>4 DEF Selects, Clocks, Transferring
<1>7. QED
  BY <1>1, <1>3, <1>4, <1>5, <1>6 DEF Driving, e, f

\* The next command of a call.
LEMMA CommandStarts ==
  ASSUME NEW d, NEW div, NEW cmd \in Commands, NEW arg \in Nat, NEW crc \in Bytes,
         d \in DrvType, Len(d.buffer) <= BlockLen,
         d.call = (IF cmd = CMD17 THEN "ReadBlock" ELSE "Init"),
         d.call = "ReadBlock" => d.addr \in DOMAIN Content /\ d.inited /\ d.buffer = <<>>,
         d.call = "Init" => ~d.inited /\ div = SlowDiv,
         cmd \in {CMD55, ACMD41} => d.retries > 0
  PROVE  Driving(SendCommand(d, cmd, arg, crc), 0, div)
<1> DEFINE e == SendCommand(d, cmd, arg, crc)
           frame == CommandFrame(cmd, arg, crc)
<1>1. e \in DrvType
  BY SendCommandIs
<1>2. /\ e.at = "put" /\ e.send = frame /\ e.pc = "sent" /\ e.call = d.call /\ e.cmd = cmd
      /\ e.inited = d.inited /\ e.addr = d.addr /\ e.retries = d.retries
      /\ e.buffer = d.buffer /\ e.ctrl = d.ctrl
  BY SendCommandIs
<1>3. frame # <<>>
  BY FrameType
<1> HIDE DEF e, frame
<1>4. Flow(e)
  BY <1>2, <1>3 DEF Flow, Transferring, RowPcs
<1>5. Selects(e, 0) /\ Clocks(e, div)
  BY <1>2 DEF Selects, Clocks, Transferring
<1>6. QED
  BY <1>1, <1>2, <1>4, <1>5 DEF Driving, e

\* Deselect reads the control register first.
LEMMA DeselectStarts ==
  ASSUME NEW d, NEW cs, NEW div, d \in DrvType, Len(d.buffer) <= BlockLen,
         NEW ret \in {0, -1, -2},
         d.call # "none",
         d.call = "ReadBlock" => d.addr \in DOMAIN Content /\ d.inited,
         d.call = "Init" => ~d.inited /\ div = SlowDiv
  PROVE  Driving(Deselect(d, ret), cs, div)
<1> DEFINE e == Deselect(d, ret)
<1>1. /\ e \in DrvType
      /\ e.at = "readcs" /\ e.pc = "off" /\ e.call = d.call /\ e.inited = d.inited
      /\ e.addr = d.addr /\ e.buffer = d.buffer
  BY DEF Deselect, DrvType
<1> HIDE DEF e
<1>2. Flow(e) /\ Selects(e, cs) /\ Clocks(e, div)
  BY <1>1 DEF Flow, Selects, Clocks, Transferring
<1>3. QED
  BY <1>1, <1>2 DEF Driving, e

\* Another round of CMD55 and ACMD41, or the end of the tries.
LEMMA NextTryStarts ==
  ASSUME NEW d, NEW div, d \in DrvType, Len(d.buffer) <= BlockLen,
         d.call = "Init", ~d.inited, div = SlowDiv
  PROVE  Driving(NextTry(d), 0, div)
<1>1. CASE d.retries = 0
  BY <1>1, DeselectStarts DEF NextTry
<1>2. CASE d.retries # 0
  <2>1. d.retries > 0
    BY <1>2, Parameters DEF DrvType
  <2>2. CMD55 \in Commands /\ CMD55 # CMD17 /\ Idle \in Bytes /\ 0 \in Nat
    BY DEF Commands, CMD55, CMD17, Idle, Bytes
  <2>3. Driving(SendCommand(d, CMD55, 0, Idle), 0, div)
    BY <2>1, <2>2, CommandStarts
  <2>4. QED
    BY <1>2, <2>3 DEF NextTry
<1>3. QED
  BY <1>1, <1>2

\* What the callers of SendCommand do with its result.
LEMMA ReturnedStarts ==
  ASSUME NEW d, NEW div, NEW res, Driving(d, 0, div), Transferring(d), d.pc \in {"sent", "poll"}
  PROVE  Driving(Returned(d, res), 0, div)
<1>a. d \in DrvType /\ Len(d.buffer) <= BlockLen /\ Flow(d) /\ Clocks(d, div)
  BY DEF Driving
<1>b. /\ d.cmd \in Commands
      /\ d.call = (IF d.cmd = CMD17 THEN "ReadBlock" ELSE "Init")
      /\ d.cmd \in {CMD55, ACMD41} => d.retries > 0
      /\ d.call = "ReadBlock" => d.addr \in DOMAIN Content /\ d.inited /\ d.buffer = <<>>
      /\ d.call = "Init" => ~d.inited /\ div = SlowDiv
  BY <1>a DEF Flow, Clocks, Transferring
<1>c. /\ CMD0 # CMD17 /\ CMD8 # CMD17 /\ CMD55 # CMD17 /\ ACMD41 # CMD17
      /\ CMD0 # CMD8 /\ CMD0 # CMD55 /\ CMD0 # ACMD41 /\ CMD8 # CMD55 /\ CMD8 # ACMD41
      /\ CMD55 # ACMD41
      /\ {CMD0, CMD8, CMD17, CMD55, ACMD41} = Commands
  BY DEF CMD0, CMD8, CMD17, CMD55, ACMD41, Commands
<1>d. ASSUME NEW ret \in {0, -1, -2} PROVE Driving(Deselect(d, ret), 0, div)
  BY <1>a, <1>b, <1>d, DeselectStarts
<1>e. <<Idle>> \in Seq(Bytes) /\ <<Idle>> # <<>> /\ Idle \in Bytes
  BY CommandBytes
<1>1. CASE d.cmd = CMD0
  <2>1. 426 \in Nat /\ 135 \in Bytes
    BY DEF Bytes
  <2>2. Driving(SendCommand(d, CMD8, 426, 135), 0, div)
    BY <1>1, <1>a, <1>b, <1>c, <2>1, CommandStarts
  <2>3. Returned(d, res) = AfterCmd0(d, res)
    BY <1>1, <1>c DEF Returned
  <2>4. QED
    BY <1>d, <2>2, <2>3 DEF AfterCmd0
<1>2. CASE d.cmd = CMD8
  <2>1. Idles(4) \in Seq(Bytes) /\ Idles(4) # <<>>
    BY IdlesType
  <2>2. Driving(Transfers(d, Idles(4), "r7"), 0, div)
    BY <1>2, <1>a, <1>b, <1>c, <2>1, IdleRowStarts
  <2>3. Driving(NextTry([d EXCEPT !.retries = Retries]), 0, div)
    <3> DEFINE f == [d EXCEPT !.retries = Retries]
    <3>1. f \in DrvType
      <4>1. Retries \in 0 .. Retries
        BY Parameters
      <4>2. QED BY <1>a, <4>1 DEF DrvType
    <3>2. f.buffer = d.buffer /\ f.call = d.call /\ f.inited = d.inited
      BY <1>a DEF DrvType
    <3> HIDE DEF f
    <3>3. Driving(NextTry(f), 0, div)
      BY <1>2, <1>a, <1>b, <1>c, <3>1, <3>2, NextTryStarts
    <3>4. QED BY <3>3 DEF f
  <2>4. Returned(d, res) = AfterCmd8(d, res)
    BY <1>2, <1>c DEF Returned
  <2>5. QED
    BY <2>2, <2>3, <2>4 DEF AfterCmd8
<1>3. CASE d.cmd = CMD55
  <2>1. 1073741824 \in Nat
    OBVIOUS
  <2>2. Driving(SendCommand(d, ACMD41, 1073741824, Idle), 0, div)
    BY <1>3, <1>a, <1>b, <1>c, <1>e, <2>1, CommandStarts
  <2>3. Returned(d, res) = SendCommand(d, ACMD41, 1073741824, Idle)
    BY <1>3, <1>c DEF Returned
  <2>4. QED
    BY <2>2, <2>3
<1>4. CASE d.cmd = ACMD41
  <2>1. Driving(NextTry([d EXCEPT !.retries = @ - 1]), 0, div)
    <3> DEFINE f == [d EXCEPT !.retries = @ - 1]
    <3>1. f \in DrvType
      <4>1. d.retries - 1 \in 0 .. Retries
        BY <1>4, <1>a, <1>b, Parameters DEF DrvType
      <4>2. QED BY <1>a, <4>1 DEF DrvType
    <3>2. f.buffer = d.buffer /\ f.call = d.call /\ f.inited = d.inited
      BY <1>a DEF DrvType
    <3> HIDE DEF f
    <3>3. Driving(NextTry(f), 0, div)
      BY <1>4, <1>a, <1>b, <1>c, <3>1, <3>2, NextTryStarts
    <3>4. QED BY <3>3 DEF f
  <2>2. Returned(d, res) = AfterAcmd41(d, res)
    BY <1>4, <1>c DEF Returned
  <2>3. QED
    BY <1>d, <2>1, <2>2 DEF AfterAcmd41
<1>5. CASE d.cmd = CMD17
  <2>1. Driving(Transfers([d EXCEPT !.retries = Retries], <<Idle>>, "token"), 0, div)
    <3> DEFINE f == [d EXCEPT !.retries = Retries]
    <3>1. f \in DrvType
      <4>1. Retries \in 0 .. Retries
        BY Parameters
      <4>2. QED BY <1>a, <4>1 DEF DrvType
    <3>2. /\ f.buffer = d.buffer /\ f.call = d.call /\ f.inited = d.inited /\ f.addr = d.addr
          /\ f.retries > 0
      BY <1>a, Parameters DEF DrvType
    <3> HIDE DEF f
    <3>3. Driving(Transfers(f, <<Idle>>, "token"), 0, div)
      BY <1>5, <1>a, <1>b, <1>e, <3>1, <3>2, IdleRowStarts
    <3>4. QED BY <3>3 DEF f
  <2>2. Returned(d, res) = AfterCmd17(d, res)
    BY <1>5, <1>c DEF Returned
  <2>3. QED
    BY <1>d, <2>1, <2>2 DEF AfterCmd17
<1>6. QED
  BY <1>1, <1>2, <1>3, <1>4, <1>5, <1>b, <1>c

\* A call that ends leaves the card deselected.
LEMMA ReturnIs ==
  ASSUME NEW d, NEW div, d \in DrvType, Len(d.buffer) <= BlockLen
  PROVE  Driving(Return(d), 1, div)
<1> DEFINE e == Return(d)
           i == d.inited \/ (d.call = "Init" /\ d.ret = 0)
<1>a. i \in BOOLEAN
  OBVIOUS
<1>b. e = [d EXCEPT !.call = "none", !.at = "none", !.pc = "none", !.send = <<>>, !.inited = i]
  BY DEF Return
<1> HIDE DEF e, i
<1>c. <<>> \in Seq(Bytes)
  OBVIOUS
<1>1. /\ e \in DrvType
      /\ e.call = "none" /\ e.at = "none" /\ e.buffer = d.buffer
  BY <1>a, <1>b, <1>c DEF DrvType
<1> HIDE DEF e
<1>2. Flow(e) /\ Selects(e, 1) /\ Clocks(e, div)
  BY <1>1 DEF Flow, Selects, Clocks, Transferring
<1>3. QED
  BY <1>1, <1>2 DEF Driving, e

\* The driver takes up where its last access has ended.
LEMMA DriverStep ==
  ASSUME TypeOK, TakenInv, DriverInv, Driver, regs.ack = 1
  PROVE  Driving(drv', regs.cs, regs.clk_div)
<1> DEFINE cs == regs.cs
           div == regs.clk_div
<1>a. /\ drv \in DrvType /\ Len(drv.buffer) <= BlockLen
      /\ Flow(drv) /\ Selects(drv, cs) /\ Clocks(drv, div)
  BY DEF DriverInv, Driving
<1>b. regs.rdt.data \in Bytes \cup {Mixed} /\ regs.rdt.ctrl \in Controls /\ cs \in {0, 1}
  BY DEF TypeOK, RegsType, ReadType
<1>c. /\ drv.call = "ReadBlock" => drv.addr \in DOMAIN Content /\ drv.inited
      /\ drv.call = "Init" => ~drv.inited
      /\ drv.call = "Init" /\ drv.at \notin {"slow", "fast"} => div = SlowDiv
      /\ drv.at # "none" => drv.call # "none"
  BY <1>a DEF Flow, Clocks
<1>e. <<Idle>> \in Seq(Bytes) /\ <<Idle>> # <<>> /\ Idle \in Bytes
  BY CommandBytes
<1>1. CASE Put \/ Status
  <2> DEFINE to == drv'.at
  <2>1. /\ drv.at \in {"put", "status"} /\ to \in {"status", "get"}
        /\ drv' = [drv EXCEPT !.at = to]
    BY <1>1, <1>a DEF Put, Status, DrvType
  <2>2. /\ drv' \in DrvType
        /\ drv'.call = drv.call /\ drv'.inited = drv.inited /\ drv'.addr = drv.addr
        /\ drv'.send = drv.send /\ drv'.pc = drv.pc /\ drv'.cmd = drv.cmd
        /\ drv'.retries = drv.retries /\ drv'.buffer = drv.buffer
    BY <2>1, <1>a DEF DrvType
  <2> HIDE DEF to
  <2>3. Flow(drv') /\ Selects(drv', cs) /\ Clocks(drv', div)
    BY <1>a, <2>1, <2>2 DEF Flow, Selects, Clocks, Transferring, to
  <2>4. QED
    BY <1>a, <2>2, <2>3 DEF Driving
<1>2. CASE GetMore
  <2>1. /\ drv.at = "get" /\ Len(drv.send) > 1
        /\ drv' = [drv EXCEPT !.at = "put", !.send = Tail(@)]
    BY <1>2 DEF GetMore
  <2>2. drv.send \in Seq(Bytes) /\ Tail(drv.send) \in Seq(Bytes) /\ Tail(drv.send) # <<>>
    <3>1. drv.send \in Seq(Bytes) /\ drv.send # <<>>
      BY <2>1, <1>a DEF DrvType, Flow, Transferring
    <3>2. QED
      BY <2>1, <3>1, HeadTailProperties, EmptySeq
  <2>3. /\ drv' \in DrvType /\ drv'.at = "put" /\ drv'.send # <<>>
        /\ drv'.call = drv.call /\ drv'.inited = drv.inited /\ drv'.addr = drv.addr
        /\ drv'.pc = drv.pc /\ drv'.cmd = drv.cmd
        /\ drv'.retries = drv.retries /\ drv'.buffer = drv.buffer
    BY <2>1, <2>2, <1>a DEF DrvType
  <2>4. Flow(drv') /\ Selects(drv', cs) /\ Clocks(drv', div)
    BY <1>a, <2>1, <2>3 DEF Flow, Selects, Clocks, Transferring
  <2>5. QED
    BY <1>a, <2>3, <2>4 DEF Driving
<1>3. CASE ReadCs
  <2> DEFINE c == [regs.rdt.ctrl EXCEPT !.cs = IF drv.pc = "off" THEN 1 ELSE 0]
  <2>1. drv.at = "readcs" /\ drv' = [drv EXCEPT !.at = "setcs", !.ctrl = c]
    BY <1>3 DEF ReadCs
  <2>2. /\ c \in Controls /\ c.cs = (IF drv.pc = "off" THEN 1 ELSE 0)
        /\ c.div = div
    BY <1>b, <2>1 DEF Controls, TakenInv
  <2> HIDE DEF c
  <2>3. /\ drv' \in DrvType /\ drv'.at = "setcs" /\ drv'.ctrl = c
        /\ drv'.call = drv.call /\ drv'.inited = drv.inited /\ drv'.addr = drv.addr
        /\ drv'.pc = drv.pc /\ drv'.buffer = drv.buffer
    BY <2>1, <2>2, <1>a DEF DrvType
  <2>4. Flow(drv') /\ Selects(drv', cs) /\ Clocks(drv', div)
    BY <1>a, <2>1, <2>2, <2>3 DEF Flow, Selects, Clocks, Transferring
  <2>5. QED
    BY <1>a, <2>3, <2>4 DEF Driving
<1>4. CASE SetCs
  <2>1. drv.at = "setcs" /\ cs = (IF drv.pc = "off" THEN 1 ELSE 0)
    BY <1>4, <1>a DEF SetCs, TakenInv, Selects
  <2>2. CASE drv.pc = "off"
    <3>1. drv' = Transfers(drv, <<Idle>>, "off")
      BY <1>4, <2>2 DEF SetCs
    <3>2. Driving(Transfers(drv, <<Idle>>, "off"), cs, div)
      BY <1>a, <1>c, <1>e, <2>1, <2>2, IdleRowStarts
    <3>3. QED BY <3>1, <3>2
  <2>3. CASE drv.pc = "cmd0"
    <3>1. drv' = SendCommand(drv, CMD0, 0, 149)
      BY <1>4, <2>3 DEF SetCs
    <3>2. CMD0 \in Commands /\ CMD0 \notin {CMD17, CMD55, ACMD41} /\ 149 \in Bytes /\ 0 \in Nat
      BY DEF Commands, CMD0, CMD17, CMD55, ACMD41, Bytes
    <3>3. drv.call = "Init"
      BY <1>a, <2>1, <2>3 DEF Flow
    <3>4. Driving(SendCommand(drv, CMD0, 0, 149), 0, div)
      BY <1>a, <1>c, <2>1, <3>2, <3>3, CommandStarts
    <3>5. QED BY <2>1, <2>3, <3>1, <3>4
  <2>4. CASE drv.pc = "cmd17"
    <3>1. drv' = SendCommand(drv, CMD17, drv.addr, Idle)
      BY <1>4, <2>4 DEF SetCs
    <3>2. CMD17 \in Commands /\ CMD17 \notin {CMD55, ACMD41}
      BY DEF Commands, CMD17, CMD55, ACMD41
    <3>3. drv.call = "ReadBlock" /\ drv.buffer = <<>> /\ drv.addr \in Nat
      BY <1>a, <1>c, <2>1, <2>4, Parameters DEF Flow
    <3>4. Driving(SendCommand(drv, CMD17, drv.addr, Idle), 0, div)
      BY <1>a, <1>c, <1>e, <2>1, <3>2, <3>3, CommandStarts
    <3>5. QED BY <2>1, <2>4, <3>1, <3>4
  <2>5. QED
    BY <1>a, <2>1, <2>2, <2>3, <2>4 DEF Flow
<1>g. ASSUME NEW pc, Got(pc)
      PROVE  /\ drv.at = "get" /\ Transferring(drv) /\ drv.pc = pc
             /\ cs = (IF pc \in {"off", "dummies"} THEN 1 ELSE 0)
             /\ drv.call # "none"
             /\ drv.call = "Init" => div = SlowDiv
  BY <1>a, <1>c, <1>g DEF Got, Transferring, Selects
<1>5. CASE Sent
  <2>1. Got("sent") /\ drv' = Transfers(drv, <<Idle>>, "poll")
    BY <1>5 DEF Sent
  <2>2. drv.polls \in 0 .. Polls - 1 /\ drv = [drv EXCEPT !.polls = drv.polls]
    BY <1>a DEF DrvType
  <2>3. Driving(Transfers([drv EXCEPT !.polls = drv.polls], <<Idle>>, "poll"), cs, div)
    BY <1>a, <1>g, <2>1, <2>2, PollStarts DEF Driving
  <2>4. QED
    BY <2>1, <2>2, <2>3
<1>6. CASE Poll
  <2>1. Got("poll") /\ cs = 0 /\ Driving(drv, 0, div)
    BY <1>6, <1>a, <1>g DEF Poll, Driving
  <2>2. \A res : Driving(Returned(drv, res), 0, div)
    BY <1>g, <2>1, ReturnedStarts
  <2>3. CASE regs.rdt.data < 128 \/ drv.polls + 1 = Polls
    <3>1. \E res : drv' = Returned(drv, res)
      BY <1>6, <2>3 DEF Poll
    <3>2. QED BY <2>1, <2>2, <3>1
  <2>4. CASE ~(regs.rdt.data < 128) /\ drv.polls + 1 # Polls
    <3>1. drv' = Transfers([drv EXCEPT !.polls = drv.polls + 1], <<Idle>>, "poll")
      BY <1>6, <2>4 DEF Poll
    <3>2. drv.polls + 1 \in 0 .. Polls - 1
      BY <1>a, <2>4, Parameters DEF DrvType
    <3>3. Driving(Transfers([drv EXCEPT !.polls = drv.polls + 1], <<Idle>>, "poll"), 0, div)
      BY <1>g, <2>1, <3>2, PollStarts
    <3>4. QED BY <2>1, <3>1, <3>3
  <2>5. QED
    BY <2>3, <2>4
<1>7. CASE SlowClock
  <2>1. drv.at = "slow" /\ drv' = Transfers(drv, Idles(Dummies), "dummies")
    BY <1>7 DEF SlowClock
  <2>2. Idles(Dummies) \in Seq(Bytes) /\ Idles(Dummies) # <<>>
    BY Parameters, IdlesType
  <2>3. drv.call = "Init" /\ cs = 1 /\ div = SlowDiv
    BY <1>a, <2>1 DEF Flow, Selects, TakenInv
  <2>4. Driving(Transfers(drv, Idles(Dummies), "dummies"), cs, div)
    BY <1>a, <1>c, <2>2, <2>3, IdleRowStarts
  <2>5. QED BY <2>1, <2>4
<1>8. CASE DummyClocks
  <2>1. Got("dummies") /\ drv' = [drv EXCEPT !.at = "readcs", !.pc = "cmd0"]
    BY <1>8 DEF DummyClocks, Select
  <2>2. drv.call = "Init"
    BY <1>a, <1>g, <2>1 DEF Flow
  <2>3. /\ drv' \in DrvType /\ drv'.at = "readcs" /\ drv'.pc = "cmd0"
        /\ drv'.call = drv.call /\ drv'.inited = drv.inited /\ drv'.buffer = drv.buffer
    BY <2>1, <1>a DEF DrvType
  <2>4. Flow(drv') /\ Selects(drv', cs) /\ Clocks(drv', div)
    BY <1>c, <1>g, <2>1, <2>2, <2>3 DEF Flow, Selects, Clocks, Transferring
  <2>5. QED
    BY <1>a, <2>3, <2>4 DEF Driving
<1>9. CASE Voltage
  <2> DEFINE f == [drv EXCEPT !.retries = Retries]
  <2>1. Got("r7") /\ drv' = NextTry(f)
    BY <1>9 DEF Voltage
  <2>2. drv.call = "Init" /\ cs = 0
    BY <1>a, <1>g, <2>1 DEF Flow
  <2>3. f \in DrvType
    <3>1. Retries \in 0 .. Retries
      BY Parameters
    <3>2. QED BY <1>a, <3>1 DEF DrvType
  <2>4. f.buffer = drv.buffer /\ f.call = drv.call /\ f.inited = drv.inited
    BY <1>a DEF DrvType
  <2> HIDE DEF f
  <2>5. Driving(NextTry(f), 0, div)
    BY <1>a, <1>c, <1>g, <2>1, <2>2, <2>3, <2>4, NextTryStarts
  <2>6. QED BY <2>1, <2>2, <2>5
<1>10. CASE FastClock
  <2>1. drv.at = "fast" /\ drv' = Return(drv)
    BY <1>10 DEF FastClock
  <2>2. cs = 1
    BY <1>a, <2>1 DEF Selects
  <2>3. QED BY <1>a, <2>1, <2>2, ReturnIs
<1>11. CASE Off
  <2>1. Got("off") /\ cs = 1
    BY <1>11, <1>g DEF Off
  <2>2. CASE drv.call = "Init" /\ drv.ret = 0
    <3>1. drv' = [drv EXCEPT !.at = "fast"]
      BY <1>11, <2>2 DEF Off
    <3>2. /\ drv' \in DrvType /\ drv'.at = "fast" /\ drv'.call = "Init"
          /\ drv'.inited = drv.inited /\ drv'.buffer = drv.buffer
      BY <1>a, <2>2, <3>1 DEF DrvType
    <3>3. Flow(drv') /\ Selects(drv', cs) /\ Clocks(drv', div)
      BY <1>c, <2>1, <2>2, <3>2 DEF Flow, Selects, Clocks, Transferring
    <3>4. QED
      BY <1>a, <3>2, <3>3 DEF Driving
  <2>3. CASE ~(drv.call = "Init" /\ drv.ret = 0)
    BY <1>11, <1>a, <2>1, <2>3, ReturnIs DEF Off
  <2>4. QED
    BY <2>2, <2>3
<1>r. ASSUME NEW pc \in {"token", "data", "crc"}, Got(pc)
      PROVE  /\ drv.call = "ReadBlock" /\ cs = 0
             /\ \A ret \in {0, -1, -2} : Driving(Deselect(drv, ret), cs, div)
  <2>1. drv.call = "ReadBlock" /\ cs = 0
    BY <1>a, <1>g, <1>r DEF Flow
  <2>2. QED
    BY <1>a, <1>c, <2>1, DeselectStarts
<1>12. CASE Token
  <2>1. Got("token")
    BY <1>12 DEF Token
  <2>2. drv.retries > 0 /\ drv.buffer = <<>> /\ Len(drv.buffer) < BlockLen
    <3>1. drv.retries > 0 /\ drv.buffer = <<>>
      BY <1>a, <1>g, <2>1 DEF Flow
    <3>2. QED BY <3>1, Parameters
  <2>3. CASE regs.rdt.data = DataToken
    <3>1. drv' = Transfers(drv, <<Idle>>, "data")
      BY <1>12, <2>3 DEF Token
    <3>2. Driving(Transfers(drv, <<Idle>>, "data"), cs, div)
      BY <1>a, <1>c, <1>e, <1>r, <2>1, <2>2, IdleRowStarts
    <3>3. QED BY <3>1, <3>2
  <2>4. CASE regs.rdt.data # DataToken /\ drv.retries = 1
    <3> DEFINE f == [drv EXCEPT !.retries = 0]
    <3>1. drv' = Deselect(f, -2)
      BY <1>12, <2>4 DEF Token
    <3>2. f \in DrvType
      <4>1. 0 \in 0 .. Retries
        BY Parameters
      <4>2. QED BY <1>a, <4>1 DEF DrvType
    <3>3. f.buffer = drv.buffer /\ f.call = drv.call /\ f.inited = drv.inited /\ f.addr = drv.addr
      BY <1>a DEF DrvType
    <3> HIDE DEF f
    <3>4. Driving(Deselect(f, -2), cs, div)
      BY <1>a, <1>c, <1>r, <2>1, <3>2, <3>3, DeselectStarts
    <3>5. QED BY <3>1, <3>4
  <2>5. CASE regs.rdt.data # DataToken /\ drv.retries # 1
    <3> DEFINE f == [drv EXCEPT !.retries = @ - 1]
    <3>1. drv' = Transfers(f, <<Idle>>, "token")
      BY <1>12, <2>5 DEF Token
    <3>2. drv.retries - 1 \in 0 .. Retries /\ drv.retries - 1 > 0
      BY <1>a, <2>2, <2>5, Parameters DEF DrvType
    <3>3. /\ f \in DrvType /\ f.buffer = drv.buffer /\ f.call = drv.call
          /\ f.inited = drv.inited /\ f.addr = drv.addr /\ f.retries > 0
      BY <1>a, <3>2 DEF DrvType
    <3> HIDE DEF f
    <3>4. Driving(Transfers(f, <<Idle>>, "token"), cs, div)
      BY <1>a, <1>c, <1>e, <1>r, <2>1, <2>2, <3>3, IdleRowStarts
    <3>5. QED BY <3>1, <3>4
  <2>6. QED
    BY <2>3, <2>4, <2>5
<1>13. CASE Data
  <2> DEFINE f == [drv EXCEPT !.buffer = Append(@, regs.rdt.data)]
  <2>1. Got("data")
    BY <1>13 DEF Data
  <2>2. Len(drv.buffer) < BlockLen /\ drv.buffer \in Seq(Bytes \cup {Mixed})
    BY <1>a, <1>g, <2>1 DEF Flow, DrvType
  <2>3. /\ Append(drv.buffer, regs.rdt.data) \in Seq(Bytes \cup {Mixed})
        /\ Len(Append(drv.buffer, regs.rdt.data)) = Len(drv.buffer) + 1
        /\ Len(drv.buffer) \in Nat
    BY <1>b, <2>2
  <2>4. /\ f \in DrvType /\ f.buffer = Append(drv.buffer, regs.rdt.data) /\ f.call = drv.call
        /\ f.inited = drv.inited /\ f.addr = drv.addr
    BY <1>a, <2>3 DEF DrvType
  <2>5. Len(f.buffer) \in Nat /\ Len(f.buffer) <= BlockLen
    BY <2>2, <2>3, <2>4, Parameters
  <2>6. drv' = IF Len(f.buffer) = BlockLen THEN Transfers(f, <<Idle, Idle>>, "crc")
               ELSE Transfers(f, <<Idle>>, "data")
    BY <1>13 DEF Data
  <2> HIDE DEF f
  <2>7. CASE Len(f.buffer) = BlockLen
    <3>1. <<Idle, Idle>> \in Seq(Bytes) /\ <<Idle, Idle>> # <<>>
      BY CommandBytes
    <3>2. Driving(Transfers(f, <<Idle, Idle>>, "crc"), cs, div)
      BY <1>c, <1>r, <2>1, <2>4, <2>5, <3>1, IdleRowStarts
    <3>3. QED BY <2>6, <2>7, <3>2
  <2>8. CASE Len(f.buffer) # BlockLen
    <3>1. Len(f.buffer) < BlockLen
      BY <2>5, <2>8, Parameters
    <3>2. Driving(Transfers(f, <<Idle>>, "data"), cs, div)
      BY <1>c, <1>e, <1>r, <2>1, <2>4, <2>5, <3>1, IdleRowStarts
    <3>3. QED BY <2>6, <2>8, <3>2
  <2>9. QED
    BY <2>7, <2>8
<1>14. CASE Crc
  BY <1>14, <1>r DEF Crc
<1>15. QED
  BY <1>1, <1>2, <1>3, <1>4, <1>5, <1>6, <1>7, <1>8, <1>9, <1>10, <1>11, <1>12, <1>13, <1>14
  DEF Driver
-----------------------------------------------------------------------------
(* The peripheral and the card.                                            *)

\* An access of the driver reaches the registers once, and nothing else does.
LEMMA WishboneIs ==
  ASSUME TypeOK, DriverInv, ShiftInv, Wishbone
  PROVE  /\ regs' \in RegsType
         /\ ~(cyc = 1 /\ regs.ack = 0) => regs' = [regs EXCEPT !.ack = 0] /\ regs'.ack = 0
         /\ cyc = 1 /\ regs.ack = 0 => regs'.ack = 1
         /\ ~(Taken("slow") \/ Taken("fast") \/ Taken("setcs")) =>
              regs'.cs = regs.cs /\ regs'.clk_div = regs.clk_div
         /\ regs'.tx = (IF Taken("put") THEN Head(drv.send) ELSE regs.tx)
         /\ Taken("slow") => regs'.cs = 1 /\ regs'.clk_div = SlowDiv
         /\ Taken("fast") => regs'.cs = 1 /\ regs'.clk_div = FastDiv
         /\ Taken("setcs") => regs'.cs = drv.ctrl.cs /\ regs'.clk_div = regs.clk_div
         /\ Taken("get") => regs'.rdt.data = spi.rx
         /\ Taken("status") \/ Taken("readcs") =>
              regs'.rdt.ctrl.busy = spi.busy /\ regs'.rdt.ctrl.div = regs.clk_div
<1>a. /\ regs \in RegsType /\ drv \in DrvType /\ spi \in SpiType
      /\ Flow(drv) /\ Clocks(drv, regs.clk_div)
  BY DEF TypeOK, DriverInv, Driving
<1>b. regs.clk_div # 0 /\ SlowDiv # 0 /\ FastDiv # 0
  BY <1>a, Parameters DEF RegsType
<1>1. CASE ~(cyc = 1 /\ regs.ack = 0)
  <2>1. regs' = [regs EXCEPT !.ack = 0]
    BY <1>1 DEF Wishbone
  <2>2. QED
    BY <1>a, <1>1, <2>1 DEF RegsType, Taken
<1>2. CASE cyc = 1 /\ regs.ack = 0 /\ drv.at = "put"
  <2>1. regs' = [regs EXCEPT !.ack = 1, !.tx = Head(drv.send)]
    BY <1>2 DEF Wishbone
  <2>2. drv.send \in Seq(Bytes) /\ drv.send # <<>>
    BY <1>a, <1>2 DEF Flow, DrvType, Transferring
  <2>3. Head(drv.send) \in Bytes
    BY <2>2, HeadTailProperties
  <2>4. /\ regs' \in RegsType /\ regs'.ack = 1 /\ regs'.tx = Head(drv.send)
        /\ regs'.cs = regs.cs /\ regs'.clk_div = regs.clk_div
    BY <1>a, <2>1, <2>3 DEF RegsType
  <2>5. QED
    BY <1>2, <2>4 DEF Taken
<1>3. CASE cyc = 1 /\ regs.ack = 0 /\ drv.at \in {"slow", "fast", "setcs"}
  <2>1. regs' = [regs EXCEPT !.ack = 1, !.cs = Written.cs, !.clk_div = Divider(Written.div)]
    BY <1>3 DEF Wishbone
  <2>2. /\ drv.at = "slow" => Written.cs = 1 /\ Written.div = SlowDiv
        /\ drv.at = "fast" => Written.cs = 1 /\ Written.div = FastDiv
        /\ drv.at = "setcs" => Written.cs = drv.ctrl.cs /\ Written.div = regs.clk_div
    BY <1>a DEF Written, Clocks
  <2>3. Divider(Written.div) = Written.div
    BY <1>3, <1>b, <2>2 DEF Divider
  <2>4. Written.cs \in {0, 1} /\ Written.div \in {1, SlowDiv, FastDiv}
    BY <1>a, <1>3, <2>2 DEF RegsType, DrvType, Controls
  <2>5. /\ regs' \in RegsType /\ regs'.ack = 1 /\ regs'.tx = regs.tx
        /\ regs'.cs = Written.cs /\ regs'.clk_div = Written.div
    BY <1>a, <2>1, <2>3, <2>4 DEF RegsType
  <2>6. QED
    BY <1>3, <2>2, <2>5 DEF Taken
<1>4. CASE cyc = 1 /\ regs.ack = 0 /\ drv.at = "get"
  <2>1. regs' = [regs EXCEPT !.ack = 1, !.rdt.data = spi.rx]
    BY <1>4 DEF Wishbone
  <2> DEFINE rdt == [regs.rdt EXCEPT !.data = spi.rx]
  <2>2. /\ rdt \in ReadType /\ rdt.data = spi.rx
        /\ regs' = [regs EXCEPT !.ack = 1, !.rdt = rdt]
    BY <1>a, <2>1 DEF RegsType, ReadType, SpiType
  <2> HIDE DEF rdt
  <2>3. /\ regs' \in RegsType /\ regs'.ack = 1 /\ regs'.rdt = rdt /\ regs'.tx = regs.tx
        /\ regs'.cs = regs.cs /\ regs'.clk_div = regs.clk_div
    BY <1>a, <2>2 DEF RegsType
  <2>4. QED
    BY <1>4, <2>2, <2>3 DEF Taken
<1>5. CASE cyc = 1 /\ regs.ack = 0 /\ drv.at \in {"status", "readcs"}
  <2> DEFINE c == [cs |-> regs.cs, busy |-> spi.busy, div |-> regs.clk_div]
  <2>1. regs' = [regs EXCEPT !.ack = 1, !.rdt.ctrl = c]
    BY <1>5 DEF Wishbone
  <2>2. c \in Controls
    BY <1>a DEF RegsType, SpiType, Controls
  <2>3. c.busy = spi.busy /\ c.div = regs.clk_div
    OBVIOUS
  <2> DEFINE rdt == [regs.rdt EXCEPT !.ctrl = c]
  <2> HIDE DEF c
  <2>4. /\ rdt \in ReadType /\ rdt.ctrl = c
        /\ regs' = [regs EXCEPT !.ack = 1, !.rdt = rdt]
    BY <1>a, <2>1, <2>2 DEF RegsType, ReadType
  <2> HIDE DEF rdt
  <2>5. /\ regs' \in RegsType /\ regs'.ack = 1 /\ regs'.rdt = rdt /\ regs'.tx = regs.tx
        /\ regs'.cs = regs.cs /\ regs'.clk_div = regs.clk_div
    BY <1>a, <2>4 DEF RegsType
  <2>6. QED
    BY <1>5, <2>3, <2>4, <2>5 DEF Taken
<1>6. QED
  <2>1. cyc = 1 => drv.at \in {"put", "status", "get", "readcs", "setcs", "slow", "fast"}
    BY <1>a DEF ShiftInv, DrvType
  <2>2. QED
    BY <1>1, <1>2, <1>3, <1>4, <1>5, <2>1

\* What may disturb a shift does not happen during one.
LEMMA ShiftHeld ==
  ASSUME TypeOK, DriverInv, ShiftInv, Wishbone, spi.state # "IDLE"
  PROVE  /\ regs'.tx = regs.tx /\ regs'.cs = regs.cs /\ regs'.clk_div = regs.clk_div
<1>1. ~Taken("put") /\ ~Taken("slow") /\ ~Taken("fast") /\ ~Taken("setcs")
  BY DEF ShiftInv, Taken
<1>2. QED
  BY <1>1, WishboneIs

\* The SPI process keeps its registers typed, and its counter below the divider.
LEMMA SpiStep ==
  ASSUME TypeOK, DriverInv, ShiftInv, Wishbone, Spi
  PROVE  /\ spi' \in SpiType
         /\ spi'.state = "TRANSFER" => spi'.div < regs'.clk_div
         /\ spi.state = "IDLE" => spi'.state = (IF Taken("put") THEN "TRANSFER" ELSE "IDLE")
         /\ spi.state = "TRANSFER" => spi'.state \in {"TRANSFER", "DONE"}
         /\ spi.state = "DONE" => spi'.state = "IDLE"
         /\ spi'.busy = (IF spi'.state = "IDLE" THEN 0 ELSE 1)
<1>a. /\ spi \in SpiType /\ regs \in RegsType /\ card \in CardType
      /\ spi.state = "TRANSFER" => spi.div < regs.clk_div
  BY DEF TypeOK
<1>b. regs' \in RegsType
  BY WishboneIs
<1>c. Bits - 1 \in BitIndex /\ 0 \in BitIndex /\ 0 \in Nat
      /\ regs.clk_div \in Nat \ {0} /\ regs'.clk_div \in Nat \ {0}
  BY <1>a, <1>b, Parameters DEF RegsType, BitIndex
<1>d. spi.state # "IDLE" => regs'.clk_div = regs.clk_div
  BY ShiftHeld
<1>1. CASE SpiIdle
  <2> DEFINE top == Bits - 1
  <2>1. spi.state = "IDLE" /\ spi.busy = 0 /\ top \in BitIndex
    BY <1>1, <1>c DEF SpiIdle, ShiftInv
  <2>2. CASE Taken("put")
    <3>1. spi' = [spi EXCEPT !.sck = 0, !.bit = top, !.div = 0, !.busy = 1, !.state = "TRANSFER"]
      BY <1>1, <2>2 DEF SpiIdle
    <3> HIDE DEF top
    <3>2. spi' \in SpiType /\ spi'.state = "TRANSFER" /\ spi'.div = 0 /\ spi'.busy = 1
      BY <1>a, <1>c, <2>1, <3>1 DEF SpiType
    <3>3. QED
      BY <1>c, <2>1, <2>2, <3>2
  <2>3. CASE ~Taken("put")
    <3>1. spi' = [spi EXCEPT !.sck = 0, !.bit = top, !.div = 0]
      BY <1>1, <1>a, <2>3 DEF SpiIdle, SpiType
    <3> HIDE DEF top
    <3>2. spi' \in SpiType /\ spi'.state = "IDLE" /\ spi'.busy = 0
      BY <1>a, <1>c, <2>1, <3>1 DEF SpiType
    <3>3. QED
      BY <2>1, <2>3, <3>2
  <2>4. QED
    BY <2>2, <2>3
<1>2. CASE SpiDivide
  BY <1>2, <1>a, <1>c, <1>d DEF SpiDivide, SpiType, Tick, ShiftInv, Taken
<1>3. CASE SpiRise
  <2>1. card.queue \in Seq(Bytes)
    BY <1>a DEF CardType
  <2>2. card.queue # <<>> => Head(card.queue) \in Bytes
    BY <2>1, HeadTailProperties
  <2>3. Idle \in Bytes
    BY CommandBytes
  <2> DEFINE rx == IF spi.bit > 0 THEN Mixed
                   ELSE IF regs.cs = 0 /\ card.queue # <<>> THEN Head(card.queue) ELSE Idle
  <2>4. rx \in Bytes \cup {Mixed}
    BY <2>2, <2>3
  <2>5. spi.state = "TRANSFER" /\ spi' = [spi EXCEPT !.div = 0, !.sck = 1, !.rx = rx]
    BY <1>3 DEF SpiRise
  <2> HIDE DEF rx
  <2>6. spi' \in SpiType /\ spi'.state = "TRANSFER" /\ spi'.div = 0 /\ spi'.busy = spi.busy
    BY <1>a, <1>c, <2>4, <2>5 DEF SpiType
  <2>7. QED
    BY <1>c, <2>5, <2>6 DEF ShiftInv
<1>4. CASE SpiFall
  <2> DEFINE bit == IF spi.bit = 0 THEN 0 ELSE spi.bit - 1
           state == IF spi.bit = 0 THEN "DONE" ELSE spi.state
  <2>1. spi.state = "TRANSFER"
        /\ spi' = [spi EXCEPT !.div = 0, !.sck = 0, !.state = state, !.bit = bit]
    BY <1>4 DEF SpiFall
  <2>2. bit \in BitIndex
    BY <1>a, Parameters DEF SpiType, BitIndex
  <2>3. state \in {"TRANSFER", "DONE"}
    BY <2>1
  <2> HIDE DEF bit, state
  <2>4. spi' \in SpiType /\ spi'.state = state /\ spi'.div = 0 /\ spi'.busy = spi.busy
    BY <1>a, <1>c, <2>1, <2>2, <2>3 DEF SpiType
  <2>5. QED
    BY <1>c, <2>1, <2>3, <2>4 DEF ShiftInv
<1>5. CASE SpiDone
  BY <1>5, <1>a DEF SpiDone, SpiType, Taken
<1>6. QED
  BY <1>1, <1>2, <1>3, <1>4, <1>5 DEF Spi

\* The answers of the card are bytes.
LEMMA AnswersType ==
  ASSUME card \in CardType, NEW got \in Seq(Bytes), NEW r \in Answers(got)
  PROVE  r.out \in Seq(Bytes) /\ r.ready \in BOOLEAN /\ r.app \in BOOLEAN
<1>a. card.ready \in BOOLEAN /\ R1 \in {0, 1}
  BY DEF CardType, R1
<1>b. <<1>> \in Seq(Bytes) /\ <<5>> \in Seq(Bytes) /\ <<0>> \in Seq(Bytes)
      /\ <<R1>> \in Seq(Bytes) /\ <<R1, 0, 0, 1, 170>> \in Seq(Bytes)
  BY <1>a DEF Bytes
<1>c. \A b \in Blocks(Argument(got)) : <<0>> \o b \in Seq(Bytes)
  <2> SUFFICES ASSUME NEW b \in Blocks(Argument(got)) PROVE b \in Seq(Bytes)
    BY <1>b
  <2>1. CASE b = <<>>
    BY <2>1
  <2>2. CASE b # <<>>
    <3> DEFINE a == Argument(got)
    <3>1. a \in DOMAIN Content
          /\ \E n \in 0 .. TokenMax : b = Idles(n) \o Framed(a)
      BY <2>2 DEF Blocks
    <3>2. Content[a] \in Seq(Bytes)
      BY <3>1, Parameters
    <3>3. <<DataToken>> \in Seq(Bytes) /\ <<170, 85>> \in Seq(Bytes)
      BY DEF DataToken, Bytes
    <3> HIDE DEF a
    <3>4. Framed(a) \in Seq(Bytes)
      BY <3>2, <3>3, ConcatProperties DEF Framed
    <3>5. QED
      BY <3>1, <3>4, IdlesType, ConcatProperties, Parameters
  <2>3. QED BY <2>1, <2>2
<1> DEFINE Typed(x) == x.out \in Seq(Bytes) /\ x.ready \in BOOLEAN /\ x.app \in BOOLEAN
<1>d. ASSUME NEW out \in Seq(Bytes), NEW ready \in BOOLEAN, NEW app \in BOOLEAN
      PROVE  Typed(Reply(out, ready, app))
  BY DEF Reply
<1>t. TRUE \in BOOLEAN /\ FALSE \in BOOLEAN
  OBVIOUS
<1> HIDE DEF Typed
<1>e. Typed(Illegal)
  BY <1>a, <1>b, <1>d, <1>t DEF Illegal
<1>f. /\ Typed(Reply(<<1>>, FALSE, FALSE))
      /\ Typed(Reply(<<R1, 0, 0, 1, 170>>, card.ready, FALSE))
      /\ Typed(Reply(<<R1>>, card.ready, TRUE)) /\ Typed(Reply(<<R1>>, card.ready, FALSE))
      /\ Typed(Reply(<<0>>, TRUE, FALSE))
  BY <1>a, <1>b, <1>d, <1>t, Zenon
<1>g. \A b \in Blocks(Argument(got)) : Typed(Reply(<<0>> \o b, TRUE, FALSE))
  BY <1>c, <1>d, <1>t
<1>h. \/ r = Reply(<<1>>, FALSE, FALSE)
      \/ r = Reply(<<R1, 0, 0, 1, 170>>, card.ready, FALSE)
      \/ r = Reply(<<R1>>, card.ready, TRUE) \/ r = Reply(<<R1>>, card.ready, FALSE)
      \/ r = Reply(<<0>>, TRUE, FALSE) \/ r = Illegal
      \/ \E b \in Blocks(Argument(got)) : r = Reply(<<0>> \o b, TRUE, FALSE)
  BY DEF Answers, CMD0, CMD8, CMD17, CMD55, ACMD41
<1>2. Typed(r)
  BY <1>e, <1>f, <1>g, <1>h
<1>3. QED
  BY <1>2 DEF Typed

\* The card keeps what it has got and what it will send typed, and forgets
\* both when it is deselected.
LEMMA CardStep ==
  ASSUME TypeOK, DriverInv, ShiftInv, TakenInv, Wishbone, Card
  PROVE  /\ card' \in CardType
         /\ regs'.cs = 1 => card'.queue = <<>> /\ card'.got = <<>>
<1>a. card \in CardType /\ regs \in RegsType
  BY DEF TypeOK
<1>b. card.queue \in Seq(Bytes) /\ card.got \in Seq(Bytes) /\ regs.tx \in Bytes
  BY <1>a DEF CardType, RegsType
<1>1. CASE regs'.cs = 1
  <2>1. card' = [card EXCEPT !.got = <<>>, !.queue = <<>>] /\ <<>> \in Seq(Bytes)
    BY <1>1 DEF Card
  <2>2. QED BY <1>a, <2>1 DEF CardType
<1>2. CASE regs'.cs # 1 /\ UNCHANGED card
  BY <1>2, <1>a
<1>3. CASE regs'.cs # 1 /\ Exchange(regs.tx)
  <2>1. CASE card.queue # <<>>
    <3>1. Tail(card.queue) \in Seq(Bytes)
      BY <1>b, <2>1, HeadTailProperties
    <3>2. QED
      BY <1>3, <1>a, <2>1, <3>1 DEF Exchange, CardType
  <2>2. CASE card.queue = <<>> /\ card' = [card EXCEPT !.got = Append(@, regs.tx)]
    <3>1. Append(card.got, regs.tx) \in Seq(Bytes)
      BY <1>b, AppendProperties
    <3>2. QED BY <1>3, <1>a, <2>2, <3>1 DEF CardType
  <2>3. CASE \E r \in Answers(card.got), n \in 0 .. NcrMax :
               card' = [card EXCEPT !.got = <<>>, !.queue = Idles(n) \o r.out,
                                    !.ready = r.ready, !.app = r.app]
    <3>1. PICK r \in Answers(card.got), n \in 0 .. NcrMax :
               card' = [card EXCEPT !.got = <<>>, !.queue = Idles(n) \o r.out,
                                    !.ready = r.ready, !.app = r.app]
      BY <2>3
    <3>2. r.out \in Seq(Bytes) /\ r.ready \in BOOLEAN /\ r.app \in BOOLEAN
      BY <1>a, <1>b, AnswersType
    <3>3. Idles(n) \o r.out \in Seq(Bytes) /\ <<>> \in Seq(Bytes)
      BY <3>2, IdlesType, ConcatProperties, Parameters
    <3> DEFINE queue == Idles(n) \o r.out
    <3> HIDE DEF queue
    <3>4. card' = [card EXCEPT !.got = <<>>, !.queue = queue, !.ready = r.ready, !.app = r.app]
      BY <3>1 DEF queue
    <3>5. queue \in Seq(Bytes)
      BY <3>3 DEF queue
    <3>6. QED
      BY <1>3, <1>a, <3>2, <3>3, <3>4, <3>5 DEF CardType
  <2>4. CASE card' = card
    BY <1>3, <1>a, <2>4
  <2>5. QED
    BY <1>3, <2>1, <2>2, <2>3, <2>4 DEF Exchange
<1>4. QED
  BY <1>1, <1>2, <1>3 DEF Card
-----------------------------------------------------------------------------
(* One clock of the whole.                                                 *)

\* A new call finds a driver that is at rest, and leaves the card deselected.
LEMMA UserStep ==
  ASSUME NEW cs, NEW div, Driving(drv, cs, div), User
  PROVE  /\ Driving(drv', cs, div)
         /\ drv.at = "none" /\ drv'.at \in {"none", "slow", "readcs"} /\ cyc' = 0
<1>a. /\ drv \in DrvType /\ Len(drv.buffer) <= BlockLen
      /\ Flow(drv) /\ Selects(drv, cs) /\ Clocks(drv, div)
  BY DEF Driving
<1>b. drv.call = "none" /\ drv.at = "none" /\ cyc' = 0
  BY <1>a DEF User, CallInit, CallReadBlock, CallWithoutBuffer, Flow
<1>c. /\ Flow(drv') /\ Selects(drv', cs) /\ Clocks(drv', div) /\ drv' \in DrvType
      /\ Len(drv'.buffer) <= BlockLen /\ drv'.at \in {"none", "slow", "readcs"}
  <2>1. CASE CallInit
    <3>1. /\ drv' \in DrvType /\ drv'.call = "Init" /\ drv'.at = "slow" /\ ~drv'.inited
          /\ drv'.buffer = drv.buffer
      BY <1>a, <2>1 DEF CallInit, DrvType
    <3>2. QED
      BY <1>a, <1>b, <3>1 DEF Flow, Selects, Clocks, Transferring
  <2>2. CASE CallReadBlock
    <3>1. PICK a \in DOMAIN Content :
            drv' = Select([drv EXCEPT !.call = "ReadBlock", !.addr = a, !.buffer = <<>>], "cmd17")
      BY <2>2 DEF CallReadBlock
    <3>2. drv.inited /\ <<>> \in Seq(Bytes \cup {Mixed}) /\ Len(<<>>) = 0
      BY <2>2 DEF CallReadBlock
    <3>3. /\ drv' \in DrvType /\ drv'.call = "ReadBlock" /\ drv'.at = "readcs" /\ drv'.pc = "cmd17"
          /\ drv'.addr = a /\ drv'.buffer = <<>> /\ drv'.inited = drv.inited
      BY <1>a, <3>1, <3>2 DEF Select, DrvType
    <3>4. QED
      BY <1>a, <1>b, <3>2, <3>3, Parameters DEF Flow, Selects, Clocks, Transferring
  <2>3. CASE CallWithoutBuffer
    <3>1. <<>> \in Seq(Bytes \cup {Mixed}) /\ Len(<<>>) = 0
      OBVIOUS
    <3>2. /\ drv' \in DrvType /\ drv'.call = "none" /\ drv'.at = "none" /\ drv'.buffer = <<>>
      BY <1>a, <1>b, <2>3, <3>1 DEF CallWithoutBuffer, DrvType
    <3>3. QED
      BY <1>a, <1>b, <3>1, <3>2, Parameters DEF Flow, Selects, Clocks, Transferring
  <2>4. QED
    BY <2>1, <2>2, <2>3 DEF User
<1>d. QED
  BY <1>b, <1>c DEF Driving

\* What the processor does in a clock, by the access it has on the bus.
LEMMA ProcessorIs ==
  ASSUME User \/ Think \/ Issue \/ Wait \/ Complete
  PROVE  /\ cyc = 1 /\ regs.ack = 1 => cyc' = 0 /\ Driver
         /\ cyc = 1 /\ regs.ack # 1 => cyc' = 1 /\ drv' = drv
         /\ cyc # 1 => \/ User
                       \/ drv' = drv /\ (cyc' = 0 \/ (cyc' = 1 /\ drv.at # "none"))
<1>1. User => cyc = 0
  BY DEF User
<1>2. /\ Think => cyc = 0 /\ cyc' = 0 /\ drv' = drv
      /\ Issue => cyc = 0 /\ cyc' = 1 /\ drv' = drv /\ drv.at # "none"
  BY DEF Think, Issue
<1>3. /\ Wait => cyc = 1 /\ regs.ack = 0 /\ cyc' = 1 /\ drv' = drv
      /\ Complete => cyc = 1 /\ regs.ack = 1 /\ cyc' = 0 /\ Driver
  BY DEF Wait, Complete
<1>4. QED
  BY <1>1, <1>2, <1>3

\* The clocks in which the driver gets its answer.
LEMMA DriverMoves ==
  ASSUME drv \in DrvType, Driver
  PROVE  /\ drv.at = "put" => drv'.at = "status"
         /\ drv.at = "status" => drv'.at = (IF regs.rdt.ctrl.busy = 1 THEN "status" ELSE "get")
<1>1. drv.at \in {"put", "status"} => Put \/ Status
  BY DEF Driver, GetMore, ReadCs, SetCs, Sent, Poll, SlowClock, DummyClocks, Voltage,
         FastClock, Off, Token, Data, Crc, Got
<1>2. Put => drv.at = "put" /\ drv'.at = "status"
  BY DEF Put, DrvType
<1>3. Status => /\ drv.at = "status"
                /\ drv'.at = (IF regs.rdt.ctrl.busy = 1 THEN "status" ELSE "get")
  BY DEF Status, DrvType
<1>4. QED
  BY <1>1, <1>2, <1>3
-----------------------------------------------------------------------------
(* The invariant of the peripheral and its driver.                         *)

\* The driver keeps its place, chip select and divider in one clock.
LEMMA DrivingKept ==
  ASSUME TypeOK, DriverInv, ShiftInv, TakenInv, Wishbone,
         User \/ Think \/ Issue \/ Wait \/ Complete
  PROVE  DriverInv'
<1> DEFINE held == regs'.cs = regs.cs /\ regs'.clk_div = regs.clk_div
<1>a. Driving(drv, regs.cs, regs.clk_div)
  BY DEF DriverInv
<1>b. regs.ack \in {0, 1} /\ drv \in DrvType
  BY DEF TypeOK, RegsType
<1>1. CASE cyc = 1 /\ regs.ack = 1
  <2>1. Driver /\ held
    BY <1>1, ProcessorIs, WishboneIs DEF Taken
  <2>2. Driving(drv', regs.cs, regs.clk_div)
    BY <1>1, <2>1, DriverStep
  <2>3. QED
    BY <2>1, <2>2 DEF DriverInv
<1>2. CASE cyc = 1 /\ regs.ack # 1
  <2>1. drv' = drv
    BY <1>2, ProcessorIs
  <2>2. CASE held
    BY <1>a, <2>1, <2>2 DEF DriverInv
  <2>3. CASE ~held
    <3>1. Taken("slow") \/ Taken("fast") \/ Taken("setcs")
      BY <2>3, WishboneIs
    <3>2. Flow(drv) /\ Selects(drv, regs.cs) /\ Clocks(drv, regs.clk_div)
          /\ Len(drv.buffer) <= BlockLen
      BY <1>a DEF Driving
    <3>3. drv.at \in {"slow", "fast"} => regs'.cs = 1
      BY <3>1, WishboneIs DEF Taken
    <3>4. drv.at = "setcs" => regs'.cs = drv.ctrl.cs /\ regs'.clk_div = regs.clk_div
      BY <3>1, WishboneIs DEF Taken
    <3>5. Selects(drv, regs'.cs) /\ Clocks(drv, regs'.clk_div)
      BY <3>1, <3>2, <3>3, <3>4 DEF Taken, Selects, Clocks, Transferring
    <3>6. QED
      BY <1>b, <2>1, <3>2, <3>5 DEF DriverInv, Driving
  <2>4. QED
    BY <2>2, <2>3
<1>3. CASE cyc # 1
  <2>1. held
    BY <1>3, WishboneIs DEF Taken
  <2>2. CASE User
    <3>1. Driving(drv', regs.cs, regs.clk_div)
      BY <1>a, <2>2, UserStep
    <3>2. QED
      BY <2>1, <3>1 DEF DriverInv
  <2>3. CASE drv' = drv
    BY <1>a, <2>1, <2>3 DEF DriverInv
  <2>4. QED
    BY <1>3, <2>2, <2>3, ProcessorIs
<1>4. QED
  BY <1>1, <1>2, <1>3

\* While a byte is shifted the driver waits, and it knows when it is over.
LEMMA ShiftKept ==
  ASSUME TypeOK, DriverInv, ShiftInv, TakenInv, Wishbone, Spi,
         User \/ Think \/ Issue \/ Wait \/ Complete
  PROVE  ShiftInv'
<1>a. regs.ack \in {0, 1} /\ cyc \in {0, 1} /\ drv \in DrvType
      /\ spi.state \in {"IDLE", "TRANSFER", "DONE"} /\ spi.busy \in {0, 1}
  BY DEF TypeOK, RegsType, SpiType
<1>b. regs'.ack = 1 => cyc = 1 /\ regs.ack = 0 /\ cyc' = 1 /\ drv' = drv
  <2>1. regs'.ack = 1 => cyc = 1 /\ regs.ack = 0
    BY WishboneIs
  <2>2. QED
    BY <1>a, <2>1, ProcessorIs
<1>1. spi'.busy = (IF spi'.state = "IDLE" THEN 0 ELSE 1)
  BY SpiStep
<1>2. regs'.ack = 1 => cyc' = 1
  BY <1>b
<1>3. cyc' = 1 => drv'.at # "none"
  <2>1. User => cyc' = 0
    BY DEF User
  <2>2. QED
    BY <1>a, <2>1, ProcessorIs DEF ShiftInv
<1>4. spi'.state # "IDLE" => drv'.at = "status" \/ (drv'.at = "put" /\ regs'.ack = 1)
  <2> SUFFICES ASSUME spi'.state # "IDLE"
               PROVE  drv'.at = "status" \/ (drv'.at = "put" /\ regs'.ack = 1)
    OBVIOUS
  <2>1. CASE spi.state = "IDLE"
    <3>1. Taken("put")
      BY <2>1, SpiStep
    <3>2. QED
      BY <3>1, ProcessorIs, WishboneIs DEF Taken
  <2>2. CASE spi.state # "IDLE"
    <3>1. drv.at = "status" \/ (drv.at = "put" /\ regs.ack = 1 /\ cyc = 1)
      BY <2>2 DEF ShiftInv
    <3>2. CASE cyc = 1 /\ regs.ack = 1
      <4>1. Driver
        BY <3>2, ProcessorIs
      <4>2. drv.at = "status" => regs.rdt.ctrl.busy # 0
        BY <2>2, <3>2 DEF ShiftInv
      <4>3. regs.rdt.ctrl.busy \in {0, 1}
        BY DEF TypeOK, RegsType, ReadType, Controls
      <4>4. QED
        BY <1>a, <3>1, <4>1, <4>2, <4>3, DriverMoves
    <3>3. CASE ~(cyc = 1 /\ regs.ack = 1)
      <4>1. ~User
        BY <3>1, <3>3, UserStep DEF DriverInv
      <4>2. QED
        BY <3>1, <3>3, <4>1, ProcessorIs
    <3>4. QED
      BY <3>2, <3>3
  <2>3. QED
    BY <2>1, <2>2
<1>5. drv'.at = "put" /\ regs'.ack = 1 => spi'.state = "TRANSFER"
  BY <1>b, SpiStep DEF ShiftInv, Taken
<1>6. drv'.at = "status" /\ regs'.ack = 1 /\ regs'.rdt.ctrl.busy = 0 => spi'.state = "IDLE"
  <2> SUFFICES ASSUME drv'.at = "status", regs'.ack = 1, regs'.rdt.ctrl.busy = 0
               PROVE  spi'.state = "IDLE"
    OBVIOUS
  <2>1. Taken("status") /\ ~Taken("put")
    BY <1>b DEF Taken
  <2>2. spi.busy = 0
    BY <2>1, WishboneIs
  <2>3. spi.state = "IDLE"
    BY <2>2 DEF ShiftInv
  <2>4. QED
    BY <2>1, <2>3, SpiStep
<1>7. QED
  BY <1>1, <1>2, <1>3, <1>4, <1>5, <1>6 DEF ShiftInv

\* An access that has been taken left its mark on the control register.
LEMMA TakenKept ==
  ASSUME TypeOK, DriverInv, ShiftInv, TakenInv, Wishbone, Card,
         User \/ Think \/ Issue \/ Wait \/ Complete
  PROVE  TakenInv'
<1>a. regs'.ack = 1 => cyc = 1 /\ regs.ack = 0 /\ drv' = drv
  <2>1. regs'.ack = 1 => cyc = 1 /\ regs.ack = 0
    BY WishboneIs DEF TypeOK, RegsType
  <2>2. QED
    BY <2>1, ProcessorIs
<1>1. regs'.cs = 1 => card'.queue = <<>> /\ card'.got = <<>>
  BY CardStep
<1>2. drv'.at = "setcs" /\ regs'.ack = 1 => regs'.cs = drv'.ctrl.cs
  BY <1>a, WishboneIs DEF Taken
<1>3. drv'.at = "readcs" /\ regs'.ack = 1 => regs'.rdt.ctrl.div = regs'.clk_div
  BY <1>a, WishboneIs DEF Taken
<1>4. drv'.at = "slow" /\ regs'.ack = 1 => regs'.clk_div = SlowDiv
  BY <1>a, WishboneIs DEF Taken
<1>5. QED
  BY <1>1, <1>2, <1>3, <1>4 DEF TakenInv
-----------------------------------------------------------------------------
(* The conversation of the driver and the card.                            *)

\* The sequence q is what is left of s.
EndOf(q, s) ==
  /\ Len(q) <= Len(s)
  /\ \A i \in 1 .. Len(q) : q[i] = s[Len(s) - Len(q) + i]

\* The sequence q is out, after at most n bytes of nothing.
Delayed(q, out, n) == \E k \in 0 .. n : q = Idles(k) \o out

\* One sequence after another.
LEMMA ConcatIs ==
  ASSUME NEW s \in Seq(Bytes), NEW t \in Seq(Bytes)
  PROVE  /\ s \o t \in Seq(Bytes) /\ Len(s \o t) = Len(s) + Len(t)
         /\ \A i \in 1 .. Len(s) : (s \o t)[i] = s[i]
         /\ \A i \in 1 .. Len(t) : (s \o t)[Len(s) + i] = t[i]
<1>1. /\ s \o t \in Seq(Bytes) /\ Len(s \o t) = Len(s) + Len(t)
      /\ \A i \in 1 .. Len(s) + Len(t) : (s \o t)[i] = IF i <= Len(s) THEN s[i] ELSE t[i - Len(s)]
  BY ConcatProperties
<1>n. Len(s) \in Nat /\ Len(t) \in Nat
  BY LenProperties
<1>2. ASSUME NEW i \in 1 .. Len(t) PROVE (s \o t)[Len(s) + i] = t[i]
  <2>1. /\ Len(s) + i \in 1 .. Len(s) + Len(t) /\ ~(Len(s) + i <= Len(s))
        /\ (Len(s) + i) - Len(s) = i
    BY <1>n
  <2>2. QED
    BY <1>1, <2>1
<1>3. ASSUME NEW i \in 1 .. Len(s) PROVE (s \o t)[i] = s[i]
  <2>1. i \in 1 .. Len(s) + Len(t) /\ i <= Len(s)
    BY <1>n
  <2>2. QED
    BY <1>1, <2>1
<1>4. QED
  BY <1>1, <1>2, <1>3

\* Taking a byte from the rest of a sequence leaves the rest of it.
LEMMA EndTail ==
  ASSUME NEW S, NEW s \in Seq(S), NEW q \in Seq(S), EndOf(q, s), q # <<>>
  PROVE  /\ Head(q) = s[Len(s) - Len(q) + 1]
         /\ Tail(q) \in Seq(S) /\ Len(Tail(q)) = Len(q) - 1 /\ EndOf(Tail(q), s)
<1>1. /\ Len(q) \in Nat \ {0} /\ Len(s) \in Nat /\ Head(q) = q[1]
      /\ Tail(q) \in Seq(S) /\ Len(Tail(q)) = Len(q) - 1
      /\ \A i \in 1 .. Len(Tail(q)) : Tail(q)[i] = q[i + 1]
  BY HeadTailProperties, EmptySeq, LenProperties
<1>2. \A i \in 1 .. Len(q) : q[i] = s[Len(s) - Len(q) + i]
  BY DEF EndOf
<1>3. ASSUME NEW i \in 1 .. Len(Tail(q)) PROVE Tail(q)[i] = s[Len(s) - Len(Tail(q)) + i]
  <2>1. i + 1 \in 1 .. Len(q) /\ Tail(q)[i] = q[i + 1]
    BY <1>1
  <2>2. Len(s) - Len(q) + (i + 1) = Len(s) - Len(Tail(q)) + i
    BY <1>1
  <2>3. QED
    BY <1>2, <2>1, <2>2
<1>4. QED
  BY <1>1, <1>2, <1>3 DEF EndOf

\* The whole of a sequence, and the end of one whose rest has one byte less.
LEMMA EndWhole ==
  ASSUME NEW S, NEW s \in Seq(S)
  PROVE  EndOf(s, s)
<1>1. Len(s) \in Nat
  BY LenProperties
<1>2. QED
  BY <1>1 DEF EndOf

\* The first byte of an answer, or one of nothing before it.
LEMMA DelayedHead ==
  ASSUME NEW out \in Seq(Bytes), out # <<>>, NEW n \in Nat, NEW q, Delayed(q, out, n)
  PROVE  /\ q \in Seq(Bytes) /\ q # <<>>
         /\ \/ Head(q) = Head(out) /\ Tail(q) = Tail(out)
            \/ n > 0 /\ Head(q) = Idle /\ Delayed(Tail(q), out, n - 1)
<1>1. PICK k \in 0 .. n : q = Idles(k) \o out
  BY DEF Delayed
<1>2. /\ Idles(k) \in Seq(Bytes) /\ Len(Idles(k)) = k
      /\ \A i \in 1 .. k : Idles(k)[i] = Idle
  BY IdlesType
<1>3. /\ Len(out) \in Nat \ {0}
      /\ q \in Seq(Bytes) /\ Len(q) = k + Len(out)
      /\ \A i \in 1 .. k + Len(out) : q[i] = IF i <= k THEN Idle ELSE out[i - k]
  <2>1. Len(out) \in Nat \ {0}
    BY EmptySeq
  <2> DEFINE s == Idles(k)
  <2>2. s \in Seq(Bytes) /\ Len(s) = k /\ \A i \in 1 .. k : s[i] = Idle
    BY <1>2
  <2>3. q = s \o out
    BY <1>1
  <2> HIDE DEF s
  <2>4. /\ q \in Seq(Bytes) /\ Len(q) = k + Len(out)
        /\ \A i \in 1 .. k + Len(out) : q[i] = IF i <= k THEN s[i] ELSE out[i - k]
    BY <2>2, <2>3, ConcatProperties
  <2>5. QED
    BY <2>1, <2>2, <2>4
<1>4. q # <<>>
  BY <1>3, EmptySeq
<1>5. CASE k = 0
  <2>1. q = out
    BY <1>3, <1>5, SeqEqual
  <2>2. QED
    BY <1>3, <1>4, <2>1
<1>6. CASE k # 0
  <2>1. k - 1 \in 0 .. n - 1 /\ k - 1 \in Nat /\ 1 \in 1 .. k + Len(out) /\ 1 <= k /\ n > 0
    BY <1>3, <1>6
  <2>2. Head(q) = Idle
    BY <1>3, <1>4, <2>1
  <2> DEFINE r == Idles(k - 1) \o out
  <2>3. /\ r \in Seq(Bytes) /\ Len(r) = k - 1 + Len(out)
        /\ \A i \in 1 .. k - 1 + Len(out) : r[i] = IF i <= k - 1 THEN Idle ELSE out[i - (k - 1)]
    <3> DEFINE s == Idles(k - 1)
    <3>1. s \in Seq(Bytes) /\ Len(s) = k - 1 /\ \A i \in 1 .. k - 1 : s[i] = Idle
      BY <2>1, IdlesType
    <3> HIDE DEF s
    <3>2. /\ s \o out \in Seq(Bytes) /\ Len(s \o out) = k - 1 + Len(out)
          /\ \A i \in 1 .. k - 1 + Len(out) :
               (s \o out)[i] = IF i <= k - 1 THEN s[i] ELSE out[i - (k - 1)]
      BY <3>1, ConcatProperties
    <3>3. QED
      BY <1>3, <2>1, <3>1, <3>2 DEF s
  <2>4. /\ Tail(q) \in Seq(Bytes) /\ Len(Tail(q)) = Len(q) - 1
        /\ \A i \in 1 .. Len(Tail(q)) : Tail(q)[i] = q[i + 1]
    BY <1>3, <1>4, HeadTailProperties
  <2>5. Len(r) = Len(Tail(q))
    BY <1>3, <2>3, <2>4
  <2>6. ASSUME NEW i \in 1 .. Len(Tail(q)) PROVE Tail(q)[i] = r[i]
    <3>1. /\ i \in Int /\ i + 1 \in 1 .. k + Len(out) /\ i \in 1 .. k - 1 + Len(out)
          /\ i + 1 <= k <=> i <= k - 1
          /\ (i + 1) - k = i - (k - 1)
      BY <1>3, <2>1, <2>4
    <3>2. QED
      BY <1>3, <2>3, <2>4, <3>1
  <2> HIDE DEF r
  <2>7. Tail(q) = r
    BY <2>3, <2>4, <2>5, <2>6, SeqEqual
  <2>8. QED
    BY <1>3, <1>4, <2>1, <2>2, <2>7 DEF Delayed, r
<1>7. QED
  BY <1>5, <1>6

\* The bytes of a 32-bit address are the address.
LEMMA ArgumentIs ==
  ASSUME NEW a \in Nat, a \div 16777216 < 256, NEW got,
         got[2] = ByteOf(a, 3), got[3] = ByteOf(a, 2), got[4] = ByteOf(a, 1), got[5] = ByteOf(a, 0)
  PROVE  Argument(got) = a
<1>1. /\ ByteOf(a, 3) = (a \div 16777216) % 256 /\ ByteOf(a, 2) = (a \div 65536) % 256
      /\ ByteOf(a, 1) = (a \div 256) % 256 /\ ByteOf(a, 0) = (a \div 1) % 256
  BY DEF ByteOf
<1> DEFINE a1 == a \div 256
           a2 == a \div 65536
           a3 == a \div 16777216
           b0 == a % 256
           b1 == a1 % 256
           b2 == a2 % 256
<1>2. a1 \in Nat /\ a2 \in Nat /\ a3 \in Nat /\ a \div 1 = a /\ a = 256 * a1 + b0
  OBVIOUS
<1>3. a1 = 256 * a2 + b1 /\ a2 = 256 * a3 + b2 /\ a3 % 256 = a3
  OBVIOUS
<1>4. b0 \in Int /\ b1 \in Int /\ b2 \in Int
  OBVIOUS
<1>5. got[2] = a3 /\ got[3] = b2 /\ got[4] = b1 /\ got[5] = b0
  BY <1>1, <1>2, <1>3
<1> HIDE DEF a1, a2, a3, b0, b1, b2
<1>6. Argument(got) = ((a3 * 256 + b2) * 256 + b1) * 256 + b0
  BY <1>5 DEF Argument
<1>7. QED
  BY <1>2, <1>3, <1>4, <1>6
-----------------------------------------------------------------------------
(* The stages of a conversation.  x is 1 once the byte of the transfer in  *)
(* hand has been exchanged, else 0; rx is then the byte received.          *)

\* The command that is being sent.
FrameOf(d) ==
  CASE d.cmd = CMD0   -> CommandFrame(CMD0, 0, 149)
    [] d.cmd = CMD8   -> CommandFrame(CMD8, 426, 135)
    [] d.cmd = CMD55  -> CommandFrame(CMD55, 0, Idle)
    [] d.cmd = ACMD41 -> CommandFrame(ACMD41, 1073741824, Idle)
    [] d.cmd = CMD17  -> CommandFrame(CMD17, d.addr, Idle)

\* What a card, ready or not after it, may answer to the command.
Outs(d, ready) ==
  CASE d.cmd = CMD0   -> {<<1>>}
    [] d.cmd = CMD8   -> {<<5>>, <<1, 0, 0, 1, 170>>}
    [] d.cmd = CMD55  -> {<<0>>, <<1>>}
    [] d.cmd = ACMD41 -> {<<1>>, <<5>>} \cup (IF ready THEN {<<0>>} ELSE {})
    [] d.cmd = CMD17  -> {<<5>>} \cup {<<0>> \o b : b \in Blocks(d.addr)}

\* The bytes of the row that have not been exchanged.
Left(d, x) == Len(d.send) - x

\* The card has got the command up to where the driver is.
SentStage(d, c, x) ==
  /\ EndOf(d.send, FrameOf(d)) /\ d.polls = 0
  /\ Left(d, x) >= 6 => c.got = <<>> /\ c.queue = <<>>
  /\ Left(d, x) \in 1 .. 5 =>
       /\ c.queue = <<>> /\ Len(c.got) = 6 - Left(d, x)
       /\ \A i \in 1 .. Len(c.got) : c.got[i] = FrameOf(d)[i + 1]
  /\ Left(d, x) = 0 =>
       c.got = <<>> /\ \E out \in Outs(d, c.ready) : Delayed(c.queue, out, NcrMax)
  /\ d.cmd = CMD8 \/ (d.cmd = CMD0 /\ Left(d, x) = 0) => ~c.ready

\* The answer comes before the polls are over.
PollStage(d, c, x, rx) ==
  /\ c.got = <<>> /\ Len(d.send) = 1
  /\ d.cmd \in {CMD0, CMD8} => ~c.ready
  /\ x = 0 => /\ d.polls <= NcrMax
              /\ \E out \in Outs(d, c.ready) : Delayed(c.queue, out, NcrMax - d.polls)
  /\ x = 1 => \/ /\ rx = Idle /\ d.polls < NcrMax
                 /\ \E out \in Outs(d, c.ready) : Delayed(c.queue, out, NcrMax - d.polls - 1)
              \/ \E out \in Outs(d, c.ready) : rx = Head(out) /\ c.queue = Tail(out)

\* The rest of the answer to CMD8 is as long as the row that reads it.
R7Stage(d, c, x) == c.got = <<>> /\ Len(c.queue) = Left(d, x)

\* The block is still to come, or never comes.
TokenStage(d, c, x, rx) ==
  /\ c.got = <<>> /\ d.send = <<Idle>>
  /\ x = 0 => c.queue \in Blocks(d.addr)
  /\ x = 1 => \/ rx = Idle /\ c.queue \in Blocks(d.addr)
              \/ rx = DataToken /\ c.queue = Tail(Framed(d.addr))

\* The buffer and the queue are the block.
DataStage(d, c, x, rx) ==
  /\ c.got = <<>> /\ Len(d.send) = 1
  /\ \A i \in 1 .. Len(d.buffer) : d.buffer[i] = Content[d.addr][i]
  /\ EndOf(c.queue, Framed(d.addr))
  /\ Len(c.queue) = BlockLen + 2 - Len(d.buffer) - x
  /\ x = 1 => rx = Content[d.addr][Len(d.buffer) + 1]

\* The block is read; what is left of the row is no command.
CrcStage(d, c) ==
  /\ c.got = <<>> /\ \A i \in 1 .. Len(d.send) : d.send[i] = Idle
  /\ d.buffer = Content[d.addr]

\* The driver, with a card in the slot.
Stage(d, c, x, rx) ==
  /\ Transferring(d) =>
       /\ d.pc = "sent" => SentStage(d, c, x)
       /\ d.pc = "poll" => PollStage(d, c, x, rx)
       /\ d.pc = "r7" => R7Stage(d, c, x)
       /\ d.pc = "token" => TokenStage(d, c, x, rx)
       /\ d.pc = "data" => DataStage(d, c, x, rx)
       /\ d.pc = "crc" => CrcStage(d, c)
  /\ d.at \in {"readcs", "setcs"} /\ d.pc # "off" => c.got = <<>> /\ c.queue = <<>>

\* The driver, without one: CMD0 is never answered.
Alone(d, c, x, rx) ==
  /\ ~c.ready /\ c.got = <<>> /\ c.queue = <<>>
  /\ d.call # "ReadBlock" /\ d.pc # "r7"
  /\ Transferring(d) /\ d.pc \in {"sent", "poll"} => d.cmd = CMD0 /\ (x = 1 => rx = Idle)
  /\ d.pc = "off" => d.ret # 0

\* What a call that succeeds has achieved.
Outcome(d, ready) ==
  /\ d.inited => ready
  /\ d.pc = "off" /\ d.ret = 0 =>
       /\ d.call = "Init" => ready
       /\ d.call = "ReadBlock" => d.buffer = Content[d.addr]
  /\ d.at = "fast" => d.pc = "off" /\ d.ret = 0
  /\ d.at \in {"none", "slow"} => d.pc = "none"

\* The byte of the transfer in hand has been exchanged.
Exchanged ==
  IF \/ spi.state = "TRANSFER" /\ spi.bit = 0 /\ spi.sck = 1
     \/ spi.state = "DONE"
     \/ spi.state = "IDLE" /\ drv.at \in {"status", "get"}
  THEN 1 ELSE 0

\* The byte that is shifted is the driver's, and so is the one it reads.
ByteInv ==
  /\ spi.state = "TRANSFER" => regs.tx = Head(drv.send)
  /\ drv.at = "get" /\ regs.ack = 1 => regs.rdt.data = spi.rx

Conversing(d, c, x, rx) ==
  /\ c.kind # "absent" => Stage(d, c, x, rx)
  /\ c.kind = "absent" => Alone(d, c, x, rx)
  /\ Outcome(d, c.ready)

TalkInv == Conversing(drv, card, Exchanged, spi.rx)
-----------------------------------------------------------------------------
(* What the card does with a byte.                                         *)

\* The four things that Exchange may do.
LEMMA ExchangeIs ==
  ASSUME card \in CardType, NEW tx \in Bytes, Exchange(tx)
  PROVE  /\ card' \in CardType /\ card'.kind = card.kind
         /\ card.queue # <<>> =>
              card'.queue = Tail(card.queue) /\ card'.got = card.got /\ card'.ready = card.ready
         /\ card.queue = <<>> /\ card.got = <<>> /\ tx \notin Commands => card' = card
         /\ card.queue = <<>> /\ (card.got # <<>> \/ tx \in Commands) /\ Len(card.got) < 5 =>
              /\ card'.queue = <<>> /\ card'.got = Append(card.got, tx)
              /\ card'.ready = card.ready
         /\ card.queue = <<>> /\ card.got # <<>> /\ Len(card.got) >= 5 =>
              \E r \in Answers(card.got), n \in 0 .. NcrMax :
                card'.got = <<>> /\ card'.queue = Idles(n) \o r.out /\ card'.ready = r.ready
<1>a. card.queue \in Seq(Bytes) /\ card.got \in Seq(Bytes) /\ Len(card.got) \in Nat
  BY DEF CardType
<1>b. Commands = {CMD0, CMD8, CMD17, CMD55, ACMD41}
  BY DEF Commands
<1>1. CASE card.queue # <<>>
  <2>1. card' = [card EXCEPT !.queue = Tail(card.queue)] /\ Tail(card.queue) \in Seq(Bytes)
    BY <1>1, <1>a, HeadTailProperties DEF Exchange
  <2>2. QED
    BY <1>1, <2>1 DEF CardType
<1>2. CASE card.queue = <<>> /\ card.got = <<>> /\ tx \notin Commands
  <2>1. card' = card
    BY <1>2, <1>b DEF Exchange
  <2>2. QED
    BY <1>2, <2>1
<1>3. CASE card.queue = <<>> /\ (card.got # <<>> \/ tx \in Commands) /\ Len(card.got) < 5
  <2> DEFINE more == Append(card.got, tx)
  <2>1. card' = [card EXCEPT !.got = more] /\ more \in Seq(Bytes)
    BY <1>3, <1>a, <1>b, AppendProperties DEF Exchange
  <2> HIDE DEF more
  <2>2. /\ card' \in CardType /\ card'.kind = card.kind /\ card'.got = more
        /\ card'.queue = card.queue /\ card'.ready = card.ready
    BY <2>1 DEF CardType
  <2>3. QED
    BY <1>3, <2>2 DEF more
<1>4. CASE card.queue = <<>> /\ card.got # <<>> /\ ~(Len(card.got) < 5)
  <2>1. PICK r \in Answers(card.got), n \in 0 .. NcrMax :
          card' = [card EXCEPT !.got = <<>>, !.queue = Idles(n) \o r.out,
                               !.ready = r.ready, !.app = r.app]
    BY <1>4, <1>b DEF Exchange
  <2> DEFINE queue == Idles(n) \o r.out
             ready == r.ready
             app == r.app
  <2>2. queue \in Seq(Bytes) /\ ready \in BOOLEAN /\ app \in BOOLEAN
    <3>1. r.out \in Seq(Bytes) /\ r.ready \in BOOLEAN /\ r.app \in BOOLEAN
      BY <1>a, <2>1, AnswersType
    <3>2. Idles(n) \in Seq(Bytes)
      BY IdlesType
    <3>3. QED
      BY <3>1, <3>2, ConcatProperties
  <2>3. card' = [card EXCEPT !.got = <<>>, !.queue = queue, !.ready = ready, !.app = app]
    BY <2>1
  <2> HIDE DEF queue, ready, app
  <2>4. /\ card' \in CardType /\ card'.kind = card.kind
        /\ card'.got = <<>> /\ card'.queue = queue /\ card'.ready = ready
    BY <1>a, <2>2, <2>3, EmptySeq DEF CardType
  <2>5. QED
    BY <1>4, <2>4 DEF queue, ready
<1>5. /\ card.queue = <<>> /\ card.got = <<>> => Len(card.got) = 0
      /\ Len(card.got) >= 5 <=> ~(Len(card.got) < 5)
  BY <1>a, EmptySeq
<1>6. QED
  BY <1>5, <1>1, <1>2, <1>3, <1>4

\* The answers, command by command.
LEMMA AnswersAre ==
  ASSUME card \in CardType, NEW got \in Seq(Bytes), NEW r \in Answers(got)
  PROVE  /\ got[1] = CMD0 => r.out = <<1>> /\ r.ready = FALSE
         /\ got[1] = CMD8 => r.out \in {<<5>>, <<R1, 0, 0, 1, 170>>} /\ r.ready = card.ready
         /\ got[1] = CMD55 => r.out = <<R1>> /\ r.ready = card.ready
         /\ got[1] = ACMD41 =>
              \/ r.out \in {<<R1>>, <<5>>} /\ r.ready = card.ready
              \/ r.out = <<0>> /\ r.ready = TRUE
         /\ got[1] = CMD17 =>
              \/ r.out = <<5>> /\ r.ready = card.ready
              \/ \E b \in Blocks(Argument(got)) : r.out = <<0>> \o b /\ r.ready = TRUE
<1>1. ASSUME got[1] = CMD0 PROVE r.out = <<1>> /\ r.ready = FALSE
  <2>1. Answers(got) = {Reply(<<1>>, FALSE, FALSE)}
    BY <1>1 DEF Answers, CMD0, CMD8, CMD17, CMD55, ACMD41
  <2>2. QED BY <2>1 DEF Reply
<1>2. ASSUME got[1] = CMD8
      PROVE  r.out \in {<<5>>, <<R1, 0, 0, 1, 170>>} /\ r.ready = card.ready
  <2>1. Answers(got) = {IF card.kind = "v1" THEN Illegal
                        ELSE Reply(<<R1, 0, 0, 1, 170>>, card.ready, FALSE)}
    BY <1>2 DEF Answers, CMD0, CMD8, CMD17, CMD55, ACMD41
  <2>2. QED BY <2>1 DEF Reply, Illegal
<1>3. ASSUME got[1] = CMD55 PROVE r.out = <<R1>> /\ r.ready = card.ready
  <2>1. Answers(got) = {Reply(<<R1>>, card.ready, TRUE)}
    BY <1>3 DEF Answers, CMD0, CMD8, CMD17, CMD55, ACMD41
  <2>2. QED BY <2>1 DEF Reply
<1>4. ASSUME got[1] = ACMD41
      PROVE  \/ r.out \in {<<R1>>, <<5>>} /\ r.ready = card.ready
             \/ r.out = <<0>> /\ r.ready = TRUE
  <2>1. Answers(got) = IF card.app
                       THEN {Reply(<<R1>>, card.ready, FALSE), Reply(<<0>>, TRUE, FALSE)}
                       ELSE {Illegal}
    BY <1>4 DEF Answers, CMD0, CMD8, CMD17, CMD55, ACMD41
  <2>2. QED BY <2>1 DEF Reply, Illegal
<1>5. ASSUME got[1] = CMD17
      PROVE  \/ r.out = <<5>> /\ r.ready = card.ready
             \/ \E b \in Blocks(Argument(got)) : r.out = <<0>> \o b /\ r.ready = TRUE
  <2>1. \/ got[1] \in {CMD0, CMD8, CMD55, ACMD41}
        \/ r = Illegal
        \/ \E b \in Blocks(Argument(got)) : r = Reply(<<0>> \o b, TRUE, FALSE)
    BY DEF Answers
  <2>2. got[1] \notin {CMD0, CMD8, CMD55, ACMD41}
    BY <1>5 DEF CMD0, CMD8, CMD17, CMD55, ACMD41
  <2>3. QED
    BY <2>1, <2>2 DEF Reply, Illegal
<1>6. QED
  BY <1>1, <1>2, <1>3, <1>4, <1>5

\* The commands, one by one.
LEMMA CommandsAre ==
  /\ Commands = {CMD0, CMD8, CMD17, CMD55, ACMD41}
  /\ CMD0 # CMD8 /\ CMD0 # CMD17 /\ CMD0 # CMD55 /\ CMD0 # ACMD41 /\ CMD8 # CMD17
  /\ CMD8 # CMD55 /\ CMD8 # ACMD41 /\ CMD17 # CMD55 /\ CMD17 # ACMD41 /\ CMD55 # ACMD41
  BY DEF Commands, CMD0, CMD8, CMD17, CMD55, ACMD41

\* A frame is a dummy byte, the command, its argument and a check sum.
LEMMA FrameIs ==
  ASSUME NEW d \in DrvType, d.cmd \in Commands, d.cmd = CMD17 => d.addr \in DOMAIN Content
  PROVE  /\ FrameOf(d) \in Seq(Bytes) /\ Len(FrameOf(d)) = 7
         /\ FrameOf(d)[1] = Idle /\ FrameOf(d)[2] = d.cmd
         /\ d.cmd = CMD17 =>
              /\ FrameOf(d)[3] = ByteOf(d.addr, 3) /\ FrameOf(d)[4] = ByteOf(d.addr, 2)
              /\ FrameOf(d)[5] = ByteOf(d.addr, 1) /\ FrameOf(d)[6] = ByteOf(d.addr, 0)
<1>1. ASSUME NEW arg \in Nat, NEW crc \in Bytes
      PROVE  LET f == CommandFrame(d.cmd, arg, crc)
             IN /\ f \in Seq(Bytes) /\ Len(f) = 7
                /\ f[1] = Idle /\ f[2] = d.cmd /\ f[3] = ByteOf(arg, 3) /\ f[4] = ByteOf(arg, 2)
                /\ f[5] = ByteOf(arg, 1) /\ f[6] = ByteOf(arg, 0)
  <2>1. /\ CommandFrame(d.cmd, arg, crc) \in Seq(Bytes)
        /\ Len(CommandFrame(d.cmd, arg, crc)) = 7
    BY FrameType
  <2>2. QED
    BY <2>1 DEF CommandFrame
<1>2. /\ 149 \in Bytes /\ 135 \in Bytes /\ Idle \in Bytes
      /\ 0 \in Nat /\ 426 \in Nat /\ 1073741824 \in Nat
  BY DEF Bytes, Idle
<1>3. d.cmd = CMD0 => FrameOf(d) = CommandFrame(d.cmd, 0, 149)
  BY CommandsAre DEF FrameOf
<1>4. d.cmd = CMD8 => FrameOf(d) = CommandFrame(d.cmd, 426, 135)
  BY CommandsAre DEF FrameOf
<1>5. d.cmd = CMD55 => FrameOf(d) = CommandFrame(d.cmd, 0, Idle)
  BY CommandsAre DEF FrameOf
<1>6. d.cmd = ACMD41 => FrameOf(d) = CommandFrame(d.cmd, 1073741824, Idle)
  BY CommandsAre DEF FrameOf
<1>7. d.cmd = CMD17 => d.addr \in Nat /\ FrameOf(d) = CommandFrame(d.cmd, d.addr, Idle)
  BY CommandsAre, Parameters DEF FrameOf
<1>8. CASE d.cmd = CMD17
  <2> DEFINE arg == d.addr
  <2>1. arg \in Nat /\ FrameOf(d) = CommandFrame(d.cmd, arg, Idle)
    BY <1>7, <1>8
  <2> HIDE DEF arg
  <2>2. /\ FrameOf(d) \in Seq(Bytes) /\ Len(FrameOf(d)) = 7
        /\ FrameOf(d)[1] = Idle /\ FrameOf(d)[2] = d.cmd /\ FrameOf(d)[3] = ByteOf(arg, 3)
        /\ FrameOf(d)[4] = ByteOf(arg, 2) /\ FrameOf(d)[5] = ByteOf(arg, 1)
        /\ FrameOf(d)[6] = ByteOf(arg, 0)
    BY <1>1, <1>2, <2>1
  <2>3. QED
    BY <2>2 DEF arg
<1>9. CASE d.cmd # CMD17
  <2>1. \E arg \in Nat, crc \in Bytes : FrameOf(d) = CommandFrame(d.cmd, arg, crc)
    BY <1>2, <1>3, <1>4, <1>5, <1>6, <1>9, CommandsAre
  <2>2. PICK arg \in Nat, crc \in Bytes : FrameOf(d) = CommandFrame(d.cmd, arg, crc)
    BY <2>1
  <2>3. /\ FrameOf(d) \in Seq(Bytes) /\ Len(FrameOf(d)) = 7
        /\ FrameOf(d)[1] = Idle /\ FrameOf(d)[2] = d.cmd
    BY <1>1, <2>2
  <2>4. QED
    BY <1>9, <2>3
<1>10. QED
  BY <1>8, <1>9

\* A framed block: the token, its bytes and two more.
LEMMA FramedIs ==
  ASSUME NEW a \in DOMAIN Content
  PROVE  /\ Content[a] \in Seq(Bytes) /\ Len(Content[a]) = BlockLen
         /\ Framed(a) \in Seq(Bytes) /\ Len(Framed(a)) = BlockLen + 3 /\ Framed(a) # <<>>
         /\ Head(Framed(a)) = DataToken
         /\ \A i \in 1 .. BlockLen : Framed(a)[i + 1] = Content[a][i]
<1> DEFINE block == Content[a]
           crc == <<170, 85>>
           token == <<DataToken>>
<1>1. block \in Seq(Bytes) /\ Len(block) = BlockLen /\ BlockLen \in Nat
  BY Parameters
<1>t. token \in Seq(Bytes) /\ Len(token) = 1 /\ token[1] = DataToken
  BY DEF Bytes, DataToken
<1>2. crc \in Seq(Bytes) /\ Len(crc) = 2
  BY DEF Bytes
<1> DEFINE s == token \o block
           f == Framed(a)
<1>3. f = s \o crc
  BY DEF Framed
<1> HIDE DEF block, crc, token, f
<1>4. /\ s \in Seq(Bytes) /\ Len(s) = 1 + BlockLen
      /\ \A i \in 1 .. 1 : s[i] = token[i]
      /\ \A i \in 1 .. BlockLen : s[1 + i] = block[i]
  <2>1. /\ s \in Seq(Bytes) /\ Len(s) = Len(token) + Len(block)
        /\ \A i \in 1 .. Len(token) : s[i] = token[i]
        /\ \A i \in 1 .. Len(block) : s[Len(token) + i] = block[i]
    BY <1>1, <1>t, ConcatIs
  <2>2. QED
    BY <1>1, <1>t, <2>1
<1> HIDE DEF s
<1>5. 1 + BlockLen \in Nat
  BY <1>1
<1>6. /\ f \in Seq(Bytes) /\ Len(f) = 1 + BlockLen + 2
      /\ \A i \in 1 .. 1 + BlockLen : f[i] = s[i]
  <2>1. /\ f \in Seq(Bytes) /\ Len(f) = Len(s) + Len(crc)
        /\ \A i \in 1 .. Len(s) : f[i] = s[i]
    BY <1>2, <1>3, <1>4, ConcatIs
  <2>2. QED
    BY <1>2, <1>4, <1>5, <2>1
<1>7. f # <<>> /\ Head(f) = f[1]
  BY <1>1, <1>6, EmptySeq
<1>8. f[1] = DataToken
  <2>1. 1 \in 1 .. 1 + BlockLen /\ 1 \in 1 .. 1
    BY <1>1
  <2>2. QED
    BY <1>t, <1>4, <1>6, <2>1
<1>9. ASSUME NEW i \in 1 .. BlockLen PROVE f[i + 1] = block[i]
  <2>1. 1 + i \in 1 .. 1 + BlockLen /\ 1 + i = i + 1
    BY <1>1
  <2>2. QED
    BY <1>4, <1>6, <2>1
<1>10. Len(f) = BlockLen + 3
  BY <1>1, <1>6
<1>11. QED
  BY <1>1, <1>6, <1>7, <1>8, <1>9, <1>10 DEF block, f

\* A block is on its way, or there is none.
LEMMA BlocksAre ==
  ASSUME NEW a \in DOMAIN Content, NEW b \in Blocks(a)
  PROVE  b \in Seq(Bytes) /\ (b = <<>> \/ Delayed(b, Framed(a), TokenMax))
<1> DEFINE f == Framed(a)
<1>1. b = <<>> \/ Delayed(b, f, TokenMax)
  BY DEF Blocks, Delayed
<1>2. f \in Seq(Bytes) /\ f # <<>> /\ TokenMax \in Nat
  BY FramedIs, Parameters
<1> HIDE DEF f
<1>3. Delayed(b, f, TokenMax) => b \in Seq(Bytes)
  BY <1>2, DelayedHead
<1>4. b = <<>> => b \in Seq(Bytes)
  OBVIOUS
<1>5. QED
  BY <1>1, <1>3, <1>4 DEF f

\* Every block that is delayed enough is on its way.
LEMMA BlocksDelay ==
  ASSUME NEW a \in DOMAIN Content, NEW b, NEW n \in 0 .. TokenMax, Delayed(b, Framed(a), n)
  PROVE  b \in Blocks(a)
<1>1. PICK k \in 0 .. n : b = Idles(k) \o Framed(a)
  BY DEF Delayed
<1>2. k \in 0 .. TokenMax
  <2>1. TokenMax \in Nat
    BY Parameters
  <2>2. QED
    BY <2>1
<1>3. QED
  BY <1>1, <1>2 DEF Blocks

\* The first byte of an answer is a result, and no answer is empty.
LEMMA OutsAre ==
  ASSUME NEW d \in DrvType, d.cmd \in Commands, d.cmd = CMD17 => d.addr \in DOMAIN Content,
         NEW ready \in BOOLEAN, NEW out \in Outs(d, ready)
  PROVE  /\ out \in Seq(Bytes) /\ out # <<>> /\ Head(out) \in {0, 1, 5}
         /\ d.cmd = CMD0 => Head(out) = 1 /\ Tail(out) = <<>>
         /\ d.cmd = CMD8 => \/ Head(out) = 5 /\ Tail(out) = <<>>
                            \/ Head(out) = 1 /\ Tail(out) \in Seq(Bytes) /\ Len(Tail(out)) = 4
         /\ d.cmd \in {CMD55, ACMD41} => Tail(out) = <<>>
         /\ d.cmd = ACMD41 /\ Head(out) = 0 => ready
         /\ d.cmd = CMD17 => \/ Head(out) = 5 /\ Tail(out) = <<>>
                             \/ Head(out) = 0 /\ Tail(out) \in Blocks(d.addr)
<1>1. ASSUME NEW x \in {0, 1, 5}
      PROVE  <<x>> \in Seq(Bytes) /\ <<x>> # <<>> /\ Head(<<x>>) = x /\ Tail(<<x>>) = <<>>
  BY DEF Bytes
<1> DEFINE r7 == <<1, 0, 0, 1, 170>>
<1>2. /\ r7 \in Seq(Bytes) /\ r7 # <<>> /\ Head(r7) = 1 /\ Tail(r7) \in Seq(Bytes)
      /\ Len(Tail(r7)) = 4
  <2>1. r7 \in Seq(Bytes) /\ r7 # <<>> /\ Len(r7) = 5 /\ r7[1] = 1
    BY DEF Bytes
  <2>2. QED
    BY <2>1, HeadTailProperties
<1> HIDE DEF r7
<1>3. CASE d.cmd = CMD0
  <2>1. out = <<1>>
    BY <1>3, CommandsAre DEF Outs
  <2>2. QED BY <1>1, <1>3, <2>1, CommandsAre
<1>4. CASE d.cmd = CMD8
  <2>1. out = <<5>> \/ out = r7
    BY <1>4, CommandsAre DEF Outs, r7
  <2>2. QED BY <1>1, <1>2, <1>4, <2>1, CommandsAre
<1>5. CASE d.cmd = CMD55
  <2>1. out = <<0>> \/ out = <<1>>
    BY <1>5, CommandsAre DEF Outs
  <2>2. QED BY <1>1, <1>5, <2>1, CommandsAre
<1>6. CASE d.cmd = ACMD41
  <2>1. out = <<1>> \/ out = <<5>> \/ (ready /\ out = <<0>>)
    <3>1. out \in {<<1>>, <<5>>} \cup (IF ready THEN {<<0>>} ELSE {})
      BY <1>6, CommandsAre DEF Outs
    <3>2. CASE ready
      BY <3>1, <3>2
    <3>3. CASE ~ready
      BY <3>1, <3>3
    <3>4. QED
      BY <3>2, <3>3, Zenon
  <2>2. /\ out \in Seq(Bytes) /\ out # <<>> /\ Head(out) \in {0, 1, 5} /\ Tail(out) = <<>>
    <3>1. out = <<0>> \/ out = <<1>> \/ out = <<5>>
      BY <2>1
    <3>2. QED
      BY <1>1, <3>1
  <2>3. Head(out) = 0 => ready
    <3>1. out # <<0>> => Head(out) # 0
      <4>1. out # <<0>> => out = <<1>> \/ out = <<5>>
        BY <2>1
      <4>2. QED
        BY <1>1, <4>1
    <3>2. out = <<0>> => ready
      <4>1. <<0>> # <<1>> /\ <<0>> # <<5>>
        OBVIOUS
      <4>2. QED
        BY <2>1, <4>1, Zenon
    <3>3. QED
      BY <3>1, <3>2, Zenon
  <2>4. d.cmd # CMD0 /\ d.cmd # CMD8 /\ d.cmd # CMD17
    BY <1>6, CommandsAre
  <2>5. QED
    BY <2>2, <2>3, <2>4, Zenon
<1>7. CASE d.cmd = CMD17
  <2>1. out = <<5>> \/ \E b \in Blocks(d.addr) : out = <<0>> \o b
    BY <1>7, CommandsAre DEF Outs
  <2>2. CASE out = <<5>>
    BY <1>1, <1>7, <2>2, CommandsAre
  <2> DEFINE z == <<0>>
  <2>3. ASSUME NEW b \in Blocks(d.addr), out = z \o b
        PROVE  out \in Seq(Bytes) /\ out # <<>> /\ Head(out) = 0 /\ Tail(out) = b
    <3>1. b \in Seq(Bytes)
      BY <1>7, BlocksAre
    <3>2. z \in Seq(Bytes) /\ Len(z) = 1 /\ z[1] = 0
      BY DEF Bytes
    <3>3. out = z \o b
      BY <2>3
    <3> HIDE DEF z
    <3>4. Len(b) \in Nat
      BY <3>1, LenProperties
    <3>5. /\ out \in Seq(Bytes) /\ Len(out) = 1 + Len(b)
          /\ \A i \in 1 .. 1 : out[i] = z[i]
          /\ \A i \in 1 .. Len(b) : out[1 + i] = b[i]
      <4>1. /\ out \in Seq(Bytes) /\ Len(out) = Len(z) + Len(b)
            /\ \A i \in 1 .. Len(z) : out[i] = z[i]
            /\ \A i \in 1 .. Len(b) : out[Len(z) + i] = b[i]
        BY <3>1, <3>2, <3>3, ConcatIs
      <4>2. QED
        BY <3>2, <3>4, <4>1
    <3>6. out # <<>> /\ Head(out) = 0
      BY <3>2, <3>4, <3>5, EmptySeq
    <3>7. /\ Tail(out) \in Seq(Bytes) /\ Len(Tail(out)) = Len(b)
          /\ \A i \in 1 .. Len(b) : Tail(out)[i] = b[i]
      <4>1. /\ Tail(out) \in Seq(Bytes) /\ Len(Tail(out)) = Len(out) - 1
            /\ \A i \in 1 .. Len(Tail(out)) : Tail(out)[i] = out[i + 1]
        BY <3>5, <3>6, HeadTailProperties
      <4>2. ASSUME NEW i \in 1 .. Len(b) PROVE Tail(out)[i] = b[i]
        <5>1. i \in 1 .. Len(Tail(out)) /\ i + 1 = 1 + i
          BY <3>4, <3>5, <4>1
        <5>2. QED
          BY <3>5, <4>1, <5>1
      <4>3. QED
        BY <3>4, <3>5, <4>1, <4>2
    <3>8. Tail(out) = b
      BY <3>1, <3>7, SeqEqual
    <3>9. QED
      BY <3>5, <3>6, <3>8
  <2>4. QED
    BY <1>7, <2>1, <2>2, <2>3, CommandsAre
<1>8. QED
  BY <1>3, <1>4, <1>5, <1>6, <1>7, CommandsAre
-----------------------------------------------------------------------------
(* A byte is exchanged, stage by stage.                                    *)

\* What is known of a row in any stage.
LEMMA RowIs ==
  ASSUME NEW d \in DrvType, Flow(d), Transferring(d)
  PROVE  /\ d.send \in Seq(Bytes) /\ d.send # <<>> /\ Len(d.send) \in Nat \ {0}
         /\ Head(d.send) \in Bytes /\ Head(d.send) = d.send[1] /\ d.pc \in RowPcs
         /\ d.pc \in {"sent", "poll"} =>
              /\ d.cmd \in Commands /\ (d.cmd = CMD17 => d.addr \in DOMAIN Content)
              /\ d.cmd = CMD0 => ~d.inited
         /\ d.pc \in {"token", "data", "crc"} => d.addr \in DOMAIN Content
         /\ Left(d, 0) = Len(d.send) /\ Left(d, 1) = Len(d.send) - 1
<1>1. /\ d.send \in Seq(Bytes) /\ d.send # <<>> /\ d.pc \in RowPcs
      /\ d.pc \in {"sent", "poll"} => d.cmd \in Commands
      /\ d.pc \in {"sent", "poll"} /\ d.cmd = CMD17 => d.call = "ReadBlock"
      /\ d.pc \in {"sent", "poll"} /\ d.cmd # CMD17 => d.call = "Init"
      /\ d.pc \in {"token", "data", "crc"} => d.call = "ReadBlock"
      /\ d.call = "ReadBlock" => d.addr \in DOMAIN Content
      /\ d.call = "Init" => ~d.inited
  BY DEF Flow, DrvType
<1>2. Len(d.send) \in Nat \ {0} /\ Head(d.send) \in Bytes /\ Head(d.send) = d.send[1]
  BY <1>1, EmptySeq, HeadTailProperties
<1>3. QED
  BY <1>1, <1>2, CommandsAre DEF Left

\* The card takes a byte of the command, or answers to the last one.
LEMMA SentExchange ==
  ASSUME card \in CardType, NEW d \in DrvType, Flow(d), Transferring(d), d.pc = "sent",
         SentStage(d, card, 0), Exchange(Head(d.send))
  PROVE  SentStage(d, card', 1) /\ ((d.inited => card.ready) => (d.inited => card'.ready))
<1> DEFINE L == Len(d.send)
           F == FrameOf(d)
           tx == Head(d.send)
<1>a. /\ d.send \in Seq(Bytes) /\ d.send # <<>> /\ L \in Nat \ {0} /\ tx \in Bytes
      /\ d.cmd \in Commands /\ (d.cmd = CMD17 => d.addr \in DOMAIN Content)
      /\ d.cmd = CMD0 => ~d.inited
      /\ Left(d, 0) = L /\ Left(d, 1) = L - 1
  BY RowIs
<1>b. F \in Seq(Bytes) /\ Len(F) = 7 /\ F[1] = Idle /\ F[2] = d.cmd
  BY <1>a, FrameIs
<1>c. /\ EndOf(d.send, F) /\ d.polls = 0 /\ L <= 7
      /\ L >= 6 => card.got = <<>> /\ card.queue = <<>>
      /\ L \in 1 .. 5 => /\ card.queue = <<>> /\ Len(card.got) = 6 - L
                         /\ \A i \in 1 .. Len(card.got) : card.got[i] = F[i + 1]
      /\ d.cmd = CMD8 => ~card.ready
  BY <1>a, <1>b DEF SentStage, EndOf
<1>d. tx = F[7 - L + 1]
  <2>1. tx = d.send[1] /\ 1 \in 1 .. L
    BY <1>a, RowIs
  <2>2. d.send[1] = F[Len(F) - L + 1]
    BY <1>c, <2>1 DEF EndOf
  <2>3. QED
    BY <1>b, <2>1, <2>2
<1>e. card.got \in Seq(Bytes) /\ card.ready \in BOOLEAN
  BY DEF CardType
<1>x. /\ card.queue = <<>> /\ card.got = <<>> /\ tx \notin Commands => card' = card
      /\ card.queue = <<>> /\ (card.got # <<>> \/ tx \in Commands) /\ Len(card.got) < 5 =>
           /\ card'.queue = <<>> /\ card'.got = Append(card.got, tx)
           /\ card'.ready = card.ready
  BY <1>a, ExchangeIs
<1>y. card.queue = <<>> /\ card.got # <<>> /\ Len(card.got) >= 5 =>
        \E r \in Answers(card.got), n \in 0 .. NcrMax :
          card'.got = <<>> /\ card'.queue = Idles(n) \o r.out /\ card'.ready = r.ready
  BY <1>a, ExchangeIs
<1> HIDE DEF L, F, tx
<1> DEFINE Answered == /\ card'.got = <<>>
                       /\ \E out \in Outs(d, card'.ready) : Delayed(card'.queue, out, NcrMax)
           Taking(k) == /\ card'.queue = <<>> /\ Len(card'.got) = k
                        /\ \A i \in 1 .. Len(card'.got) : card'.got[i] = F[i + 1]
           Unready == d.cmd = CMD8 => ~card'.ready
<1>s. /\ L = 7 /\ card'.got = <<>> /\ card'.queue = <<>> /\ Unready => SentStage(d, card', 1)
      /\ L \in 2 .. 6 /\ Taking(7 - L) /\ Unready => SentStage(d, card', 1)
      /\ L = 1 /\ Answered /\ Unready /\ (d.cmd = CMD0 => ~card'.ready) => SentStage(d, card', 1)
  <2>1. ASSUME L = 7, card'.got = <<>>, card'.queue = <<>>, Unready PROVE SentStage(d, card', 1)
    <3>1. Left(d, 1) = 6
      BY <1>a, <2>1
    <3>2. QED
      BY <1>c, <2>1, <3>1 DEF SentStage, F
  <2>2. ASSUME L \in 2 .. 6, Taking(7 - L), Unready PROVE SentStage(d, card', 1)
    <3>1. Left(d, 1) \in 1 .. 5 /\ 6 - Left(d, 1) = 7 - L
      BY <1>a, <2>2
    <3>2. QED
      BY <1>c, <2>2, <3>1 DEF SentStage, F
  <2>3. ASSUME L = 1, Answered, Unready, d.cmd = CMD0 => ~card'.ready
        PROVE  SentStage(d, card', 1)
    <3>1. Left(d, 1) = 0
      BY <1>a, <2>3
    <3>2. QED
      BY <1>c, <2>3, <3>1 DEF SentStage, F
  <2>4. QED
    BY <2>1, <2>2, <2>3
<1>1. CASE L = 7
  <2>1. card' = card
    <3>1. tx \notin Commands
      BY <1>1, <1>b, <1>d, CommandBytes
    <3>2. QED
      BY <1>1, <1>c, <1>x, <3>1
  <2>2. QED
    BY <1>1, <1>c, <1>s, <2>1
<1>2. CASE L = 6
  <2>1. tx = d.cmd /\ tx \in Bytes
    BY <1>2, <1>a, <1>b, <1>d
  <2>2. Len(<<>>) < 5 /\ Append(<<>>, tx) = <<tx>> /\ Len(<<tx>>) = 1 /\ <<tx>>[1] = tx
    OBVIOUS
  <2>3. card'.queue = <<>> /\ card'.got = <<tx>> /\ card'.ready = card.ready
    BY <1>2, <1>a, <1>c, <1>x, <2>1, <2>2
  <2>4. Taking(1)
    BY <1>b, <2>1, <2>2, <2>3
  <2>5. QED
    BY <1>2, <1>c, <1>s, <2>3, <2>4
<1>3. CASE L \in 2 .. 5
  <2>1. card.queue = <<>> /\ Len(card.got) = 6 - L /\ card.got # <<>> /\ Len(card.got) < 5
    BY <1>3, <1>c, EmptySeq
  <2>2. card'.queue = <<>> /\ card'.got = Append(card.got, tx) /\ card'.ready = card.ready
    BY <1>x, <2>1
  <2>3. /\ Len(card'.got) = 6 - (L - 1)
        /\ \A i \in 1 .. 6 - L : card'.got[i] = card.got[i]
        /\ card'.got[6 - L + 1] = tx
    BY <1>3, <1>a, <1>e, <2>1, <2>2, AppendProperties
  <2>4. ASSUME NEW i \in 1 .. Len(card'.got) PROVE card'.got[i] = F[i + 1]
    <3>1. CASE i \in 1 .. 6 - L
      BY <1>3, <1>c, <2>1, <2>3, <3>1
    <3>2. CASE i = 6 - L + 1
      <4>1. i + 1 = 7 - L + 1
        BY <1>3, <3>2
      <4>2. QED
        BY <1>d, <2>3, <3>2, <4>1
    <3>3. QED
      BY <1>3, <2>3, <3>1, <3>2
  <2>5. Taking(7 - L)
    BY <1>3, <2>2, <2>3, <2>4
  <2>6. QED
    BY <1>3, <1>c, <1>s, <2>2, <2>5
<1>4. CASE L = 1
  <2>1. /\ card.queue = <<>> /\ Len(card.got) = 5 /\ card.got # <<>>
        /\ \A i \in 1 .. 5 : card.got[i] = F[i + 1]
    BY <1>4, <1>c, EmptySeq
  <2>2. PICK r \in Answers(card.got), n \in 0 .. NcrMax :
          card'.got = <<>> /\ card'.queue = Idles(n) \o r.out /\ card'.ready = r.ready
    <3>1. Len(card.got) >= 5
      BY <2>1
    <3>2. QED
      BY <1>y, <2>1, <3>1, Zenon
  <2>3. card.got[1] = d.cmd
    BY <1>b, <2>1
  <2>4. r.out \in Outs(d, card'.ready) /\ (d.cmd \in {CMD0, CMD8} => ~card'.ready)
        /\ ((d.inited => card.ready) => (d.inited => card'.ready))
    <3>1. CASE d.cmd = CMD0
      <4>1. r.out = <<1>> /\ r.ready = FALSE
        BY <1>e, <2>3, <3>1, AnswersAre
      <4>2. QED
        BY <1>a, <2>2, <3>1, <4>1, CommandsAre DEF Outs
    <3>2. CASE d.cmd = CMD8
      <4>1. r.out \in {<<5>>, <<R1, 0, 0, 1, 170>>} /\ r.ready = card.ready
        BY <1>e, <2>3, <3>2, AnswersAre
      <4>2. R1 = 1
        BY <1>c, <3>2 DEF R1
      <4>3. QED
        BY <1>c, <2>2, <3>2, <4>1, <4>2, CommandsAre DEF Outs
    <3>3. CASE d.cmd = CMD55
      <4>1. r.out = <<R1>> /\ r.ready = card.ready
        BY <1>e, <2>3, <3>3, AnswersAre
      <4>2. R1 \in {0, 1}
        BY DEF R1
      <4>3. QED
        BY <2>2, <3>3, <4>1, <4>2, CommandsAre DEF Outs
    <3>4. CASE d.cmd = ACMD41
      <4>1. \/ r.out \in {<<R1>>, <<5>>} /\ r.ready = card.ready
            \/ r.out = <<0>> /\ r.ready = TRUE
        BY <1>e, <2>3, <3>4, AnswersAre
      <4>2. R1 = 1 \/ (R1 = 0 /\ card.ready)
        BY DEF R1
      <4>3. QED
        BY <2>2, <3>4, <4>1, <4>2, CommandsAre DEF Outs
    <3>5. CASE d.cmd = CMD17
      <4>1. \/ r.out = <<5>> /\ r.ready = card.ready
            \/ \E b \in Blocks(Argument(card.got)) : r.out = <<0>> \o b /\ r.ready = TRUE
        BY <1>e, <2>3, <3>5, AnswersAre
      <4>2. /\ F[3] = ByteOf(d.addr, 3) /\ F[4] = ByteOf(d.addr, 2)
            /\ F[5] = ByteOf(d.addr, 1) /\ F[6] = ByteOf(d.addr, 0)
        BY <1>a, <3>5, FrameIs DEF F
      <4>3. /\ card.got[2] = F[3] /\ card.got[3] = F[4]
            /\ card.got[4] = F[5] /\ card.got[5] = F[6]
        BY <2>1
      <4>4. d.addr \in Nat /\ d.addr \div 16777216 < 256
        BY <1>a, <3>5, Addresses
      <4>5. Argument(card.got) = d.addr
        BY <4>2, <4>3, <4>4, ArgumentIs
      <4>6. QED
        BY <2>2, <3>5, <4>1, <4>5, CommandsAre DEF Outs
    <3>6. QED
      BY <1>a, <3>1, <3>2, <3>3, <3>4, <3>5, CommandsAre
  <2>5. Answered
    BY <2>2, <2>4 DEF Delayed
  <2>6. QED
    BY <1>4, <1>s, <2>2, <2>4, <2>5
<1>5. L \in 1 .. 7
  BY <1>a, <1>c
<1>6. QED
  BY <1>1, <1>2, <1>3, <1>4, <1>5

\* A poll gets a byte of nothing, or the answer.
LEMMA PollExchange ==
  ASSUME card \in CardType, NEW d \in DrvType, Flow(d), Transferring(d), d.pc = "poll",
         PollStage(d, card, 0, 0), Exchange(Head(d.send))
  PROVE  PollStage(d, card', 1, Head(card.queue)) /\ card'.ready = card.ready
         /\ card.queue # <<>>
<1>a. d.cmd \in Commands /\ (d.cmd = CMD17 => d.addr \in DOMAIN Content) /\ Head(d.send) \in Bytes
  BY RowIs
<1>b. /\ card.got = <<>> /\ Len(d.send) = 1 /\ (d.cmd \in {CMD0, CMD8} => ~card.ready)
      /\ d.polls \in Nat /\ NcrMax \in Nat /\ d.polls <= NcrMax
  BY Parameters DEF PollStage, DrvType
<1>c. card.ready \in BOOLEAN
  BY DEF CardType
<1>1. PICK out \in Outs(d, card.ready) : Delayed(card.queue, out, NcrMax - d.polls)
  BY DEF PollStage
<1>2. out \in Seq(Bytes) /\ out # <<>>
  BY <1>a, <1>c, OutsAre
<1>3. /\ card.queue # <<>>
      /\ \/ Head(card.queue) = Head(out) /\ Tail(card.queue) = Tail(out)
         \/ /\ NcrMax - d.polls > 0 /\ Head(card.queue) = Idle
            /\ Delayed(Tail(card.queue), out, NcrMax - d.polls - 1)
  <2>1. NcrMax - d.polls \in Nat
    BY <1>b
  <2>2. QED
    BY <1>1, <1>2, <2>1, DelayedHead
<1>4. card'.queue = Tail(card.queue) /\ card'.got = card.got /\ card'.ready = card.ready
  BY <1>a, <1>3, ExchangeIs
<1>5. \/ /\ Head(card.queue) = Idle /\ d.polls < NcrMax
         /\ \E o \in Outs(d, card'.ready) : Delayed(card'.queue, o, NcrMax - d.polls - 1)
      \/ \E o \in Outs(d, card'.ready) : Head(card.queue) = Head(o) /\ card'.queue = Tail(o)
  BY <1>b, <1>3, <1>4
<1>6. QED
  BY <1>b, <1>3, <1>4, <1>5 DEF PollStage

\* A byte of the answer to CMD8 is read.
LEMMA R7Exchange ==
  ASSUME card \in CardType, NEW d \in DrvType, Flow(d), Transferring(d), d.pc = "r7",
         R7Stage(d, card, 0), Exchange(Head(d.send))
  PROVE  R7Stage(d, card', 1) /\ card'.ready = card.ready
<1>1. /\ Len(card.queue) = Len(d.send) /\ Len(d.send) \in Nat \ {0} /\ Head(d.send) \in Bytes
      /\ Left(d, 1) = Len(d.send) - 1 /\ card.got = <<>>
  BY RowIs DEF R7Stage
<1>2. card.queue \in Seq(Bytes) /\ card.queue # <<>>
  BY <1>1, EmptySeq DEF CardType
<1>3. card'.queue = Tail(card.queue) /\ card'.got = card.got /\ card'.ready = card.ready
  BY <1>1, <1>2, ExchangeIs
<1>4. Len(Tail(card.queue)) = Len(card.queue) - 1
  BY <1>2, HeadTailProperties
<1>5. QED
  BY <1>1, <1>3, <1>4 DEF R7Stage

\* The driver looks for the token.
LEMMA TokenExchange ==
  ASSUME card \in CardType, NEW d \in DrvType, Flow(d), Transferring(d), d.pc = "token",
         TokenStage(d, card, 0, 0), Exchange(Head(d.send)),
         NEW rx, rx = IF card.queue # <<>> THEN Head(card.queue) ELSE Idle
  PROVE  TokenStage(d, card', 1, rx) /\ card'.ready = card.ready
<1>a. d.addr \in DOMAIN Content /\ Head(d.send) \in Bytes
  BY RowIs
<1>b. card.got = <<>> /\ d.send = <<Idle>> /\ card.queue \in Blocks(d.addr)
  BY DEF TokenStage
<1>1. CASE card.queue = <<>>
  <2>1. Head(d.send) = Idle /\ Idle \notin Commands
    BY <1>b, CommandBytes
  <2>2. card' = card
    BY <1>1, <1>a, <1>b, <2>1, ExchangeIs
  <2>3. card'.got = <<>> /\ card'.queue \in Blocks(d.addr) /\ card'.ready = card.ready /\ rx = Idle
    BY <1>1, <1>b, <2>2
  <2>4. QED
    BY <1>b, <2>3 DEF TokenStage
<1>2. CASE card.queue # <<>>
  <2>1. card'.queue = Tail(card.queue) /\ card'.got = card.got /\ card'.ready = card.ready
    BY <1>2, <1>a, ExchangeIs
  <2>2. Delayed(card.queue, Framed(d.addr), TokenMax)
    BY <1>2, <1>a, <1>b, BlocksAre
  <2>3. \/ Head(card.queue) = DataToken /\ Tail(card.queue) = Tail(Framed(d.addr))
        \/ /\ TokenMax > 0 /\ Head(card.queue) = Idle
           /\ Delayed(Tail(card.queue), Framed(d.addr), TokenMax - 1)
    <3>1. /\ Framed(d.addr) \in Seq(Bytes) /\ Framed(d.addr) # <<>>
          /\ Head(Framed(d.addr)) = DataToken /\ TokenMax \in Nat
      BY <1>a, FramedIs, Parameters
    <3>2. QED
      BY <2>2, <3>1, DelayedHead
  <2>4. TokenMax > 0 => TokenMax - 1 \in 0 .. TokenMax
    BY Parameters
  <2>5. \/ Head(card.queue) = DataToken /\ Tail(card.queue) = Tail(Framed(d.addr))
        \/ Head(card.queue) = Idle /\ Tail(card.queue) \in Blocks(d.addr)
    BY <1>a, <2>3, <2>4, BlocksDelay
  <2>6. rx = Head(card.queue)
    BY <1>2
  <2>7. \/ rx = DataToken /\ card'.queue = Tail(Framed(d.addr))
        \/ rx = Idle /\ card'.queue \in Blocks(d.addr)
    BY <2>1, <2>5, <2>6
  <2>8. QED
    BY <1>b, <2>1, <2>7 DEF TokenStage
<1>3. QED
  BY <1>1, <1>2

\* The next byte of the block is read.
LEMMA DataExchange ==
  ASSUME card \in CardType, NEW d \in DrvType, Flow(d), Transferring(d), d.pc = "data",
         DataStage(d, card, 0, 0), Exchange(Head(d.send))
  PROVE  DataStage(d, card', 1, Head(card.queue)) /\ card'.ready = card.ready
         /\ card.queue # <<>>
<1> DEFINE n == Len(d.buffer)
           s == Framed(d.addr)
           q == card.queue
<1>a. d.addr \in DOMAIN Content /\ Head(d.send) \in Bytes
  BY RowIs
<1>b. n \in Nat /\ n < BlockLen /\ BlockLen \in Nat
  BY Parameters DEF Flow, DrvType
<1>c. /\ card.got = <<>> /\ Len(d.send) = 1
      /\ \A i \in 1 .. n : d.buffer[i] = Content[d.addr][i]
      /\ EndOf(q, s) /\ Len(q) = BlockLen + 2 - n
  BY <1>b DEF DataStage
<1>d. /\ s \in Seq(Bytes) /\ Len(s) = BlockLen + 3
      /\ \A i \in 1 .. BlockLen : s[i + 1] = Content[d.addr][i]
  BY <1>a, FramedIs
<1>e. q \in Seq(Bytes) /\ q # <<>>
  BY <1>b, <1>c, EmptySeq DEF CardType
<1>1. card'.queue = Tail(q) /\ card'.got = card.got /\ card'.ready = card.ready
  BY <1>a, <1>e, ExchangeIs
<1> HIDE DEF n, s, q
<1>2. Head(q) = s[Len(s) - Len(q) + 1] /\ Len(Tail(q)) = Len(q) - 1 /\ EndOf(Tail(q), s)
  BY <1>c, <1>d, <1>e, EndTail
<1>3. Len(s) - Len(q) + 1 = (n + 1) + 1 /\ n + 1 \in 1 .. BlockLen
      /\ Len(Tail(q)) = BlockLen + 2 - n - 1
  BY <1>b, <1>c, <1>d, <1>2
<1>4. Head(q) = Content[d.addr][n + 1]
  BY <1>d, <1>2, <1>3
<1>5. QED
  BY <1>c, <1>e, <1>1, <1>2, <1>3, <1>4 DEF DataStage, n, s, q

\* The check sum is read, and is no command for the card.
LEMMA CrcExchange ==
  ASSUME card \in CardType, NEW d \in DrvType, Flow(d), Transferring(d), d.pc = "crc",
         CrcStage(d, card), Exchange(Head(d.send))
  PROVE  CrcStage(d, card') /\ card'.ready = card.ready
<1>1. card.got = <<>> /\ Head(d.send) = Idle /\ Head(d.send) \in Bytes
  <2>1. 1 \in 1 .. Len(d.send) /\ Head(d.send) = d.send[1] /\ Head(d.send) \in Bytes
    BY RowIs
  <2>2. QED
    BY <2>1 DEF CrcStage
<1>2. Idle \notin Commands
  BY CommandBytes
<1>3. card'.got = <<>> /\ card'.ready = card.ready
  <2>1. CASE card.queue = <<>>
    BY <1>1, <1>2, <2>1, ExchangeIs
  <2>2. CASE card.queue # <<>>
    BY <1>1, <2>2, ExchangeIs
  <2>3. QED BY <2>1, <2>2
<1>4. QED
  BY <1>3 DEF CrcStage
-----------------------------------------------------------------------------
(* The driver gets its answer and goes on, stage by stage.                 *)

\* A stage does not depend on the access that is under way.
LEMMA StageMoves ==
  ASSUME NEW d, NEW e, Transferring(d), Transferring(e),
         e.pc = d.pc, e.send = d.send, e.cmd = d.cmd, e.polls = d.polls, e.addr = d.addr,
         e.buffer = d.buffer,
         NEW b, NEW c, c.got = b.got, c.queue = b.queue, c.ready = b.ready,
         NEW x, NEW rx, NEW ry, x = 1 => ry = rx, Stage(d, b, x, rx)
  PROVE  Stage(e, c, x, ry)
<1>1. FrameOf(e) = FrameOf(d) /\ Outs(e, c.ready) = Outs(d, b.ready) /\ Left(e, x) = Left(d, x)
  BY DEF FrameOf, Outs, Left
<1>2. e.pc = "sent" => SentStage(e, c, x)
  BY <1>1 DEF Stage, SentStage
<1>3. e.pc = "poll" => PollStage(e, c, x, ry)
  BY <1>1 DEF Stage, PollStage
<1>4. e.pc = "r7" => R7Stage(e, c, x)
  BY <1>1 DEF Stage, R7Stage
<1>5. e.pc = "token" => TokenStage(e, c, x, ry)
  BY DEF Stage, TokenStage
<1>6. e.pc = "data" => DataStage(e, c, x, ry)
  BY DEF Stage, DataStage
<1>7. e.pc = "crc" => CrcStage(e, c)
  BY DEF Stage, CrcStage
<1>8. e.at \notin {"readcs", "setcs"}
  BY DEF Transferring
<1>9. QED
  BY <1>2, <1>3, <1>4, <1>5, <1>6, <1>7, <1>8 DEF Stage

\* Deselect reports what has been achieved.
LEMMA DeselectTalks ==
  ASSUME NEW d \in DrvType, NEW ret \in {0, -1, -2}, NEW c, NEW rx, d.inited => c.ready,
         ret = 0 => /\ d.call = "Init" => c.ready
                    /\ d.call = "ReadBlock" => d.buffer = Content[d.addr]
  PROVE  Stage(Deselect(d, ret), c, 0, rx) /\ Outcome(Deselect(d, ret), c.ready)
<1> DEFINE e == Deselect(d, ret)
<1>1. /\ e.at = "readcs" /\ e.pc = "off" /\ e.ret = ret /\ e.call = d.call /\ e.inited = d.inited
      /\ e.addr = d.addr /\ e.buffer = d.buffer
  BY DEF Deselect, DrvType
<1> HIDE DEF e
<1>2. Stage(e, c, 0, rx)
  BY <1>1 DEF Stage, Transferring
<1>3. Outcome(e, c.ready)
  BY <1>1 DEF Outcome
<1>4. QED
  BY <1>2, <1>3 DEF e

\* The arguments and check sums of the commands.
Frames(d, cmd, arg, crc) ==
  /\ cmd = CMD0 => arg = 0 /\ crc = 149
  /\ cmd = CMD8 => arg = 426 /\ crc = 135
  /\ cmd = CMD55 => arg = 0 /\ crc = Idle
  /\ cmd = ACMD41 => arg = 1073741824 /\ crc = Idle
  /\ cmd = CMD17 => arg = d.addr /\ crc = Idle

\* A command is sent to a card that waits for one.
LEMMA CommandTalks ==
  ASSUME NEW d \in DrvType, NEW cmd \in Commands, NEW arg \in Nat, NEW crc \in Bytes,
         Frames(d, cmd, arg, crc), NEW c, NEW rx, c.got = <<>>, c.queue = <<>>,
         cmd = CMD8 => ~c.ready, d.inited => c.ready
  PROVE  /\ Stage(SendCommand(d, cmd, arg, crc), c, 0, rx)
         /\ Outcome(SendCommand(d, cmd, arg, crc), c.ready)
<1> DEFINE e == SendCommand(d, cmd, arg, crc)
           f == CommandFrame(cmd, arg, crc)
<1>0. e.at = "put" /\ e.send = f /\ e.pc = "sent" /\ e.cmd = cmd /\ e.polls = 0
  BY SendCommandIs
<1>1. e.inited = d.inited /\ e.addr = d.addr
  BY SendCommandIs
<1>2. f \in Seq(Bytes) /\ Len(f) = 7 /\ EndOf(f, f)
  BY FrameType, EndWhole
<1> HIDE DEF e
<1>3. FrameOf(e) = f
  BY <1>0, <1>1, CommandsAre DEF FrameOf, Frames
<1> HIDE DEF f
<1>4. Left(e, 0) = 7
  BY <1>0, <1>1, <1>2 DEF Left
<1>5. SentStage(e, c, 0)
  BY <1>0, <1>1, <1>2, <1>3, <1>4 DEF SentStage
<1>6. Stage(e, c, 0, rx)
  BY <1>0, <1>1, <1>5 DEF Stage
<1>7. Outcome(e, c.ready)
  BY <1>0, <1>1 DEF Outcome
<1>8. QED
  BY <1>6, <1>7 DEF e

\* A row of transfers that starts in a stage other than the sending of a command.
LEMMA RowTalks ==
  ASSUME NEW d \in DrvType, NEW bytes \in Seq(Bytes), NEW pc \in RowPcs, pc # "sent",
         NEW c, NEW rx, d.inited => c.ready,
         pc = "off" /\ d.ret = 0 => /\ d.call = "Init" => c.ready
                                    /\ d.call = "ReadBlock" => d.buffer = Content[d.addr],
         LET e == Transfers(d, bytes, pc)
         IN /\ pc = "poll" => PollStage(e, c, 0, rx)
            /\ pc = "r7" => R7Stage(e, c, 0)
            /\ pc = "token" => TokenStage(e, c, 0, rx)
            /\ pc = "data" => DataStage(e, c, 0, rx)
            /\ pc = "crc" => CrcStage(e, c)
  PROVE  Stage(Transfers(d, bytes, pc), c, 0, rx) /\ Outcome(Transfers(d, bytes, pc), c.ready)
<1> DEFINE e == Transfers(d, bytes, pc)
<1>1. /\ e.at = "put" /\ e.pc = pc /\ e.ret = d.ret /\ e.call = d.call /\ e.inited = d.inited
      /\ e.addr = d.addr /\ e.buffer = d.buffer
  BY TransfersIs
<1>2. /\ pc = "poll" => PollStage(e, c, 0, rx)
      /\ pc = "r7" => R7Stage(e, c, 0)
      /\ pc = "token" => TokenStage(e, c, 0, rx)
      /\ pc = "data" => DataStage(e, c, 0, rx)
      /\ pc = "crc" => CrcStage(e, c)
  OBVIOUS
<1> HIDE DEF e
<1>3. Stage(e, c, 0, rx)
  BY <1>1, <1>2 DEF Stage
<1>4. Outcome(e, c.ready)
  BY <1>1 DEF Outcome
<1>5. QED
  BY <1>3, <1>4 DEF e

\* A transfer of one dummy byte.
LEMMA IdleRowIs ==
  ASSUME NEW d \in DrvType, NEW pc \in RowPcs
  PROVE  LET e == Transfers(d, <<Idle>>, pc)
         IN /\ e \in DrvType /\ e.at = "put" /\ e.send = <<Idle>> /\ e.pc = pc
            /\ e.cmd = d.cmd /\ e.polls = d.polls /\ e.addr = d.addr /\ e.buffer = d.buffer
            /\ e.ret = d.ret /\ e.call = d.call /\ e.inited = d.inited
<1> DEFINE row == <<Idle>>
<1>1. row \in Seq(Bytes)
  BY CommandBytes
<1> HIDE DEF row
<1>2. LET e == Transfers(d, row, pc)
      IN /\ e \in DrvType /\ e.at = "put" /\ e.send = row /\ e.pc = pc
         /\ e.cmd = d.cmd /\ e.polls = d.polls /\ e.addr = d.addr /\ e.buffer = d.buffer
         /\ e.ret = d.ret /\ e.call = d.call /\ e.inited = d.inited
  BY <1>1, TransfersIs
<1>3. QED
  BY <1>2 DEF row

\* CMD55 is sent again, or the tries are over.
LEMMA NextTryTalks ==
  ASSUME NEW d \in DrvType, NEW c, NEW rx, c.got = <<>>, c.queue = <<>>, d.inited => c.ready
  PROVE  Stage(NextTry(d), c, 0, rx) /\ Outcome(NextTry(d), c.ready)
<1>1. CASE d.retries = 0
  BY <1>1, DeselectTalks DEF NextTry
<1>2. CASE d.retries # 0
  <2>1. /\ CMD55 \in Commands /\ 0 \in Nat /\ Idle \in Bytes /\ CMD55 # CMD8
        /\ Frames(d, CMD55, 0, Idle)
    BY CommandsAre, CommandBytes DEF Frames
  <2>2. /\ Stage(SendCommand(d, CMD55, 0, Idle), c, 0, rx)
        /\ Outcome(SendCommand(d, CMD55, 0, Idle), c.ready)
    BY <2>1, CommandTalks
  <2>3. QED
    BY <1>2, <2>2 DEF NextTry
<1>3. QED
  BY <1>1, <1>2

\* An answer has been read: the result of SendCommand reaches its caller.
LEMMA ReturnedTalks ==
  ASSUME NEW d \in DrvType, Flow(d), Transferring(d), d.pc = "poll",
         NEW c, NEW rx, c.got = <<>>, d.cmd \in {CMD0, CMD8} => ~c.ready,
         c.ready \in BOOLEAN, d.inited => c.ready,
         NEW out \in Outs(d, c.ready), c.queue = Tail(out)
  PROVE  /\ Stage(Returned(d, Head(out)), c, 0, rx)
         /\ Outcome(Returned(d, Head(out)), c.ready)
<1>a. d.cmd \in Commands /\ (d.cmd = CMD17 => d.addr \in DOMAIN Content)
  BY RowIs
<1>b. /\ out \in Seq(Bytes) /\ Head(out) \in {0, 1, 5}
      /\ d.cmd = CMD0 => Head(out) = 1 /\ c.queue = <<>>
      /\ d.cmd = CMD8 => \/ Head(out) = 5 /\ c.queue = <<>>
                         \/ Head(out) = 1 /\ c.queue \in Seq(Bytes) /\ Len(c.queue) = 4
      /\ d.cmd \in {CMD55, ACMD41} => c.queue = <<>>
      /\ d.cmd = ACMD41 /\ Head(out) = 0 => c.ready
      /\ d.cmd = CMD17 => \/ Head(out) = 5 /\ c.queue = <<>>
                          \/ Head(out) = 0 /\ c.queue \in Blocks(d.addr)
  BY <1>a, OutsAre
<1> DEFINE res == Head(out)
           Goal(e) == Stage(e, c, 0, rx) /\ Outcome(e, c.ready)
<1>c. d.cmd = ACMD41 => d.call = "Init"
  BY CommandsAre DEF Flow
<1>d. ASSUME NEW f \in DrvType, f.inited = d.inited, c.queue = <<>> PROVE Goal(NextTry(f))
  BY <1>d, NextTryTalks
<1> HIDE DEF res
<1>1. CASE d.cmd = CMD0
  <2>1. Returned(d, res) = SendCommand(d, CMD8, 426, 135)
    BY <1>1, <1>b, CommandsAre DEF Returned, AfterCmd0, res
  <2>2. /\ CMD8 \in Commands /\ 426 \in Nat /\ 135 \in Bytes /\ ~c.ready /\ c.queue = <<>>
        /\ Frames(d, CMD8, 426, 135)
    BY <1>1, <1>b, CommandsAre DEF Frames, Bytes
  <2>3. Goal(SendCommand(d, CMD8, 426, 135))
    BY <2>2, CommandTalks
  <2>4. QED
    BY <2>1, <2>3 DEF res
<1>2. CASE d.cmd = CMD8 /\ res = 1
  <2>1. Returned(d, res) = Transfers(d, Idles(4), "r7")
    BY <1>2, CommandsAre DEF Returned, AfterCmd8
  <2> DEFINE bytes == Idles(4)
             e == Transfers(d, bytes, "r7")
  <2>2. bytes \in Seq(Bytes) /\ Len(bytes) = 4
    BY IdlesType
  <2>3. "r7" \in RowPcs /\ Len(c.queue) = 4
    BY <1>2, <1>b DEF RowPcs, res
  <2> HIDE DEF bytes
  <2>4. e.send = bytes
    BY <2>2, <2>3, TransfersIs
  <2> HIDE DEF e
  <2>5. R7Stage(e, c, 0)
    <3>1. Left(e, 0) = 4
      BY <2>2, <2>4 DEF Left
    <3>2. QED
      BY <2>3, <3>1 DEF R7Stage
  <2>6. Goal(Transfers(d, bytes, "r7"))
    BY <2>2, <2>3, <2>5, RowTalks DEF e
  <2>7. QED
    BY <2>1, <2>6 DEF res, bytes
<1>3. CASE d.cmd = CMD8 /\ res # 1
  <2> DEFINE f == [d EXCEPT !.retries = Retries]
  <2>1. Returned(d, res) = NextTry(f)
    BY <1>3, CommandsAre DEF Returned, AfterCmd8
  <2>2. f \in DrvType /\ f.inited = d.inited
    <3>1. Retries \in 0 .. Retries
      BY Parameters
    <3>2. QED BY <3>1 DEF DrvType
  <2> HIDE DEF f
  <2>3. Goal(NextTry(f))
    BY <1>3, <1>b, <1>d, <2>2 DEF res
  <2>4. QED
    BY <2>1, <2>3 DEF res
<1>4. CASE d.cmd = CMD55
  <2>1. Returned(d, res) = SendCommand(d, ACMD41, 1073741824, Idle)
    BY <1>4, CommandsAre DEF Returned
  <2>2. /\ ACMD41 \in Commands /\ 1073741824 \in Nat /\ Idle \in Bytes /\ ACMD41 # CMD8
        /\ Frames(d, ACMD41, 1073741824, Idle) /\ c.queue = <<>>
    BY <1>4, <1>b, CommandsAre, CommandBytes DEF Frames
  <2>3. Goal(SendCommand(d, ACMD41, 1073741824, Idle))
    BY <2>2, CommandTalks
  <2>4. QED
    BY <2>1, <2>3 DEF res
<1>5. CASE d.cmd = ACMD41 /\ res = 0
  <2>1. Returned(d, res) = Deselect(d, 0)
    BY <1>5, CommandsAre DEF Returned, AfterAcmd41
  <2>2. c.ready /\ d.call = "Init"
    BY <1>5, <1>b, <1>c DEF res
  <2>3. Goal(Deselect(d, 0))
    BY <2>2, DeselectTalks
  <2>4. QED
    BY <2>1, <2>3 DEF res
<1>6. CASE d.cmd = ACMD41 /\ res # 0
  <2> DEFINE f == [d EXCEPT !.retries = @ - 1]
  <2>1. Returned(d, res) = NextTry(f)
    BY <1>6, CommandsAre DEF Returned, AfterAcmd41
  <2>2. f \in DrvType /\ f.inited = d.inited
    <3>1. d.retries > 0
      BY <1>6 DEF Flow
    <3>2. d.retries - 1 \in 0 .. Retries
      BY <3>1, Parameters DEF DrvType
    <3>3. QED BY <3>2 DEF DrvType
  <2> HIDE DEF f
  <2>3. Goal(NextTry(f))
    BY <1>6, <1>b, <1>d, <2>2
  <2>4. QED
    BY <2>1, <2>3 DEF res
<1>7. CASE d.cmd = CMD17 /\ res # 0
  <2>1. Returned(d, res) = Deselect(d, -1)
    BY <1>7, CommandsAre DEF Returned, AfterCmd17
  <2>2. Goal(Deselect(d, -1))
    BY DeselectTalks
  <2>3. QED
    BY <2>1, <2>2 DEF res
<1>8. CASE d.cmd = CMD17 /\ res = 0
  <2> DEFINE f == [d EXCEPT !.retries = Retries]
             e == Transfers(f, <<Idle>>, "token")
  <2>1. Returned(d, res) = e
    BY <1>8, CommandsAre DEF Returned, AfterCmd17
  <2>2. f \in DrvType /\ f.inited = d.inited /\ f.addr = d.addr
    <3>1. Retries \in 0 .. Retries
      BY Parameters
    <3>2. QED BY <3>1 DEF DrvType
  <2> HIDE DEF f
  <2>3. <<Idle>> \in Seq(Bytes) /\ "token" \in RowPcs
    BY CommandBytes DEF RowPcs
  <2>4. e.send = <<Idle>> /\ e.addr = d.addr
    BY <2>2, <2>3, IdleRowIs
  <2> HIDE DEF e
  <2>5. c.queue \in Blocks(d.addr)
    BY <1>8, <1>b DEF res
  <2>6. TokenStage(e, c, 0, rx)
    BY <2>4, <2>5 DEF TokenStage
  <2>7. Goal(e)
    BY <2>2, <2>3, <2>6, RowTalks DEF e
  <2>8. QED
    BY <2>1, <2>7 DEF res
<1>9. QED
  BY <1>a, <1>1, <1>2, <1>3, <1>4, <1>5, <1>6, <1>7, <1>8, CommandsAre
-----------------------------------------------------------------------------
(* The driver goes on.                                                     *)

\* The driver sends the next byte of the row.
LEMMA GetMoreTalks ==
  ASSUME NEW d \in DrvType, Flow(d), d.at = "get", Len(d.send) > 1,
         NEW c, NEW rx, NEW ry, Stage(d, c, 1, rx)
  PROVE  Stage([d EXCEPT !.at = "put", !.send = Tail(@)], c, 0, ry)
<1> DEFINE rest == Tail(d.send)
           e == [d EXCEPT !.at = "put", !.send = rest]
<1>1. Transferring(d)
  BY DEF Transferring
<1>2. /\ d.send \in Seq(Bytes) /\ d.send # <<>> /\ Len(d.send) \in Nat /\ d.pc \in RowPcs
      /\ d.pc \in {"sent", "poll"} => d.cmd \in Commands
      /\ d.cmd = CMD17 /\ d.pc \in {"sent", "poll"} => d.addr \in DOMAIN Content
      /\ Left(d, 1) = Len(d.send) - 1
  BY <1>1, RowIs
<1>3. /\ rest \in Seq(Bytes) /\ Len(rest) = Len(d.send) - 1
      /\ \A i \in 1 .. Len(rest) : rest[i] = d.send[i + 1]
  BY <1>2, HeadTailProperties
<1> HIDE DEF rest
<1>4. /\ e.at = "put" /\ e.send = rest /\ e.pc = d.pc /\ e.cmd = d.cmd /\ e.polls = d.polls
      /\ e.addr = d.addr /\ e.buffer = d.buffer
  BY <1>3 DEF DrvType
<1>5. e = [d EXCEPT !.at = "put", !.send = Tail(@)]
  BY DEF rest, DrvType
<1> HIDE DEF e
<1>6. /\ FrameOf(e) = FrameOf(d) /\ Outs(e, c.ready) = Outs(d, c.ready)
      /\ Left(e, 0) = Left(d, 1)
  BY <1>2, <1>3, <1>4 DEF FrameOf, Outs, Left
<1>7. d.pc = "sent" => SentStage(e, c, 0)
  <2> SUFFICES ASSUME d.pc = "sent" PROVE SentStage(e, c, 0)
    OBVIOUS
  <2>1. SentStage(d, c, 1)
    BY <1>1 DEF Stage
  <2>2. EndOf(d.send, FrameOf(d)) /\ FrameOf(d) \in Seq(Bytes)
    BY <1>2, <2>1, FrameIs DEF SentStage
  <2>3. EndOf(rest, FrameOf(d))
    BY <1>2, <2>2, EndTail DEF rest
  <2>4. QED
    BY <1>4, <1>6, <2>1, <2>3 DEF SentStage
<1>8. d.pc = "r7" => R7Stage(e, c, 0)
  BY <1>1, <1>6 DEF Stage, R7Stage
<1>9. d.pc \notin {"poll", "token", "data"}
  <2>1. d.pc = "poll" => Len(d.send) = 1
    BY <1>1 DEF Stage, PollStage
  <2>2. d.pc = "data" => Len(d.send) = 1
    BY <1>1 DEF Stage, DataStage
  <2>3. d.pc = "token" => d.send = <<Idle>>
    BY <1>1 DEF Stage, TokenStage
  <2>4. Len(<<Idle>>) = 1
    OBVIOUS
  <2>5. Len(d.send) # 1
    <3>1. \A n \in Nat : n > 1 => n # 1
      OBVIOUS
    <3>2. QED
      BY <1>2, <3>1, Zenon
  <2>6. d.pc = "token" => Len(d.send) = 1
    BY <2>3, <2>4
  <2>7. QED
    BY <2>1, <2>2, <2>5, <2>6
<1>10. d.pc = "crc" => CrcStage(e, c)
  <2> SUFFICES ASSUME d.pc = "crc" PROVE CrcStage(e, c)
    OBVIOUS
  <2>1. /\ c.got = <<>> /\ d.buffer = Content[d.addr]
        /\ \A i \in 1 .. Len(d.send) : d.send[i] = Idle
    BY <1>1 DEF Stage, CrcStage
  <2>2. ASSUME NEW i \in 1 .. Len(rest) PROVE rest[i] = Idle
    <3>1. i + 1 \in 1 .. Len(d.send)
      BY <1>2, <1>3
    <3>2. QED BY <1>3, <2>1, <3>1
  <2>3. QED
    BY <1>4, <2>1, <2>2 DEF CrcStage
<1>11. Stage(e, c, 0, ry)
  BY <1>4, <1>7, <1>8, <1>9, <1>10 DEF Stage
<1>12. QED
  BY <1>5, <1>11

\* A poll: the answer, or one more byte of nothing.
LEMMA PollTalks ==
  ASSUME DriverInv, Poll, NEW c \in CardType, NEW rx, NEW ry, regs.rdt.data = rx,
         drv.inited => c.ready, Stage(drv, c, 1, rx)
  PROVE  Stage(drv', c, 0, ry) /\ Outcome(drv', c.ready)
<1>a. drv \in DrvType /\ Flow(drv) /\ Transferring(drv) /\ drv.at = "get" /\ drv.pc = "poll"
  BY DEF DriverInv, Driving, Poll, Got, Transferring
<1>b. /\ c.got = <<>> /\ Len(drv.send) = 1 /\ (drv.cmd \in {CMD0, CMD8} => ~c.ready)
      /\ \/ /\ rx = Idle /\ drv.polls < NcrMax
            /\ \E out \in Outs(drv, c.ready) : Delayed(c.queue, out, NcrMax - drv.polls - 1)
         \/ \E out \in Outs(drv, c.ready) : rx = Head(out) /\ c.queue = Tail(out)
  BY <1>a DEF Stage, PollStage
<1>c. drv.cmd \in Commands /\ (drv.cmd = CMD17 => drv.addr \in DOMAIN Content)
  BY <1>a, RowIs
<1>d. c.ready \in BOOLEAN
  BY DEF CardType
<1>1. CASE \E out \in Outs(drv, c.ready) : rx = Head(out) /\ c.queue = Tail(out)
  <2>1. PICK out \in Outs(drv, c.ready) : rx = Head(out) /\ c.queue = Tail(out)
    BY <1>1
  <2>2. Head(out) \in {0, 1, 5}
    BY <1>a, <1>c, <1>d, OutsAre
  <2>3. drv' = Returned(drv, Head(out))
    BY <2>1, <2>2 DEF Poll
  <2>4. /\ Stage(Returned(drv, Head(out)), c, 0, ry)
        /\ Outcome(Returned(drv, Head(out)), c.ready)
    BY <1>a, <1>b, <1>d, <2>1, ReturnedTalks
  <2>5. QED
    BY <2>3, <2>4
<1>2. CASE /\ rx = Idle /\ drv.polls < NcrMax
           /\ \E out \in Outs(drv, c.ready) : Delayed(c.queue, out, NcrMax - drv.polls - 1)
  <2> DEFINE f == [drv EXCEPT !.polls = @ + 1]
             e == Transfers(f, <<Idle>>, "poll")
  <2>1. drv.polls \in Nat /\ drv.polls + 1 # Polls /\ drv.polls + 1 \in 0 .. Polls - 1
    <3>1. drv.polls \in 0 .. Polls - 1 /\ Polls \in Nat /\ NcrMax \in Nat
      BY <1>a, Parameters DEF DrvType
    <3>2. drv.polls < NcrMax /\ NcrMax < Polls
      BY <1>2, Parameters
    <3>3. QED
      BY <3>1, <3>2
  <2>2. drv' = e
    <3>1. ~(rx < 128)
      BY <1>2 DEF Idle
    <3>2. QED
      BY <2>1, <3>1 DEF Poll
  <2>3. /\ f \in DrvType /\ f.polls = drv.polls + 1 /\ f.cmd = drv.cmd /\ f.addr = drv.addr
        /\ f.inited = drv.inited
    BY <1>a, <2>1 DEF DrvType
  <2> HIDE DEF f
  <2>4. <<Idle>> \in Seq(Bytes) /\ Len(<<Idle>>) = 1 /\ "poll" \in RowPcs
    BY CommandBytes DEF RowPcs
  <2>5. e.send = <<Idle>> /\ e.polls = drv.polls + 1 /\ e.cmd = drv.cmd /\ e.addr = drv.addr
    BY <2>3, <2>4, IdleRowIs
  <2> HIDE DEF e
  <2>6. Outs(e, c.ready) = Outs(drv, c.ready)
    BY <2>5 DEF Outs
  <2>7. NcrMax - e.polls = NcrMax - drv.polls - 1 /\ e.polls <= NcrMax
    BY <1>2, <2>1, <2>5, Parameters
  <2>8. PollStage(e, c, 0, ry)
    BY <1>b, <1>2, <2>4, <2>5, <2>6, <2>7 DEF PollStage
  <2>9. Stage(e, c, 0, ry) /\ Outcome(e, c.ready)
    BY <2>3, <2>4, <2>8, RowTalks DEF e
  <2>10. QED
    BY <2>2, <2>9
<1>3. QED
  BY <1>b, <1>1, <1>2

\* The command has been sent: the first poll.
LEMMA SentTalks ==
  ASSUME DriverInv, Sent, NEW c, NEW rx, NEW ry, drv.inited => c.ready, Stage(drv, c, 1, rx)
  PROVE  Stage(drv', c, 0, ry) /\ Outcome(drv', c.ready)
<1>a. /\ drv \in DrvType /\ Flow(drv) /\ Transferring(drv) /\ drv.at = "get" /\ drv.pc = "sent"
      /\ Len(drv.send) = 1
  BY DEF DriverInv, Driving, Sent, Got, Transferring
<1>b. SentStage(drv, c, 1) /\ Left(drv, 1) = 0
  BY <1>a DEF Stage, Left
<1>c. /\ c.got = <<>> /\ drv.polls = 0 /\ (drv.cmd \in {CMD0, CMD8} => ~c.ready)
      /\ \E out \in Outs(drv, c.ready) : Delayed(c.queue, out, NcrMax)
  BY <1>b DEF SentStage
<1> DEFINE e == Transfers(drv, <<Idle>>, "poll")
<1>1. <<Idle>> \in Seq(Bytes) /\ Len(<<Idle>>) = 1 /\ "poll" \in RowPcs
  BY CommandBytes DEF RowPcs
<1>2. e.send = <<Idle>> /\ e.polls = drv.polls /\ e.cmd = drv.cmd /\ e.addr = drv.addr
  BY <1>a, <1>1, IdleRowIs
<1>3. drv' = e
  BY DEF Sent
<1> HIDE DEF e
<1>4. Outs(e, c.ready) = Outs(drv, c.ready)
  BY <1>2 DEF Outs
<1>5. NcrMax - e.polls = NcrMax /\ e.polls <= NcrMax
  BY <1>c, <1>2, Parameters
<1>6. PollStage(e, c, 0, ry)
  BY <1>c, <1>1, <1>2, <1>4, <1>5 DEF PollStage
<1>7. Stage(e, c, 0, ry) /\ Outcome(e, c.ready)
  BY <1>a, <1>1, <1>6, RowTalks DEF e
<1>8. QED
  BY <1>3, <1>7

\* The token, or another byte of nothing.
LEMMA TokenTalks ==
  ASSUME DriverInv, Token, NEW c \in CardType, NEW rx, NEW ry, regs.rdt.data = rx,
         drv.inited => c.ready, Stage(drv, c, 1, rx)
  PROVE  Stage(drv', c, 0, ry) /\ Outcome(drv', c.ready)
<1>a. /\ drv \in DrvType /\ Flow(drv) /\ Transferring(drv) /\ drv.at = "get" /\ drv.pc = "token"
      /\ drv.retries > 0 /\ drv.buffer = <<>>
  BY DEF DriverInv, Driving, Token, Got, Transferring, Flow
<1>b. drv.addr \in DOMAIN Content
  BY <1>a, RowIs
<1>c. /\ c.got = <<>> /\ drv.send = <<Idle>>
      /\ \/ rx = Idle /\ c.queue \in Blocks(drv.addr)
         \/ rx = DataToken /\ c.queue = Tail(Framed(drv.addr))
  BY <1>a DEF Stage, TokenStage
<1>d. /\ <<Idle>> \in Seq(Bytes) /\ Len(<<Idle>>) = 1
      /\ "token" \in RowPcs /\ "data" \in RowPcs /\ Idle # DataToken
  BY CommandBytes DEF RowPcs, Idle, DataToken
<1>1. CASE rx = DataToken
  <2> DEFINE e == Transfers(drv, <<Idle>>, "data")
             s == Framed(drv.addr)
  <2>1. drv' = e
    BY <1>1 DEF Token
  <2>2. e.send = <<Idle>> /\ e.buffer = <<>> /\ e.addr = drv.addr
    BY <1>a, <1>d, IdleRowIs
  <2> HIDE DEF e
  <2>3. c.queue = Tail(s)
    BY <1>1, <1>c, <1>d
  <2>4. s \in Seq(Bytes) /\ Len(s) = BlockLen + 3 /\ s # <<>> /\ EndOf(s, s)
    BY <1>b, FramedIs, EndWhole
  <2> HIDE DEF s
  <2>5. EndOf(Tail(s), s) /\ Len(Tail(s)) = Len(s) - 1
    BY <2>4, EndTail
  <2>6. Len(e.buffer) = 0 /\ Len(c.queue) = BlockLen + 2 - Len(e.buffer) - 0
    BY <2>2, <2>3, <2>4, <2>5, Parameters
  <2>7. DataStage(e, c, 0, ry)
    BY <1>c, <1>d, <2>2, <2>3, <2>5, <2>6 DEF DataStage, s
  <2>8. Stage(e, c, 0, ry) /\ Outcome(e, c.ready)
    BY <1>a, <1>d, <2>7, RowTalks DEF e
  <2>9. QED
    BY <2>1, <2>8
<1>2. CASE rx # DataToken /\ drv.retries = 1
  <2> DEFINE f == [drv EXCEPT !.retries = 0]
  <2>1. drv' = Deselect(f, -2)
    BY <1>2 DEF Token
  <2>2. f \in DrvType /\ f.inited = drv.inited
    <3>1. 0 \in 0 .. Retries
      BY Parameters
    <3>2. QED BY <1>a, <3>1 DEF DrvType
  <2> HIDE DEF f
  <2>3. Stage(Deselect(f, -2), c, 0, ry) /\ Outcome(Deselect(f, -2), c.ready)
    BY <2>2, DeselectTalks
  <2>4. QED
    BY <2>1, <2>3
<1>3. CASE rx # DataToken /\ drv.retries # 1
  <2> DEFINE f == [drv EXCEPT !.retries = @ - 1]
             e == Transfers(f, <<Idle>>, "token")
  <2>1. drv' = e
    BY <1>3 DEF Token
  <2>2. f \in DrvType /\ f.inited = drv.inited /\ f.addr = drv.addr
    <3>1. drv.retries - 1 \in 0 .. Retries
      BY <1>a, Parameters DEF DrvType
    <3>2. QED BY <1>a, <3>1 DEF DrvType
  <2> HIDE DEF f
  <2>3. e.send = <<Idle>> /\ e.addr = drv.addr
    BY <1>d, <2>2, IdleRowIs
  <2> HIDE DEF e
  <2>4. TokenStage(e, c, 0, ry)
    BY <1>c, <1>3, <2>3 DEF TokenStage
  <2>5. Stage(e, c, 0, ry) /\ Outcome(e, c.ready)
    BY <1>d, <2>2, <2>4, RowTalks DEF e
  <2>6. QED
    BY <2>1, <2>5
<1>4. QED
  BY <1>1, <1>2, <1>3

\* A byte of the block goes into the buffer.
LEMMA DataTalks ==
  ASSUME DriverInv, Data, NEW c \in CardType, NEW rx, NEW ry, regs.rdt.data = rx,
         drv.inited => c.ready, Stage(drv, c, 1, rx)
  PROVE  Stage(drv', c, 0, ry) /\ Outcome(drv', c.ready)
<1> DEFINE n == Len(drv.buffer)
           more == Append(drv.buffer, rx)
           f == [drv EXCEPT !.buffer = more]
           block == Content[drv.addr]
<1>a. /\ drv \in DrvType /\ Flow(drv) /\ Transferring(drv) /\ drv.at = "get" /\ drv.pc = "data"
      /\ n < BlockLen
  BY DEF DriverInv, Driving, Data, Got, Transferring, Flow
<1>b. /\ block \in Seq(Bytes) /\ Len(block) = BlockLen /\ BlockLen \in Nat \ {0}
      /\ drv.buffer \in Seq(Bytes \cup {Mixed}) /\ n \in Nat
  <2>1. drv.addr \in DOMAIN Content /\ BlockLen \in Nat \ {0}
    BY <1>a, RowIs, Parameters
  <2>2. drv.buffer \in Seq(Bytes \cup {Mixed}) /\ n \in Nat
    BY <1>a DEF DrvType
  <2>3. QED
    BY <2>1, <2>2, FramedIs
<1>c. /\ c.got = <<>> /\ Len(drv.send) = 1
      /\ \A i \in 1 .. n : drv.buffer[i] = block[i]
      /\ EndOf(c.queue, Framed(drv.addr)) /\ Len(c.queue) = BlockLen + 2 - n - 1
      /\ rx = block[n + 1]
  BY <1>a DEF Stage, DataStage
<1>d. rx \in Bytes \cup {Mixed}
  <2>1. n + 1 \in 1 .. Len(block)
    BY <1>a, <1>b
  <2>2. block[n + 1] \in Bytes
    BY <1>b, <2>1, ElementOfSeq
  <2>3. QED BY <1>c, <2>2
<1>1. /\ more \in Seq(Bytes \cup {Mixed}) /\ Len(more) = n + 1
      /\ \A i \in 1 .. n : more[i] = drv.buffer[i]
      /\ more[n + 1] = rx
  BY <1>b, <1>d, AppendProperties
<1>2. drv' = IF Len(f.buffer) = BlockLen THEN Transfers(f, <<Idle, Idle>>, "crc")
             ELSE Transfers(f, <<Idle>>, "data")
  BY <1>a DEF Data, DrvType
<1> HIDE DEF n, more, block
<1>3. f \in DrvType /\ f.buffer = more /\ f.inited = drv.inited /\ f.addr = drv.addr
  BY <1>a, <1>1 DEF DrvType
<1>4. \A i \in 1 .. n + 1 : more[i] = block[i]
  <2> SUFFICES ASSUME NEW i \in 1 .. n + 1 PROVE more[i] = block[i]
    OBVIOUS
  <2>1. i \in 1 .. n \/ i = n + 1
    BY <1>b
  <2>2. QED BY <1>1, <1>c, <2>1
<1> HIDE DEF f
<1>5. CASE Len(more) = BlockLen
  <2> DEFINE row == <<Idle, Idle>>
             e == Transfers(f, row, "crc")
  <2>1. drv' = e
    BY <1>2, <1>3, <1>5
  <2>2. row \in Seq(Bytes) /\ "crc" \in RowPcs /\ \A i \in 1 .. Len(row) : row[i] = Idle
    BY CommandBytes DEF RowPcs
  <2> HIDE DEF row
  <2>3. e.send = row /\ e.buffer = more /\ e.addr = drv.addr
    BY <1>3, <2>2, TransfersIs
  <2> HIDE DEF e
  <2>4. more = block
    <3>1. n + 1 = BlockLen
      BY <1>1, <1>5
    <3>2. /\ block \in Seq(Bytes \cup {Mixed}) /\ Len(more) = Len(block)
          /\ \A i \in 1 .. Len(more) : more[i] = block[i]
      BY <1>b, <1>1, <1>4, <1>5, <3>1
    <3>3. QED
      BY <1>1, <3>2, SeqEqual
  <2>5. CrcStage(e, c)
    BY <1>c, <2>2, <2>3, <2>4 DEF CrcStage, block
  <2>6. Stage(e, c, 0, ry) /\ Outcome(e, c.ready)
    BY <1>3, <2>2, <2>5, RowTalks DEF e
  <2>7. QED
    BY <2>1, <2>6
<1>6. CASE Len(more) # BlockLen
  <2> DEFINE e == Transfers(f, <<Idle>>, "data")
  <2>1. drv' = e
    BY <1>2, <1>3, <1>6
  <2>2. <<Idle>> \in Seq(Bytes) /\ Len(<<Idle>>) = 1 /\ "data" \in RowPcs
    BY CommandBytes DEF RowPcs
  <2>3. e.send = <<Idle>> /\ e.buffer = more /\ e.addr = drv.addr
    BY <1>3, <2>2, IdleRowIs
  <2> HIDE DEF e
  <2>4. Len(e.buffer) = n + 1 /\ Len(c.queue) = BlockLen + 2 - Len(e.buffer) - 0
    BY <1>b, <1>c, <1>1, <2>3
  <2>5. DataStage(e, c, 0, ry)
    BY <1>c, <1>1, <1>4, <2>2, <2>3, <2>4 DEF DataStage, block
  <2>6. Stage(e, c, 0, ry) /\ Outcome(e, c.ready)
    BY <1>3, <2>2, <2>5, RowTalks DEF e
  <2>7. QED
    BY <2>1, <2>6
<1>7. QED
  BY <1>5, <1>6

\* An access that is complete takes the driver to the next stage.
LEMMA DriverTalks ==
  ASSUME DriverInv, Driver, drv.at \notin {"put", "status"}, NEW c \in CardType,
         NEW x \in {0, 1}, NEW rx, NEW ry, Stage(drv, c, x, rx), Outcome(drv, c.ready),
         drv.at = "get" => x = 1 /\ regs.rdt.data = rx,
         regs.cs = 1 => c.got = <<>> /\ c.queue = <<>>
  PROVE  Stage(drv', c, 0, ry) /\ Outcome(drv', c.ready)
<1>a. /\ drv \in DrvType /\ Flow(drv) /\ Selects(drv, regs.cs) /\ (drv.inited => c.ready)
      /\ drv.at = "get" => Transferring(drv) /\ Stage(drv, c, 1, rx) /\ regs.rdt.data = rx
  BY DEF DriverInv, Driving, Transferring, Outcome
<1>b. <<Idle>> \in Seq(Bytes) /\ "off" \in RowPcs /\ "dummies" \in RowPcs
  BY CommandBytes DEF RowPcs
<1>1. CASE GetMore
  <2>1. /\ drv.at = "get" /\ Len(drv.send) > 1
        /\ drv' = [drv EXCEPT !.at = "put", !.send = Tail(@)]
    BY <1>1 DEF GetMore
  <2>2. Stage(drv', c, 0, ry)
    BY <1>a, <2>1, GetMoreTalks
  <2>3. /\ drv'.at = "put" /\ drv'.pc = drv.pc /\ drv'.ret = drv.ret /\ drv'.call = drv.call
        /\ drv'.inited = drv.inited /\ drv'.addr = drv.addr /\ drv'.buffer = drv.buffer
    BY <1>a, <2>1 DEF DrvType
  <2>4. Outcome(drv', c.ready)
    BY <2>3 DEF Outcome
  <2>5. QED
    BY <2>2, <2>4
<1>2. CASE ReadCs
  <2>1. /\ drv.at = "readcs" /\ drv'.at = "setcs" /\ drv'.pc = drv.pc /\ drv'.ret = drv.ret
        /\ drv'.call = drv.call /\ drv'.inited = drv.inited /\ drv'.addr = drv.addr
        /\ drv'.buffer = drv.buffer
    BY <1>a, <1>2 DEF ReadCs, DrvType
  <2>2. Stage(drv', c, 0, ry)
    BY <2>1 DEF Stage, Transferring
  <2>3. Outcome(drv', c.ready)
    BY <2>1 DEF Outcome
  <2>4. QED
    BY <2>2, <2>3
<1>3. CASE SetCs
  <2>1. /\ drv.at = "setcs"
        /\ drv.pc = "off" \/ drv.pc = "cmd0" \/ (drv.pc = "cmd17" /\ drv.call = "ReadBlock")
        /\ drv.call = "ReadBlock" => drv.addr \in DOMAIN Content
    BY <1>a, <1>3 DEF SetCs, Flow
  <2>2. CASE drv.pc = "off"
    <3>1. drv' = Transfers(drv, <<Idle>>, "off")
      BY <1>3, <2>2 DEF SetCs
    <3>2. drv.ret = 0 => /\ drv.call = "Init" => c.ready
                         /\ drv.call = "ReadBlock" => drv.buffer = Content[drv.addr]
      BY <2>2 DEF Outcome
    <3>3. QED
      BY <1>a, <1>b, <3>1, <3>2, RowTalks
  <2>3. drv.pc # "off" => c.got = <<>> /\ c.queue = <<>>
    BY <2>1 DEF Stage
  <2>4. CASE drv.pc = "cmd0"
    <3>1. drv' = SendCommand(drv, CMD0, 0, 149)
      BY <1>3, <2>4 DEF SetCs
    <3>2. /\ CMD0 \in Commands /\ 0 \in Nat /\ 149 \in Bytes /\ CMD0 # CMD8
          /\ Frames(drv, CMD0, 0, 149)
      BY CommandsAre DEF Frames, Bytes
    <3>3. QED
      BY <1>a, <2>3, <2>4, <3>1, <3>2, CommandTalks
  <2>5. CASE drv.pc = "cmd17"
    <3>1. drv' = SendCommand(drv, CMD17, drv.addr, Idle)
      BY <1>3, <2>5 DEF SetCs
    <3>2. /\ CMD17 \in Commands /\ Idle \in Bytes /\ CMD17 # CMD8
          /\ Frames(drv, CMD17, drv.addr, Idle)
      BY CommandsAre, CommandBytes DEF Frames
    <3>3. drv.addr \in Nat
      BY <2>1, <2>5, Parameters
    <3>4. QED
      BY <1>a, <2>3, <2>5, <3>1, <3>2, <3>3, CommandTalks
  <2>6. QED
    BY <2>1, <2>2, <2>4, <2>5
<1>4. CASE Sent
  BY <1>4, <1>a, SentTalks DEF Sent, Got
<1>5. CASE Poll
  BY <1>5, <1>a, PollTalks DEF Poll, Got
<1>6. CASE SlowClock
  <2>1. drv' = Transfers(drv, Idles(Dummies), "dummies")
    BY <1>6 DEF SlowClock
  <2>2. Idles(Dummies) \in Seq(Bytes)
    BY IdlesType, Parameters
  <2>3. QED
    BY <1>a, <1>b, <2>1, <2>2, RowTalks
<1>7. CASE DummyClocks
  <2>1. c.got = <<>> /\ c.queue = <<>>
    BY <1>7, <1>a DEF DummyClocks, Got, Selects, Transferring
  <2>2. drv'.at = "readcs" /\ drv'.pc = "cmd0" /\ drv'.inited = drv.inited
    BY <1>7, <1>a DEF DummyClocks, Select, DrvType
  <2>3. QED
    BY <1>a, <2>1, <2>2 DEF Stage, Outcome, Transferring
<1>8. CASE Voltage
  <2> DEFINE f == [drv EXCEPT !.retries = Retries]
  <2>1. drv' = NextTry(f) /\ drv.at = "get" /\ drv.pc = "r7" /\ Len(drv.send) = 1
    BY <1>8 DEF Voltage, Got
  <2>2. f \in DrvType /\ f.inited = drv.inited
    <3>1. Retries \in 0 .. Retries
      BY Parameters
    <3>2. QED BY <1>a, <3>1 DEF DrvType
  <2> HIDE DEF f
  <2>3. c.got = <<>> /\ Len(c.queue) = Len(drv.send) - 1
    BY <1>a, <2>1 DEF Stage, R7Stage, Left
  <2>4. c.queue \in Seq(Bytes)
    BY DEF CardType
  <2>5. c.queue = <<>>
    BY <2>1, <2>3, <2>4, EmptySeq
  <2>6. QED
    BY <1>a, <2>1, <2>2, <2>3, <2>5, NextTryTalks
<1>9. CASE FastClock
  <2>1. /\ drv.at = "fast" /\ drv'.at = "none" /\ drv'.pc = "none"
        /\ drv'.inited = (drv.inited \/ (drv.call = "Init" /\ drv.ret = 0))
    BY <1>9, <1>a DEF FastClock, Return, DrvType
  <2>2. c.ready
    BY <1>a, <2>1 DEF Outcome, Flow
  <2>3. QED
    BY <2>1, <2>2 DEF Stage, Outcome, Transferring
<1>10. CASE Off
  <2>1. drv.at = "get" /\ drv.pc = "off"
    BY <1>10 DEF Off, Got
  <2>2. CASE drv.call = "Init" /\ drv.ret = 0
    <3>1. /\ drv'.at = "fast" /\ drv'.pc = "off" /\ drv'.ret = 0 /\ drv'.call = "Init"
          /\ drv'.inited = drv.inited
      BY <1>10, <1>a, <2>1, <2>2 DEF Off, DrvType
    <3>2. c.ready
      BY <2>1, <2>2 DEF Outcome
    <3>3. QED
      BY <1>a, <3>1, <3>2 DEF Stage, Outcome, Transferring
  <2>3. CASE ~(drv.call = "Init" /\ drv.ret = 0)
    <3>1. drv' = Return(drv)
      BY <1>10, <2>3 DEF Off
    <3>2. drv'.at = "none" /\ drv'.pc = "none" /\ (drv'.inited => drv.inited)
      BY <1>a, <2>3, <3>1 DEF Return, DrvType
    <3>3. QED
      BY <1>a, <3>2 DEF Stage, Outcome, Transferring
  <2>4. QED
    BY <2>2, <2>3
<1>11. CASE Token
  BY <1>11, <1>a, TokenTalks DEF Token, Got
<1>12. CASE Data
  BY <1>12, <1>a, DataTalks DEF Data, Got
<1>13. CASE Crc
  <2>1. drv' = Deselect(drv, 0) /\ drv.at = "get" /\ drv.pc = "crc"
    BY <1>13 DEF Crc, Got
  <2>2. drv.buffer = Content[drv.addr] /\ drv.call = "ReadBlock"
    BY <1>a, <2>1 DEF Stage, CrcStage, Flow
  <2>3. QED
    BY <1>a, <2>1, <2>2, DeselectTalks
<1>14. QED
  BY <1>1, <1>2, <1>3, <1>4, <1>5, <1>6, <1>7, <1>8, <1>9, <1>10, <1>11, <1>12, <1>13
  DEF Driver, Put, Status

\* Without a card CMD0 is polled for until Init gives up.
LEMMA AloneDriver ==
  ASSUME DriverInv, Driver, drv.at \notin {"put", "status"}, NEW c,
         NEW x \in {0, 1}, NEW rx, NEW ry, Alone(drv, c, x, rx), Outcome(drv, c.ready),
         drv.at = "get" => x = 1 /\ regs.rdt.data = rx
  PROVE  Alone(drv', c, 0, ry) /\ Outcome(drv', c.ready)
<1>a. /\ drv \in DrvType /\ Flow(drv) /\ ~c.ready /\ ~drv.inited
      /\ drv.call # "ReadBlock" /\ drv.pc # "r7" /\ (drv.pc = "off" => drv.ret # 0)
      /\ drv.at = "get" /\ drv.pc \in {"sent", "poll"} =>
           drv.cmd = CMD0 /\ regs.rdt.data = Idle
  BY DEF DriverInv, Driving, Outcome, Alone, Transferring
<1>b. /\ <<Idle>> \in Seq(Bytes)
      /\ "off" \in RowPcs /\ "dummies" \in RowPcs /\ "poll" \in RowPcs
  BY CommandBytes DEF RowPcs
<1>c. ASSUME NEW e, ~e.inited, e.call # "ReadBlock", e.at \notin {"fast", "none", "slow"},
             e.pc # "r7", e.pc = "off" => e.ret # 0,
             Transferring(e) /\ e.pc \in {"sent", "poll"} => e.cmd = CMD0
      PROVE  Alone(e, c, 0, ry) /\ Outcome(e, c.ready)
  BY <1>c DEF Alone, Outcome
<1>1. CASE GetMore
  <2>1. /\ drv.at = "get" /\ drv'.at = "put" /\ drv'.pc = drv.pc /\ drv'.ret = drv.ret
        /\ drv'.call = drv.call /\ drv'.inited = drv.inited /\ drv'.cmd = drv.cmd
    BY <1>1, <1>a DEF GetMore, DrvType
  <2>2. QED
    BY <1>a, <1>c, <2>1
<1>2. CASE ReadCs
  <2>1. /\ drv'.at = "setcs" /\ drv'.pc = drv.pc /\ drv'.ret = drv.ret
        /\ drv'.call = drv.call /\ drv'.inited = drv.inited
    BY <1>2, <1>a DEF ReadCs, DrvType
  <2>2. QED
    BY <1>a, <1>c, <2>1 DEF Transferring
<1>3. CASE SetCs
  <2>1. drv.at = "setcs" /\ (drv.pc = "off" \/ drv.pc = "cmd0")
    BY <1>a, <1>3 DEF SetCs, Flow
  <2>2. CASE drv.pc = "off"
    <3>1. drv' = Transfers(drv, <<Idle>>, "off")
      BY <1>3, <2>2 DEF SetCs
    <3>2. /\ drv'.at = "put" /\ drv'.pc = "off" /\ drv'.ret = drv.ret
          /\ drv'.call = drv.call /\ drv'.inited = drv.inited
      BY <1>a, <1>b, <3>1, IdleRowIs
    <3>3. QED
      BY <1>a, <1>c, <2>2, <3>2
  <2>3. CASE drv.pc = "cmd0"
    <3>1. drv' = SendCommand(drv, CMD0, 0, 149)
      BY <1>3, <2>3 DEF SetCs
    <3>2. CMD0 \in Commands /\ 0 \in Nat /\ 149 \in Bytes
      BY CommandsAre DEF Bytes
    <3>3. /\ drv'.at = "put" /\ drv'.pc = "sent" /\ drv'.cmd = CMD0
          /\ drv'.call = drv.call /\ drv'.inited = drv.inited
      BY <1>a, <3>1, <3>2, SendCommandIs
    <3>4. QED
      BY <1>a, <1>c, <3>3
  <2>4. QED
    BY <2>1, <2>2, <2>3
<1>4. CASE Sent
  <2>1. drv' = Transfers(drv, <<Idle>>, "poll") /\ drv.at = "get" /\ drv.pc = "sent"
    BY <1>4 DEF Sent, Got
  <2>2. /\ drv'.at = "put" /\ drv'.pc = "poll" /\ drv'.cmd = drv.cmd
        /\ drv'.call = drv.call /\ drv'.inited = drv.inited
    BY <1>a, <1>b, <2>1, IdleRowIs
  <2>3. QED
    BY <1>a, <1>c, <2>1, <2>2
<1>5. CASE Poll
  <2>1. drv.at = "get" /\ drv.pc = "poll" /\ drv.cmd = CMD0 /\ ~(regs.rdt.data < 128)
    BY <1>5, <1>a DEF Poll, Got, Idle
  <2>2. CASE drv.polls + 1 = Polls
    <3>1. drv' = Returned(drv, -1)
      BY <1>5, <2>1, <2>2 DEF Poll
    <3>2. drv' = Deselect(drv, -1)
      BY <2>1, <3>1, CommandsAre DEF Returned, AfterCmd0
    <3>3. /\ drv'.at = "readcs" /\ drv'.pc = "off" /\ drv'.ret = -1
          /\ drv'.call = drv.call /\ drv'.inited = drv.inited
      BY <1>a, <3>2 DEF Deselect, DrvType
    <3>4. QED
      BY <1>a, <1>c, <3>3 DEF Transferring
  <2>3. CASE drv.polls + 1 # Polls
    <3>1. drv' = Transfers([drv EXCEPT !.polls = @ + 1], <<Idle>>, "poll")
      BY <1>5, <2>1, <2>3 DEF Poll
    <3>2. /\ drv'.at = "put" /\ drv'.pc = "poll" /\ drv'.cmd = drv.cmd
          /\ drv'.call = drv.call /\ drv'.inited = drv.inited
      BY <1>a, <3>1 DEF Transfers, DrvType
    <3>3. QED
      BY <1>a, <1>c, <2>1, <3>2
  <2>4. QED
    BY <2>2, <2>3
<1>6. CASE SlowClock
  <2>1. drv' = Transfers(drv, Idles(Dummies), "dummies") /\ Idles(Dummies) \in Seq(Bytes)
    BY <1>6, IdlesType, Parameters DEF SlowClock
  <2>2. /\ drv'.at = "put" /\ drv'.pc = "dummies"
        /\ drv'.call = drv.call /\ drv'.inited = drv.inited
    BY <1>a, <1>b, <2>1, TransfersIs
  <2>3. QED
    BY <1>a, <1>c, <2>2
<1>7. CASE DummyClocks
  <2>1. /\ drv'.at = "readcs" /\ drv'.pc = "cmd0"
        /\ drv'.call = drv.call /\ drv'.inited = drv.inited
    BY <1>7, <1>a DEF DummyClocks, Select, DrvType
  <2>2. QED
    BY <1>a, <1>c, <2>1 DEF Transferring
<1>8. CASE Off
  <2>1. drv.pc = "off" /\ drv.ret # 0 /\ drv' = Return(drv)
    BY <1>8, <1>a DEF Off, Got
  <2>2. /\ drv'.at = "none" /\ drv'.pc = "none" /\ drv'.call = "none" /\ ~drv'.inited
    BY <1>a, <2>1 DEF Return, DrvType
  <2>3. QED
    BY <2>2 DEF Alone, Outcome, Transferring
<1>9. ~FastClock
  BY <1>a DEF FastClock, Outcome
<1>10. ~Voltage /\ ~Token /\ ~Data /\ ~Crc
  BY <1>a DEF Voltage, Token, Data, Crc, Got, Flow, Transferring
<1>11. QED
  BY <1>1, <1>2, <1>3, <1>4, <1>5, <1>6, <1>7, <1>8, <1>9, <1>10 DEF Driver, Put, Status
-----------------------------------------------------------------------------
(* One clock of the conversation.                                          *)

\* The locals of the driver, except for the access that is under way.
Same(d, e) ==
  /\ e.pc = d.pc /\ e.send = d.send /\ e.cmd = d.cmd /\ e.polls = d.polls /\ e.addr = d.addr
  /\ e.buffer = d.buffer /\ e.ret = d.ret /\ e.call = d.call /\ e.inited = d.inited

\* A driver that waits for its byte, or for nothing at all, goes on as it was.
LEMMA SameTalks ==
  ASSUME NEW d, NEW e, Same(d, e), e.at = d.at \/ (Transferring(d) /\ Transferring(e)),
         NEW b, NEW c, c.got = b.got, c.queue = b.queue, c.ready = b.ready, c.kind = b.kind,
         NEW x, NEW rx, NEW ry, x = 1 => ry = rx, Conversing(d, b, x, rx)
  PROVE  Conversing(e, c, x, ry)
<1>1. Transferring(e) <=> Transferring(d)
  BY DEF Transferring
<1>2. ASSUME Stage(d, b, x, rx) PROVE Stage(e, c, x, ry)
  <2>1. CASE Transferring(d)
    BY <1>1, <1>2, <2>1, StageMoves DEF Same
  <2>2. CASE ~Transferring(d)
    BY <1>1, <1>2, <2>2 DEF Stage, Same
  <2>3. QED
    BY <2>1, <2>2
<1>3. ASSUME Alone(d, b, x, rx) PROVE Alone(e, c, x, ry)
  BY <1>1, <1>3 DEF Alone, Same
<1>4. Outcome(e, c.ready)
  BY <1>1 DEF Conversing, Outcome, Same, Transferring
<1>5. QED
  BY <1>2, <1>3, <1>4 DEF Conversing

\* The first two accesses of a transfer do not touch the locals.
LEMMA WaitingMoves ==
  ASSUME drv \in DrvType, Driver, drv.at \in {"put", "status"}
  PROVE  Same(drv, drv') /\ Transferring(drv) /\ Transferring(drv')
<1>1. Put \/ Status
  BY DEF Driver, GetMore, ReadCs, SetCs, Sent, Poll, SlowClock, DummyClocks, Voltage,
         FastClock, Off, Token, Data, Crc, Got
<1>2. Same(drv, drv')
  BY <1>1 DEF Put, Status, Same, DrvType
<1>3. drv'.at \in {"status", "get"}
  BY <1>1 DEF Put, Status, DrvType
<1>4. QED
  BY <1>2, <1>3 DEF Transferring

\* The answer of a transfer is read once.
LEMMA LeavesTransfer ==
  ASSUME DriverInv, Driver, drv.at \notin {"put", "status"}
  PROVE  drv'.at \notin {"status", "get"}
<1>a. drv \in DrvType /\ Flow(drv)
  BY DEF DriverInv, Driving
<1> DEFINE Located(d) == "at" \in DOMAIN d
           Leaves(d) == d.at \in {"put", "readcs", "setcs", "none", "fast"}
<1>1. ASSUME NEW d, Located(d), NEW bytes, NEW pc PROVE Leaves(Transfers(d, bytes, pc))
  BY <1>1 DEF Transfers
<1>2. ASSUME NEW d, Located(d), NEW cmd, NEW arg, NEW crc
      PROVE  Leaves(SendCommand(d, cmd, arg, crc))
  <2> DEFINE f == [d EXCEPT !.cmd = cmd, !.polls = 0]
  <2>1. Located(f)
    BY <1>2
  <2>2. SendCommand(d, cmd, arg, crc) = Transfers(f, CommandFrame(cmd, arg, crc), "sent")
    BY DEF SendCommand
  <2> HIDE DEF f
  <2>3. QED
    BY <1>1, <2>1, <2>2
<1>3. ASSUME NEW d, Located(d), NEW ret PROVE Leaves(Deselect(d, ret))
  BY <1>3 DEF Deselect
<1>4. ASSUME NEW d, Located(d) PROVE Leaves(NextTry(d)) /\ Leaves(Return(d))
  <2>1. Leaves(NextTry(d))
    BY <1>2, <1>3, <1>4 DEF NextTry
  <2>2. Leaves(Return(d))
    BY <1>4 DEF Return
  <2>3. QED BY <2>1, <2>2
<1>5. /\ Located(drv)
      /\ \A n : /\ Located([drv EXCEPT !.retries = n])
               /\ Located([drv EXCEPT !.polls = n])
               /\ Located([drv EXCEPT !.buffer = n])
  BY <1>a DEF DrvType
<1> HIDE DEF Located
<1>6. GetMore \/ ReadCs \/ DummyClocks => Leaves(drv')
  BY <1>a DEF GetMore, ReadCs, DummyClocks, Select, DrvType
<1>7. Off \/ FastClock => Leaves(drv')
  <2>1. [drv EXCEPT !.at = "fast"].at = "fast"
    BY <1>a DEF DrvType
  <2>2. QED
    BY <1>4, <1>5, <2>1 DEF Off, FastClock
<1>8. SetCs => Leaves(drv')
  <2>1. SetCs => drv.pc = "off" \/ drv.pc = "cmd0" \/ drv.pc = "cmd17"
    BY <1>a DEF SetCs, Flow
  <2>2. QED
    BY <1>1, <1>2, <1>5, <2>1 DEF SetCs
<1>9. Sent \/ SlowClock \/ Voltage \/ Token \/ Crc => Leaves(drv')
  BY <1>1, <1>3, <1>4, <1>5 DEF Sent, SlowClock, Voltage, Token, Crc
<1>10. Data => Leaves(drv')
  BY <1>1, <1>5 DEF Data
<1>11. Poll => Leaves(drv')
  <2>1. ASSUME NEW res, drv.cmd \in Commands PROVE Leaves(Returned(drv, res))
    <3>1. Located([drv EXCEPT !.retries = Retries])
          /\ Located([drv EXCEPT !.retries = drv.retries - 1])
      BY <1>5
    <3>2. drv.cmd = CMD0 \/ drv.cmd = CMD8 \/ drv.cmd = CMD55 => Leaves(Returned(drv, res))
      BY <1>1, <1>2, <1>3, <1>4, <1>5, <3>1, CommandsAre DEF Returned, AfterCmd0, AfterCmd8
    <3>3. drv.cmd = ACMD41 \/ drv.cmd = CMD17 => Leaves(Returned(drv, res))
      BY <1>1, <1>3, <1>4, <1>5, <3>1, CommandsAre DEF Returned, AfterAcmd41, AfterCmd17
    <3>4. QED
      BY <2>1, <3>2, <3>3, CommandsAre
  <2>2. Poll => drv.cmd \in Commands
    BY <1>a DEF Poll, Got, Flow, Transferring
  <2>3. Poll => Leaves(drv')
    BY <1>1, <1>5, <2>1, <2>2 DEF Poll
  <2>4. QED
    BY <2>3
<1>12. Leaves(drv')
  BY <1>6, <1>7, <1>8, <1>9, <1>10, <1>11 DEF Driver, Put, Status
<1>13. QED
  BY <1>12

\* A byte is exchanged once, when its last bit is sampled, and the byte
\* received is kept until the driver has read it.
LEMMA ByteMoves ==
  ASSUME TypeOK, DriverInv, ShiftInv, ByteInv, Wishbone, Spi,
         User \/ Think \/ Issue \/ Wait \/ Complete
  PROVE  /\ Exchanged \in {0, 1}
         /\ LastSample => /\ Exchanged = 0 /\ Exchanged' = 1 /\ Transferring(drv)
                          /\ regs.tx = Head(drv.send)
                          /\ spi'.rx = IF regs.cs = 0 /\ card.queue # <<>>
                                       THEN Head(card.queue) ELSE Idle
         /\ ~LastSample /\ Transferring(drv) /\ Transferring(drv')
              /\ (drv' = drv \/ drv.at \in {"put", "status"}) =>
              Exchanged' = Exchanged /\ (Exchanged = 1 => spi'.rx = spi.rx)
         /\ drv.at \notin {"put", "status"} => spi.state = "IDLE" /\ spi'.state = "IDLE"
         /\ drv.at = "get" => Exchanged = 1
<1>a. /\ spi \in SpiType /\ drv \in DrvType /\ regs.ack \in {0, 1} /\ cyc \in {0, 1}
      /\ spi.bit \in Nat /\ spi.sck \in {0, 1} /\ spi.state \in {"IDLE", "TRANSFER", "DONE"}
  BY DEF TypeOK, SpiType, BitIndex, RegsType
<1>b. spi.state # "IDLE" => drv.at \in {"put", "status"} /\ (drv.at = "put" => regs.ack = 1)
  BY DEF ShiftInv
<1>c. /\ spi.state = "IDLE" => spi'.state = (IF Taken("put") THEN "TRANSFER" ELSE "IDLE")
      /\ spi.state = "DONE" => spi'.state = "IDLE"
  BY SpiStep
<1>d. Exchanged \in {0, 1} /\ Exchanged' \in {0, 1}
  BY DEF Exchanged
<1>e. drv' = drv \/ (cyc = 1 /\ regs.ack = 1 /\ Driver) \/ (User /\ drv.at = "none")
  BY <1>a, ProcessorIs, UserStep DEF DriverInv
<1>f. drv.at \in {"put", "status"} => drv' = drv \/ (cyc = 1 /\ regs.ack = 1 /\ Driver)
  BY <1>e
<1>g. Bits - 1 \in Nat
  BY Parameters
<1>1. drv.at \notin {"put", "status"} => spi.state = "IDLE" /\ spi'.state = "IDLE"
  BY <1>b, <1>c DEF Taken
<1>2. drv.at = "get" => Exchanged = 1
  BY <1>1 DEF Exchanged
<1>3. ASSUME LastSample
      PROVE  /\ Exchanged = 0 /\ Exchanged' = 1 /\ Transferring(drv)
             /\ regs.tx = Head(drv.send)
             /\ spi'.rx = IF regs.cs = 0 /\ card.queue # <<>> THEN Head(card.queue) ELSE Idle
  <2>1. spi.state = "TRANSFER" /\ Tick /\ spi.sck = 0 /\ spi.bit = 0
    BY <1>3 DEF LastSample
  <2>2. SpiRise
    BY <2>1 DEF Spi, SpiIdle, SpiDivide, SpiFall, SpiDone
  <2>3. /\ spi'.state = "TRANSFER" /\ spi'.bit = 0 /\ spi'.sck = 1
        /\ spi'.rx = IF regs.cs = 0 /\ card.queue # <<>> THEN Head(card.queue) ELSE Idle
    BY <1>a, <2>1, <2>2 DEF SpiRise, SpiType
  <2>4. Exchanged = 0 /\ Exchanged' = 1
    BY <2>1, <2>3 DEF Exchanged
  <2>5. Transferring(drv) /\ regs.tx = Head(drv.send)
    BY <1>b, <2>1 DEF Transferring, ByteInv
  <2>6. QED
    BY <2>3, <2>4, <2>5
<1>4. ASSUME ~LastSample, Transferring(drv), Transferring(drv'),
             drv' = drv \/ drv.at \in {"put", "status"}
      PROVE  Exchanged' = Exchanged /\ (Exchanged = 1 => spi'.rx = spi.rx)
  <2>1. CASE spi.state = "IDLE" /\ Taken("put")
    <3>1. drv' = drv /\ drv.at = "put"
      BY <1>e, <2>1 DEF Taken
    <3>2. SpiIdle
      BY <2>1 DEF Spi, SpiDivide, SpiRise, SpiFall, SpiDone
    <3>3. spi'.state = "TRANSFER" /\ spi'.sck = 0
      BY <1>a, <1>g, <2>1, <3>2 DEF SpiIdle, SpiType
    <3>4. QED
      BY <2>1, <3>1, <3>3 DEF Exchanged
  <2>2. CASE spi.state = "IDLE" /\ ~Taken("put")
    <3>1. SpiIdle
      BY <2>2 DEF Spi, SpiDivide, SpiRise, SpiFall, SpiDone
    <3>2. spi'.state = "IDLE" /\ spi'.rx = spi.rx
      BY <1>a, <2>2, <3>1 DEF SpiIdle, SpiType
    <3>3. drv'.at \in {"status", "get"} <=> drv.at \in {"status", "get"}
      <4>1. CASE drv' = drv
        BY <4>1
      <4>2. CASE drv.at = "put" /\ cyc = 1 /\ regs.ack = 1
        BY <2>2, <4>2 DEF ShiftInv
      <4>3. CASE drv.at = "status" /\ Driver
        BY <1>a, <4>3, DriverMoves
      <4>4. QED
        BY <1>4, <1>f, <4>1, <4>2, <4>3
    <3>4. QED
      BY <2>2, <3>2, <3>3 DEF Exchanged
  <2>3. CASE spi.state = "DONE"
    <3>1. SpiDone
      BY <2>3 DEF Spi, SpiIdle, SpiDivide, SpiRise, SpiFall
    <3>2. spi'.state = "IDLE" /\ spi'.rx = spi.rx
      BY <1>a, <3>1 DEF SpiDone, SpiType
    <3>3. drv.at = "status"
      BY <1>b, <2>3 DEF ShiftInv
    <3>4. drv'.at \in {"status", "get"}
      BY <1>a, <1>f, <3>3, DriverMoves
    <3>5. QED
      BY <2>3, <3>2, <3>4 DEF Exchanged
  <2>4. CASE spi.state = "TRANSFER"
    <3>1. CASE SpiDivide
      <4>1. /\ spi'.state = "TRANSFER" /\ spi'.bit = spi.bit /\ spi'.sck = spi.sck
            /\ spi'.rx = spi.rx
        BY <1>a, <2>4, <3>1 DEF SpiDivide, SpiType
      <4>2. QED
        BY <2>4, <4>1 DEF Exchanged
    <3>2. CASE SpiRise
      <4>1. spi.sck = 0 /\ spi.bit # 0
        BY <1>4, <2>4, <3>2 DEF SpiRise, LastSample
      <4>2. spi'.state = "TRANSFER" /\ spi'.bit = spi.bit
        BY <1>a, <2>4, <3>2 DEF SpiRise, SpiType
      <4>3. QED
        BY <2>4, <4>1, <4>2 DEF Exchanged
    <3>3. CASE SpiFall /\ spi.bit = 0
      <4>1. spi.sck = 1 /\ spi'.state = "DONE" /\ spi'.rx = spi.rx
        BY <1>a, <2>4, <3>3 DEF SpiFall, SpiType
      <4>2. QED
        BY <2>4, <3>3, <4>1 DEF Exchanged
    <3>4. CASE SpiFall /\ spi.bit # 0
      <4>1. spi'.state = "TRANSFER" /\ spi'.sck = 0
        BY <1>a, <2>4, <3>4 DEF SpiFall, SpiType
      <4>2. QED
        BY <2>4, <3>4, <4>1 DEF Exchanged
    <3>5. QED
      BY <2>4, <3>1, <3>2, <3>3, <3>4 DEF Spi, SpiIdle, SpiDone
  <2>5. QED
    BY <1>a, <2>1, <2>2, <2>3, <2>4
<1>5. QED
  BY <1>d, <1>1, <1>2, <1>3, <1>4

\* The byte that is shifted is the driver's, and the byte it reads is the one
\* that has been shifted in.
LEMMA ByteKept ==
  ASSUME TypeOK, DriverInv, ShiftInv, ByteInv, Wishbone, Spi,
         User \/ Think \/ Issue \/ Wait \/ Complete
  PROVE  ByteInv'
<1>a. /\ spi \in SpiType /\ drv \in DrvType /\ regs.ack \in {0, 1} /\ cyc \in {0, 1}
      /\ spi.state \in {"IDLE", "TRANSFER", "DONE"}
  BY DEF TypeOK, SpiType, RegsType
<1>b. regs'.ack = 1 => cyc = 1 /\ regs.ack = 0 /\ drv' = drv
  <2>1. regs'.ack = 1 => cyc = 1 /\ regs.ack = 0
    BY <1>a, WishboneIs
  <2>2. QED
    BY <2>1, ProcessorIs
<1>c. spi.state # "IDLE" => drv.at \in {"put", "status"}
  BY DEF ShiftInv
<1>1. spi'.state = "TRANSFER" => regs'.tx = Head(drv'.send)
  <2>1. CASE spi.state = "IDLE"
    <3>1. spi'.state = "TRANSFER" => Taken("put")
      BY <2>1, SpiStep
    <3>2. Taken("put") => regs'.tx = Head(drv.send) /\ drv' = drv
      BY ProcessorIs, WishboneIs DEF Taken
    <3>3. QED
      BY <3>1, <3>2
  <2>2. CASE spi.state = "TRANSFER"
    <3>1. regs'.tx = Head(drv.send)
      BY <2>2, ShiftHeld DEF ByteInv
    <3>2. drv'.send = drv.send
      <4>1. drv' = drv \/ Driver \/ User
        BY <1>a, ProcessorIs
      <4>2. ~User
        BY <1>c, <2>2, UserStep DEF DriverInv
      <4>3. Driver => drv'.send = drv.send
        BY <1>a, <1>c, <2>2, WaitingMoves DEF Same
      <4>4. QED
        BY <4>1, <4>2, <4>3
    <3>3. QED
      BY <3>1, <3>2
  <2>3. CASE spi.state = "DONE"
    BY <2>3, SpiStep
  <2>4. QED
    BY <1>a, <2>1, <2>2, <2>3
<1>2. drv'.at = "get" /\ regs'.ack = 1 => regs'.rdt.data = spi'.rx
  <2> SUFFICES ASSUME drv'.at = "get", regs'.ack = 1 PROVE regs'.rdt.data = spi'.rx
    OBVIOUS
  <2>1. Taken("get") /\ ~Taken("put") /\ spi.state = "IDLE"
    BY <1>b, <1>c DEF Taken
  <2>2. regs'.rdt.data = spi.rx
    BY <2>1, WishboneIs
  <2>3. SpiIdle
    BY <2>1 DEF Spi, SpiDivide, SpiRise, SpiFall, SpiDone
  <2>4. spi'.rx = spi.rx
    BY <1>a, <2>1, <2>3 DEF SpiIdle, SpiType
  <2>5. QED
    BY <2>2, <2>4
<1>3. QED
  BY <1>1, <1>2 DEF ByteInv

\* The card moves when a byte is whole, and when it is deselected.
LEMMA CardMoves ==
  ASSUME TypeOK, DriverInv, ShiftInv, TakenInv, Wishbone, Card
  PROVE  /\ card' \in CardType /\ card'.kind = card.kind
         /\ LastSample /\ regs.cs = 0 /\ card.kind # "absent" => Exchange(regs.tx)
         /\ ~(LastSample /\ regs.cs = 0 /\ card.kind # "absent") =>
              /\ card'.ready = card.ready
              /\ regs'.cs = regs.cs => card'.got = card.got /\ card'.queue = card.queue
              /\ \/ card'.got = card.got /\ card'.queue = card.queue
                 \/ card'.got = <<>> /\ card'.queue = <<>>
<1>a. card \in CardType /\ regs.cs \in {0, 1} /\ regs'.cs \in {0, 1} /\ regs.tx \in Bytes
  <2>1. regs \in RegsType /\ regs' \in RegsType /\ card \in CardType
    BY WishboneIs DEF TypeOK
  <2>2. QED BY <2>1 DEF RegsType
<1>b. card' \in CardType
  BY CardStep
<1>c. LastSample => regs'.cs = regs.cs
  BY ShiftHeld DEF LastSample
<1>1. CASE regs'.cs = 1
  <2>1. /\ card'.got = <<>> /\ card'.queue = <<>> /\ card'.ready = card.ready
        /\ card'.kind = card.kind
    BY <1>1, <1>a DEF Card, CardType
  <2>2. regs.cs = 1 => card.got = <<>> /\ card.queue = <<>>
    BY DEF TakenInv
  <2>3. QED
    BY <1>1, <1>b, <1>c, <2>1, <2>2
<1>2. CASE regs'.cs = 0 /\ LastSample /\ card.kind # "absent"
  <2>1. Exchange(regs.tx)
    BY <1>2 DEF Card
  <2>2. card'.kind = card.kind
    BY <1>a, <2>1, ExchangeIs
  <2>3. QED
    BY <1>2, <1>b, <1>c, <2>1, <2>2
<1>3. CASE regs'.cs = 0 /\ ~(LastSample /\ card.kind # "absent")
  <2>1. card' = card
    BY <1>3 DEF Card
  <2>2. QED
    BY <1>3, <1>b, <1>c, <2>1
<1>4. QED
  BY <1>a, <1>1, <1>2, <1>3

\* The card takes the byte of any stage of the conversation.
LEMMA StageExchange ==
  ASSUME card \in CardType, NEW d \in DrvType, Flow(d), Transferring(d),
         d.pc \notin {"off", "dummies"}, NEW rx, Stage(d, card, 0, rx), Outcome(d, card.ready),
         Exchange(Head(d.send)),
         NEW ry, ry = IF card.queue # <<>> THEN Head(card.queue) ELSE Idle
  PROVE  Stage(d, card', 1, ry) /\ Outcome(d, card'.ready)
<1>a. /\ d.pc \in {"sent", "poll", "r7", "token", "data", "crc"}
      /\ d.at \notin {"readcs", "setcs", "fast", "none", "slow"}
  BY RowIs DEF RowPcs, Transferring
<1>b. card.queue # <<>> => ry = Head(card.queue)
  OBVIOUS
<1>c. ASSUME card'.ready = card.ready PROVE Outcome(d, card'.ready)
  BY <1>c
<1>1. CASE d.pc = "sent"
  <2>1. SentStage(d, card, 0)
    BY <1>1 DEF Stage, SentStage
  <2>2. SentStage(d, card', 1) /\ ((d.inited => card.ready) => (d.inited => card'.ready))
    BY <1>1, <2>1, SentExchange
  <2>3. Stage(d, card', 1, ry)
    BY <1>1, <1>a, <2>2 DEF Stage
  <2>4. Outcome(d, card'.ready)
    BY <1>1, <1>a, <2>2 DEF Outcome
  <2>5. QED
    BY <2>3, <2>4
<1>2. CASE d.pc = "poll"
  <2>1. PollStage(d, card, 0, 0)
    BY <1>2 DEF Stage, PollStage
  <2>2. PollStage(d, card', 1, Head(card.queue)) /\ card'.ready = card.ready /\ card.queue # <<>>
    BY <1>2, <2>1, PollExchange
  <2>3. Stage(d, card', 1, ry)
    BY <1>2, <1>a, <1>b, <2>2 DEF Stage
  <2>4. QED
    BY <1>c, <2>2, <2>3
<1>3. CASE d.pc = "r7"
  <2>1. R7Stage(d, card, 0)
    BY <1>3 DEF Stage
  <2>2. R7Stage(d, card', 1) /\ card'.ready = card.ready
    BY <1>3, <2>1, R7Exchange
  <2>3. Stage(d, card', 1, ry)
    BY <1>3, <1>a, <2>2 DEF Stage
  <2>4. QED
    BY <1>c, <2>2, <2>3
<1>4. CASE d.pc = "token"
  <2>1. TokenStage(d, card, 0, 0)
    BY <1>4 DEF Stage, TokenStage
  <2>2. TokenStage(d, card', 1, ry) /\ card'.ready = card.ready
    BY <1>4, <2>1, TokenExchange
  <2>3. Stage(d, card', 1, ry)
    BY <1>4, <1>a, <2>2 DEF Stage
  <2>4. QED
    BY <1>c, <2>2, <2>3
<1>5. CASE d.pc = "data"
  <2>1. DataStage(d, card, 0, 0)
    BY <1>5 DEF Stage, DataStage
  <2>2. DataStage(d, card', 1, Head(card.queue)) /\ card'.ready = card.ready /\ card.queue # <<>>
    BY <1>5, <2>1, DataExchange
  <2>3. Stage(d, card', 1, ry)
    BY <1>5, <1>a, <1>b, <2>2 DEF Stage
  <2>4. QED
    BY <1>c, <2>2, <2>3
<1>6. CASE d.pc = "crc"
  <2>1. CrcStage(d, card)
    BY <1>6 DEF Stage
  <2>2. CrcStage(d, card') /\ card'.ready = card.ready
    BY <1>6, <2>1, CrcExchange
  <2>3. Stage(d, card', 1, ry)
    BY <1>6, <1>a, <2>2 DEF Stage
  <2>4. QED
    BY <1>c, <2>2, <2>3
<1>7. QED
  BY <1>a, <1>1, <1>2, <1>3, <1>4, <1>5, <1>6

\* The driver and the card keep to the conversation in one clock.
LEMMA TalkKept ==
  ASSUME TypeOK, DriverInv, ShiftInv, TakenInv, ByteInv, TalkInv, Wishbone, Spi, Card,
         User \/ Think \/ Issue \/ Wait \/ Complete
  PROVE  TalkInv'
<1>a. /\ card \in CardType /\ drv \in DrvType /\ regs.ack \in {0, 1} /\ cyc \in {0, 1}
      /\ Flow(drv) /\ Selects(drv, regs.cs)
  BY DEF TypeOK, RegsType, DriverInv, Driving
<1>b. Conversing(drv, card, Exchanged, spi.rx)
  BY DEF TalkInv
<1>c. Exchanged \in {0, 1}
  BY ByteMoves
<1>d. TalkInv' <=> Conversing(drv', card', Exchanged', spi'.rx)
  BY DEF TalkInv
<1>e. regs.cs = 1 => card.got = <<>> /\ card.queue = <<>>
  BY DEF TakenInv
<1>f. drv' = drv \/ (cyc = 1 /\ regs.ack = 1 /\ Driver) \/ User
  BY <1>a, ProcessorIs
<1>g. (cyc = 1 /\ regs.ack = 1) \/ cyc = 0 => regs'.cs = regs.cs
  BY WishboneIs DEF Taken
<1>1. CASE LastSample
  <2>1. /\ Exchanged = 0 /\ Exchanged' = 1 /\ Transferring(drv) /\ regs.tx = Head(drv.send)
        /\ spi'.rx = IF regs.cs = 0 /\ card.queue # <<>> THEN Head(card.queue) ELSE Idle
    BY <1>1, ByteMoves
  <2>2. Same(drv, drv') /\ (drv'.at = drv.at \/ (Transferring(drv) /\ Transferring(drv')))
    <3>1. drv.at \in {"put", "status"}
      BY <1>1, ByteMoves DEF LastSample
    <3>2. ~User
      BY <3>1, UserStep DEF DriverInv
    <3>3. CASE drv' = drv
      BY <3>3 DEF Same
    <3>4. CASE Driver
      BY <1>a, <3>1, <3>4, WaitingMoves
    <3>5. QED
      BY <1>f, <3>2, <3>3, <3>4
  <2>3. Conversing(drv, card', 1, spi'.rx)
    <3>1. CASE card.kind # "absent" /\ regs.cs = 0
      <4> DEFINE ry == spi'.rx
      <4>1. ry = IF card.queue # <<>> THEN Head(card.queue) ELSE Idle
        BY <2>1, <3>1
      <4> HIDE DEF ry
      <4>2. drv.pc \notin {"off", "dummies"}
        BY <1>a, <2>1, <3>1 DEF Selects
      <4>3. Exchange(Head(drv.send)) /\ card'.kind = card.kind
        BY <1>1, <2>1, <3>1, CardMoves
      <4>4. Stage(drv, card, 0, spi.rx) /\ Outcome(drv, card.ready)
        BY <1>b, <2>1, <3>1 DEF Conversing
      <4>5. Stage(drv, card', 1, ry) /\ Outcome(drv, card'.ready)
        BY <1>a, <2>1, <4>1, <4>2, <4>3, <4>4, StageExchange
      <4>6. QED
        BY <3>1, <4>3, <4>5 DEF Conversing, ry
    <3>2. CASE card.kind # "absent" /\ regs.cs # 0
      <4>1. drv.pc \in {"off", "dummies"}
        BY <1>a, <2>1, <3>2 DEF Selects
      <4>2. card'.kind = card.kind /\ card'.ready = card.ready
        BY <3>2, CardMoves
      <4>3. Stage(drv, card', 1, spi'.rx)
        BY <2>1, <4>1 DEF Stage, Transferring
      <4>4. Outcome(drv, card'.ready)
        BY <1>b, <4>2 DEF Conversing
      <4>5. QED
        BY <3>2, <4>2, <4>3, <4>4 DEF Conversing
    <3>3. CASE card.kind = "absent"
      <4>1. card'.kind = card.kind /\ card'.ready = card.ready
        BY <3>3, CardMoves
      <4>2. \/ card'.got = card.got /\ card'.queue = card.queue
            \/ card'.got = <<>> /\ card'.queue = <<>>
        BY <3>3, CardMoves
      <4>3. Alone(drv, card, 0, spi.rx) /\ Outcome(drv, card.ready)
        BY <1>b, <2>1, <3>3 DEF Conversing
      <4>4. spi'.rx = Idle
        BY <2>1, <4>3 DEF Alone
      <4>5. Alone(drv, card', 1, spi'.rx)
        BY <4>1, <4>2, <4>3, <4>4 DEF Alone
      <4>6. QED
        BY <3>3, <4>1, <4>3, <4>5 DEF Conversing
    <3>4. QED
      BY <3>1, <3>2, <3>3
  <2>4. Conversing(drv', card', 1, spi'.rx)
    BY <2>2, <2>3, SameTalks
  <2>5. QED
    BY <1>d, <2>1, <2>4
<1>2. CASE ~LastSample /\ (drv' = drv \/ (Driver /\ drv.at \in {"put", "status"}))
  <2>1. Same(drv, drv') /\ (drv'.at = drv.at \/ (Transferring(drv) /\ Transferring(drv')))
    <3>1. CASE drv' = drv
      BY <3>1 DEF Same
    <3>2. CASE Driver /\ drv.at \in {"put", "status"}
      BY <1>a, <3>2, WaitingMoves
    <3>3. QED
      BY <1>2, <3>1, <3>2
  <2>2. Exchanged' = Exchanged /\ (Exchanged = 1 => spi'.rx = spi.rx)
    <3>1. CASE Transferring(drv)
      <4>1. Transferring(drv')
        BY <2>1, <3>1 DEF Transferring
      <4>2. drv' = drv \/ drv.at \in {"put", "status"}
        BY <1>2
      <4>3. QED
        BY <1>2, <3>1, <4>1, <4>2, ByteMoves
    <3>2. CASE ~Transferring(drv)
      <4>1. spi.state = "IDLE" /\ spi'.state = "IDLE"
        BY <3>2, ByteMoves DEF Transferring
      <4>2. drv'.at = drv.at
        BY <2>1, <3>2
      <4>3. QED
        BY <3>2, <4>1, <4>2 DEF Exchanged, Transferring
    <3>3. QED
      BY <3>1, <3>2
  <2>3. Conversing(drv, card', Exchanged, spi.rx)
    <3>1. /\ card'.kind = card.kind /\ card'.ready = card.ready
          /\ \/ card'.got = card.got /\ card'.queue = card.queue
             \/ card'.got = <<>> /\ card'.queue = <<>>
          /\ regs'.cs = regs.cs => card'.got = card.got /\ card'.queue = card.queue
      BY <1>2, CardMoves
    <3>2. CASE card'.got = card.got /\ card'.queue = card.queue
      <4>1. Same(drv, drv)
        BY DEF Same
      <4>2. QED
        BY <1>b, <3>1, <3>2, <4>1, SameTalks
    <3>3. CASE card'.got = <<>> /\ card'.queue = <<>> /\ regs'.cs # regs.cs
      <4>1. ~Transferring(drv)
        <5>1. Taken("slow") \/ Taken("fast") \/ Taken("setcs")
          BY <3>3, WishboneIs
        <5>2. QED
          BY <5>1 DEF Taken, Transferring
      <4>2. Stage(drv, card', Exchanged, spi.rx)
        BY <3>3, <4>1 DEF Stage
      <4>3. Alone(drv, card, Exchanged, spi.rx) => Alone(drv, card', Exchanged, spi.rx)
        BY <3>1, <3>3 DEF Alone
      <4>4. QED
        BY <1>b, <3>1, <4>2, <4>3 DEF Conversing
    <3>4. QED
      BY <3>1, <3>2, <3>3
  <2>4. Conversing(drv', card', Exchanged, spi'.rx)
    BY <2>1, <2>2, <2>3, SameTalks
  <2>5. QED
    BY <1>d, <2>2, <2>4
<1>h. ASSUME ~LastSample, regs'.cs = regs.cs
      PROVE  /\ card'.kind = card.kind /\ card'.ready = card.ready
             /\ card'.got = card.got /\ card'.queue = card.queue /\ card' \in CardType
  BY <1>h, CardMoves
<1>3. CASE Driver /\ cyc = 1 /\ regs.ack = 1 /\ drv.at \notin {"put", "status"}
  <2>1. spi.state = "IDLE" /\ spi'.state = "IDLE" /\ ~LastSample /\ regs'.cs = regs.cs
    BY <1>3, <1>g, ByteMoves DEF LastSample
  <2>2. /\ card'.kind = card.kind /\ card'.ready = card.ready
        /\ card'.got = card.got /\ card'.queue = card.queue /\ card' \in CardType
    BY <1>h, <2>1
  <2> DEFINE x == Exchanged
             rx == spi.rx
             ry == spi'.rx
             c == card'
  <2>3. drv.at = "get" => x = 1 /\ regs.rdt.data = rx
    BY <1>3, ByteMoves DEF ByteInv
  <2>4. x \in {0, 1}
    BY <1>c
  <2>5. Conversing(drv, c, x, rx)
    <3>1. Same(drv, drv)
      BY DEF Same
    <3>2. QED
      BY <1>b, <2>2, <3>1, SameTalks
  <2>6. regs.cs = 1 => c.got = <<>> /\ c.queue = <<>>
    BY <1>e, <2>2
  <2>7. c \in CardType
    BY <2>2
  <2>8. Exchanged' = 0
    <3>1. drv'.at \notin {"status", "get"}
      BY <1>3, LeavesTransfer
    <3>2. QED
      BY <2>1, <3>1 DEF Exchanged
  <2> HIDE DEF x, rx, ry, c
  <2>9. Conversing(drv', c, 0, ry)
    <3>1. CASE c.kind # "absent"
      <4>1. Stage(drv, c, x, rx) /\ Outcome(drv, c.ready)
        BY <2>5, <3>1 DEF Conversing
      <4>2. Stage(drv', c, 0, ry) /\ Outcome(drv', c.ready)
        BY <1>3, <2>3, <2>4, <2>6, <2>7, <4>1, DriverTalks
      <4>3. QED
        BY <3>1, <4>2 DEF Conversing
    <3>2. CASE c.kind = "absent"
      <4>1. Alone(drv, c, x, rx) /\ Outcome(drv, c.ready)
        BY <2>5, <3>2 DEF Conversing
      <4>2. Alone(drv', c, 0, ry) /\ Outcome(drv', c.ready)
        BY <1>3, <2>3, <2>4, <4>1, AloneDriver
      <4>3. QED
        BY <3>2, <4>2 DEF Conversing
    <3>3. QED
      BY <3>1, <3>2
  <2>10. QED
    BY <1>d, <2>8, <2>9 DEF c, ry
<1>4. CASE User
  <2>1. /\ drv.at = "none" /\ drv.call = "none" /\ drv'.at \in {"none", "slow", "readcs"}
        /\ cyc = 0
    BY <1>4, <1>a, UserStep DEF DriverInv, User, Flow
  <2>2. spi.state = "IDLE" /\ spi'.state = "IDLE" /\ ~LastSample /\ regs'.cs = regs.cs
    BY <2>1, <1>g, ByteMoves DEF LastSample
  <2>3. /\ card'.kind = card.kind /\ card'.ready = card.ready
        /\ card'.got = card.got /\ card'.queue = card.queue
    BY <1>h, <2>2
  <2>4. Exchanged' = 0
    BY <2>1, <2>2 DEF Exchanged
  <2>5. card.got = <<>> /\ card.queue = <<>>
    BY <1>a, <1>e, <2>1 DEF Selects
  <2>6. Outcome(drv, card.ready) /\ drv.pc = "none"
    BY <1>b, <2>1 DEF Conversing, Outcome
  <2>7. /\ drv'.pc \in {"none", "cmd17"} /\ (drv'.inited => drv.inited)
        /\ drv'.call = "ReadBlock" => drv.inited
        /\ drv'.at = "readcs" \/ drv'.pc = "none"
    BY <1>4, <1>a, <2>1, <2>6 DEF User, CallInit, CallReadBlock, CallWithoutBuffer, Select, DrvType
  <2>8. Outcome(drv', card'.ready)
    BY <2>1, <2>3, <2>6, <2>7 DEF Outcome
  <2>9. Stage(drv', card', 0, spi'.rx)
    BY <2>1, <2>3, <2>5 DEF Stage, Transferring
  <2>10. card.kind = "absent" => Alone(drv', card', 0, spi'.rx)
    <3>1. card.kind = "absent" => ~card.ready /\ ~drv.inited
      BY <1>b DEF Conversing, Alone, Outcome
    <3>2. QED
      BY <2>1, <2>3, <2>5, <2>7, <3>1 DEF Alone, Transferring
  <2>11. QED
    BY <1>d, <2>3, <2>4, <2>8, <2>9, <2>10 DEF Conversing
<1>5. QED
  <2>1. User => ~LastSample
    BY ByteMoves, UserStep DEF DriverInv, Transferring
  <2>2. LastSample => drv.at \in {"put", "status"}
    BY ByteMoves DEF LastSample
  <2>3. QED
    BY <1>1, <1>2, <1>3, <1>4, <1>f, <2>1, <2>2
-----------------------------------------------------------------------------
(* The theorems.                                                           *)

\* What holds after every clock.
IInv == TypeOK /\ ShiftInv /\ TakenInv /\ DriverInv /\ ByteInv /\ TalkInv

\* The registers start within the invariant.
LEMMA InitHolds == Init => IInv
<1> SUFFICES ASSUME Init PROVE IInv
  OBVIOUS
<1>1. /\ 0 \in BitIndex /\ Bits - 1 \in BitIndex /\ 0 \in Nat /\ 0 \in Bytes
      /\ 0 \in 0 .. Polls - 1 /\ 0 \in 0 .. Retries
  BY Parameters DEF BitIndex, Bytes
<1>2. <<>> \in Seq(Bytes) /\ <<>> \in Seq(Bytes \cup {Mixed}) /\ Len(<<>>) = 0
  OBVIOUS
<1> DEFINE top == Bits - 1
           ctrl == [cs |-> 0, busy |-> 0, div |-> 0]
           rdt == [data |-> 0, ctrl |-> ctrl]
<1>3. ctrl \in Controls
  BY DEF Controls
<1>4. /\ top \in BitIndex
      /\ spi = [state |-> "IDLE", bit |-> top, div |-> 0, sck |-> 0, busy |-> 0, rx |-> 0]
      /\ regs = [cs |-> 1, clk_div |-> 1, tx |-> 0, ack |-> 0, rdt |-> rdt]
      /\ cyc = 0
      /\ drv = [call |-> "none", at |-> "none", pc |-> "none", send |-> <<>>, cmd |-> 0,
                polls |-> 0, retries |-> 0, addr |-> 0, buffer |-> <<>>, ret |-> 0,
                ctrl |-> ctrl, inited |-> FALSE]
  BY <1>1 DEF Init
<1>5. PICK kind \in {"v1", "v2", "absent"} :
        card = [kind |-> kind, ready |-> FALSE, app |-> FALSE, got |-> <<>>, queue |-> <<>>]
  BY DEF Init
<1> HIDE DEF top, ctrl
<1>6. rdt \in ReadType
  BY <1>1, <1>3 DEF ReadType
<1> HIDE DEF rdt
<1>7. spi \in SpiType /\ regs \in RegsType /\ cyc \in {0, 1}
  BY <1>1, <1>4, <1>6 DEF SpiType, RegsType
<1>8. drv \in DrvType /\ card \in CardType
  BY <1>1, <1>2, <1>3, <1>4, <1>5 DEF DrvType, CardType
<1>9. TypeOK
  BY <1>2, <1>4, <1>7, <1>8, Parameters DEF TypeOK
<1>10. ShiftInv /\ TakenInv
  BY <1>4, <1>5 DEF ShiftInv, TakenInv
<1>11. DriverInv
  BY <1>2, <1>4, <1>8, Parameters DEF DriverInv, Driving, Flow, Selects, Clocks, Transferring
<1>12. ByteInv
  BY <1>4 DEF ByteInv
<1>13. Exchanged = 0
  BY <1>4 DEF Exchanged
<1>14. Conversing(drv, card, 0, spi.rx)
  BY <1>4, <1>5 DEF Conversing, Stage, Alone, Outcome, Transferring
<1>15. QED
  BY <1>9, <1>10, <1>11, <1>12, <1>13, <1>14 DEF IInv, TalkInv

\* Every clock keeps it.
LEMMA NextHolds == IInv /\ [Next]_vars => IInv'
<1> SUFFICES ASSUME IInv, [Next]_vars PROVE IInv'
  OBVIOUS
<1>1. TypeOK /\ ShiftInv /\ TakenInv /\ DriverInv /\ ByteInv /\ TalkInv
  BY DEF IInv
<1>2. CASE Next
  <2>1. Spi /\ Wishbone /\ Card /\ (User \/ Think \/ Issue \/ Wait \/ Complete)
    BY <1>2 DEF Next, Hardware
  <2>2. DriverInv' /\ ShiftInv' /\ TakenInv' /\ ByteInv' /\ TalkInv'
    BY <1>1, <2>1, DrivingKept, ShiftKept, TakenKept, ByteKept, TalkKept
  <2>3. TypeOK'
    <3>1. drv' \in DrvType /\ Len(drv'.buffer) <= BlockLen
      BY <2>2 DEF DriverInv, Driving
    <3>2. regs' \in RegsType
      BY <1>1, <2>1, WishboneIs
    <3>3. spi' \in SpiType /\ (spi'.state = "TRANSFER" => spi'.div < regs'.clk_div)
      BY <1>1, <2>1, SpiStep
    <3>4. card' \in CardType
      BY <1>1, <2>1, CardStep
    <3>5. cyc' \in {0, 1}
      BY <1>1, <2>1 DEF User, Think, Issue, Wait, Complete, TypeOK
    <3>6. QED
      BY <3>1, <3>2, <3>3, <3>4, <3>5 DEF TypeOK
  <2>4. QED
    BY <2>2, <2>3 DEF IInv
<1>3. CASE UNCHANGED vars
  <2>1. TypeOK' /\ ShiftInv' /\ TakenInv' /\ DriverInv' /\ ByteInv'
    BY <1>1, <1>3 DEF vars, TypeOK, ShiftInv, TakenInv, DriverInv, ByteInv
  <2>2. Exchanged' = Exchanged
    BY <1>3 DEF vars, Exchanged
  <2>3. TalkInv'
    BY <1>1, <1>3, <2>2 DEF vars, TalkInv
  <2>4. QED
    BY <2>1, <2>3 DEF IInv
<1>4. QED
  BY <1>2, <1>3

\* The invariant holds after every clock, from power-up on.
LEMMA Holds == Spec => []IInv
  BY InitHolds, NextHolds, PTL DEF Spec

\* Every register of the peripheral and every local of the driver keeps its
\* range, the clock counter stays below its divider and the buffer is never
\* overrun, for every divider, block length and number of polls and retries.
THEOREM TypeCorrect == Spec => []TypeOK
<1>1. IInv => TypeOK
  BY DEF IInv
<1>2. QED
  BY <1>1, Holds, PTL

\* lib/sdcard.h: nothing in the peripheral guards its registers while a byte is
\* shifted, and the driver never writes one then.
THEOREM NothingDisturbsShift == Spec => ShiftUndisturbed
<1>1. IInv /\ [Next]_vars =>
        [spi.state = "TRANSFER" =>
           regs'.tx = regs.tx /\ regs'.cs = regs.cs /\ regs'.clk_div = regs.clk_div]_vars
  BY ShiftHeld DEF IInv, Next, Hardware, vars
<1>2. QED
  BY <1>1, Holds, PTL DEF Spec, ShiftUndisturbed

\* Between two calls the card is deselected and has forgotten what it was doing.
THEOREM DeselectedAtRest == Spec => []DeselectedBetweenCalls
<1>1. IInv => DeselectedBetweenCalls
  BY DEF IInv, DriverInv, Driving, Flow, Selects, TakenInv, DeselectedBetweenCalls
<1>2. QED
  BY <1>1, Holds, PTL

\* lib/sdcard.h:39-45: whenever ReadBlock returns 0 the buffer is the block at
\* the address, for every content, every delay of the card and every length.
THEOREM ReadsTheBlock == Spec => []ReadReturnsBlock
<1>1. IInv => ReadReturnsBlock
  BY DEF IInv, TalkInv, Conversing, Outcome, ReadReturnsBlock
<1>2. QED
  BY <1>1, Holds, PTL

\* lib/sdcard.h:117-163: no card that is still idle sees the fast clock, and
\* Init succeeds with no other than one that is ready.
THEOREM FastClockIsSafe == Spec => []FastOnlyWhenReady
<1>1. ASSUME IInv PROVE FastOnlyWhenReady
  <2>1. /\ drv.inited => card.ready
        /\ Flow(drv) /\ Clocks(drv, regs.clk_div) /\ drv.call \in {"none", "Init", "ReadBlock"}
    BY <1>1 DEF IInv, TalkInv, Conversing, Outcome, DriverInv, Driving, DrvType
  <2>2. spi.state = "TRANSFER" => drv.at \in {"put", "status"}
    BY <1>1 DEF IInv, ShiftInv
  <2>3. QED
    BY <2>1, <2>2 DEF FastOnlyWhenReady, Flow, Clocks
<1>2. QED
  BY <1>1, Holds, PTL
=============================================================================
