------------------------------- MODULE SdCard -------------------------------
(***************************************************************************)
(* lib/sdcard.h on ip/wb/sdcard_wblite.vhdl: the driver of the SD card,    *)
(* one register access at a time, the peripheral that shifts a byte out    *)
(* while it shifts one in, and a card that conforms to the SPI protocol.   *)
(*                                                                         *)
(* A step is one rising edge of clk.  The SPI process, the Wishbone        *)
(* process and the processor step together; the processor may think for    *)
(* any number of clocks between two accesses.  The card sees a byte, and   *)
(* the byte received is whole, when its last bit has been sampled.         *)
(***************************************************************************)
EXTENDS Integers, Sequences

CONSTANTS
  Bits,              \* bits of a byte: 8
  SlowDiv, FastDiv,  \* dividers that Init sets: 100 and 2
  Dummies,           \* bytes of dummy clocks: 10
  Polls,             \* polls of SendCommand for an answer: 10
  Retries,           \* tries of Init and of ReadBlock: 10000
  BlockLen,          \* bytes of a block: 512
  Content,           \* what the card holds: block address -> bytes
  NcrMax,            \* bytes that a card takes at most before it answers
  TokenMax           \* and before it sends a block

Bytes == 0 .. 255
Mixed == 256         \* rx_data while bits of two bytes are in it

ASSUME SdAssumption ==
  /\ {Bits, SlowDiv, FastDiv, Dummies, Polls, Retries, BlockLen} \subseteq Nat \ {0}
  /\ NcrMax \in Nat /\ TokenMax \in Nat
  /\ NcrMax < Polls
  /\ DOMAIN Content \subseteq Nat
  /\ \A a \in DOMAIN Content : a \div 16777216 < 256     \* uint32_t
  /\ \A a \in DOMAIN Content : Content[a] \in [1 .. BlockLen -> Bytes]

\* Commands, with the start bits 01, and the two tokens.
CMD0 == 64
CMD8 == 72
CMD17 == 81
ACMD41 == 105
CMD55 == 119
Idle == 255
DataToken == 254

VARIABLES
  spi,    \* registers of the SPI process
  regs,   \* registers of the Wishbone process
  cyc,    \* 1 while the processor has an access on the bus
  drv,    \* the driver: the access to make, and the locals of its functions
  card    \* the card

vars == <<spi, regs, cyc, drv, card>>

-----------------------------------------------------------------------------
(* The peripheral.                                                         *)

\* The access of the driver that this clock takes; ack lasts one clock.
Taken(at) == cyc = 1 /\ regs.ack = 0 /\ drv.at = at

Tick == spi.div = regs.clk_div - 1
LastSample == spi.state = "TRANSFER" /\ Tick /\ spi.sck = 0 /\ spi.bit = 0

\* A write of the data register starts a transfer.
SpiIdle ==
  /\ spi.state = "IDLE"
  /\ spi' = [spi EXCEPT !.sck = 0, !.bit = Bits - 1, !.div = 0,
                        !.busy = IF Taken("put") THEN 1 ELSE @,
                        !.state = IF Taken("put") THEN "TRANSFER" ELSE @]

\* Mutant: the divider counts on when it is due.
SpiDivideOn ==
  /\ spi.state = "TRANSFER"
  /\ spi' = [spi EXCEPT !.div = @ + 1]

SpiDivide ==
  /\ spi.state = "TRANSFER" /\ ~Tick
  /\ spi' = [spi EXCEPT !.div = @ + 1]

\* Rising edge of sck: sample miso.
SpiRise ==
  /\ spi.state = "TRANSFER" /\ Tick /\ spi.sck = 0
  /\ spi' = [spi EXCEPT !.div = 0, !.sck = 1,
       !.rx = IF spi.bit > 0 THEN Mixed
              ELSE IF regs.cs = 0 /\ card.queue # <<>> THEN Head(card.queue) ELSE Idle]

\* Falling edge of sck: next bit.
SpiFall ==
  /\ spi.state = "TRANSFER" /\ Tick /\ spi.sck = 1
  /\ spi' = [spi EXCEPT !.div = 0, !.sck = 0,
                        !.state = IF spi.bit = 0 THEN "DONE" ELSE @,
                        !.bit = IF @ = 0 THEN 0 ELSE @ - 1]

SpiDone ==
  /\ spi.state = "DONE"
  /\ spi' = [spi EXCEPT !.sck = 0, !.busy = 0, !.state = "IDLE"]

\* The divider 0 is replaced by 1.
Divider(d) == IF d = 0 THEN 1 ELSE d

\* What a control write carries: chip select and divider.
Written ==
  CASE drv.at = "slow" -> [cs |-> 1, div |-> SlowDiv]
    [] drv.at = "fast" -> [cs |-> 1, div |-> FastDiv]
    [] OTHER -> [cs |-> drv.ctrl.cs, div |-> drv.ctrl.div]

\* The Wishbone process: one access, then a clock of ack.
Wishbone ==
  IF cyc = 1 /\ regs.ack = 0
  THEN CASE drv.at = "put" ->
              regs' = [regs EXCEPT !.ack = 1, !.tx = Head(drv.send)]
         [] drv.at \in {"slow", "fast", "setcs"} ->
              regs' = [regs EXCEPT !.ack = 1, !.cs = Written.cs,
                                   !.clk_div = Divider(Written.div)]
         [] drv.at = "get" ->
              regs' = [regs EXCEPT !.ack = 1, !.rdt.data = spi.rx]
         [] drv.at \in {"status", "readcs"} ->
              regs' = [regs EXCEPT !.ack = 1,
                !.rdt.ctrl = [cs |-> regs.cs, busy |-> spi.busy, div |-> regs.clk_div]]
  ELSE regs' = [regs EXCEPT !.ack = 0]

Spi == SpiIdle \/ SpiDivide \/ SpiRise \/ SpiFall \/ SpiDone

-----------------------------------------------------------------------------
(* The card.  It takes the six bytes of a command, answers after at most   *)
(* NcrMax bytes, and forgets what it was doing when it is deselected.      *)

Idles(n) == [k \in 1 .. n |-> Idle]
Argument(got) == ((got[2] * 256 + got[3]) * 256 + got[4]) * 256 + got[5]
R1 == IF card.ready THEN 0 ELSE 1

\* A block between its token and its check sum.
Framed(a) == <<DataToken>> \o Content[a] \o <<170, 85>>

\* A block, after a delay; or none at all.
Blocks(a) ==
  IF a \in DOMAIN Content
  THEN {<<>>} \cup {Idles(n) \o Framed(a) : n \in 0 .. TokenMax}
  ELSE {<<>>}

\* An answer, the state of the card after it, and whether the next command
\* is an application command.
Reply(out, ready, app) == [out |-> out, ready |-> ready, app |-> app]
Illegal == Reply(<<5>>, card.ready, FALSE)

\* What the card may do on a command.
Answers(got) ==
  LET cmd == got[1]
  IN CASE cmd = CMD0 -> {Reply(<<1>>, FALSE, FALSE)}
       [] cmd = CMD8 -> {IF card.kind = "v1" THEN Illegal
                         ELSE Reply(<<R1, 0, 0, 1, 170>>, card.ready, FALSE)}
       [] cmd = CMD55 -> {Reply(<<R1>>, card.ready, TRUE)}
       [] cmd = ACMD41 /\ card.app ->
            {Reply(<<R1>>, card.ready, FALSE), Reply(<<0>>, TRUE, FALSE)}
       [] cmd = CMD17 /\ card.ready ->
            {Reply(<<0>> \o b, TRUE, FALSE) : b \in Blocks(Argument(got))} \cup {Illegal}
       [] OTHER -> {Illegal}

\* The card exchanges a byte.
Exchange(tx) ==
  IF card.queue # <<>>
  THEN card' = [card EXCEPT !.queue = Tail(@)]
  ELSE IF card.got = <<>> /\ tx \notin {CMD0, CMD8, CMD17, CMD55, ACMD41}
  THEN card' = card
  ELSE IF Len(card.got) < 5
  THEN card' = [card EXCEPT !.got = Append(@, tx)]
  ELSE \E r \in Answers(card.got), n \in 0 .. NcrMax :
         card' = [card EXCEPT !.got = <<>>, !.queue = Idles(n) \o r.out,
                              !.ready = r.ready, !.app = r.app]

Card ==
  IF regs'.cs = 1
  THEN card' = [card EXCEPT !.got = <<>>, !.queue = <<>>]
  ELSE IF LastSample /\ card.kind # "absent" THEN Exchange(regs.tx)
  ELSE UNCHANGED card

-----------------------------------------------------------------------------
(* The driver.  d.at is the register access to make next, d.send the bytes *)
(* of the Transfer calls in a row of which only the last answer is used,   *)
(* and d.pc what comes after them.                                         *)

Transfers(d, bytes, pc) == [d EXCEPT !.at = "put", !.send = bytes, !.pc = pc]

\* Byte k of a 32-bit argument, from the least significant one.
ByteOf(arg, k) == (arg \div <<1, 256, 65536, 16777216>>[k + 1]) % 256

CommandFrame(cmd, arg, crc) ==
  <<Idle, cmd, ByteOf(arg, 3), ByteOf(arg, 2), ByteOf(arg, 1), ByteOf(arg, 0), crc>>

SendCommand(d, cmd, arg, crc) ==
  Transfers([d EXCEPT !.cmd = cmd, !.polls = 0], CommandFrame(cmd, arg, crc), "sent")

Select(d, pc) == [d EXCEPT !.at = "readcs", !.pc = pc]
Deselect(d, ret) == [d EXCEPT !.at = "readcs", !.pc = "off", !.ret = ret]

\* Mutant: Init leaves the divider as it finds it.
CallInitKeepsClock ==
  /\ drv.call = "none"
  /\ drv' = Transfers([drv EXCEPT !.call = "Init", !.inited = FALSE], Idles(Dummies), "dummies")

\* The user calls Init, or reads once Init has succeeded.
CallInit ==
  /\ drv.call = "none"
  /\ drv' = [drv EXCEPT !.call = "Init", !.at = "slow", !.inited = FALSE]

CallReadBlock ==
  /\ drv.call = "none" /\ drv.inited
  /\ \E a \in DOMAIN Content :
       drv' = Select([drv EXCEPT !.call = "ReadBlock", !.addr = a, !.buffer = <<>>], "cmd17")

\* Without a buffer ReadBlock returns at once.
CallWithoutBuffer ==
  /\ drv.call = "none" /\ drv.inited
  /\ drv' = [drv EXCEPT !.ret = -1, !.buffer = <<>>]

User == cyc = 0 /\ (CallInit \/ CallReadBlock \/ CallWithoutBuffer) /\ UNCHANGED cyc

Think == cyc = 0 /\ UNCHANGED <<cyc, drv>>
Issue == cyc = 0 /\ drv.at # "none" /\ cyc' = 1 /\ UNCHANGED drv
Wait  == cyc = 1 /\ regs.ack = 0 /\ UNCHANGED <<cyc, drv>>

Return(d) == [d EXCEPT !.call = "none", !.at = "none", !.pc = "none", !.send = <<>>,
                       !.inited = @ \/ (d.call = "Init" /\ d.ret = 0)]

(* Transfer: write the byte, read the status while busy, read the answer.  *)
\* Mutant: the answer is read at once, the status is not.
PutUnpolled == drv.at = "put" /\ drv' = [drv EXCEPT !.at = "get"]

Put == drv.at = "put" /\ drv' = [drv EXCEPT !.at = "status"]

Status ==
  /\ drv.at = "status"
  /\ drv' = [drv EXCEPT !.at = IF regs.rdt.ctrl.busy = 1 THEN "status" ELSE "get"]

GetMore ==
  /\ drv.at = "get" /\ Len(drv.send) > 1
  /\ drv' = [drv EXCEPT !.at = "put", !.send = Tail(@)]

\* The answer to the last of a row of transfers is there.
Got(pc) == drv.at = "get" /\ Len(drv.send) = 1 /\ drv.pc = pc

(* Select and Deselect read the control register and write it back.        *)
ReadCs ==
  /\ drv.at = "readcs"
  /\ drv' = [drv EXCEPT !.at = "setcs",
                        !.ctrl = [regs.rdt.ctrl EXCEPT !.cs = IF drv.pc = "off" THEN 1 ELSE 0]]

SetCs ==
  /\ drv.at = "setcs"
  /\ drv' = CASE drv.pc = "off"   -> Transfers(drv, <<Idle>>, "off")
              [] drv.pc = "cmd0"  -> SendCommand(drv, CMD0, 0, 149)
              [] drv.pc = "cmd17" -> SendCommand(drv, CMD17, drv.addr, Idle)

(* SendCommand: after the command, poll for an answer.                     *)
Sent == Got("sent") /\ drv' = Transfers(drv, <<Idle>>, "poll")

\* ACMD41 is preceded by CMD55, whose answer is not looked at.
NextTry(d) ==
  IF d.retries = 0 THEN Deselect(d, -2) ELSE SendCommand(d, CMD55, 0, Idle)

\* What each caller of SendCommand does with its result.
AfterCmd0(d, res) ==
  IF res # 1 THEN Deselect(d, -1) ELSE SendCommand(d, CMD8, 426, 135)

AfterCmd8(d, res) ==
  IF res = 1 THEN Transfers(d, Idles(4), "r7") ELSE NextTry([d EXCEPT !.retries = Retries])

\* Mutant: a card that is still idle is taken for ready.
AfterAcmd41Idle(d, res) ==
  IF res <= 1 THEN Deselect(d, 0) ELSE NextTry([d EXCEPT !.retries = @ - 1])

AfterAcmd41(d, res) ==
  IF res = 0 THEN Deselect(d, 0) ELSE NextTry([d EXCEPT !.retries = @ - 1])

\* Mutant: a refused read returns with the card selected.
AfterCmd17Selected(d, res) ==
  IF res # 0 THEN Return([d EXCEPT !.ret = -1])
  ELSE Transfers([d EXCEPT !.retries = Retries], <<Idle>>, "token")

AfterCmd17(d, res) ==
  IF res # 0 THEN Deselect(d, -1)
  ELSE Transfers([d EXCEPT !.retries = Retries], <<Idle>>, "token")

Returned(d, res) ==
  CASE d.cmd = CMD0   -> AfterCmd0(d, res)
    [] d.cmd = CMD8   -> AfterCmd8(d, res)
    [] d.cmd = CMD55  -> SendCommand(d, ACMD41, 1073741824, Idle)
    [] d.cmd = ACMD41 -> AfterAcmd41(d, res)
    [] d.cmd = CMD17  -> AfterCmd17(d, res)

Poll ==
  /\ Got("poll")
  /\ drv' = IF regs.rdt.data < 128 THEN Returned(drv, regs.rdt.data)
            ELSE IF drv.polls + 1 = Polls THEN Returned(drv, -1)
            ELSE Transfers([drv EXCEPT !.polls = @ + 1], <<Idle>>, "poll")

(* Init.                                                                   *)
SlowClock  == drv.at = "slow" /\ drv' = Transfers(drv, Idles(Dummies), "dummies")
DummyClocks == Got("dummies") /\ drv' = Select(drv, "cmd0")
Voltage == Got("r7") /\ drv' = NextTry([drv EXCEPT !.retries = Retries])

FastClock == drv.at = "fast" /\ drv' = Return(drv)

\* The clocks after Deselect; a successful Init then sets the fast clock.
Off ==
  /\ Got("off")
  /\ drv' = IF drv.call = "Init" /\ drv.ret = 0 THEN [drv EXCEPT !.at = "fast"] ELSE Return(drv)

(* ReadBlock.                                                              *)
\* Mutant: a byte after the token is taken for a gap.
TokenSkips ==
  /\ Got("token")
  /\ drv' = IF regs.rdt.data = DataToken THEN Transfers(drv, <<Idle, Idle>>, "data")
            ELSE IF drv.retries = 1 THEN Deselect([drv EXCEPT !.retries = 0], -2)
            ELSE Transfers([drv EXCEPT !.retries = @ - 1], <<Idle>>, "token")

\* Mutant: the tries are not counted.
TokenForever ==
  /\ Got("token")
  /\ drv' = IF regs.rdt.data = DataToken THEN Transfers(drv, <<Idle>>, "data")
            ELSE Transfers(drv, <<Idle>>, "token")

Token ==
  /\ Got("token")
  /\ drv' = IF regs.rdt.data = DataToken THEN Transfers(drv, <<Idle>>, "data")
            ELSE IF drv.retries = 1 THEN Deselect([drv EXCEPT !.retries = 0], -2)
            ELSE Transfers([drv EXCEPT !.retries = @ - 1], <<Idle>>, "token")

Data ==
  /\ Got("data")
  /\ LET d == [drv EXCEPT !.buffer = Append(@, regs.rdt.data)]
     IN drv' = IF Len(d.buffer) = BlockLen THEN Transfers(d, <<Idle, Idle>>, "crc")
               ELSE Transfers(d, <<Idle>>, "data")

Crc == Got("crc") /\ drv' = Deselect(drv, 0)

Driver == Put \/ Status \/ GetMore \/ ReadCs \/ SetCs \/ Sent \/ Poll \/ SlowClock
            \/ DummyClocks \/ Voltage \/ FastClock \/ Off \/ Token \/ Data \/ Crc

\* The processor sees ack, ends the access and goes on.
Complete == cyc = 1 /\ regs.ack = 1 /\ cyc' = 0 /\ Driver

-----------------------------------------------------------------------------
Init ==
  /\ spi = [state |-> "IDLE", bit |-> Bits - 1, div |-> 0, sck |-> 0, busy |-> 0, rx |-> 0]
  /\ regs = [cs |-> 1, clk_div |-> 1, tx |-> 0, ack |-> 0,
             rdt |-> [data |-> 0, ctrl |-> [cs |-> 0, busy |-> 0, div |-> 0]]]
  /\ cyc = 0
  /\ drv = [call |-> "none", at |-> "none", pc |-> "none", send |-> <<>>, cmd |-> 0,
            polls |-> 0, retries |-> 0, addr |-> 0, buffer |-> <<>>, ret |-> 0,
            ctrl |-> [cs |-> 0, busy |-> 0, div |-> 0], inited |-> FALSE]
  /\ \E kind \in {"v1", "v2", "absent"} :
       card = [kind |-> kind, ready |-> FALSE, app |-> FALSE, got |-> <<>>, queue |-> <<>>]

Hardware == Spi /\ Wishbone /\ Card
Next == Hardware /\ (User \/ Think \/ Issue \/ Wait \/ Complete)
Spec == Init /\ [][Next]_vars
\* The clock runs, and the processor makes its next access some time.
FairSpec == Spec /\ WF_vars(Next) /\ WF_vars(Hardware /\ Issue)

-----------------------------------------------------------------------------
(* Properties.                                                             *)

Commands == {CMD0, CMD8, CMD17, CMD55, ACMD41}
Controls == [cs : {0, 1}, busy : {0, 1}, div : {0, 1, SlowDiv, FastDiv}]

BitIndex == 0 .. Bits - 1

SpiType ==
  [state : {"IDLE", "TRANSFER", "DONE"}, bit : BitIndex, div : Nat,
   sck : {0, 1}, busy : {0, 1}, rx : Bytes \cup {Mixed}]

ReadType == [data : Bytes \cup {Mixed}, ctrl : Controls]

RegsType ==
  [cs : {0, 1}, clk_div : {1, SlowDiv, FastDiv}, tx : Bytes, ack : {0, 1}, rdt : ReadType]

DrvType ==
  [call : {"none", "Init", "ReadBlock"},
   at : {"none", "put", "status", "get", "readcs", "setcs", "slow", "fast"},
   pc : {"none", "cmd0", "cmd17", "off", "sent", "poll", "dummies", "r7", "token", "data", "crc"},
   send : Seq(Bytes), cmd : {0} \cup Commands, polls : 0 .. Polls - 1, retries : 0 .. Retries,
   addr : {0} \cup DOMAIN Content, buffer : Seq(Bytes \cup {Mixed}),
   ret : {0, -1, -2}, ctrl : Controls, inited : BOOLEAN]

CardType ==
  [kind : {"v1", "v2", "absent"}, ready : BOOLEAN, app : BOOLEAN,
   got : Seq(Bytes), queue : Seq(Bytes)]

\* Every register and local has its range; the clock counter stays below the
\* divider, which it is compared with for equality only, and the buffer is
\* never overrun.
TypeOK ==
  /\ spi \in SpiType /\ regs \in RegsType /\ cyc \in {0, 1}
  /\ drv \in DrvType /\ card \in CardType
  /\ spi.state = "TRANSFER" => spi.div < regs.clk_div
  /\ Len(drv.buffer) <= BlockLen

\* lib/sdcard.h:39-45: when ReadBlock returns 0, the buffer is the block at
\* the address, whatever delays the card takes and whatever its bytes are.
ReadReturnsBlock ==
  drv.call = "ReadBlock" /\ drv.pc = "off" /\ drv.ret = 0 => drv.buffer = Content[drv.addr]

\* sdcard_wblite.vhdl:166: nothing guards the data, select and divider
\* registers while a byte is shifted; the driver's wait for busy does.
ShiftUndisturbed ==
  [][spi.state = "TRANSFER" =>
       regs'.tx = regs.tx /\ regs'.cs = regs.cs /\ regs'.clk_div = regs.clk_div]_vars

\* lib/sdcard.h:117-163: only a card that has left the idle state sees the
\* fast clock, also after an Init that failed and in one that is repeated, and
\* Init succeeds with no other: not with one that is missing or that refuses.
FastOnlyWhenReady ==
  /\ ~card.ready /\ spi.state = "TRANSFER" => regs.clk_div = SlowDiv
  /\ drv.inited => card.ready

\* lib/sdcard.h:87: on every way out of Init and ReadBlock the card is
\* deselected, so that a late answer cannot meet the next command.
DeselectedBetweenCalls == drv.call = "none" => regs.cs = 1 /\ card.queue = <<>>

\* Every call returns, also without a card and if no block ever comes.
CallReturns == (drv.call # "none") ~> (drv.call = "none")
=============================================================================
