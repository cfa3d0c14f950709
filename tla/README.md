# Formal models of cocoapuffs-fpga

TLA+ models of the logic this repository adds to the cores it vendors: the
VHDL that carries memory accesses from the processors to the DDR3 across
clock domains, bus widths and protocols, the recorder that watches them, and
the firmware in C++ with the peripherals it drives: the loaders that receive a program over
the UART, the interrupt path, and the SD card.
Model checking (TLC) explores small instances; proofs (TLAPS) cover every value
of the constants where the theorem says so. Paths are relative to the root of the repository.

Contents: [the system](#the-system) - [modules](#modules-and-how-they-correspond-to-the-code) -
[runs](#runs) - [bounds](#bounds-and-why-they-are-enough) - [fairness](#fairness) -
[proofs](#proofs) - [disagreements found](#where-code-and-documentation-disagree) -
[not modelled](#what-is-not-modelled-and-why) - [plan](#plan)

## The system

The largest board, `boards/noelv`, has two processors. SERV, a bit-serial
RISC-V, boots from block RAM, receives a program over the UART and stores it in
DDR3; it then releases NOEL-V, a 64-bit core of GRLIB, which runs the program
from the same DDR3. `boards/muntjac` puts the muntjac core (TileLink) in the place of
NOEL-V; `boards/rv32_*` have SERV alone.

```
 NOEL-V --AHB--> ahb2wb_bridge --WB--\                      clk50 | clk100
   |  \--ahb_recorder--uart_tx--      wb_mux(ram_mux)--> wide_wb_ddr3 --> UberDDR3
   |                                 /
 SERV --ibus,dbus--> wb_mux --WB--> cyc_demux/rdt_mux --> uart, timer, pic, percontrol, sdcard, bram

 muntjac --TileLink--> tl_c2wblite --WB--> wb_cdc --WB--> memory and UART   (clk50 | clk100)
```

| Part | State | Operations | What makes it correct |
|---|---|---|---|
| `ip/bridges/ahb2wb_bridge.vhdl` | two state machines on two clocks, command and data registers, two three-stage synchronizers | accept a transfer, collect write data, request, serve, acknowledge, clean up, reset | each transfer takes effect once, with its own address and data, and is answered; unsynchronized data is stable when sampled |
| `ip/wb/wb_mux.vhdl` | IDLE/TX, sampled and active port | grant, look at the next port, transfer | answers reach the host that asked; nobody waits for ever |
| `ip/a200t/wide_wb_ddr3.vhdl` | buffered request, word index, state | latch, wait for ack without stall, answer | a word access touches its bytes only; repeated and late answers of the pipelined controller change nothing |
| shared DDR3 path (`boards/noelv`, `ip/a200t/ram.vhdl`) | the two above and the controller | one clock edge of everything | all hosts see one memory |
| `ip/debug/ahb_recorder.vhdl` | circular buffer, pointers, REC/FETCH/EMIT | capture, snapshot, stream, resume, reset | a dump is the window, complete and oldest first, and it ends |
| `ip/tl/tl_c2wblite.ent.vhdl`, `tl_uh2wblite.ent.vhdl` | saved request, burst counter, address, six states, ALU | take beats, read, modify, write, respond | every beat is answered once, with the right word; atomics store what they mean |
| `ip/general/wb_cdc.vhdl` | two state machines, two synchronizers | the four phases on both sides, asynchronous reset | a request crosses once; nothing is copied while it changes |
| memory path of `boards/muntjac` | the two above | clk50 and clk100 edges | the core's loads and stores are those of one memory |
| `ip/wb/mmreg_decoder`, `percontrol`, `perinput`, `bram` | one-deep request register, ack pulse | latch, answer | one effect for each request |
| `ip/wb/pic`, `timer`; `lib/pic`, `lib/timer`, `lib/uart.cc`, `bin/pic_test` | mask, pending bits, counter, the access in progress | latch an interrupt, clear, count, handle | no interrupt lost, but for the cases that can be named |
| `ip/wb_uart`; `lib/uart/uart` | two FIFOs, software ring | send, receive, poll | no byte lost, reordered or repeated |
| `bin/noelv_serv_upload`, `rv32_ddr3exec`, `rv32_ddr3`, `muntjac`; `lib/ihex` | line, decoder state, control register | receive under XON/XOFF, store, hand over or jump | the program runs only once the file has been read to its end; the hand-off cuts no byte |
| `lib/memtest` | a memory | fill, compare | names the first faulty cell |
| `ip/tl/tl2wb`, `ip/wb/wb2axi_simple` | request and handshake flags | one access at a time | one access for each request |
| `ip/wb/sdcard_wblite`, `lib/sdcard.h` | shift register, divider, busy | transfer a byte, commands | a byte is not disturbed while it is shifted; a read returns the block; a slow card is driven slowly |
| `ip/debug/debouncer`, `uart_tx` | synchronizer, counters | filter, serialize | one clean edge for each press; bytes are framed |
| `third_party/xilinx/prog_daemon` | run file | reuse, restart, kill | at most one daemon |

Interaction is by shared signals. On one clock, everything steps on the same
edge from the values before it. Between clocks there are only the two
four-phase handshakes. Firmware and peripherals interact by single register accesses, some of which do two things
(a read of the UART returns the status and removes a byte), and by interrupts. What is hard here: edges of independent clocks in any
order, pipelined AHB phases, resets in the middle of a handshake, registered
signals that are seen a clock late, acks that come as pulses or stay, a
controller that answers more often than it was asked, arbitration whose
fairness depends on what the hosts do, interrupts that come between a read and the write that follows it, buffers without
a test for full, and a host computer that goes on sending after it was told to stop. `PROJECT.json` lists each such hazard at
its line, with the properties that would catch it going wrong.

## Modules and how they correspond to the code

Registers keep the names they have in the VHDL. A signal is 0 or 1; an action is one
rising edge, whose unprimed variables are the values before the edge (as
`rising_edge` processes read them) and whose guards are the branches of the process.
Combinational outputs are operators.

**`Ahb2WbBridge`** - `p_ahb` and `p_wb` of the bridge. `AhbAccept`, `AhbIdle`,
`AhbDataPhase`, `AhbWaitAck`, `AhbCleanup` are the branches of the AHB state
machine, `WbIdle` .. `WbDone` those of the Wishbone one; each also shifts its
synchronizer. `NoelvReset` and `NoelvRelease` are the reset of the NOEL-V and its bus alone (key2, the control register), which the bridge does not see. The clocks interleave in any order, which covers any ratio of
frequencies and a synchronizer flip-flop that settles either way. Environment: the AHB controller and
master (`BusEdge`: address phase, data phase, other slaves) and a Wishbone slave (`PerAccess`).
A word has four byte lanes, so that the strobes are real. **`AhbMemory`** is what
the bridge promises: each transfer is accepted, takes effect once on the bytes it covers,
and is returned; a store that a reset of the NOEL-V has left in the bridge (`left`) may still change its own bytes, once, before the next transfer. `ServesEachBeatOnce` states the refinement; the transfer's position
(pending, done, returned) is read off the registers, without history variables.

**`WbMux`** - the multiplexer with any number of ports. `GrantPort`, `SamplePort`,
`TransferPort` are the branches of the process; `Grant`, `SampleNext`, `Transfer` are the edge
as hosts and peripheral take it too. The count `bypass` is history.

**`WideWbDdr3`** - the adapter (`Latch`, `Idle`, `Write1`, `Read1`, `Wait1`) with the
DDR3 controller as its environment: it may serve the access on its bus again
while `stb` is high, and may acknowledge in a cycle that also stalls. **`MemoryPath`** composes it with the multiplexer: the
adapter takes the place of the abstract peripheral of `WbMux`. It is shown to be one (`AdapterIsPeripheral`), and the
whole to implement **`SharedMemory`**, one memory of words for all hosts.

**`AhbRecorder`** - `Record`, `Fetch`, `Emit`, `Reset` are the branches of the process. A record
is the number of its transfer, a line the number of its characters. `count`, `base`, `out` and `raced` are history.

**`TlC2WbLite`** - one action per state of the adapter. Words are two lanes of one bit, which is enough to tell
signed from unsigned and lane from lane. Environment: a master that holds each beat until it is taken (as `testing/tl_c_master.ent.vhdl`
does), and a slave that acknowledges with a pulse. `gold` and `owed` are history: the memory and the responses
that the accepted beats ask for, written from the meaning of the operations and not from the code. A beat of a burst of puts goes to the address that it carries, which
the test master advances from beat to beat; TileLink keeps it constant in a burst, and a master that does so is outside of the model.

**`WbCdc`** - both processes of the crossing; a synchronizer is the sequence of its flip-flops. It implements `SharedMemory` for one host.

**`MuntjacPath`** - `TlC2WbLite` and `WbCdc` composed at the clocks of the board, of which the slower
has every second edge of the faster.

**`SdCard`** - `lib/sdcard.h` on `sdcard_wblite.vhdl`. A step is a clock edge of the SPI process (`SpiIdle` .. `SpiDone`), the
Wishbone process (`Wishbone`) and the processor (`Issue`, `Wait`, `Complete`, or any number of clocks of `Think`). The driver
is one action per register access and what it decides with the answer: `Put`, `Status`, `GetMore` are `Transfer`, `Sent` and `Poll`
are `SendCommand`, and the callers follow. `drv.pc` names the continuation in place of a call stack. Environment: a conforming card (`Exchange`)
that answers late, refuses, sends a block late or never, or is missing.

**`SerialLoader`** - the four loaders on `lib/ihex`, `lib/uart/uart.cc` and the FIFOs of the UART. They share the loop that
reads, decodes and stores a line; what differs is a record (`Noelv`, `Exec`, `Ddr3`, `Muntjac`). The firmware steps from access to access (`CanWrite`, `Write`, `GetAsync`,
`Decode`, `Drain`, `HandOff`, `RecDump`, `Jump`); `SlotSend` and `SlotQuiet` are the time of a byte on the line. A byte is its line and its place
in it, so that a lost, doubled or moved byte is seen. Environment: a host that heeds XON and XOFF a few bytes late, and noise, which may change one byte of a file: a colon, a digit or a newline.
`Fates` is what the vendored decoder `kk_ihex` makes of the record that was hit: read it all the same, report a checksum error, skip it without a word, or wait for the rest of it in the next line;
`record` is what has become of each record.

**`InterruptPath`** - timer, UART pulses, PIC and register decoder clock by clock (`TimerClock`, `UartClock`, `PicClock`, `Decoder`), under
the accesses of `pic_test`: setting up (`PicCtor` .. `SetMask`), the printing loop (`ReadCounter`, `Poll`, `Put`) and the handler
with the drivers it calls (`Enter`, `Bang` .. `ClearIrq`). `ghost` is history: an expiry that has not been served (`owed`), pulses that came since
the handler read the register (`late`), those of them that it then cleared (`missed`), bytes that came before `SetMask` (`early`) and bytes that `lib::Uart` left in the FIFO as its buffer ran over (`left`).

**`Memtest`** - the memory tests as functions of a memory with stuck cells and aliased addresses.

`*Proofs` modules hold the theorems, `MC*` modules the constants of the runs. Definitions headed "Mutant:" are wrong variants of the
definition that follows them. Each breaks one property, and documents what that property protects against.

## Runs

`tlc -config X.cfg M` in this directory. The passing runs:

| Run | Shows |
|---|---|
| `bridge` (`MCAhb2WbBridge`) | no interleaving of the two clocks, of the AHB pipeline, of board resets and of resets of the NOEL-V alone breaks the handshake or tears data; the bridge implements `AhbMemory`; no transfer hangs. Other slaves answer without wait states |
| `mux` (`MCWbMux`) | answers reach their host; while a host waits the bus is given to the others fewer times, in all, than there are ports; and the host is served |
| `memory_path` (`MCMemoryPath`) | two hosts on the multiplexer, the adapter and the controller see one memory; nobody starves |
| `recorder` (`MCAhbRecorder`) | dumps are complete and oldest first if no transfer comes on their first edge; in any case they repeat nothing, contain no stale record, and end |
| `tl` (`MCTlC2WbLite`) | bursts, byte masks, atomics and both Acquires: each beat answered once with the right word; every request is answered. The master keeps `d_ready` high, and asks for permissions of words only (`PermissionsOfWords`). An assumption compares the ALU with the meaning of all nine atomics on all words |
| `cdc` (`MCWbCdc`) | for any ratio of the clocks and any reset, each request crosses once and is answered |
| `sdcard` (`MCSdCard`) | whatever the card does and however slow the processor: a read that succeeds returns the block, no byte is disturbed, the clock is slow until the card is ready, the card is deselected between calls, and calls return |
| `upload` (`MCSerialLoader`) | no byte is lost between the line and the line buffer; the program is started only when the end of the file has been read, and every record before it as it was sent, but for one that noise made the decoder skip without a word; on the noelv board the last text has then left the UART; every load ends in a start or an error, unless noise has hidden the end of the file. An assumption compares the memory tests with what they promise |
| `irq` (`MCInterruptPath`) | for any alignment of edges and accesses, an expiry is on its way to its driver until served, and a byte in the FIFO until it is taken (by its driver, or by a poll of the printing driver), but for pulses that the handler clears unread, which the timer of `pic_test` is never among, bytes that came before `SetMask`, and bytes left when the buffer of `lib::Uart` runs over. `pic_test`'s byte of output is dropped only where the handler came between poll and write; its timer is served for ever |

The other runs exhibit a disagreement, and TLC stops at a counterexample:
`bridge_stall`, `recorder_race`, `muntjac_path_burst` (see below).

Deadlock is checked in every run: these machines always have a next edge.

### Bounds and why they are enough

* `bridge`: two words, two byte values, three transfers: a byte store at an odd offset, a half-word store to the other word,
  a load (`StrobesCover` proves all sizes and offsets). A transfer occupies the bridge alone; what can go wrong is between two successive ones, and any two of these may follow each other,
  to the same word or to different ones. `hwdata` that is not for the bridge is one of two words (`StrayWords`). No counter is bounded.
  A reset of the NOEL-V lasts until the bridge is idle (`NoelvRelease`): the debouncer of key2 holds it for 2^20 clocks at least.
* `mux`: three ports, so that the index has a wrap that is not a power of two and a host can be passed over by two others; two requests.
* `memory_path`: two hosts; two bursts that differ above bit 0, so that a lost upper bit is seen; a byte store, a word store, a load of word 1.
* `recorder`: a depth of 3 and `MaxTransfers` = 8 transfers: the buffer wraps twice, or wraps,
  is reset and wraps again. A line has two characters. The real depth is a power of two; nothing in the model uses it, and the proofs are for any depth from 2.
* `tl`: two words, so that a burst of two covers the memory and its address wraps; eight transactions, at least one for each path through the state machine.
  `AdrCount` is the size of the memory, `Burst` the largest counter.
* `cdc`: two words, a store of one byte, a store of a word, two loads.
* `sdcard`: bytes are shifted in two bits (first and last), with a slow divider of 2 and a fast one of 1; all counts are 2, so that
  each loop is entered, repeated and exhausted. Two blocks whose addresses differ in two bytes, with contents that look like
  no answer, like the token and like an answer. A card must answer within the polls of `SendCommand` (`NcrMax < Polls`, 8 and 10 in fact) but may send a block later than the driver waits for it.
* `upload`: three files; noise on any one byte, so that at most one record, or two that a lost newline has joined, is affected. Two accidents are left out: that the changed byte becomes a newline, and that a record which is read otherwise than it was sent has the right checksum. A FIFO of 4, a ring of 5, a line buffer of 13
  bytes, which two lines of one file still fit when noise has joined them, those of another miss by a byte, and a line of the third fills. `Overshoot` = 2 bytes after XOFF and `StepsPerSlot` = 2 accesses
  in a byte time are assumptions on the host and the processor. They are the named `FlowAssumption`: FIFO and ring can hold the `Backlog` of a line, which is 3 bytes while XOFF is written, shifted out and seen, and
  the overshoot less one after it; and every line but the last has 2 `Backlog` - 2 bytes at least, so that a loader that takes two bytes for each that comes has caught up before the next XOFF. The real FIFO has 8 bytes,
  which allows an overshoot of 6 and asks for lines of 14 bytes, as long as a record with one byte of data. The model was run beyond the assumption as well: with FIFO depths 4 and 8 a byte is lost when the overshoot is the depth less 1;
  a ring of 3, or a firmware that makes one access in a byte time, loses bytes in spite of XOFF; shorter lines, on the other hand, lost none. A host that sends more than 6 bytes after XOFF, as
  one behind a buffering USB adapter may, is outside of what is shown.
* `irq`: a counter of 6 bits that wraps within the run, a reload of 45 clocks, a byte each 5 clocks, FIFOs and buffer of 2, up to one clock between accesses. The reload must
  exceed the duration of the handler, as 100000 clocks do; with a shorter one the main program would not run.

### Fairness

* Clock edges (`WF` on the edge of each clock): clocks run. It is never asked of a particular branch.
* A slave that has a request on its bus answers it (`PerAccess`, `Serve`, `SlaveServes`, `busy` to `ack`): the peripherals
  of this repository answer in a fixed number of clocks; the DDR3 controller after refresh and calibration. For
  `memory_path` the ack must at some time come without a stall, since the adapter ignores the others.
* A TileLink master with a beat to send sends it. The recorder's serializer takes each byte: `uart_tx` is ready ten bit times after the last.

* `sdcard`: the clock, and a processor that in the end makes its next access. `upload`: the firmware runs, time passes, and a host that may send again and again
  does (strong fairness, as XOFF may stop it in between). `irq`: the clock alone.

Nothing is assumed of when hosts ask, when resets come, or of the order of the clocks. Liveness properties hold "unless a reset ends it": each says so
in its right-hand side.

## Proofs

`tlapm M.tla`. Each theorem is about `Spec` (no fairness) for all values of the constants that satisfy the named `ASSUME`s.

**`Ahb2WbBridgeProofs`**, from `BridgeAssumption` (transfers are aligned, and the
distinguished values distinct).
`TypeCorrect`. `HandshakeCorrect`: `HandshakeInv` says that request, its three flip-flops, ack and its three flip-flops
form a ring that holds at most one step, started by the request side only when the ring is level, with each state machine where the ring
says. It is needed because neither side can see the other's state; typing says nothing of the flip-flops between them. During a
reset it is replaced by `ResetInv` (a domain that has seen an edge is quiet), which makes the ring level when the reset is released.
`CrossingStable` (an action property) follows from it. `PairedCorrect` adds `CommandInv` (a busy bridge works on the transfer in the data phase, or on one that a reset of the NOEL-V has taken off the bus) and assumes
`OtherSlavesStall = FALSE`; without that it is false, as the run `bridge_stall` shows.
`StrobesCover` proves the strobes against the definition by covered bytes. `BridgeImplementsMemory` is the refinement: initial states map to initial
states, and each edge maps to a step of `AhbMemory` or to a stutter, by cases on the branch of the state machine (`RunningStep`, and `ResetStep` while the NOEL-V is in reset).

**`WbMuxProofs`**, from `MuxAssumption`, for any number of ports. `TypeCorrect`. `AnswersOwnHost` by
`OwnerInv` (with the bus given away its host waits, and the peripheral is busy only then). `RoundRobin`
by `BypassInv`: the bypass count of a waiting port plus the distance of the sampled index to it never exceeds the number of ports.
The second half of the module is about `MemoryPath`, an instance `Path` of which takes the multiplexer's registers and has the adapter and the controller in the place of its peripheral. Its theorems have `Parameters` as a hypothesis, which are the two
`ASSUME`s of `MemoryPath` (requests are typed, 0 is a burst address and a byte), and hold for any hosts, bursts and requests. `PathTypeCorrect` is `TypeOK` of the path. `PathIsPeripheral` is its `AdapterIsPeripheral`: each edge of the adapter is one of the peripheral that `WbMux`
was verified against, so that the theorems above hold of `ram_mux`. `PathIsMemory` is its `SharesOneMemory`, the refinement of `SharedMemory`. Both rest on `PathInv`. `WideBusInv`: the adapter works only for the port that has the bus, with that port's request on the wide bus, and what
the controller did for an earlier request is forgotten by the time the next port has the bus; without it a late ack could answer the next host. `ServedInv`: once the controller has served the request, the store is in memory (storing it again changes nothing) or the word
that the load found is still the one in memory; without it the repeated accesses under a held `stb` could not be told from new ones.

**`AhbRecorderProofs`**, from `RecorderAssumption`, for any depth and line length. `TypeCorrect` needs `EmitInv`
(the count of records is not zero while one is sent), or `dump_rem` could become negative. `OldestFirst` and `WholeWindow` by `RecorderInv`:
`WindowInv` says which transfer each slot holds, before and after the first wrap, and `StreamInv` that what is
streamed, the read pointer and what is left add up to the window. Both hold for dumps
with no transfer on their first edge (`raced = 0`); the run `recorder_race` shows why. `LinesOfWindow` holds for the others too: `RacedInv` says that such a dump
is the newest record followed by the window without its oldest one (a full window), or the window without its newest record (one that is not), so nothing is repeated and nothing stale comes.

**`WbCdcProofs`**, from `CdcAssumption` (0 is a byte, and the requests are typed), for any interleaving of the clocks. `TypeCorrect`.
`RingCorrect`: request, its synchronizer, acknowledge and its synchronizer are a ring in which one edge travels at a time (`RingInv`); with it `BusInv`: the buffer of a
request that is out is the host's request, and the peripheral's bus carries the buffer. `CrossingStable` is an action property from the two. `CrossingImplementsMemory` is the refinement of `SharedMemory`, by cases on the
edge: the access of the peripheral's memory is the one step that the abstract memory sees, and falls into the host's wait.

**`SdCardProofs`**, from `SdAssumption`: the parameters are positive, block addresses are `uint32_t`, a card answers within the polls of `SendCommand` (`NcrMax < Polls`,
the card's specification against a constant of the driver). `NothingDisturbsShift` by `ShiftInv`: a peripheral that is not idle meets a driver that polls `status`, or
the `put` that started it and is just being acknowledged. `DeselectedAtRest` adds `DriverInv`, which is the call stack of the driver (`Flow`: which continuation may run in which call, with which locals set), the
chip select (`Selects`) and the divider (`Clocks`), and `TakenInv`, which relates an access that the peripheral has taken to the locals of the driver.
`ReadsTheBlock` and `FastClockIsSafe` need what driver and card make of each other's bytes. `ByteInv`: the byte that is shifted is the driver's, and the byte it reads the one that came in.
`TalkInv`: for each continuation, how much of its queue the card has still to send, measured in bytes that the driver has still to read; it is stated with the parameter "the byte under way is exchanged or not",
so that the exchange itself and the later read of the byte are two small steps.

**`InterruptPathProofs`**, from `InterruptAssumption` (`pic_test` enables the timer, the reload fits the counter) and `FastHandler`: two accesses
of a register fit into the reload, and the handler fits into one round of the counter. Accesses take at most `MaxThink` + 3 clocks; with 100000 and 2^32 clocks that leaves room for
thousands, while an access takes some tens. `TypeCorrect` includes the ring buffer of `lib::Uart`. `WakeUpsKept`: `OwedInv` and `BytesInv` say where
an expiry or a byte that is not served is: in the pulse, in the register, in what the handler has read and not yet acted upon, or in one of the exceptions that the run names. That the timer of `pic_test`
is never cleared unread is `DeadlineInv`, a count of clocks: `Latency` and `Budget` bound the time to the reload, access by access and with the byte that the handler may have to wait for, by what the counter still has.
`HandlerDropsOnly` by `RoomInv`: room that a poll has seen stays until the write, but for the byte of the handler.

**`TlC2WbLiteProofs`**, from `BurstAssumption`, which is TileLink's side of the contract: the beats of a burst are of one kind and as many as its size says, and only stores and atomics send more than one.
For any memory and any transactions. `BurstInv`: the counter and the beats that the master has still to send agree (`Remaining`), without which
the adapter could take the first beat of the next request for one of this burst. `MemInv`: the memory is the meant one but for the store of the saved request (`Pending`), and the word that was read is the one
the ALU or the response needs. `StoresRight` follows: whatever the master does with `d_ready`, the memory of an adapter in IDLE is what the requests mean, with the ALU proved equal to the meaning of the nine operations (`AluIs`).
`OwedInv`: what is owed is exactly what the adapter will still give (`Later`, `Due`); in a read burst the address that is advanced and wrapped word by word is the wrapped sum (`WrapAround`). `EveryResponseRight` and `IdleIsDone` follow, with two
hypotheses of their own: the master keeps `d_ready` high (`ReadyAlways`), and AcquirePerm and Intent ask for a word at most (`PermissionsOfWords`). Without either both are false (see below); `TypeCorrect` and `StoresRight` need neither.

**`SerialLoaderProofs`**, from `LoaderAssumption` (a file is not empty and ends with its one end record, sizes are positive) and `FlowAssumption` (see the bounds of `upload`), for any file, any sizes and any decoding time.
`TypeCorrect`. `NoByteLost` and `StartsOnlyWhole` by one invariant, `Inv`. `CoreInv`: the line buffer and what waits in ring and FIFO are consecutive bytes of the file up to the one that the host sends next (`OrderOf`), and
every record before the current line was read as it was sent, or noise hit it (`Digested`). That is kept by each step as long as there is room in the FIFO and in the ring, which neither the UART nor the ring looks after; so most of the proof bounds what waits.
With XON and XOFF, `FlowInv` says that a loader which receives or decodes is in one of six situations (`Flow`): the host sends and the loader reads (`Running`), XOFF is to be written (`Ending`),
or on its way while the line is decoded (`Halting`), the request for the next line is on its way (`Waits`), reaches the host (`Sees`), or follows an XOFF that the host has not seen yet (`Overtakes`). Each bounds bytes in the
line, bytes that wait and bytes that the host may still send by `Backlog`; `Running` counts a byte that waits twice, as the loader takes two in the time of one, and is what needs the length of the lines.
Without flow control `PaceInv` says that a host which waits for the text after a line finds nothing waiting. `RoomInv` (room that a poll has seen is there for the write) keeps the output whole, and `HandOverInv` is the order of the hand-off:
the text has left FIFO and shift register before the line is given away and the program starts.

Only model-checked: liveness (`BeatCompletes`, `EveryHostServed`, `DumpEnds`, `AllAnswered`, `HostServed`, `CallReturns`, `LoadEnds`, `TimerServed`), which rests on fairness and
is beyond the prover. The loops of
`Memtest` are recursive functions: what they compute is compared for all memories of three words, and an induction over their length is beyond the prover.

## Where code and documentation disagree

1. **Bridge and wait states of other slaves** (`bridge_stall`). The bridge takes an address phase without looking at `hready` and
   captures `hwdata` on the next edge. If another slave stalls then, it stores that slave's data. The test bench drives the bridge alone on its bus.
2. **First edge of a dump** (`recorder_race`). A transfer accepted on the edge that starts the dump of a full window overwrites
   the oldest slot, with which the dump then starts: the newest record comes first, the oldest is lost.
3. **Adapter behind the crossing** (`muntjac_path_burst`). The crossing holds `ack` until its handshake is over; the adapter takes
   any `ack` it sees for its own. The next access is answered by the one before: a load returns old data and a store is dropped. Each of the two is
   right on its own (`tl`, `cdc`): the crossing expects a host that waits for `ack` to fall, the adapter a slave that pulses it.

Seen while modelling, at places where no document says otherwise, or that no run goes to:

* `tl_c2wblite.ent.vhdl:304`: `d.valid` rises a clock after `d_ready` is first tested, so that a master that lowers `d_ready` gets a beat
  twice, or never (`ReadyAlways = FALSE` shows it). The masters of this repository keep it high.
* `tl_c2wblite.ent.vhdl:318`: an AcquirePerm or Intent of a block is answered with one Grant but leaves the adapter waiting for the rest of a burst; the next request is then taken for a beat of it.
* `lib/pic.cc:102,117`: `ClearIrq` ignores its argument and writes 0, which clears interrupts that came after the register was read. With timer and UART both unmasked an expiry can be lost; under the mask
  of `pic_test` the next expiry is too far away.
* `lib/pic.cc:86`: the handler prints through the same driver as the program it interrupts. When it comes between the poll and the write
  of `Put` and fills the last slot, the byte of the program is dropped.
* `lib/memtest/memtest.cc`: `TestWithC` is true if every cell fails, not if none does; neither test finds two addresses of one cell, as every cell is given the same word.
* `noelv_serv_upload/main.cc:71`, `lib/ihex/ihex.cc:13`: the decoder calls back for no line without its colon, no unknown type and no data record of length 0, and no loader counts records. Noise on such a byte leaves a record out of the program
  that is started, or hides the end of the file, for which the loader then waits without a timeout.
* `lib/uart.cc:37`: `Read` does not advance `end_`, and would return the same byte for ever. No program calls it.
* `board.arch_rtl.vhdl:640`: a store whose address phase was taken when key2 resets the NOEL-V is still made, with what `hwdata` carries by then.
* `lib/uart/uart.cc:169`: a line of exactly the size of the buffer is refused although its newline was read.

## What is not modelled, and why

The components marked `not_modelled` in `PROJECT.json`, with the reason there. In short: vendored cores are external; test benches, tools and test programs
hold no state of the system; `cyc_demux`, `rdt_mux`, `uartmux` and `perinput` are stateless or copy their inputs; the debouncer and the
serializer of the recorder are seen as an input and as fairness. No board uses `ip/tl/tl2wb` and `ip/wb/wb2axi_simple`. `prog_daemon` belongs to the
build, and its state is in files and processes of the operating system. The block RAM (`ip/wb/bram.vhdl`) takes its byte enables a clock after address and data, which
is right for hosts that keep them up, as SERV does.

Inside the modelled parts: metastability is modelled as an edge that sees the old or the new value, never as a
torn single bit; unsynchronized vectors are instead required to be stable. TileLink channels B, C and E
are ports that nothing reads (a `Release` of a dirty block on C is answered by nobody, and its data is lost); source, size and sink of a response are copies. Text of the
recorder's lines, and the widths of addresses and of the cycle stamp, are abstracted.

In the firmware: the records of a file are taken to have distinct addresses, and text is told apart only as flow control, prompt and the rest. The bits of the UART's line are the
vendored UART's. `WaitForInterrupt`, `ReadIrq`, and `Read` and `ReadLine` of `lib/uart.cc` have no caller in the modelled programs. `lib/reg.cc` holds a mock for tests on a host. `bin/echo`
hands the line over without waiting for the FIFO to drain.

## Plan

Done, in this order: bridge (core, first proofs), multiplexer, recorder, DDR3 path, TileLink adapter, crossing and muntjac path, SD card, loaders and memory
tests, interrupt path.

Modules that could follow: `Tl2Wb` and `Wb2AxiSimple`, one access for each request, for masters that keep the request up;
the trigger of the recorder; `prog_daemon`.
