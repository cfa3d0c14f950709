---------------------------- MODULE SerialLoader ----------------------------
(***************************************************************************)
(* The loaders that receive a program as Intel HEX over the UART, write it *)
(* to memory and start it: bin/noelv_serv_upload, bin/rv32_ddr3exec,       *)
(* bin/rv32_ddr3 and bin/muntjac, with lib/ihex, the polling driver        *)
(* lib/uart/uart.cc and the FIFOs of ip/wb_uart.                           *)
(*                                                                         *)
(* A byte on its way in is <<line, position>>; of a byte on its way out    *)
(* only the flow control and the end of the prompt are told apart.  The    *)
(* firmware steps from one access of the UART to the next; a Slot is the   *)
(* time of one byte on the line, in each direction.  A firmware that polls *)
(* makes StepsPerSlot steps at least in a slot; one that decodes a line    *)
(* may take any time.                                                      *)
(*                                                                         *)
(* Noise may change one byte of a file, of any line and at any place: the  *)
(* colon, a digit or the newline.  Two accidents are left out: that the    *)
(* changed byte is a newline, and that a record which is read otherwise    *)
(* than it was sent has the right checksum.                                *)
(***************************************************************************)
EXTENDS Integers, Sequences

CONSTANTS
  Files,         \* files: sequences of [type, len], len counting the newline
  LineSize,      \* sizeof(buf) of main: 256
  RingSize,      \* sizeof(buf_) of UartBuf: 256
  FifoDepth,     \* bytes of each FIFO of the UART: 8
  DrainSlots,    \* slots that the 4000 turns of the drain loop last at least
  StepsPerSlot,
  Overshoot      \* bytes that the host sends after it has seen XOFF

ASSUME LoaderAssumption ==
  /\ {LineSize, RingSize, FifoDepth, StepsPerSlot} \subseteq Nat \ {0}
  /\ {DrainSlots, Overshoot} \subseteq Nat
  /\ \A f \in Files :
       /\ f # <<>> /\ f \in Seq([type : {"data", "other", "eof"}, len : Nat \ {0}])
       /\ \A n \in 1 .. Len(f) : (f[n].type = "eof") <=> (n = Len(f))

\* The most bytes that the host may send from the newline of a line on, until
\* XOFF stops it: while XOFF is written, shifted out and seen, and afterwards.
Backlog == 3 + (IF Overshoot = 0 THEN 0 ELSE Overshoot - 1)

\* XOFF comes in time if the buffers hold as many, and if the loader can make up
\* for them before the next newline: a record of Intel HEX with a byte of data
\* takes 14.  The processor polls twice in the time of a byte at least, and the
\* drain loop lasts for one.
ASSUME FlowAssumption ==
  /\ StepsPerSlot >= 2 /\ DrainSlots >= 1
  /\ Backlog <= FifoDepth /\ Backlog < RingSize
  /\ \A f \in Files : \A n \in 1 .. Len(f) - 1 : f[n].len >= 2 * Backlog - 2

XON == "xon"
XOFF == "xoff"
Prompt == "prompt"
Text == "text"
None == "none"

VARIABLES
  job,     \* which firmware runs, and the file to send
  host,    \* the byte to send next, flow control, and the byte that noise hit
  uart,    \* FIFO of received bytes, FIFO and shift register of bytes to send
  ring,    \* UartBuf
  fw,      \* the firmware: bytes to put, the line so far, and what comes next
  record,  \* line -> what the decoder has made of its record
  perctl   \* the bits of percontrol, and whether the program runs

vars == <<job, host, uart, ring, fw, record, perctl>>

-----------------------------------------------------------------------------
(* What main() of each firmware does around the loop that they share:      *)
(* what it prints before, whether it throttles the host, whether it looks  *)
(* at the checksum before it stores a record, what it prints after the end *)
(* of the file and what follows.                                           *)

Noelv   == [boot |-> <<Text, Prompt>>, flow |-> TRUE, callback |-> "lib",
            end |-> <<XON, Text>>, next |-> "drain"]
Exec    == [boot |-> <<Prompt>>, flow |-> TRUE, callback |-> "lib",
            end |-> <<XON, Text>>, next |-> "jump"]
Ddr3    == [boot |-> <<Text, Prompt, Text>>, flow |-> FALSE, callback |-> "own",
            end |-> <<Text, Text>>, next |-> "jump"]
Muntjac == [boot |-> <<Text, Text, Prompt, Text>>, flow |-> FALSE, callback |-> "own",
            end |-> <<Text, Text>>, next |-> "jump"]

Main == job.main
File == job.file
IsLast(b) == b[2] = File[b[1]].len
After(b) == IF IsLast(b) THEN <<b[1] + 1, 1>> ELSE <<b[1], b[2] + 1>>
Sent == host.next[1] > Len(File)      \* the host has sent the whole file

\* A newline ends a line, unless noise has hit it.
Ends(b) == IsLast(b) /\ b \notin host.damaged

\* The bytes received and not yet taken by the firmware, oldest first.
InRing == [k \in 1 .. (ring.wr - ring.rd) % RingSize |->
             ring.buf[(ring.rd + k - 1) % RingSize]]

-----------------------------------------------------------------------------
(* The line.                                                               *)

\* The UART hands the byte of its shift register to the line and takes the
\* next one from the FIFO.
Shift == [uart EXCEPT !.shift = IF uart.tx = <<>> THEN None ELSE Head(uart.tx),
                      !.tx = IF uart.tx = <<>> THEN <<>> ELSE Tail(uart.tx)]

\* A byte received is dropped if the FIFO is full.
Received(u, b) == IF Len(u.rx) < FifoDepth THEN [u EXCEPT !.rx = Append(@, b)] ELSE u

\* The host sees what the UART has sent, unless the line has been given away.
Seen ==
  CASE perctl.mux = 0 /\ uart.shift = XOFF ->
         [host EXCEPT !.paused = TRUE, !.credit = Overshoot]
    [] perctl.mux = 0 /\ uart.shift \in {XON, Prompt} ->
         [host EXCEPT !.paused = FALSE, !.credit = 0]
    [] OTHER -> host

\* Without flow control the user sends a line when the last one is digested.
Paced ==
  \/ Main.flow \/ host.next[2] > 1
  \/ fw.pc = "getline" /\ fw.out = <<>> /\ uart.rx = <<>> /\ InRing = <<>>

MaySend == ~Sent /\ Paced /\ (host.paused => host.credit > 0)

Loading == fw.pc \notin {"hung", "end"}

\* While it polls, the firmware keeps up with the line.
InTime == (fw.out # <<>> \/ fw.pc = "getline") => fw.steps = StepsPerSlot

Slotted == fw' = [fw EXCEPT !.steps = 0,
                            !.spun = IF fw.pc = "spin" /\ @ < DrainSlots THEN @ + 1 ELSE @]

SlotQuiet ==
  /\ InTime /\ Slotted
  /\ host' = Seen /\ uart' = Shift
  /\ UNCHANGED <<job, ring, record, perctl>>

\* Noise may hit any byte, once.
SlotSend ==
  /\ InTime /\ Slotted /\ MaySend
  /\ uart' = Received(Shift, host.next)
  /\ \E hit \in BOOLEAN :
       /\ hit => host.damaged = {}
       /\ host' = [Seen EXCEPT !.next = After(@),
                               !.credit = IF @ > 0 THEN @ - 1 ELSE 0,
                               !.damaged = IF hit THEN {host.next} ELSE @]
  /\ UNCHANGED <<job, ring, record, perctl>>

-----------------------------------------------------------------------------
(* The driver.  A read of the UART returns its status and removes a byte.  *)

Popped == [uart EXCEPT !.rx = IF @ = <<>> THEN @ ELSE Tail(@)]

Step(f) == [f EXCEPT !.steps = IF @ < StepsPerSlot THEN @ + 1 ELSE @]

\* Mutant: the write index is not wrapped.
SavedUnwrapped == IF uart.rx = <<>> THEN ring
                  ELSE [ring EXCEPT !.buf[ring.wr % RingSize] = Head(uart.rx), !.wr = @ + 1]

\* CanWrite: the byte that the poll removes is kept; there is no test for full.
Saved == IF uart.rx = <<>> THEN ring
         ELSE [ring EXCEPT !.buf[ring.wr] = Head(uart.rx),
                           !.wr = (@ + 1) % RingSize]

\* Put: poll until there is room ...
CanWrite ==
  /\ fw.out # <<>> /\ fw.room = FALSE
  /\ ring' = Saved /\ uart' = Popped
  /\ fw' = Step([fw EXCEPT !.room = Len(uart.tx) < FifoDepth])
  /\ UNCHANGED <<job, host, record, perctl>>

\* ... then write.
Write ==
  /\ fw.out # <<>> /\ fw.room = TRUE
  /\ uart' = [uart EXCEPT !.tx = IF Len(@) < FifoDepth THEN Append(@, Head(fw.out)) ELSE @]
  /\ fw' = Step([fw EXCEPT !.room = FALSE, !.out = Tail(@)])
  /\ UNCHANGED <<job, host, ring, record, perctl>>

\* uart_getline ends at a newline, or when the buffer is full; a full buffer
\* is an error, also if its last byte is the newline.
EndOfLine(f) ==
  IF Len(f.line) = LineSize
  THEN [f EXCEPT !.pc = "hung",
                 !.out = IF Main.flow THEN <<XOFF, XON, Text>> ELSE <<Text>>]
  ELSE [f EXCEPT !.pc = "decode", !.out = IF Main.flow THEN <<XOFF>> ELSE <<>>]

Took(b) ==
  LET f == [fw EXCEPT !.line = Append(@, b)]
  IN IF Ends(b) \/ Len(f.line) = LineSize THEN EndOfLine(f) ELSE f

\* Mutant: the UART is asked before the ring.
GetAsyncUartFirst ==
  /\ fw.pc = "getline" /\ fw.out = <<>>
  /\ \/ /\ uart.rx # <<>>
        /\ fw' = Step(Took(Head(uart.rx)))
        /\ uart' = Popped /\ UNCHANGED ring
     \/ /\ uart.rx = <<>> /\ ring.rd # ring.wr
        /\ fw' = Step(Took(ring.buf[ring.rd]))
        /\ ring' = [ring EXCEPT !.rd = (@ + 1) % RingSize]
        /\ UNCHANGED uart
     \/ uart.rx = <<>> /\ ring.rd = ring.wr /\ fw' = Step(fw) /\ UNCHANGED <<ring, uart>>
  /\ UNCHANGED <<job, host, record, perctl>>

\* GetAsync: the ring first, then the UART.
GetAsync ==
  /\ fw.pc = "getline" /\ fw.out = <<>>
  /\ \/ /\ ring.rd # ring.wr
        /\ fw' = Step(Took(ring.buf[ring.rd]))
        /\ ring' = [ring EXCEPT !.rd = (@ + 1) % RingSize]
        /\ UNCHANGED uart
     \/ /\ ring.rd = ring.wr /\ uart.rx # <<>>
        /\ fw' = Step(Took(Head(uart.rx)))
        /\ uart' = Popped /\ UNCHANGED ring
     \/ ring.rd = ring.wr /\ uart.rx = <<>> /\ fw' = Step(fw) /\ UNCHANGED <<ring, uart>>
  /\ UNCHANGED <<job, host, record, perctl>>

-----------------------------------------------------------------------------
(* Decoding.  kk_ihex takes the records of a line one after the other and  *)
(* calls ihex_data_read back for each.  What it makes of a record that     *)
(* noise has hit depends on the byte and on what the byte has become:      *)
(*   good     nothing that matters has changed;                            *)
(*   bad      it calls back with a checksum error;                         *)
(*   skipped  it says nothing: the colon is not there, or the type is      *)
(*            unknown, or it reads a record of data without a byte;        *)
(*   open     it misses digits, and calls back with a checksum error when  *)
(*            the next line begins with a colon.                           *)

Goto(out, pc) == [fw EXCEPT !.out = out, !.pc = pc, !.line = <<>>]

\* Mutant: the next line is not requested.
NextLineSilent(out, eof) ==
  IF eof THEN Goto(out \o Main.end, Main.next) ELSE Goto(out, "getline")

\* The loop of main() again, or what follows it.
NextLine(out, eof) ==
  IF eof THEN Goto(out \o Main.end, Main.next)
  ELSE Goto(IF Main.flow THEN Append(out, XON) ELSE out, "getline")

HitIn(n) == \E b \in host.damaged : b[1] = n /\ ~IsLast(b)

\* A newline that was hit has joined two lines; one that has become NUL hides
\* the second, as main() hands over strlen(buf) bytes.
HitBefore(n) == \E b \in host.damaged : b[1] = n - 1 /\ IsLast(b)

Fates(n) == {"good"} \cup (IF HitIn(n) THEN {"skipped", "open"} ELSE {})
                     \cup (IF HitBefore(n) THEN {"skipped"} ELSE {})

Open == {n \in DOMAIN record : record[n] = "open"}

\* What is printed for a record that was read: a row of dots, or its address.
Said(n) == IF File[n].type = "other" THEN {<<>>} ELSE {<<Text>>, <<Text, Text>>}

\* Mutant: the loader reports a checksum error and goes on.
ReportsOnly(n) ==
  /\ fw' = NextLine(<<Text>>, FALSE)
  /\ record' = [record EXCEPT ![n] = "bad"]

\* A callback with a checksum error.  lib::ihex::ihex_data_read has stored and
\* printed by then; ihex_data_read of bin/rv32_ddr3 and bin/muntjac looks at it
\* first.  (Nobody reads the memory before the end of the file.)
GivesUp(n) ==
  IF Main.callback = "lib"
  THEN /\ \E text \in Said(n) : fw' = Goto(Append(text, Text), "hung")
       /\ record' = [record EXCEPT ![n] = "bad"]
  ELSE fw' = Goto(<<Text>>, "hung") /\ UNCHANGED record

\* The last record of the line has this fate, and one before it was read.
Reads(n, m, fate) ==
  /\ record' = [k \in DOMAIN record |-> IF k = m THEN fate
                                        ELSE IF k = n THEN "good" ELSE record[k]]
  /\ \E first \in IF n = m THEN {<<>>} ELSE Said(n),
        text \in IF fate = "good" THEN Said(m) ELSE {<<>>} :
       fw' = NextLine(first \o text, fate = "good" /\ File[m].type = "eof")

Decode ==
  /\ fw.pc = "decode" /\ fw.out = <<>>
  /\ LET n == fw.line[1][1]
         m == fw.line[Len(fw.line)][1]
     IN \/ \E o \in Open : GivesUp(o)
        \/ Open = {} /\ HitIn(m) /\ GivesUp(m)
        \/ Open = {} /\ \E fate \in Fates(m) : Reads(n, m, fate)
  /\ UNCHANGED <<job, host, uart, ring, perctl>>

-----------------------------------------------------------------------------
(* The hand-off.                                                           *)

\* Mutant: the line is switched as soon as the FIFO is empty.
DrainFifoOnly ==
  /\ fw.pc = "drain" /\ fw.out = <<>>
  /\ uart' = Popped
  /\ fw' = IF uart.tx = <<>> THEN [fw EXCEPT !.pc = "spin", !.spun = DrainSlots] ELSE fw
  /\ UNCHANGED <<job, host, ring, record, perctl>>

\* The last text leaves the FIFO, then the shift register.
Drain ==
  /\ fw.pc = "drain" /\ fw.out = <<>>
  /\ uart' = Popped
  /\ fw' = IF uart.tx = <<>> THEN [fw EXCEPT !.pc = "spin", !.spun = 0] ELSE fw
  /\ UNCHANGED <<job, host, ring, record, perctl>>

HandOff ==
  /\ fw.pc = "spin" /\ fw.spun = DrainSlots
  /\ perctl' = [mux |-> 1, run |-> 1, dump |-> 0]
  /\ fw' = [fw EXCEPT !.pc = "delay"]
  /\ UNCHANGED <<job, host, uart, ring, record>>

\* About 30 s later the recorder is told to dump.
RecDump ==
  /\ fw.pc = "delay"
  /\ perctl' = [mux |-> 1, run |-> 1, dump |-> 1]
  /\ fw' = [fw EXCEPT !.pc = "end"]
  /\ UNCHANGED <<job, host, uart, ring, record>>

\* The other loaders jump to the program that they have loaded.
Jump ==
  /\ fw.pc = "jump" /\ fw.out = <<>>
  /\ perctl' = [perctl EXCEPT !.run = 1]
  /\ fw' = [fw EXCEPT !.pc = "end"]
  /\ UNCHANGED <<job, host, uart, ring, record>>

-----------------------------------------------------------------------------
Init ==
  /\ \E main \in {Noelv, Exec, Ddr3, Muntjac}, file \in Files :
       /\ job = [main |-> main, file |-> file]
       /\ fw = [pc |-> "getline", out |-> main.boot, room |-> FALSE, line |-> <<>>,
                steps |-> 0, spun |-> 0]
       /\ record = [n \in 1 .. Len(file) |-> None]
  /\ host = [next |-> <<1, 1>>, paused |-> TRUE, credit |-> 0, damaged |-> {}]
  /\ uart = [rx |-> <<>>, tx |-> <<>>, shift |-> None]
  /\ ring = [buf |-> [k \in 0 .. RingSize - 1 |-> <<1, 1>>], rd |-> 0, wr |-> 0]
  /\ perctl = [mux |-> 0, run |-> 0, dump |-> 0]

Firmware == CanWrite \/ Write \/ GetAsync \/ Decode \/ Drain \/ HandOff \/ RecDump \/ Jump
Next == Firmware \/ SlotQuiet \/ SlotSend
Spec == Init /\ [][Next]_vars

\* The firmware runs on, time passes, and a host that may send does.
Fairness == WF_vars(Firmware) /\ WF_vars(SlotQuiet) /\ SF_vars(SlotSend)
FairSpec == Spec /\ Fairness

-----------------------------------------------------------------------------
(* Properties.                                                             *)

Bytes == UNION {{<<n, k>> : k \in 1 .. File[n].len} : n \in 1 .. Len(File)}

\* FIFOs, line and indices of the ring stay within their sizes, and no line is
\* longer than the buffer of main() (lib/uart/uart.cc:156).
TypeOK ==
  /\ Len(uart.rx) <= FifoDepth /\ Len(uart.tx) <= FifoDepth
  /\ ring.rd \in 0 .. RingSize - 1 /\ ring.wr \in 0 .. RingSize - 1
  /\ \A k \in 1 .. Len(fw.line) : fw.line[k] \in Bytes
  /\ Len(fw.line) <= LineSize
  /\ fw.pc \in {"getline", "decode", "drain", "spin", "delay", "jump", "hung", "end"}
  /\ \A n \in DOMAIN record : record[n] \in {None, "good", "bad", "skipped", "open"}
  /\ host.credit \in 0 .. Overshoot

Arrived == fw.line \o InRing \o uart.rx

\* Until the loader stops, no byte is lost, doubled or reordered on its way
\* through the FIFO, the ring and the line buffer, although every poll for
\* room to write removes one (wb_uart.arch.vhdl:268, lib/uart/uart.cc:54-82)
\* and the host sends on after XOFF (noelv_serv_upload/main.cc:65).
NothingLost ==
  Loading /\ Arrived # <<>> =>
    /\ Arrived[1][2] = 1 \/ fw.line = <<>>
    /\ \A k \in 1 .. Len(Arrived) - 1 : Arrived[k + 1] = After(Arrived[k])
    /\ After(Arrived[Len(Arrived)]) = host.next

Fits == \A n \in 1 .. Len(File) : File[n].len < LineSize

\* A program is started only when the end of the file has been read, and every
\* record before it has been read as it was sent; but for one that noise has
\* hit in such a way that the decoder skips it without a word: no loader counts
\* the records (noelv_serv_upload/main.cc:71, lib/ihex/ihex.cc:13).  On the noelv
\* board the line has been handed over by then, and the text before it has left
\* the UART (issue #145, main.cc:80).  A loader gives up only if a byte was
\* damaged or a line is too long.
StartsWholeFile ==
  /\ perctl.run = 1 =>
       /\ Fits /\ Sent /\ record[Len(File)] = "good"
       /\ \A n \in DOMAIN record :
            record[n] = "good" \/ (record[n] = "skipped" /\ (HitIn(n) \/ HitBefore(n)))
       /\ Main = Noelv => perctl.mux = 1 /\ uart.tx = <<>> /\ uart.shift = None
  /\ perctl.dump = 1 => perctl.run = 1 /\ perctl.mux = 1
  /\ fw.pc = "hung" => ~Fits \/ host.damaged # {}

\* The end of the file went by unnoticed: noise has hit its record, its newline
\* or the newline before it, and no more bytes will come.
EndMissed ==
  /\ fw.pc = "getline" /\ Sent /\ uart.rx = <<>> /\ InRing = <<>>
  /\ \E b \in host.damaged : b[1] = Len(File) \/ (b[1] = Len(File) - 1 /\ IsLast(b))

\* Flow control never leaves host and loader waiting for each other: the
\* program is started, or an error has been printed; or the loader waits for
\* more of a file whose end it has not noticed (the loop of main() has no
\* timeout, noelv_serv_upload/main.cc:58).
LoadEnds == <>(perctl.run = 1 \/ (fw.pc = "hung" /\ fw.out = <<>>) \/ EndMissed)
=============================================================================
