---------------------------- MODULE Ahb2WbBridge ----------------------------
(***************************************************************************)
(* The NOEL-V memory path: ip/bridges/ahb2wb_bridge.vhdl.                  *)
(*                                                                         *)
(* Two clocked processes that share no clock (clk_ahb 50 MHz, clk_wb       *)
(* 100 MHz) pass one transfer at a time across a clock-domain crossing by  *)
(* a four-phase handshake: ahb_req and wb_ack each run through three       *)
(* flip-flops of the other domain; address, write data, strobes and read   *)
(* data cross unsynchronized and are right only if they are stable when    *)
(* they are sampled.  An action is one rising edge of one clock; the edges *)
(* interleave in every order, which also covers a synchronizer flip-flop   *)
(* that resolves a simultaneous change to the old or to the new value.     *)
(*                                                                         *)
(* The environment is the AHB bus (the pipelined address and data phase,   *)
(* the other slaves on the bus) and the Wishbone slave behind the bridge.  *)
(* Signals are 0 or 1, a word is a function from its four byte lanes, a    *)
(* strobe vector is the set of its '1' lanes, and an address is the word   *)
(* it names with its byte offset (the slave decodes only the word).        *)
(***************************************************************************)
EXTENDS Naturals

CONSTANTS
  Addr,              \* word addresses
  Byte,              \* byte values
  Beats,             \* the transfers the AHB master addresses to the bridge
  NoBeat,            \* no transfer in an AHB phase
  OtherBeat,         \* a transfer addressed to another AHB slave
  NoWord,            \* "no read data"
  PowerUpAddr,       \* what registers without an initial value power up to
  PowerUpWord,
  StrayWords,        \* what hwdata may carry when it is not for the bridge
  OtherSlavesStall   \* may another slave hold hready low in its data phase?

Lane == 0 .. 3
Word == [Lane -> Byte]
Size == {"byte", "half", "word"}
Beat == [adr : Addr, off : Lane, size : Size, write : {0, 1}, data : Word]

Aligned(b) ==
  /\ b.size = "half" => b.off \in {0, 2}
  /\ b.size = "word" => b.off = 0

ASSUME BridgeAssumption ==
  /\ Beats \subseteq Beat
  /\ \A b \in Beats : Aligned(b)
  /\ NoBeat \notin Beats
  /\ OtherBeat \notin Beats
  /\ NoBeat # OtherBeat
  /\ NoWord \notin Word
  /\ PowerUpAddr \in Addr
  /\ PowerUpWord \in Word
  /\ StrayWords \subseteq Word /\ StrayWords # {}
  /\ OtherSlavesStall \in BOOLEAN

VARIABLES
  rst, rst_seen,                                   \* reset, domains it reached
  noelv_reset_n,                                   \* 0: the NOEL-V is in reset
  aph, dph,                                        \* AHB address / data phase
  ahb_state, ahb_req, ahb_hready,                  \* clk_ahb registers
  ahb_ack_q0, ahb_ack_q1, ahb_ack_sync,
  ahb_haddr, ahb_hwrite, ahb_sel, ahb_hwdata, ahb_hrdata,
  wb_state, wb_ack, wb_cyc,                        \* clk_wb registers
  wb_req_q0, wb_req_q1, wb_req_sync,
  wb_adr, wb_we, wb_sel, wb_dat, wb_hrdata_reg,
  per_ack, per_rdt, mem                            \* the Wishbone slave

busVars  == <<aph, dph>>
ahbCtl   == <<ahb_state, ahb_req, ahb_hready>>
ahbSync  == <<ahb_ack_q0, ahb_ack_q1, ahb_ack_sync>>
ahbCmd   == <<ahb_haddr, ahb_hwrite, ahb_sel, ahb_hwdata>>
ahbVars  == <<ahbCtl, ahbSync, ahbCmd, ahb_hrdata>>
wbCtl    == <<wb_state, wb_ack, wb_cyc>>
wbSync   == <<wb_req_q0, wb_req_q1, wb_req_sync>>
wbCmd    == <<wb_adr, wb_we, wb_sel, wb_dat>>
wbVars   == <<wbCtl, wbSync, wbCmd, wb_hrdata_reg>>
perVars  == <<per_ack, per_rdt, mem>>
rstVars  == <<rst, rst_seen, noelv_reset_n>>
vars     == <<rstVars, busVars, ahbVars, wbVars, perVars>>

-----------------------------------------------------------------------------
(* Byte strobes and the slave's merge of a word.                           *)

\* Mutant: the strobe of a byte store is one lane too high.
ByteStrobesOffByOne(size, off) ==
  CASE size = "byte" -> {off + 1}
    [] size = "half" -> IF off < 2 THEN {0, 1} ELSE {2, 3}
    [] size = "word" -> Lane

\* Per-byte write strobes of a beat, from hsize and haddr(1 downto 0).
ByteStrobes(size, off) ==
  CASE size = "byte" -> {off}
    [] size = "half" -> IF off < 2 THEN {0, 1} ELSE {2, 3}
    [] size = "word" -> Lane

Merge(old, new, sel) == [i \in Lane |-> IF i \in sel THEN new[i] ELSE old[i]]

-----------------------------------------------------------------------------
(* The AHB bus, as its slaves see it.                                      *)

\* hready is driven by the slave that owns the data phase; stall says what
\* another slave does in this cycle.
BusReady(stall) ==
  IF dph \in Beats THEN ahb_hready
  ELSE IF dph = OtherBeat /\ stall THEN 0 ELSE 1

\* What hwdata may carry: the data of the transfer in its data phase.
BusWriteData == IF dph \in Beats THEN {dph.data} ELSE StrayWords

\* A bus edge.  With hready the address phase becomes the data phase and the
\* master offers its next transfer.  Without it both are held, except that an
\* idle master may start to offer one.  A master in reset offers none.
Offers == IF noelv_reset_n = 1 THEN Beats \cup {NoBeat, OtherBeat} ELSE {NoBeat}

BusEdge ==
  \E stall \in {FALSE} \cup {OtherSlavesStall} :
    \E next \in Offers :
      IF BusReady(stall) = 1
      THEN /\ dph' = aph
           /\ aph' = next
      ELSE /\ dph' = dph
           /\ aph' = IF aph = NoBeat THEN next ELSE aph

-----------------------------------------------------------------------------
(* The clk_ahb process.                                                    *)

\* A rising edge of clk_ahb out of reset: the synchronizer shifts and the
\* bus moves on, whatever the state machine does.
AhbEdge ==
  /\ rst = 0
  /\ ahb_ack_q0' = wb_ack
  /\ ahb_ack_q1' = ahb_ack_q0
  /\ ahb_ack_sync' = ahb_ack_q1
  /\ BusEdge
  /\ UNCHANGED <<rstVars, wbVars, perVars>>

\* Mutant: a write raises its request at once, like a read, and never
\* captures its data.
AhbAcceptNoDataPhase ==
  /\ AhbEdge
  /\ ahb_state = "IDLE"
  /\ aph \in Beats
  /\ ahb_haddr' = aph.adr
  /\ ahb_hwrite' = aph.write
  /\ ahb_sel' = ByteStrobes(aph.size, aph.off)
  /\ ahb_hready' = 0
  /\ ahb_state' = "WAIT_ACK"
  /\ ahb_req' = 1
  /\ UNCHANGED <<ahb_hwdata, ahb_hrdata>>

\* AHB_IDLE, hsel and htrans say that the address phase is for the bridge.
AhbAccept ==
  /\ AhbEdge
  /\ ahb_state = "IDLE"
  /\ aph \in Beats
  /\ ahb_haddr' = aph.adr
  /\ ahb_hwrite' = aph.write
  /\ ahb_sel' = ByteStrobes(aph.size, aph.off)
  /\ ahb_hready' = 0
  /\ IF aph.write = 1
     THEN ahb_state' = "DATA_PHASE" /\ UNCHANGED ahb_req
     ELSE ahb_state' = "WAIT_ACK" /\ ahb_req' = 1
  /\ UNCHANGED <<ahb_hwdata, ahb_hrdata>>

AhbIdle ==
  /\ AhbEdge
  /\ ahb_state = "IDLE"
  /\ aph \notin Beats
  /\ UNCHANGED <<ahbCtl, ahbCmd, ahb_hrdata>>

AhbDataPhase ==
  /\ AhbEdge
  /\ ahb_state = "DATA_PHASE"
  /\ ahb_hwdata' \in BusWriteData
  /\ ahb_req' = 1
  /\ ahb_state' = "WAIT_ACK"
  /\ UNCHANGED <<ahb_hready, ahb_haddr, ahb_hwrite, ahb_sel, ahb_hrdata>>

AhbWaitAck ==
  /\ AhbEdge
  /\ ahb_state = "WAIT_ACK"
  /\ IF ahb_ack_sync = 1
     THEN /\ ahb_hrdata' = wb_hrdata_reg
          /\ ahb_req' = 0
          /\ ahb_state' = "CLEANUP"
     ELSE UNCHANGED <<ahb_hrdata, ahb_req, ahb_state>>
  /\ UNCHANGED <<ahb_hready, ahbCmd>>

\* Mutant: the bridge is ready again before the ack has cleared.
AhbCleanupNoWait ==
  /\ AhbEdge
  /\ ahb_state = "CLEANUP"
  /\ ahb_hready' = 1
  /\ ahb_state' = "IDLE"
  /\ UNCHANGED <<ahb_req, ahbCmd, ahb_hrdata>>

AhbCleanup ==
  /\ AhbEdge
  /\ ahb_state = "CLEANUP"
  /\ IF ahb_ack_sync = 0
     THEN ahb_hready' = 1 /\ ahb_state' = "IDLE"
     ELSE UNCHANGED <<ahb_hready, ahb_state>>
  /\ UNCHANGED <<ahb_req, ahbCmd, ahb_hrdata>>

\* A rising edge of clk_ahb while rst is high.
AhbReset ==
  /\ rst = 1
  /\ ahb_state' = "IDLE"
  /\ ahb_req' = 0
  /\ ahb_hready' = 1
  /\ ahb_ack_q0' = 0
  /\ ahb_ack_q1' = 0
  /\ ahb_ack_sync' = 0
  /\ rst_seen' = rst_seen \cup {"ahb"}
  /\ UNCHANGED <<rst, noelv_reset_n, busVars, ahbCmd, ahb_hrdata, wbVars, perVars>>

-----------------------------------------------------------------------------
(* The Wishbone slave (external): it serves the access on the bus at any   *)
(* later edge, with an ack of one cycle.                                   *)

PerAccess ==
  /\ wb_cyc = 1
  /\ per_ack = 0
  /\ per_ack' = 1
  /\ per_rdt' = mem[wb_adr]
  /\ mem' = IF wb_we = 1
            THEN [mem EXCEPT ![wb_adr] = Merge(mem[wb_adr], wb_dat, wb_sel)]
            ELSE mem

PerQuiet ==
  /\ per_ack' = 0
  /\ UNCHANGED <<per_rdt, mem>>

-----------------------------------------------------------------------------
(* The clk_wb process.                                                     *)

\* A rising edge of clk_wb out of reset: the synchronizer shifts, and the
\* slave, which has the same clock, takes a step of its own.
WbEdge ==
  /\ rst = 0
  /\ wb_req_q0' = ahb_req
  /\ wb_req_q1' = wb_req_q0
  /\ wb_req_sync' = wb_req_q1
  /\ PerAccess \/ PerQuiet
  /\ UNCHANGED <<rstVars, busVars, ahbVars>>

WbIdle ==
  /\ WbEdge
  /\ wb_state = "IDLE"
  /\ IF wb_req_sync = 1
     THEN /\ wb_adr' = ahb_haddr
          /\ wb_we' = ahb_hwrite
          /\ wb_dat' = ahb_hwdata
          /\ wb_sel' = ahb_sel
          /\ wb_state' = "START"
     ELSE UNCHANGED <<wbCmd, wb_state>>
  /\ UNCHANGED <<wb_ack, wb_cyc, wb_hrdata_reg>>

WbStart ==
  /\ WbEdge
  /\ wb_state = "START"
  /\ wb_cyc' = 1
  /\ wb_state' = "WAIT"
  /\ UNCHANGED <<wb_ack, wbCmd, wb_hrdata_reg>>

WbWait ==
  /\ WbEdge
  /\ wb_state = "WAIT"
  /\ IF per_ack = 1
     THEN /\ wb_cyc' = 0
          /\ wb_hrdata_reg' = per_rdt
          /\ wb_ack' = 1
          /\ wb_state' = "DONE"
     ELSE UNCHANGED <<wbCtl, wb_hrdata_reg>>
  /\ UNCHANGED wbCmd

\* Mutant: the Wishbone side does not wait for the request to clear.
WbDoneNoWait ==
  /\ WbEdge
  /\ wb_state = "DONE"
  /\ wb_ack' = 0
  /\ wb_state' = "IDLE"
  /\ UNCHANGED <<wb_cyc, wbCmd, wb_hrdata_reg>>

\* Mutant: the ack is left high.
WbDoneKeepsAck ==
  /\ WbEdge
  /\ wb_state = "DONE"
  /\ IF wb_req_sync = 0 THEN wb_state' = "IDLE" ELSE UNCHANGED wb_state
  /\ UNCHANGED <<wb_ack, wb_cyc, wbCmd, wb_hrdata_reg>>

WbDone ==
  /\ WbEdge
  /\ wb_state = "DONE"
  /\ IF wb_req_sync = 0
     THEN wb_ack' = 0 /\ wb_state' = "IDLE"
     ELSE UNCHANGED <<wb_ack, wb_state>>
  /\ UNCHANGED <<wb_cyc, wbCmd, wb_hrdata_reg>>

\* A rising edge of clk_wb while rst is high; the slave is reset by it too.
WbReset ==
  /\ rst = 1
  /\ wb_state' = "IDLE"
  /\ wb_ack' = 0
  /\ wb_req_q0' = 0
  /\ wb_req_q1' = 0
  /\ wb_req_sync' = 0
  /\ wb_cyc' = 0
  /\ PerQuiet
  /\ rst_seen' = rst_seen \cup {"wb"}
  /\ UNCHANGED <<rst, noelv_reset_n, busVars, ahbVars, wbCmd, wb_hrdata_reg>>

-----------------------------------------------------------------------------
(* The board's reset: asserted at any time, it takes the NOEL-V and its    *)
(* bus down at once and is held over an edge of each clock.                *)

ResetAssert ==
  /\ rst = 0
  /\ rst' = 1
  /\ rst_seen' = {}
  /\ noelv_reset_n' = 0
  /\ aph' = NoBeat
  /\ dph' = NoBeat
  /\ UNCHANGED <<ahbVars, wbVars, perVars>>

ResetRelease ==
  /\ rst = 1
  /\ rst_seen = {"ahb", "wb"}
  /\ rst' = 0
  /\ UNCHANGED <<rst_seen, noelv_reset_n, busVars, ahbVars, wbVars, perVars>>

(* The reset of the NOEL-V and its bus alone: by key2 at any time, and from *)
(* each reset of the board until the control register lets it run.  The     *)
(* bridge does not see it, and goes on.                                     *)

NoelvReset ==
  /\ rst = 0 /\ noelv_reset_n = 1
  /\ noelv_reset_n' = 0
  /\ aph' = NoBeat
  /\ dph' = NoBeat
  /\ UNCHANGED <<rst, rst_seen, ahbVars, wbVars, perVars>>

\* Mutant: the reset may end while the bridge is still busy.
NoelvReleaseEarly ==
  /\ rst = 0 /\ noelv_reset_n = 0
  /\ noelv_reset_n' = 1
  /\ UNCHANGED <<rst, rst_seen, busVars, ahbVars, wbVars, perVars>>

\* The debouncer holds key2 for 2^20 clocks at least: whatever the bridge was
\* doing is over by then.
NoelvRelease ==
  /\ rst = 0 /\ noelv_reset_n = 0
  /\ ahb_state = "IDLE"
  /\ noelv_reset_n' = 1
  /\ UNCHANGED <<rst, rst_seen, busVars, ahbVars, wbVars, perVars>>

-----------------------------------------------------------------------------
Init ==
  /\ rst = 0 /\ rst_seen = {} /\ noelv_reset_n = 0
  /\ aph = NoBeat /\ dph = NoBeat
  /\ ahb_state = "IDLE" /\ ahb_req = 0 /\ ahb_hready = 1
  /\ ahb_ack_q0 = 0 /\ ahb_ack_q1 = 0 /\ ahb_ack_sync = 0
  /\ ahb_haddr = PowerUpAddr /\ ahb_hwrite = 0 /\ ahb_sel = Lane
  /\ ahb_hwdata = PowerUpWord /\ ahb_hrdata = PowerUpWord
  /\ wb_state = "IDLE" /\ wb_ack = 0 /\ wb_cyc = 0
  /\ wb_req_q0 = 0 /\ wb_req_q1 = 0 /\ wb_req_sync = 0
  /\ wb_adr = PowerUpAddr /\ wb_we = 0 /\ wb_sel = Lane
  /\ wb_dat = PowerUpWord /\ wb_hrdata_reg = PowerUpWord
  /\ per_ack = 0 /\ per_rdt = PowerUpWord
  /\ mem = [a \in Addr |-> PowerUpWord]

AhbTick == AhbAccept \/ AhbIdle \/ AhbDataPhase \/ AhbWaitAck \/ AhbCleanup
WbTick  == WbIdle \/ WbStart \/ WbWait \/ WbDone

Next ==
  \/ AhbTick \/ AhbReset
  \/ WbTick \/ WbReset
  \/ ResetAssert \/ ResetRelease
  \/ NoelvReset \/ NoelvRelease

\* Both clocks keep running, and the slave serves an access that stays on the
\* bus (the DDR3 controller refreshes and calibrates but always comes back).
Fairness ==
  /\ WF_vars(AhbTick)
  /\ WF_vars(WbTick)
  /\ WF_vars(WbWait /\ PerAccess)

Spec == Init /\ [][Next]_vars
FairSpec == Spec /\ Fairness

-----------------------------------------------------------------------------
(* Properties.                                                             *)

Bit == {0, 1}

\* Every register keeps its type.
TypeOK ==
  /\ rst \in Bit /\ noelv_reset_n \in Bit /\ rst_seen \subseteq {"ahb", "wb"}
  /\ aph \in Beats \cup {NoBeat, OtherBeat}
  /\ dph \in Beats \cup {NoBeat, OtherBeat}
  /\ ahb_state \in {"IDLE", "DATA_PHASE", "WAIT_ACK", "CLEANUP"}
  /\ ahb_req \in Bit /\ ahb_hready \in Bit
  /\ ahb_ack_q0 \in Bit /\ ahb_ack_q1 \in Bit /\ ahb_ack_sync \in Bit
  /\ ahb_haddr \in Addr /\ ahb_hwrite \in Bit /\ ahb_sel \in SUBSET Lane
  /\ ahb_hwdata \in Word /\ ahb_hrdata \in Word
  /\ wb_state \in {"IDLE", "START", "WAIT", "DONE"}
  /\ wb_ack \in Bit /\ wb_cyc \in Bit
  /\ wb_req_q0 \in Bit /\ wb_req_q1 \in Bit /\ wb_req_sync \in Bit
  /\ wb_adr \in Addr /\ wb_we \in Bit /\ wb_sel \in SUBSET Lane
  /\ wb_dat \in Word /\ wb_hrdata_reg \in Word
  /\ per_ack \in Bit /\ per_rdt \in Word
  /\ mem \in [Addr -> Word]

\* The four-phase handshake as one ring: request, its three flip-flops, ack
\* and its three flip-flops hold at most one step, which the request side
\* starts only when the ring is level, and each state machine is where the
\* ring says.  The comments of the code rely on it: req and ack "complete" the
\* handshake before either side moves on.
RingInv ==
  /\ ahb_req = 1 =>
       /\ wb_req_q0 >= wb_req_q1 /\ wb_req_q1 >= wb_req_sync
       /\ wb_req_sync >= wb_ack
       /\ wb_ack >= ahb_ack_q0 /\ ahb_ack_q0 >= ahb_ack_q1
       /\ ahb_ack_q1 >= ahb_ack_sync
  /\ ahb_req = 0 =>
       /\ wb_req_q0 <= wb_req_q1 /\ wb_req_q1 <= wb_req_sync
       /\ wb_req_sync <= wb_ack
       /\ wb_ack <= ahb_ack_q0 /\ ahb_ack_q0 <= ahb_ack_q1
       /\ ahb_ack_q1 <= ahb_ack_sync
  /\ ahb_req = 1 <=> ahb_state = "WAIT_ACK"
  /\ ahb_state \in {"IDLE", "DATA_PHASE"} => ahb_ack_sync = 0
  /\ ahb_hready = 1 <=> ahb_state = "IDLE"
  /\ wb_ack = 1 <=> wb_state = "DONE"
  /\ wb_cyc = 1 <=> wb_state = "WAIT"
  /\ wb_state \in {"START", "WAIT"} => ahb_req = 1 /\ wb_req_sync = 1
  /\ per_ack = 1 => wb_state = "WAIT"

\* In reset, a domain that has seen an edge is quiet.
ResetInv ==
  /\ aph = NoBeat /\ dph = NoBeat
  /\ "ahb" \in rst_seen =>
       /\ ahb_state = "IDLE" /\ ahb_req = 0 /\ ahb_hready = 1
       /\ ahb_ack_q0 = 0 /\ ahb_ack_q1 = 0 /\ ahb_ack_sync = 0
  /\ "wb" \in rst_seen =>
       /\ wb_state = "IDLE" /\ wb_ack = 0 /\ wb_cyc = 0 /\ per_ack = 0
       /\ wb_req_q0 = 0 /\ wb_req_q1 = 0 /\ wb_req_sync = 0

\* The handshake is intact out of reset, and comes out of a reset intact
\* although the two clocks see the reset begin and end at different times.
HandshakeInv ==
  /\ rst = 0 => RingInv
  /\ rst = 1 => ResetInv

\* A busy bridge works on the transfer in the AHB data phase, unless a reset
\* of the NOEL-V has taken that off the bus, and both domains hold what the
\* transfer says.
CommandInv ==
  rst = 0 =>
    /\ noelv_reset_n = 0 => aph = NoBeat /\ dph = NoBeat
    /\ noelv_reset_n = 1 /\ ahb_state # "IDLE" =>
         /\ dph \in Beats
         /\ ahb_haddr = dph.adr
         /\ ahb_hwrite = dph.write
         /\ ahb_sel = ByteStrobes(dph.size, dph.off)
         /\ ahb_state = "DATA_PHASE" => dph.write = 1
         /\ ahb_state # "DATA_PHASE" /\ dph.write = 1 => ahb_hwdata = dph.data
    /\ wb_state \in {"START", "WAIT"} =>
         /\ wb_adr = ahb_haddr
         /\ wb_we = ahb_hwrite
         /\ wb_sel = ahb_sel
         /\ wb_dat = ahb_hwdata

\* Address and data stay paired: while a transfer for the bridge is in its
\* AHB data phase, the access on the Wishbone bus has its address, direction,
\* strobes and data ("pairs every beat's address with the CORRECT data",
\* ip/bridges/ahb2wb_bridge.test.vhdl:175).
PairedAddressAndData ==
  wb_cyc = 1 /\ dph \in Beats =>
    /\ wb_adr = dph.adr
    /\ wb_we = dph.write
    /\ wb_sel = ByteStrobes(dph.size, dph.off)
    /\ wb_we = 1 => wb_dat = dph.data

\* What crosses without a synchronizer is quasi-static: from the rise of a
\* request until the last stage of its synchronizer has fallen, no edge
\* changes the command registers, and the same for read data and ack
\* ("stable because req is high", "stable because ack is high").
CrossingDataStable ==
  [][ /\ 1 \in {ahb_req, wb_req_q0, wb_req_q1, wb_req_sync}
           => UNCHANGED ahbCmd
      /\ 1 \in {wb_ack, ahb_ack_q0, ahb_ack_q1, ahb_ack_sync}
           => UNCHANGED wb_hrdata_reg ]_vars

\* A transfer in its data phase is answered with hready, unless the NOEL-V is
\* reset: the two state machines never wait for each other for ever.
BeatCompletes ==
  dph \in Beats ~> (dph \in Beats /\ ahb_hready = 1) \/ noelv_reset_n = 0

-----------------------------------------------------------------------------
(* The bridge implements a memory that serves each beat exactly once.      *)

\* The slave has served the transfer in the data phase.
Performed ==
  \/ wb_state = "WAIT" /\ per_ack = 1
  \/ wb_state = "DONE"
  \/ ahb_state = "CLEANUP"

absPhase ==
  IF dph \notin Beats THEN "idle"
  ELSE IF ahb_hready = 1 THEN "returned"
  ELSE IF Performed THEN "done" ELSE "pending"

\* Where the read data is on its way from the slave to the master.
absVal ==
  IF absPhase \in {"idle", "pending"} \/ dph.write = 1 THEN NoWord
  ELSE IF absPhase = "returned" \/ ahb_state = "CLEANUP" THEN ahb_hrdata
  ELSE IF wb_state = "DONE" THEN wb_hrdata_reg
  ELSE per_rdt

\* The store that a reset of the NOEL-V has left in the bridge.
absLeft ==
  IF rst = 0 /\ noelv_reset_n = 0 /\ ahb_state # "IDLE" /\ ahb_hwrite = 1 /\ ~Performed
  THEN {[adr |-> ahb_haddr, bytes |-> ahb_sel]}
  ELSE {}

Memory ==
  INSTANCE AhbMemory WITH
    phase <- absPhase,
    beat  <- IF dph \in Beats THEN dph ELSE NoBeat,
    val   <- absVal,
    left  <- absLeft

\* Every beat the bus hands to the bridge takes effect in the memory exactly
\* once, between its address phase and its hready, on exactly the bytes its
\* size and address cover, and a read returns the word it found.  A beat that
\* a reset of the NOEL-V cuts off (board.arch_rtl.vhdl:640) changes nothing
\* but its own bytes, and is over before the next one.
ServesEachBeatOnce == Memory!Spec
=============================================================================
