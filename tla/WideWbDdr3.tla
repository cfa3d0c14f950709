----------------------------- MODULE WideWbDdr3 -----------------------------
(***************************************************************************)
(* ip/a200t/wide_wb_ddr3.vhdl: the adapter between a 32-bit Wishbone host  *)
(* and the 256-bit Wishbone port of the DDR3 controller.  A host byte      *)
(* address is its burst, adr(29 downto 5), and its word in the burst,      *)
(* adr(4 downto 2); adr(1 downto 0) is not looked at.                      *)
(*                                                                         *)
(* AdapterEdge and CtlEdge are what one rising edge of clk does to the     *)
(* adapter and to the controller, from the values before the edge.  The    *)
(* controller (UberDDR3, external) is a pipelined Wishbone slave: it may   *)
(* take the access on its bus again as long as stb is high, acknowledges   *)
(* with a pulse that comes with or without stall, and forgets what is in   *)
(* its pipeline when cyc is low.                                           *)
(***************************************************************************)
EXTENDS Naturals

CONSTANTS
  Burst,         \* burst addresses, from 0
  Byte,          \* byte values, with 0
  NoWord         \* don't care

Index == 0 .. 7
Lane  == 0 .. 3
Word  == [Lane -> Byte]

VARIABLES
  host_cyc, host_req,       \* hostside_wb_host: cyc, and address, data, sel, we
  r_state, host_buf, per_buf, r_index,                       \* the register r
  ctl_ack, ctl_stall, ctl_data, served, ram                  \* the controller

adapterVars == <<r_state, host_buf, per_buf, r_index>>
ctlVars     == <<ctl_ack, ctl_stall, ctl_data, served, ram>>

ZeroWord  == [i \in Lane |-> 0]
ZeroBurst == [i \in Index |-> ZeroWord]
ZeroHost  == [cyc |-> 0, we |-> 0, adr |-> 0, data |-> ZeroBurst, sel |-> {}]
ZeroPer   == [rdt |-> ZeroWord, ack |-> 0]

-----------------------------------------------------------------------------
(* The adapter.                                                            *)

\* zero_state
ToZeroState ==
  /\ r_state' = "idle"
  /\ host_buf' = ZeroHost
  /\ per_buf' = ZeroPer
  /\ r_index' = 0

\* Mutant: the burst address loses its upper bits, so that distant bursts
\* are the same one.
LatchAliased ==
  /\ r_state = "idle" /\ host_cyc = 1
  /\ r_index' = host_req.adr[2]
  /\ host_buf' = [cyc |-> 1, we |-> host_req.we, adr |-> host_req.adr[1] % 2,
                  data |-> [ZeroBurst EXCEPT ![r_index'] = host_req.dat],
                  sel |-> {r_index'} \X host_req.sel]
  /\ r_state' = IF host_req.we = 1 THEN "write1" ELSE "read1"
  /\ UNCHANGED per_buf

\* Mutant: the burst address is shifted, as if the controller counted columns.
LatchShifted ==
  /\ r_state = "idle" /\ host_cyc = 1
  /\ r_index' = host_req.adr[2]
  /\ host_buf' = [cyc |-> 1, we |-> host_req.we, adr |-> host_req.adr[1] * 8,
                  data |-> [ZeroBurst EXCEPT ![r_index'] = host_req.dat],
                  sel |-> {r_index'} \X host_req.sel]
  /\ r_state' = IF host_req.we = 1 THEN "write1" ELSE "read1"
  /\ UNCHANGED per_buf

\* idle: buffer the host's request and put it on the wide bus.  The word and
\* its byte strobes go to their place in the burst, all others are masked.
Latch ==
  /\ r_state = "idle" /\ host_cyc = 1
  /\ r_index' = host_req.adr[2]
  /\ host_buf' = [cyc |-> 1, we |-> host_req.we, adr |-> host_req.adr[1],
                  data |-> [ZeroBurst EXCEPT ![r_index'] = host_req.dat],
                  sel |-> {r_index'} \X host_req.sel]
  /\ r_state' = IF host_req.we = 1 THEN "write1" ELSE "read1"
  /\ UNCHANGED per_buf

Idle ==
  /\ r_state = "idle" /\ host_cyc = 0
  /\ UNCHANGED adapterVars

\* Mutant: an ack ends the access on the bus even if it comes with a stall.
Write1DropsBus ==
  /\ r_state = "write1"
  /\ host_buf' = IF ctl_ack = 1 THEN ZeroHost ELSE host_buf
  /\ IF ctl_stall = 0 /\ ctl_ack = 1
     THEN per_buf' = [rdt |-> NoWord, ack |-> 1] /\ r_state' = "wait1"
     ELSE UNCHANGED <<per_buf, r_state>>
  /\ UNCHANGED r_index

\* write1: wait until the controller acknowledges without a stall.
Write1 ==
  /\ r_state = "write1"
  /\ IF ctl_stall = 0 /\ ctl_ack = 1
     THEN per_buf' = [rdt |-> NoWord, ack |-> 1] /\ r_state' = "wait1"
     ELSE UNCHANGED <<per_buf, r_state>>
  /\ UNCHANGED <<host_buf, r_index>>

\* read1: the same, and the addressed word is cut out of the burst.
Read1 ==
  /\ r_state = "read1"
  /\ IF ctl_stall = 0 /\ ctl_ack = 1
     THEN per_buf' = [rdt |-> ctl_data[r_index], ack |-> 1] /\ r_state' = "wait1"
     ELSE UNCHANGED <<per_buf, r_state>>
  /\ UNCHANGED <<host_buf, r_index>>

\* Mutant: the adapter goes back to idle before the ack is taken away.
Wait1KeepsAck ==
  /\ r_state = "wait1"
  /\ r_state' = "idle"
  /\ host_buf' = ZeroHost
  /\ r_index' = 0
  /\ UNCHANGED per_buf

\* wait1: the host sees ack in this cycle.
Wait1 ==
  /\ r_state = "wait1"
  /\ ToZeroState

AdapterEdge == Latch \/ Idle \/ Write1 \/ Read1 \/ Wait1

-----------------------------------------------------------------------------
(* The controller.                                                         *)

\* The burst after a masked write.
Masked(burst) ==
  [k \in Index |-> [i \in Lane |->
     IF <<k, i>> \in host_buf.sel THEN host_buf.data[k][i] ELSE burst[k][i]]]

\* It takes the access that is on the bus, for the first time or again.
Serve ==
  /\ host_buf.cyc = 1
  /\ ctl_ack' = 1
  /\ served' = 1
  /\ ctl_data' = ram[host_buf.adr]
  /\ ram' = IF host_buf.we = 1
            THEN [ram EXCEPT ![host_buf.adr] = Masked(ram[host_buf.adr])]
            ELSE ram

Busy ==
  /\ ctl_ack' = 0
  /\ served' = IF host_buf.cyc = 1 THEN served ELSE 0
  /\ UNCHANGED <<ctl_data, ram>>

CtlEdge == (Serve \/ Busy) /\ ctl_stall' \in {0, 1}

-----------------------------------------------------------------------------
InitAdapter ==
  /\ r_state = "idle" /\ host_buf = ZeroHost /\ per_buf = ZeroPer /\ r_index = 0
  /\ ctl_ack = 0 /\ ctl_stall = 1 /\ ctl_data = ZeroBurst /\ served = 0
  /\ ram = [b \in Burst |-> ZeroBurst]

\* A clock edge with reset high; the controller has the same reset.
ResetAdapter ==
  /\ ToZeroState
  /\ ctl_ack' = 0 /\ ctl_stall' = 1 /\ served' = 0
  /\ UNCHANGED <<ctl_data, ram>>

\* Registers keep their types.
AdapterTypeOK ==
  /\ r_state \in {"idle", "read1", "wait1", "write1"}
  /\ host_buf \in [cyc : {0, 1}, we : {0, 1}, adr : Burst, data : [Index -> Word],
                   sel : SUBSET (Index \X Lane)]
  /\ per_buf \in [rdt : Word \cup {NoWord}, ack : {0, 1}]
  /\ r_index \in Index
  /\ ctl_ack \in {0, 1} /\ ctl_stall \in {0, 1} /\ served \in {0, 1}
  /\ ctl_data \in [Index -> Word]
  /\ ram \in [Burst -> [Index -> Word]]
=============================================================================
