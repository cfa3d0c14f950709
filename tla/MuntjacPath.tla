---------------------------- MODULE MuntjacPath ----------------------------
(***************************************************************************)
(* The memory path of the muntjac board: the core on the TileLink adapter  *)
(* muntjac_tl2wb, on clk50, and the clock crossing muntjac_wb_bridge from  *)
(* there to the peripherals on clk100.  Both clocks come from one clock    *)
(* generator: every second edge of clk100 is an edge of clk50.             *)
(***************************************************************************)
EXTENDS Integers, Sequences

CONSTANTS AdrCount, Transactions, ReadyAlways

VARIABLES
  todo, a_valid, d_ready,
  state, saved_a, saved_wb_dat, beat_count, get_address, a_ready, d, wb,
  host_state, host_buf, host_req, host_ack_q, host_ack, host_rdt,
  per_state, per_req_q, per_ack, per_rdt, per_o,
  per_i_ack, per_i_rdt, mem,
  gold, owed,
  clk50   \* 1: the next edge of clk100 is one of clk50, too

\* muntjac_tl2wb: its bus is the host bus of the crossing.
Tl == INSTANCE TlC2WbLite WITH wb_ack <- host_ack, wb_rdt <- host_rdt

\* The memory, as the slave of TlC2WbLite, on the other side.
Slave == INSTANCE TlC2WbLite WITH wb <- per_o, wb_ack <- per_i_ack, wb_rdt <- per_i_rdt

Cdc ==
  INSTANCE WbCdc WITH
    Adr <- 0 .. AdrCount - 1, Byte <- {0, 1}, Requests <- {}, NoWord <- 0,
    host_cyc <- wb.cyc,
    host_i <- [adr |-> wb.adr, we |-> wb.we, sel |-> wb.sel, dat |-> wb.dat]

clk50Vars ==
  <<todo, a_valid, d_ready, state, saved_a, saved_wb_dat, beat_count, get_address, a_ready, d, wb,
    host_state, host_buf, host_req, host_ack_q, host_ack, host_rdt, gold, owed>>
clk100Vars == <<per_state, per_req_q, per_ack, per_rdt, per_o, per_i_ack, per_i_rdt, mem>>
vars == <<clk50Vars, clk100Vars, clk50>>

Init ==
  /\ todo = <<>> /\ a_valid = 0 /\ d_ready \in IF ReadyAlways THEN {1} ELSE {0, 1}
  /\ Tl!InitAdapter
  /\ Cdc!InitCdc
  /\ host_buf = wb /\ host_rdt = 0 /\ per_rdt = 0 /\ per_o = wb
  /\ per_i_ack = 0 /\ per_i_rdt = 0 /\ mem = [x \in 0 .. AdrCount - 1 |-> 0]
  /\ gold = mem /\ owed = <<>>
  /\ clk50 \in {0, 1}

CoreSide       == Tl!MasterEdge /\ Tl!AdapterEdge /\ Tl!HistoryEdge /\ Cdc!HostSide
PeripheralSide == Cdc!PerSide /\ Slave!SlaveEdge

CommonEdge == clk50 = 1 /\ clk50' = 0 /\ CoreSide /\ PeripheralSide
Clk100Edge == clk50 = 0 /\ clk50' = 1 /\ PeripheralSide /\ UNCHANGED clk50Vars

Next == CommonEdge \/ Clk100Edge

Spec == Init /\ [][Next]_vars

-----------------------------------------------------------------------------
(* Properties.                                                             *)

\* Behind the crossing, too, every response is the one the core is owed.
DeliversOwed == Tl!DeliversOwed
=============================================================================
