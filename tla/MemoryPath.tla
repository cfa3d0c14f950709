----------------------------- MODULE MemoryPath -----------------------------
(***************************************************************************)
(* The shared DDR3 path of the noelv board: the hosts (SERV and the NOEL-V *)
(* bridge) on the round-robin multiplexer `ram_mux`, and behind it, in the *)
(* place of the multiplexer's abstract peripheral, the wide Wishbone       *)
(* adapter and the DDR3 controller.  All of it is on clk100.               *)
(***************************************************************************)
EXTENDS Naturals

CONSTANTS PORTS_COUNT, Requests, Burst, Byte, NoWord

VARIABLES
  state, sampled_port_index, active_port_index, cyc, req, bypass,
  r_state, host_buf, per_buf, r_index,
  ctl_ack, ctl_stall, ctl_data, served, ram,
  latched   \* history: the request the adapter latched last

vars == <<state, sampled_port_index, active_port_index, cyc, req, bypass,
          r_state, host_buf, per_buf, r_index,
          ctl_ack, ctl_stall, ctl_data, served, ram, latched>>

\* The adapter as the peripheral the multiplexer expects.
PerState ==
  IF per_buf.ack = 1 THEN "ack" ELSE IF r_state = "idle" THEN "idle" ELSE "busy"

Mux ==
  INSTANCE WbMux WITH per_state <- PerState, per_req <- latched

HostCyc == IF Mux!HostPortCyc THEN 1 ELSE 0

Ddr3 ==
  INSTANCE WideWbDdr3 WITH
    host_cyc <- HostCyc, host_req <- req[active_port_index]

ASSUME PathAssumption ==
  /\ PORTS_COUNT \in Nat \ {0}
  /\ Requests # {}
  /\ Burst \subseteq Nat
  /\ 0 \in Burst
  /\ 0 \in Byte
  /\ NoWord \notin [0 .. 3 -> Byte]

ASSUME RequestAssumption ==
  \A r \in Requests :
    /\ r.adr \in Burst \X (0 .. 7)
    /\ r.we \in {0, 1} /\ r.sel \subseteq 0 .. 3 /\ r.dat \in [0 .. 3 -> Byte]

-----------------------------------------------------------------------------
\* What every edge does besides the step of the multiplexer.
OthersEdge ==
  /\ Mux!HostsEdge
  /\ Ddr3!AdapterEdge
  /\ Ddr3!CtlEdge
  /\ latched' = IF r_state = "idle" /\ HostCyc = 1 THEN req[active_port_index] ELSE latched

Grant      == Mux!GrantPort /\ OthersEdge
SampleNext == Mux!SamplePort /\ OthersEdge
Transfer   == Mux!TransferPort /\ OthersEdge

Edge == Grant \/ SampleNext \/ Transfer

\* A clock edge with the board's reset high.
Reset ==
  /\ state' = "IDLE" /\ sampled_port_index' = 0 /\ active_port_index' = 0
  /\ cyc' = [p \in Mux!Ports |-> 0]
  /\ bypass' = [p \in Mux!Ports |-> 0]
  /\ Ddr3!ResetAdapter
  /\ UNCHANGED <<req, latched>>

Init ==
  /\ state = "IDLE" /\ sampled_port_index = 0 /\ active_port_index = 0
  /\ cyc = [p \in Mux!Ports |-> 0]
  /\ req \in [Mux!Ports -> Requests]
  /\ bypass = [p \in Mux!Ports |-> 0]
  /\ Ddr3!InitAdapter
  /\ latched \in Requests

Next == Edge \/ Reset

Spec == Init /\ [][Next]_vars

\* The clock runs, and the controller serves an access that stays on its bus,
\* with the stall released together with the ack (as the test bench of the
\* adapter says it does).
Fairness ==
  /\ WF_vars(Edge)
  /\ WF_vars(Edge /\ Ddr3!Serve /\ ctl_stall' = 0)

FairSpec == Spec /\ Fairness

-----------------------------------------------------------------------------
(* Properties.                                                             *)

\* Registers of the multiplexer and the adapter keep their types.
TypeOK ==
  /\ Mux!TypeOK
  /\ Ddr3!AdapterTypeOK

\* Adapter and controller are what the multiplexer was verified against: they
\* latch the request of the port on the bus, and answer it with an ack of one
\* clock before they look at the bus again.
AdapterIsPeripheral == Mux!Spec

\* The request of port p is the one the controller has served.
Performed(p) ==
  /\ state = "TX" /\ active_port_index = p
  /\ served = 1 \/ r_state = "wait1"

Found(p) ==
  IF ~Performed(p) \/ req[p].we = 1 THEN NoWord
  ELSE IF r_state = "wait1" THEN per_buf.rdt
  ELSE ctl_data[r_index]

Memory ==
  INSTANCE SharedMemory WITH
    Ports <- Mux!Ports, Adr <- Burst \X (0 .. 7), PowerUpWord <- [i \in 0 .. 3 |-> 0],
    phase <- [p \in Mux!Ports |->
                IF cyc[p] = 0 THEN "idle" ELSE IF Performed(p) THEN "done" ELSE "pending"],
    ask <- req,
    val <- [p \in Mux!Ports |-> Found(p)],
    mem <- [a \in Burst \X (0 .. 7) |-> ram[a[1]][a[2]]]

\* The hosts share one memory of words: every request takes effect exactly
\* once between its cyc and its ack, on its own word and bytes only, and loads
\* return what was last stored, although the adapter keeps stb high while it
\* waits, so that the controller may take the same access several times and
\* answer when the adapter no longer listens.
SharesOneMemory == Memory!Spec

\* No host waits for ever (unless the board is reset), whatever the controller
\* stalls and however many of its acks come while it stalls.
EveryHostServed == \A p \in Mux!Ports : cyc[p] = 1 ~> Mux!PerPortsAck(p) \/ cyc[p] = 0
=============================================================================
