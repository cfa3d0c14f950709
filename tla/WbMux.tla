------------------------------- MODULE WbMux --------------------------------
(***************************************************************************)
(* ip/wb/wb_mux.vhdl, architecture rtl_roundrobin: PORTS_COUNT Wishbone    *)
(* hosts share one peripheral bus.  In IDLE the multiplexer looks at one   *)
(* port per clock; a port whose cyc is high is connected (TX) until the    *)
(* peripheral acknowledges.  The board uses it twice: SERV's instruction   *)
(* and data bus, and SERV with the NOEL-V bridge in front of the DDR3.     *)
(*                                                                         *)
(* Everything is on one clock: an action is one rising edge, on which the  *)
(* multiplexer, every host and the peripheral step together, from the      *)
(* values before the edge.  Hosts and peripheral are the environment: a    *)
(* host holds cyc and its request until it sees ack and lowers cyc on that *)
(* edge (the bridge's WB_WAIT does, and a multiplexer in front of this     *)
(* one); the peripheral latches the request on its bus and acknowledges it *)
(* with an ack of one clock (mmreg_decoder, wide_wb_ddr3, bram).           *)
(***************************************************************************)
EXTENDS Naturals

CONSTANTS
  PORTS_COUNT,   \* number of host ports
  Requests       \* what a host can ask for (address, data, direction)

ASSUME MuxAssumption ==
  /\ PORTS_COUNT \in Nat \ {0}
  /\ Requests # {}

Ports == 0 .. PORTS_COUNT - 1

VARIABLES
  state, sampled_port_index, active_port_index,   \* the register q
  cyc, req,                                       \* host_ports
  per_state, per_req,                             \* the peripheral
  bypass   \* history: grants to other ports while this port was waiting

muxVars == <<state, sampled_port_index, active_port_index>>
vars == <<muxVars, cyc, req, per_state, per_req, bypass>>

-----------------------------------------------------------------------------
(* The wires through the multiplexer.                                      *)

\* host_port.cyc, as the peripheral sees it.
HostPortCyc == state = "TX" /\ cyc[active_port_index] = 1

\* per_port.ack and per_ports(p).ack.
PerPortAck == per_state = "ack"

\* Mutant: the ack is forwarded to every port.
AckToAll(p) == state = "TX" /\ PerPortAck

PerPortsAck(p) == state = "TX" /\ active_port_index = p /\ PerPortAck

-----------------------------------------------------------------------------
(* The hosts and the peripheral at a clock edge.                           *)

HostEdge(p) ==
  \/ cyc[p] = 1 /\ PerPortsAck(p) /\ cyc'[p] = 0 /\ req'[p] = req[p]
  \/ cyc[p] = 1 /\ ~PerPortsAck(p) /\ cyc'[p] = 1 /\ req'[p] = req[p]
  \/ cyc[p] = 0 /\ cyc'[p] = 0 /\ req'[p] = req[p]
  \/ cyc[p] = 0 /\ cyc'[p] = 1

HostsEdge ==
  /\ cyc' \in [Ports -> {0, 1}]
  /\ req' \in [Ports -> Requests]
  /\ \A p \in Ports : HostEdge(p)

PerEdge ==
  \/ /\ per_state = "idle" /\ HostPortCyc
     /\ per_state' = "busy"
     /\ per_req' = req[active_port_index]
  \/ /\ per_state = "idle" /\ ~HostPortCyc
     /\ UNCHANGED <<per_state, per_req>>
  \/ /\ per_state = "busy"
     /\ per_state' \in {"busy", "ack"}
     /\ UNCHANGED per_req
  \/ /\ per_state = "ack"
     /\ per_state' = "idle"
     /\ UNCHANGED per_req

\* The bypass count of a waiting port; g is the port granted on this edge.
Bypass(g) ==
  bypass' = [p \in Ports |->
               IF cyc[p] = 0 \/ p = g THEN 0
               ELSE IF g \in Ports THEN bypass[p] + 1 ELSE bypass[p]]

NoPort == PORTS_COUNT

-----------------------------------------------------------------------------
(* The multiplexer at a clock edge.                                        *)

\* Mutant: the sampled index advances with the grant, and skips a port.
GrantSkipsPort ==
  /\ state = "IDLE"
  /\ cyc[sampled_port_index] = 1
  /\ active_port_index' = sampled_port_index
  /\ state' = "TX"
  /\ sampled_port_index' = (sampled_port_index + PORTS_COUNT - 1) % PORTS_COUNT
  /\ Bypass(sampled_port_index)

\* IDLE, the sampled port wants the bus.
GrantPort ==
  /\ state = "IDLE"
  /\ cyc[sampled_port_index] = 1
  /\ active_port_index' = sampled_port_index
  /\ state' = "TX"
  /\ UNCHANGED sampled_port_index
  /\ Bypass(sampled_port_index)

\* Mutant: the last port is never sampled.
SampleWrapsEarly ==
  /\ state = "IDLE"
  /\ cyc[sampled_port_index] = 0
  /\ sampled_port_index' =
       IF sampled_port_index + 2 >= PORTS_COUNT THEN 0 ELSE sampled_port_index + 1
  /\ UNCHANGED <<state, active_port_index>>
  /\ Bypass(NoPort)

\* Mutant: the index wraps one port too late.
SampleWrapsLate ==
  /\ state = "IDLE"
  /\ cyc[sampled_port_index] = 0
  /\ sampled_port_index' =
       IF sampled_port_index = PORTS_COUNT THEN 0 ELSE sampled_port_index + 1
  /\ UNCHANGED <<state, active_port_index>>
  /\ Bypass(NoPort)

\* IDLE, it does not: look at the next one.
SamplePort ==
  /\ state = "IDLE"
  /\ cyc[sampled_port_index] = 0
  /\ sampled_port_index' =
       IF sampled_port_index = PORTS_COUNT - 1 THEN 0 ELSE sampled_port_index + 1
  /\ UNCHANGED <<state, active_port_index>>
  /\ Bypass(NoPort)

\* TX until the peripheral acknowledges.
TransferPort ==
  /\ state = "TX"
  /\ state' = IF PerPortAck THEN "IDLE" ELSE "TX"
  /\ UNCHANGED <<sampled_port_index, active_port_index>>
  /\ Bypass(NoPort)

\* The edge as hosts, multiplexer and peripheral take it together.
Grant      == GrantPort /\ HostsEdge /\ PerEdge
SampleNext == SamplePort /\ HostsEdge /\ PerEdge
Transfer   == TransferPort /\ HostsEdge /\ PerEdge

\* A clock edge with rst high, which resets hosts and peripheral alike.
Reset ==
  /\ state' = "IDLE"
  /\ sampled_port_index' = 0
  /\ active_port_index' = 0
  /\ cyc' = [p \in Ports |-> 0]
  /\ per_state' = "idle"
  /\ bypass' = [p \in Ports |-> 0]
  /\ UNCHANGED <<req, per_req>>

Init ==
  /\ state = "IDLE"
  /\ sampled_port_index = 0
  /\ active_port_index = 0
  /\ cyc = [p \in Ports |-> 0]
  /\ req \in [Ports -> Requests]
  /\ per_state = "idle"
  /\ per_req \in Requests
  /\ bypass = [p \in Ports |-> 0]

Edge == Grant \/ SampleNext \/ Transfer

Next == Edge \/ Reset

\* The clock runs, and the peripheral acknowledges what it has latched.
Fairness ==
  /\ WF_vars(Edge)
  /\ WF_vars(Edge /\ per_state = "busy" /\ per_state' = "ack")

Spec == Init /\ [][Next]_vars

FairSpec == Spec /\ Fairness

-----------------------------------------------------------------------------
(* Properties.                                                             *)

\* Registers, hosts, peripheral and counters keep their types.
TypeOK ==
  /\ state \in {"IDLE", "TX"}
  /\ sampled_port_index \in Ports
  /\ active_port_index \in Ports
  /\ cyc \in [Ports -> {0, 1}]
  /\ req \in [Ports -> Requests]
  /\ per_state \in {"idle", "busy", "ack"}
  /\ per_req \in Requests
  /\ bypass \in [Ports -> Nat]

\* While the peripheral works on a request or acknowledges it, the bus still
\* belongs to the host that made it, which still waits for it; and a host that
\* sees an ack sees the answer to what it asked for.  An answer never reaches
\* another host and never comes for a request that is gone.
OwnRequestAnswered ==
  /\ per_state # "idle" =>
       /\ state = "TX"
       /\ cyc[active_port_index] = 1
       /\ per_req = req[active_port_index]
  /\ \A p \in Ports : PerPortsAck(p) => cyc[p] = 1 /\ req[p] = per_req

\* Clocks until the sampled index reaches port p.
Distance(p) ==
  IF p >= sampled_port_index THEN p - sampled_port_index
  ELSE p + PORTS_COUNT - sampled_port_index

\* Why the arbitration is fair: each bypass of a waiting port is paid for by
\* a step of the sampled index towards it.
BypassInv ==
  /\ state = "TX" => /\ cyc[active_port_index] = 1
                     /\ active_port_index = sampled_port_index
                     /\ bypass[active_port_index] = 0
  /\ \A p \in Ports :
       /\ cyc[p] = 0 => bypass[p] = 0
       /\ IF state = "IDLE" /\ cyc[sampled_port_index] = 1
          THEN bypass[p] + Distance(p) + 1 <= PORTS_COUNT
          ELSE p # sampled_port_index => bypass[p] + Distance(p) <= PORTS_COUNT

\* Round robin: while a host waits, the bus is given to the others fewer times
\* in all than there are ports.
\* The index does not move on after a transfer (the code leaves that to the
\* next clock in IDLE), so this rests on the hosts' lowering cyc.
BoundedBypass == \A p \in Ports : bypass[p] < PORTS_COUNT

\* No host waits for ever: it is answered, unless the board is reset.
EveryHostServed == \A p \in Ports : cyc[p] = 1 ~> PerPortsAck(p) \/ cyc[p] = 0
=============================================================================
