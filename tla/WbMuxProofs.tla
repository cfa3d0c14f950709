---------------------------- MODULE WbMuxProofs -----------------------------
(***************************************************************************)
(* Proofs about the multiplexer for every number of ports, and about the   *)
(* memory path in which the wide adapter and the DDR3 controller take the  *)
(* place of its peripheral, for any hosts, bursts and requests.            *)
(***************************************************************************)
EXTENDS WbMux, TLAPS

\* The index arithmetic stays among the ports.
LEMMA NextIndexType ==
  ASSUME NEW i \in Ports
  PROVE  (IF i = PORTS_COUNT - 1 THEN 0 ELSE i + 1) \in Ports
  BY MuxAssumption DEF Ports

\* A step keeps registers, hosts, peripheral and counters in their types.
LEMMA TypeStep == TypeOK /\ [Next]_vars => TypeOK'
<1> SUFFICES ASSUME TypeOK, [Next]_vars PROVE TypeOK'
  OBVIOUS
<1>1. ASSUME NEW g, Bypass(g) PROVE bypass' \in [Ports -> Nat]
  BY <1>1 DEF Bypass, TypeOK
<1>2. ASSUME PerEdge
      PROVE  per_state' \in {"idle", "busy", "ack"} /\ per_req' \in Requests
  BY <1>2 DEF PerEdge, TypeOK
<1>3. CASE Grant
  BY <1>1, <1>2, <1>3 DEF Grant, GrantPort, HostsEdge, TypeOK
<1>4. CASE SampleNext
  BY <1>1, <1>2, <1>4, NextIndexType DEF SampleNext, SamplePort, HostsEdge, TypeOK
<1>5. CASE Transfer
  BY <1>1, <1>2, <1>5 DEF Transfer, TransferPort, HostsEdge, TypeOK
<1>6. CASE Reset
  BY <1>6, MuxAssumption DEF Reset, TypeOK, Ports
<1>7. CASE UNCHANGED vars
  BY <1>7 DEF vars, muxVars, TypeOK
<1>8. QED
  BY <1>3, <1>4, <1>5, <1>6, <1>7 DEF Next, Edge

\* Registers, hosts, peripheral and counters keep their types.
THEOREM TypeCorrect == Spec => []TypeOK
<1>1. Init => TypeOK
  BY MuxAssumption DEF Init, TypeOK, Ports
<1>2. QED
  BY <1>1, TypeStep, PTL DEF Spec

-----------------------------------------------------------------------------
(* Answers reach their own host.                                           *)

\* With the bus given away, its host waits; the peripheral is busy only then.
OwnerInv ==
  /\ per_state # "idle" =>
       /\ state = "TX"
       /\ cyc[active_port_index] = 1
       /\ per_req = req[active_port_index]
  /\ state = "TX" => cyc[active_port_index] = 1

\* The inductive step of the ownership of the bus.
LEMMA OwnerStep == TypeOK /\ OwnerInv /\ [Next]_vars => OwnerInv'
<1> SUFFICES ASSUME TypeOK, OwnerInv, [Next]_vars PROVE OwnerInv'
  OBVIOUS
<1> USE DEF OwnerInv
<1>1. CASE Grant
  <2>1. /\ state = "IDLE" /\ state' = "TX" /\ sampled_port_index \in Ports
        /\ cyc[sampled_port_index] = 1 /\ active_port_index' = sampled_port_index
    BY <1>1 DEF Grant, GrantPort, TypeOK
  <2>2. cyc'[sampled_port_index] = 1
    BY <1>1, <2>1 DEF Grant, GrantPort, HostsEdge, HostEdge, PerPortsAck
  <2>3. per_state' = "idle"
    BY <1>1, <2>1 DEF Grant, GrantPort, PerEdge, HostPortCyc
  <2>4. QED BY <2>1, <2>2, <2>3
<1>2. CASE SampleNext
  BY <1>2 DEF SampleNext, SamplePort, PerEdge, HostPortCyc, TypeOK
<1>3. CASE Transfer
  <2>1. /\ state = "TX" /\ active_port_index \in Ports
        /\ active_port_index' = active_port_index
        /\ cyc[active_port_index] = 1
    BY <1>3 DEF Transfer, TransferPort, TypeOK
  <2>2. CASE PerPortAck
    BY <1>3, <2>1, <2>2 DEF Transfer, TransferPort, PerEdge, PerPortAck
  <2>3. CASE ~PerPortAck
    <3>1. cyc'[active_port_index] = 1 /\ req'[active_port_index] = req[active_port_index]
      BY <1>3, <2>1, <2>3 DEF Transfer, TransferPort, HostsEdge, HostEdge, PerPortsAck
    <3>2. per_state' # "idle" => per_req' = req[active_port_index]
      BY <1>3, <2>1, <2>3 DEF Transfer, TransferPort, PerEdge, HostPortCyc
    <3>3. QED BY <1>3, <2>1, <2>3, <3>1, <3>2 DEF Transfer, TransferPort
  <2>4. QED BY <2>2, <2>3
<1>4. CASE Reset
  BY <1>4 DEF Reset
<1>5. CASE UNCHANGED vars
  BY <1>5 DEF vars, muxVars
<1>6. QED
  BY <1>1, <1>2, <1>3, <1>4, <1>5 DEF Next, Edge

\* An answer of the peripheral goes to the host whose request it latched.
THEOREM AnswersOwnHost == Spec => []OwnRequestAnswered
<1>1. Init => OwnerInv
  BY DEF Init, OwnerInv
<1>2. OwnerInv => OwnRequestAnswered
  BY DEF OwnerInv, OwnRequestAnswered, PerPortsAck, PerPortAck
<1>3. QED
  BY <1>1, <1>2, OwnerStep, TypeCorrect, PTL DEF Spec

-----------------------------------------------------------------------------
(* Round robin.                                                            *)

\* The inductive step of the bypass counts: a grant charges the waiting ports
\* one bypass, and the step to the next port that must follow pays for it.
LEMMA BypassStep == TypeOK /\ BypassInv /\ [Next]_vars => BypassInv'
<1> SUFFICES ASSUME TypeOK, BypassInv, [Next]_vars PROVE BypassInv'
  OBVIOUS
<1>a. /\ PORTS_COUNT \in Nat \ {0}
      /\ sampled_port_index \in Ports /\ active_port_index \in Ports
      /\ cyc \in [Ports -> {0, 1}] /\ bypass \in [Ports -> Nat]
      /\ state \in {"IDLE", "TX"}
  BY MuxAssumption DEF TypeOK
<1>1. CASE Grant
  <2>1. /\ state = "IDLE" /\ state' = "TX" /\ cyc[sampled_port_index] = 1
        /\ active_port_index' = sampled_port_index
        /\ sampled_port_index' = sampled_port_index
    BY <1>1 DEF Grant, GrantPort
  <2>2. cyc'[sampled_port_index] = 1
    BY <1>1, <1>a, <2>1 DEF Grant, GrantPort, HostsEdge, HostEdge, PerPortsAck
  <2>3. \A p \in Ports : bypass'[p] = IF cyc[p] = 0 \/ p = sampled_port_index
                                      THEN 0 ELSE bypass[p] + 1
    BY <1>1, <1>a DEF Grant, GrantPort, Bypass
  <2>4. \A p \in Ports : cyc'[p] = 0 => cyc[p] = 0
    BY <1>1, <1>a, <2>1 DEF Grant, GrantPort, HostsEdge, HostEdge, PerPortsAck
  <2>5. \A p \in Ports : bypass[p] + Distance(p) + 1 <= PORTS_COUNT
    BY <1>a, <2>1 DEF BypassInv
  <2>6. \A p \in Ports : p # sampled_port_index
                           => bypass'[p] + Distance(p) <= PORTS_COUNT
    <3> SUFFICES ASSUME NEW p \in Ports, p # sampled_port_index
                 PROVE  bypass'[p] + Distance(p) <= PORTS_COUNT
      OBVIOUS
    <3>1. Distance(p) \in Nat /\ bypass[p] \in Nat
      BY <1>a DEF Distance, Ports
    <3>2. bypass[p] + Distance(p) + 1 <= PORTS_COUNT
      BY <2>5
    <3>3. bypass'[p] = 0 \/ bypass'[p] = bypass[p] + 1
      BY <2>3
    <3>4. QED BY <1>a, <3>1, <3>2, <3>3
  <2>7. \A p \in Ports : Distance(p)' = Distance(p)
    BY <2>1 DEF Distance
  <2>8. \A p \in Ports : cyc'[p] = 0 => bypass'[p] = 0
    BY <2>3, <2>4
  <2>9. QED
    BY <1>a, <2>1, <2>2, <2>3, <2>6, <2>7, <2>8 DEF BypassInv
<1>2. CASE SampleNext
  <2>1. /\ state = "IDLE" /\ state' = "IDLE" /\ cyc[sampled_port_index] = 0
        /\ sampled_port_index' = IF sampled_port_index = PORTS_COUNT - 1
                                 THEN 0 ELSE sampled_port_index + 1
    BY <1>2 DEF SampleNext, SamplePort
  <2>2. \A p \in Ports : bypass'[p] = IF cyc[p] = 0 THEN 0 ELSE bypass[p]
    BY <1>2, <1>a DEF SampleNext, SamplePort, Bypass, NoPort, Ports
  <2>3. \A p \in Ports : cyc'[p] = 0 => cyc[p] = 0
    BY <1>2, <1>a, <2>1 DEF SampleNext, SamplePort, HostsEdge, HostEdge, PerPortsAck
  <2>4. \A p \in Ports : p # sampled_port_index
                           => bypass[p] + Distance(p) <= PORTS_COUNT
    BY <1>a, <2>1 DEF BypassInv
  <2>5. \A p \in Ports : p # sampled_port_index
                           => Distance(p)' + 1 = Distance(p)
    BY <1>a, <2>1 DEF Distance, Ports
  <2>6. \A p \in Ports : Distance(p)' \in Nat /\ Distance(p)' + 1 <= PORTS_COUNT
    BY <1>a, <2>1 DEF Distance, Ports
  <2>7. \A p \in Ports : bypass'[p] + Distance(p)' + 1 <= PORTS_COUNT
    <3> SUFFICES ASSUME NEW p \in Ports
                 PROVE  bypass'[p] + Distance(p)' + 1 <= PORTS_COUNT
      OBVIOUS
    <3>1. CASE cyc[p] = 0
      BY <1>a, <2>2, <2>6, <3>1
    <3>2. CASE cyc[p] # 0
      <4>1. p # sampled_port_index /\ bypass'[p] = bypass[p] /\ bypass[p] \in Nat
        BY <1>a, <2>1, <2>2, <3>2
      <4>2. Distance(p) = Distance(p)' + 1 /\ bypass[p] + Distance(p) <= PORTS_COUNT
        BY <2>4, <2>5, <4>1
      <4>3. QED BY <1>a, <2>6, <4>1, <4>2
    <3>3. QED BY <3>1, <3>2
  <2>8. \A p \in Ports : bypass'[p] \in Nat
    BY <1>a, <2>2
  <2>9. \A p \in Ports : bypass'[p] + Distance(p)' <= PORTS_COUNT
    BY <1>a, <2>6, <2>7, <2>8
  <2>10. QED
    BY <1>a, <2>1, <2>2, <2>3, <2>7, <2>9 DEF BypassInv
<1>3. CASE Transfer
  <2>1. /\ state = "TX" /\ state' \in {"IDLE", "TX"}
        /\ sampled_port_index' = sampled_port_index
        /\ active_port_index' = active_port_index
        /\ cyc[active_port_index] = 1
        /\ active_port_index = sampled_port_index
        /\ bypass[active_port_index] = 0
    BY <1>3 DEF Transfer, TransferPort, BypassInv
  <2>2. \A p \in Ports : bypass'[p] = IF cyc[p] = 0 THEN 0 ELSE bypass[p]
    BY <1>3, <1>a DEF Transfer, TransferPort, Bypass, NoPort, Ports
  <2>3. cyc'[active_port_index] = 1 <=> ~PerPortAck
    BY <1>3, <1>a, <2>1 DEF Transfer, TransferPort, HostsEdge, HostEdge, PerPortsAck
  <2>4. \A p \in Ports : cyc'[p] = 0 => cyc[p] = 0 \/ p = active_port_index
    BY <1>3, <1>a, <2>1 DEF Transfer, TransferPort, HostsEdge, HostEdge, PerPortsAck
  <2>5. \A p \in Ports : cyc'[p] = 0 => bypass'[p] = 0
    BY <1>a, <2>1, <2>2, <2>4
  <2>6. \A p \in Ports : p # sampled_port_index
                           => bypass[p] + Distance(p) <= PORTS_COUNT
    BY <1>a, <2>1 DEF BypassInv
  <2>7. \A p \in Ports : Distance(p)' = Distance(p) /\ Distance(p) \in Nat
    BY <1>a, <2>1 DEF Distance, Ports
  <2>8. \A p \in Ports : bypass'[p] <= bypass[p] /\ bypass'[p] \in Nat /\ bypass[p] \in Nat
    BY <1>a, <2>2
  <2>9. \A p \in Ports : p # sampled_port_index
                           => bypass'[p] + Distance(p)' <= PORTS_COUNT
    BY <1>a, <2>6, <2>7, <2>8
  <2>10. state' = "IDLE" => cyc'[sampled_port_index] # 1
    BY <1>3, <2>1, <2>3 DEF Transfer, TransferPort
  <2>11. state' = "TX" => cyc'[active_port_index] = 1
    BY <1>3, <2>1, <2>3 DEF Transfer, TransferPort
  <2>12. bypass'[active_port_index] = 0
    BY <1>a, <2>1, <2>2
  <2>13. QED
    BY <2>1, <2>5, <2>9, <2>10, <2>11, <2>12 DEF BypassInv
<1>4. CASE Reset
  <2>1. \A p \in Ports : bypass'[p] = 0 /\ cyc'[p] = 0
    BY <1>4 DEF Reset
  <2>2. \A p \in Ports : Distance(p)' \in Nat /\ Distance(p)' + 1 <= PORTS_COUNT
    BY <1>4, <1>a DEF Reset, Distance, Ports
  <2>3. state' = "IDLE" /\ sampled_port_index' \in Ports
    BY <1>4, <1>a DEF Reset, Ports
  <2>4. \A p \in Ports : bypass'[p] + Distance(p)' <= PORTS_COUNT
    BY <1>a, <2>1, <2>2
  <2>5. QED BY <2>1, <2>3, <2>4 DEF BypassInv
<1>5. CASE UNCHANGED vars
  BY <1>5 DEF vars, muxVars, BypassInv, Distance
<1>6. QED
  BY <1>1, <1>2, <1>3, <1>4, <1>5 DEF Next, Edge

\* For every number of ports, the bus is given to others fewer times than there
\* are ports while a host waits.
THEOREM RoundRobin == Spec => []BoundedBypass
<1>1. Init => BypassInv
  BY MuxAssumption DEF Init, BypassInv, Distance, Ports
<1>2. TypeOK /\ BypassInv => BoundedBypass
  <2> SUFFICES ASSUME TypeOK, BypassInv, NEW p \in Ports
               PROVE  bypass[p] < PORTS_COUNT
    BY DEF BoundedBypass
  <2>1. /\ PORTS_COUNT \in Nat \ {0} /\ bypass[p] \in Nat
        /\ sampled_port_index \in Ports
    BY MuxAssumption DEF TypeOK
  <2>2. Distance(p) \in Nat /\ (p # sampled_port_index => Distance(p) >= 1)
    BY <2>1 DEF Distance, Ports
  <2>3. CASE state = "IDLE" /\ cyc[sampled_port_index] = 1
    BY <2>1, <2>2, <2>3 DEF BypassInv
  <2>4. CASE ~(state = "IDLE" /\ cyc[sampled_port_index] = 1)
    <3>1. CASE p # sampled_port_index
      BY <2>1, <2>2, <2>4, <3>1 DEF BypassInv
    <3>2. CASE p = sampled_port_index
      <4>1. bypass[p] = 0
        BY <2>1, <2>4, <3>2 DEF BypassInv, TypeOK
      <4>2. QED BY <2>1, <4>1
    <3>3. QED BY <3>1, <3>2
  <2>5. QED BY <2>3, <2>4
<1>3. QED
  BY <1>1, <1>2, BypassStep, TypeCorrect, PTL DEF Spec

-----------------------------------------------------------------------------
(* The memory path: the multiplexer with the adapter and the controller in *)
(* the place of its peripheral, for any hosts, bursts and requests.        *)

CONSTANTS Burst, Byte, NoWord

VARIABLES
  r_state, host_buf, per_buf, r_index,
  ctl_ack, ctl_stall, ctl_data, served, ram, latched

Path == INSTANCE MemoryPath

\* What the path assumes of its constants.
Parameters == Path!PathAssumption /\ Path!RequestAssumption

Adapter == <<r_state, host_buf, per_buf, r_index>>
Word == [0 .. 3 -> Byte]
Wide == [0 .. 7 -> Word]
HostBuf == [cyc : {0, 1}, we : {0, 1}, adr : Burst, data : Wide, sel : SUBSET ((0 .. 7) \X (0 .. 3))]

\* A request on the wide bus: its word and its bytes at their place.
OnWideBus(r) ==
  [cyc |-> 1, we |-> r.we, adr |-> r.adr[1],
   data |-> [Path!Ddr3!ZeroBurst EXCEPT ![r.adr[2]] = r.dat],
   sel |-> {r.adr[2]} \X r.sel]

\* The burst after a store of r.
Merged(r, burst) ==
  [k \in 0 .. 7 |-> [i \in 0 .. 3 |-> IF k = r.adr[2] /\ i \in r.sel THEN r.dat[i] ELSE burst[k][i]]]

\* What a request is made of.
LEMMA RequestIs ==
  ASSUME Parameters, NEW r \in Requests
  PROVE  /\ r.adr[1] \in Burst /\ r.adr[2] \in 0 .. 7 /\ r.adr = <<r.adr[1], r.adr[2]>>
         /\ r.adr \in Burst \X (0 .. 7)
         /\ r.we \in {0, 1} /\ r.sel \subseteq 0 .. 3 /\ r.dat \in Word
  BY DEF Parameters, Path!RequestAssumption, Word

\* What the adapter and the controller start from.
LEMMA ZerosAre ==
  ASSUME Parameters
  PROVE  /\ Path!Ddr3!ZeroWord \in Word /\ Path!Ddr3!ZeroBurst \in Wide
         /\ Path!Ddr3!ZeroHost \in HostBuf /\ Path!Ddr3!ZeroHost.cyc = 0
         /\ Path!Ddr3!ZeroPer \in [rdt : Word \cup {NoWord}, ack : {0, 1}]
         /\ Path!Ddr3!ZeroPer.ack = 0
         /\ 0 \in Burst /\ NoWord \notin Word
<1>1. 0 \in Burst /\ 0 \in Byte /\ NoWord \notin Word
  BY DEF Parameters, Path!PathAssumption, Word
<1>2. Path!Ddr3!ZeroWord \in Word
  BY <1>1 DEF Path!Ddr3!ZeroWord, Path!Ddr3!Lane, Word
<1>3. Path!Ddr3!ZeroBurst \in Wide
  BY <1>2 DEF Path!Ddr3!ZeroBurst, Path!Ddr3!Index, Wide
<1>4. Path!Ddr3!ZeroHost \in HostBuf /\ Path!Ddr3!ZeroHost.cyc = 0
  BY <1>1, <1>3 DEF Path!Ddr3!ZeroHost, HostBuf
<1>5. /\ Path!Ddr3!ZeroPer \in [rdt : Word \cup {NoWord}, ack : {0, 1}]
      /\ Path!Ddr3!ZeroPer.ack = 0
  BY <1>2 DEF Path!Ddr3!ZeroPer
<1>6. QED BY <1>1, <1>2, <1>3, <1>4, <1>5

\* A request on the wide bus is typed, and masks the burst to what it stores.
LEMMA OnWideBusIs ==
  ASSUME Parameters, NEW r \in Requests
  PROVE  /\ OnWideBus(r) \in HostBuf /\ OnWideBus(r).cyc = 1
         /\ OnWideBus(r).we = r.we /\ OnWideBus(r).adr = r.adr[1]
         /\ \A k \in 0 .. 7, i \in 0 .. 3 :
              /\ <<k, i>> \in OnWideBus(r).sel <=> k = r.adr[2] /\ i \in r.sel
              /\ k = r.adr[2] => OnWideBus(r).data[k] = r.dat
<1>1. /\ r.adr[1] \in Burst /\ r.adr[2] \in 0 .. 7
      /\ r.we \in {0, 1} /\ r.sel \subseteq 0 .. 3 /\ r.dat \in Word
  BY RequestIs
<1> DEFINE k0 == r.adr[2]
           d == [Path!Ddr3!ZeroBurst EXCEPT ![k0] = r.dat]
           s == {k0} \X r.sel
<1>2. d \in Wide /\ d[k0] = r.dat
  BY <1>1, ZerosAre DEF Wide
<1>3. s \in SUBSET ((0 .. 7) \X (0 .. 3))
  BY <1>1
<1>4. \A k, i : <<k, i>> \in s <=> k = k0 /\ i \in r.sel
  OBVIOUS
<1>5. OnWideBus(r) = [cyc |-> 1, we |-> r.we, adr |-> r.adr[1], data |-> d, sel |-> s]
  BY DEF OnWideBus
<1> HIDE DEF d, s
<1>6. OnWideBus(r) \in HostBuf
  BY <1>1, <1>2, <1>3, <1>5 DEF HostBuf
<1>7. QED BY <1>2, <1>4, <1>5, <1>6


-----------------------------------------------------------------------------
(* What holds of the path between two edges.                               *)

PathTypes ==
  /\ state \in {"IDLE", "TX"} /\ sampled_port_index \in Ports /\ active_port_index \in Ports
  /\ cyc \in [Ports -> {0, 1}] /\ req \in [Ports -> Requests] /\ bypass \in [Ports -> Nat]
  /\ r_state \in {"idle", "read1", "wait1", "write1"} /\ latched \in Requests
  /\ host_buf \in HostBuf /\ per_buf \in [rdt : Word \cup {NoWord}, ack : {0, 1}]
  /\ r_index \in 0 .. 7 /\ ctl_ack \in {0, 1} /\ ctl_stall \in {0, 1} /\ served \in {0, 1}
  /\ ctl_data \in Wide /\ ram \in [Burst -> Wide]

\* The adapter works only for the port that has the bus, with its request on
\* the wide bus; what the controller has done for an earlier one is forgotten
\* when the next port gets the bus.
WideBusInv ==
  /\ state = "TX" => cyc[active_port_index] = 1
  /\ r_state # "idle" =>
       /\ state = "TX" /\ latched = req[active_port_index]
       /\ host_buf = OnWideBus(latched) /\ r_index = latched.adr[2]
  /\ r_state = "idle" => host_buf.cyc = 0 /\ (state = "TX" => served = 0)
  /\ r_state = "write1" => latched.we = 1
  /\ r_state = "read1" => latched.we = 0
  /\ per_buf.ack = 1 <=> r_state = "wait1"
  /\ ctl_ack = 1 => served = 1

\* A request that the controller has served may be served again: a store is in
\* memory already, and a load has found what memory still holds.
ServedInv ==
  /\ r_state = "wait1" =>
       /\ served = 1
       /\ per_buf.rdt = IF latched.we = 1 THEN NoWord ELSE ram[latched.adr[1]][latched.adr[2]]
  /\ r_state # "idle" /\ served = 1 =>
       IF latched.we = 1
       THEN Merged(latched, ram[latched.adr[1]]) = ram[latched.adr[1]]
       ELSE ctl_data = ram[latched.adr[1]]

PathInv == Parameters /\ PathTypes /\ WideBusInv /\ ServedInv

\* The types as the model states them.
LEMMA PathTypesAre == PathTypes => Path!TypeOK
<1> SUFFICES ASSUME PathTypes PROVE Path!TypeOK
  OBVIOUS
<1>1. Path!PerState \in {"idle", "busy", "ack"}
  BY DEF Path!PerState
<1>2. Path!Mux!TypeOK
  BY <1>1 DEF PathTypes, Path!Mux!TypeOK, Path!Mux!Ports, Ports
<1>3. Path!Ddr3!AdapterTypeOK
  BY DEF PathTypes, Path!Ddr3!AdapterTypeOK, Path!Ddr3!Word, Path!Ddr3!Index, Path!Ddr3!Lane,
         HostBuf, Wide, Word
<1>4. QED BY <1>2, <1>3 DEF Path!TypeOK

\* The initial states.
LEMMA PathInit == Parameters /\ Path!Init => PathInv
<1> SUFFICES ASSUME Parameters, Path!Init PROVE PathInv
  OBVIOUS
<1>1. /\ state = "IDLE" /\ sampled_port_index = 0 /\ active_port_index = 0
      /\ cyc = [p \in Ports |-> 0] /\ req \in [Ports -> Requests]
      /\ bypass = [p \in Ports |-> 0] /\ latched \in Requests
      /\ r_state = "idle" /\ host_buf = Path!Ddr3!ZeroHost /\ per_buf = Path!Ddr3!ZeroPer
      /\ r_index = 0 /\ ctl_ack = 0 /\ ctl_stall = 1 /\ served = 0
      /\ ctl_data = Path!Ddr3!ZeroBurst /\ ram = [b \in Burst |-> Path!Ddr3!ZeroBurst]
  BY DEF Path!Init, Path!Ddr3!InitAdapter, Path!Mux!Ports, Ports
<1>2. 0 \in Ports
  BY MuxAssumption DEF Ports
<1>3. PathTypes
  BY <1>1, <1>2, ZerosAre DEF PathTypes
<1>4. WideBusInv /\ ServedInv
  BY <1>1, ZerosAre DEF WideBusInv, ServedInv
<1>5. QED BY <1>3, <1>4 DEF PathInv

-----------------------------------------------------------------------------
(* What an edge does.                                                      *)

\* The multiplexer and the hosts.
LEMMA MuxDoes ==
  ASSUME PathInv, Path!Edge
  PROVE  /\ cyc' \in [Ports -> {0, 1}] /\ req' \in [Ports -> Requests]
         /\ bypass' \in [Ports -> Nat]
         /\ state' \in {"IDLE", "TX"} /\ sampled_port_index' \in Ports
         /\ active_port_index' \in Ports
         /\ state = "IDLE" /\ state' = "TX" => cyc[active_port_index'] = 1
         /\ state = "TX" => /\ active_port_index' = active_port_index
                            /\ state' = "IDLE" <=> r_state = "wait1"
         /\ \A p \in Ports :
              /\ cyc[p] = 1 /\ state = "TX" /\ active_port_index = p /\ r_state = "wait1" =>
                   cyc'[p] = 0
              /\ cyc[p] = 1 /\ ~(state = "TX" /\ active_port_index = p /\ r_state = "wait1") =>
                   cyc'[p] = 1
              /\ cyc[p] = 1 \/ cyc'[p] = 0 => req'[p] = req[p]
<1> USE DEF Path!Mux!Ports, Ports
<1>1. Path!Mux!PerPortAck <=> r_state = "wait1"
  BY DEF Path!Mux!PerPortAck, Path!PerState, PathInv, WideBusInv
<1>2. Path!Mux!HostsEdge
  BY DEF Path!Edge, Path!Grant, Path!SampleNext, Path!Transfer, Path!OthersEdge
<1>3. cyc' \in [Ports -> {0, 1}] /\ req' \in [Ports -> Requests]
  BY <1>2 DEF Path!Mux!HostsEdge
<1>4. ASSUME NEW p \in Ports
      PROVE  /\ cyc[p] = 1 /\ state = "TX" /\ active_port_index = p /\ r_state = "wait1" =>
                  cyc'[p] = 0
             /\ cyc[p] = 1 /\ ~(state = "TX" /\ active_port_index = p /\ r_state = "wait1") =>
                  cyc'[p] = 1
             /\ cyc[p] = 1 \/ cyc'[p] = 0 => req'[p] = req[p]
  <2>1. Path!Mux!HostEdge(p)
    BY <1>2 DEF Path!Mux!HostsEdge
  <2>2. QED BY <1>1, <2>1 DEF Path!Mux!HostEdge, Path!Mux!PerPortsAck
<1>5. ASSUME NEW g, Path!Mux!Bypass(g) PROVE bypass' \in [Ports -> Nat]
  BY <1>5 DEF Path!Mux!Bypass, PathInv, PathTypes
<1>6. CASE Path!Grant
  BY <1>1, <1>3, <1>4, <1>5, <1>6 DEF Path!Grant, Path!Mux!GrantPort, PathInv, PathTypes
<1>7. CASE Path!SampleNext
  BY <1>1, <1>3, <1>4, <1>5, <1>7, NextIndexType
     DEF Path!SampleNext, Path!Mux!SamplePort, PathInv, PathTypes
<1>8. CASE Path!Transfer
  BY <1>1, <1>3, <1>4, <1>5, <1>8 DEF Path!Transfer, Path!Mux!TransferPort, PathInv, PathTypes
<1>9. QED BY <1>6, <1>7, <1>8 DEF Path!Edge

\* The adapter.
LEMMA AdapterDoes ==
  ASSUME PathInv, Path!Edge
  PROVE  /\ r_state = "idle" /\ state = "IDLE" => UNCHANGED <<Adapter, latched>>
         /\ r_state = "idle" /\ state = "TX" =>
              /\ latched' = req[active_port_index] /\ host_buf' = OnWideBus(latched')
              /\ r_index' = latched'.adr[2] /\ per_buf' = per_buf
              /\ r_state' = IF latched'.we = 1 THEN "write1" ELSE "read1"
         /\ r_state \in {"read1", "write1"} =>
              /\ UNCHANGED <<latched, host_buf, r_index>>
              /\ \/ UNCHANGED <<r_state, per_buf>>
                 \/ /\ r_state' = "wait1" /\ ctl_ack = 1
                    /\ per_buf' = [rdt |-> IF r_state = "write1" THEN NoWord ELSE ctl_data[r_index],
                                   ack |-> 1]
         /\ r_state = "wait1" =>
              /\ latched' = latched /\ r_state' = "idle" /\ host_buf' = Path!Ddr3!ZeroHost
              /\ per_buf' = Path!Ddr3!ZeroPer /\ r_index' = 0
<1>1. /\ Path!Ddr3!AdapterEdge
      /\ latched' = IF r_state = "idle" /\ Path!HostCyc = 1 THEN req[active_port_index] ELSE latched
  BY DEF Path!Edge, Path!Grant, Path!SampleNext, Path!Transfer, Path!OthersEdge
<1>2. Path!HostCyc = 1 <=> state = "TX"
  BY DEF Path!HostCyc, Path!Mux!HostPortCyc, PathInv, WideBusInv
<1>3. Path!HostCyc \in {0, 1}
  BY DEF Path!HostCyc
<1>4. CASE r_state = "idle" /\ state = "IDLE"
  BY <1>1, <1>2, <1>4
     DEF Path!Ddr3!AdapterEdge, Path!Ddr3!Latch, Path!Ddr3!Idle, Path!Ddr3!Write1,
         Path!Ddr3!Read1, Path!Ddr3!Wait1, Path!Ddr3!adapterVars, Adapter
<1>5. CASE r_state = "idle" /\ state = "TX"
  <2>1. latched' = req[active_port_index]
    BY <1>1, <1>2, <1>5
  <2>2. Path!Ddr3!Latch
    BY <1>1, <1>2, <1>5
       DEF Path!Ddr3!AdapterEdge, Path!Ddr3!Idle, Path!Ddr3!Write1, Path!Ddr3!Read1, Path!Ddr3!Wait1
  <2>3. r_index' = latched'.adr[2] /\ per_buf' = per_buf
        /\ r_state' = IF latched'.we = 1 THEN "write1" ELSE "read1"
    BY <2>1, <2>2 DEF Path!Ddr3!Latch
  <2>4. host_buf' = OnWideBus(latched')
    BY <2>1, <2>2, <2>3 DEF Path!Ddr3!Latch, OnWideBus
  <2>5. QED BY <1>5, <2>1, <2>3, <2>4
<1>6. CASE r_state \in {"read1", "write1"}
  BY <1>1, <1>6
     DEF Path!Ddr3!AdapterEdge, Path!Ddr3!Latch, Path!Ddr3!Idle, Path!Ddr3!Write1,
         Path!Ddr3!Read1, Path!Ddr3!Wait1
<1>7. CASE r_state = "wait1"
  BY <1>1, <1>7
     DEF Path!Ddr3!AdapterEdge, Path!Ddr3!Latch, Path!Ddr3!Idle, Path!Ddr3!Write1,
         Path!Ddr3!Read1, Path!Ddr3!Wait1, Path!Ddr3!ToZeroState
<1>8. QED BY <1>4, <1>5, <1>6, <1>7 DEF PathInv, PathTypes

\* The controller serves what is on the wide bus, for the first time or again.
ServesLatched ==
  /\ ctl_ack' = 1 /\ served' = 1 /\ ctl_data' = ram[latched.adr[1]]
  /\ ram' = IF latched.we = 1
            THEN [ram EXCEPT ![latched.adr[1]] = Merged(latched, ram[latched.adr[1]])] ELSE ram

\* The controller.
LEMMA CtlDoes ==
  ASSUME PathInv, Path!Edge
  PROVE  /\ ctl_stall' \in {0, 1}
         /\ r_state = "idle" => ctl_ack' = 0 /\ served' = 0 /\ UNCHANGED <<ctl_data, ram>>
         /\ r_state # "idle" =>
              ServesLatched \/ (ctl_ack' = 0 /\ UNCHANGED <<served, ctl_data, ram>>)
<1>1. Path!Ddr3!CtlEdge
  BY DEF Path!Edge, Path!Grant, Path!SampleNext, Path!Transfer, Path!OthersEdge
<1>2. ctl_stall' \in {0, 1}
  BY <1>1 DEF Path!Ddr3!CtlEdge
<1>3. CASE r_state = "idle"
  <2>1. host_buf.cyc = 0
    BY <1>3 DEF PathInv, WideBusInv
  <2>2. QED BY <1>1, <1>2, <1>3, <2>1 DEF Path!Ddr3!CtlEdge, Path!Ddr3!Serve, Path!Ddr3!Busy
<1>4. CASE r_state # "idle"
  <2>1. latched \in Requests /\ host_buf = OnWideBus(latched) /\ Parameters
        /\ ram \in [Burst -> Wide]
    BY <1>4 DEF PathInv, WideBusInv, PathTypes
  <2>2. /\ host_buf.cyc = 1 /\ host_buf.we = latched.we /\ host_buf.adr = latched.adr[1]
        /\ \A k \in 0 .. 7, i \in 0 .. 3 :
             /\ <<k, i>> \in host_buf.sel <=> k = latched.adr[2] /\ i \in latched.sel
             /\ k = latched.adr[2] => host_buf.data[k] = latched.dat
    BY <2>1, OnWideBusIs
  <2>3. ASSUME NEW b PROVE Path!Ddr3!Masked(b) = Merged(latched, b)
    BY <2>2 DEF Path!Ddr3!Masked, Merged, Path!Ddr3!Index, Path!Ddr3!Lane
  <2>4. CASE Path!Ddr3!Serve
    <3>1. ctl_ack' = 1 /\ served' = 1 /\ ctl_data' = ram[latched.adr[1]]
      BY <2>2, <2>4 DEF Path!Ddr3!Serve
    <3>2. ram' = IF latched.we = 1
                 THEN [ram EXCEPT ![latched.adr[1]] = Path!Ddr3!Masked(ram[latched.adr[1]])] ELSE ram
      BY <2>2, <2>4 DEF Path!Ddr3!Serve
    <3>3. QED BY <1>2, <1>4, <2>3, <3>1, <3>2 DEF ServesLatched
  <2>5. CASE Path!Ddr3!Busy
    BY <1>2, <1>4, <2>2, <2>5 DEF Path!Ddr3!Busy
  <2>6. QED BY <1>1, <2>4, <2>5 DEF Path!Ddr3!CtlEdge
<1>5. QED BY <1>3, <1>4

-----------------------------------------------------------------------------
(* Every step keeps what holds.                                            *)

\* A store into a burst is typed, changes one word, and may be repeated.
LEMMA MergedIs ==
  ASSUME Parameters, NEW r \in Requests, NEW b \in Wide
  PROVE  /\ Merged(r, b) \in Wide /\ Merged(r, Merged(r, b)) = Merged(r, b)
         /\ \A k \in 0 .. 7 :
              Merged(r, b)[k] = IF k = r.adr[2]
                                THEN [i \in 0 .. 3 |-> IF i \in r.sel THEN r.dat[i] ELSE b[k][i]]
                                ELSE b[k]
<1>1. r.dat \in Word
  BY RequestIs
<1>2. \A k \in 0 .. 7, i \in 0 .. 3 : r.dat[i] \in Byte /\ b[k][i] \in Byte /\ b[k] \in Word
  BY <1>1 DEF Wide, Word
<1>3. Merged(r, b) \in Wide
  BY <1>2 DEF Merged, Wide, Word
<1>4. Merged(r, Merged(r, b)) = Merged(r, b)
  BY DEF Merged
<1>5. ASSUME NEW k \in 0 .. 7
      PROVE  Merged(r, b)[k] = IF k = r.adr[2]
                               THEN [i \in 0 .. 3 |-> IF i \in r.sel THEN r.dat[i] ELSE b[k][i]]
                               ELSE b[k]
  <2>1. CASE k = r.adr[2]
    BY <2>1 DEF Merged
  <2>2. CASE k # r.adr[2]
    <3>1. Merged(r, b)[k] = [i \in 0 .. 3 |-> b[k][i]]
      BY <2>2 DEF Merged
    <3>2. b[k] = [i \in 0 .. 3 |-> b[k][i]]
      BY <1>2 DEF Word
    <3>3. QED BY <2>2, <3>1, <3>2
  <2>3. QED BY <2>1, <2>2
<1>6. QED BY <1>3, <1>4, <1>5

\* What the controller has done, and the memory after it.
LEMMA CtlTypes ==
  ASSUME PathInv, Path!Edge
  PROVE  /\ ctl_ack' \in {0, 1} /\ ctl_stall' \in {0, 1} /\ served' \in {0, 1}
         /\ ctl_data' \in Wide /\ ram' \in [Burst -> Wide]
         /\ ctl_ack' = 1 => served' = 1
<1>1. /\ Parameters /\ latched \in Requests /\ ram \in [Burst -> Wide] /\ ctl_data \in Wide
      /\ served \in {0, 1}
  BY DEF PathInv, PathTypes
<1>2. latched.adr[1] \in Burst
  BY <1>1, RequestIs
<1>3. ram[latched.adr[1]] \in Wide
  BY <1>1, <1>2
<1>4. Merged(latched, ram[latched.adr[1]]) \in Wide
  BY <1>1, <1>3, MergedIs
<1>5. CASE r_state # "idle" /\ ServesLatched
  BY <1>1, <1>2, <1>3, <1>4, <1>5, CtlDoes DEF ServesLatched
<1>6. CASE ctl_ack' = 0 /\ served' \in {0, served} /\ UNCHANGED <<ctl_data, ram>>
  BY <1>1, <1>6, CtlDoes
<1>7. QED BY <1>5, <1>6, CtlDoes

\* The registers of the adapter.
LEMMA AdapterTypes ==
  ASSUME PathInv, Path!Edge
  PROVE  /\ latched' \in Requests /\ r_state' \in {"idle", "read1", "wait1", "write1"}
         /\ host_buf' \in HostBuf /\ per_buf' \in [rdt : Word \cup {NoWord}, ack : {0, 1}]
         /\ r_index' \in 0 .. 7
<1>1. /\ Parameters /\ latched \in Requests /\ ctl_data \in Wide /\ r_index \in 0 .. 7
      /\ req[active_port_index] \in Requests /\ state \in {"IDLE", "TX"}
      /\ host_buf \in HostBuf /\ per_buf \in [rdt : Word \cup {NoWord}, ack : {0, 1}]
      /\ r_state \in {"idle", "read1", "wait1", "write1"}
  BY DEF PathInv, PathTypes
<1>2. CASE r_state = "idle" /\ state = "IDLE"
  BY <1>1, <1>2, AdapterDoes DEF Adapter
<1>3. CASE r_state = "idle" /\ state = "TX"
  BY <1>1, <1>3, AdapterDoes, RequestIs, OnWideBusIs
<1>4. CASE r_state \in {"read1", "write1"}
  <2>1. ctl_data[r_index] \in Word
    BY <1>1 DEF Wide
  <2>2. QED BY <1>1, <1>4, <2>1, AdapterDoes
<1>5. CASE r_state = "wait1"
  BY <1>1, <1>5, AdapterDoes, ZerosAre
<1>6. QED BY <1>1, <1>2, <1>3, <1>4, <1>5

\* The bus is its owner's.
LEMMA WideBusStep ==
  ASSUME PathInv, Path!Edge
  PROVE  WideBusInv'
<1>1. /\ Parameters /\ latched \in Requests /\ state \in {"IDLE", "TX"}
      /\ req[active_port_index] \in Requests /\ active_port_index \in Ports
      /\ r_state \in {"idle", "read1", "wait1", "write1"} /\ cyc \in [Ports -> {0, 1}]
      /\ active_port_index' \in Ports /\ state' \in {"IDLE", "TX"}
      /\ WideBusInv /\ (ctl_ack' = 1 => served' = 1)
  BY MuxDoes, CtlTypes DEF PathInv, PathTypes
<1>2. state' = "TX" => /\ cyc'[active_port_index'] = 1
                       /\ req'[active_port_index'] = req[active_port_index']
  <2>1. CASE state = "IDLE"
    BY <1>1, <2>1, MuxDoes
  <2>2. CASE state = "TX"
    BY <1>1, <2>2, MuxDoes DEF WideBusInv
  <2>3. QED BY <1>1, <2>1, <2>2
<1>3. CASE r_state = "idle" /\ state = "IDLE"
  <2>1. UNCHANGED Adapter /\ served' = 0
    BY <1>3, AdapterDoes, CtlDoes
  <2>2. QED BY <1>1, <1>2, <1>3, <2>1 DEF WideBusInv, Adapter
<1>4. CASE r_state = "idle" /\ state = "TX"
  <2>1. /\ latched' = req[active_port_index] /\ host_buf' = OnWideBus(latched')
        /\ r_index' = latched'.adr[2] /\ per_buf' = per_buf
        /\ r_state' = IF latched'.we = 1 THEN "write1" ELSE "read1"
    BY <1>4, AdapterDoes
  <2>2. latched'.we \in {0, 1}
    BY <1>1, <2>1, RequestIs
  <2>3. state' = "TX" /\ active_port_index' = active_port_index
    BY <1>1, <1>4, MuxDoes
  <2>4. latched' = req'[active_port_index']
    BY <1>2, <2>1, <2>3
  <2>5. QED BY <1>1, <1>2, <1>4, <2>1, <2>2, <2>3, <2>4 DEF WideBusInv
<1>5. CASE r_state \in {"read1", "write1"}
  <2>1. /\ UNCHANGED <<latched, host_buf, r_index>>
        /\ \/ UNCHANGED <<r_state, per_buf>>
           \/ r_state' = "wait1" /\ per_buf'.ack = 1
    BY <1>5, AdapterDoes
  <2>2. state = "TX" /\ state' = "TX" /\ active_port_index' = active_port_index
    BY <1>1, <1>5, MuxDoes DEF WideBusInv
  <2>3. latched' = req'[active_port_index']
    BY <1>1, <1>2, <1>5, <2>1, <2>2 DEF WideBusInv
  <2>4. /\ host_buf' = OnWideBus(latched') /\ r_index' = latched'.adr[2]
    BY <1>1, <1>5, <2>1 DEF WideBusInv
  <2>5. QED BY <1>1, <1>2, <1>5, <2>1, <2>2, <2>3, <2>4 DEF WideBusInv
<1>6. CASE r_state = "wait1"
  <2>1. r_state' = "idle" /\ host_buf'.cyc = 0 /\ per_buf'.ack = 0
    BY <1>1, <1>6, AdapterDoes, ZerosAre
  <2>2. state' = "IDLE"
    BY <1>1, <1>6, MuxDoes DEF WideBusInv
  <2>3. QED BY <1>1, <2>1, <2>2 DEF WideBusInv
<1>7. QED BY <1>1, <1>3, <1>4, <1>5, <1>6

\* What has been served stays served.
LEMMA ServedStep ==
  ASSUME PathInv, Path!Edge
  PROVE  ServedInv'
<1> DEFINE a == latched.adr[1]
           k == latched.adr[2]
<1>1. /\ Parameters /\ latched \in Requests /\ state \in {"IDLE", "TX"}
      /\ r_state \in {"idle", "read1", "wait1", "write1"} /\ ram \in [Burst -> Wide]
      /\ WideBusInv /\ ServedInv /\ served \in {0, 1}
  BY DEF PathInv, PathTypes
<1>2. a \in Burst /\ ram[a] \in Wide /\ latched.we \in {0, 1}
  BY <1>1, RequestIs
<1>3. CASE r_state = "idle" /\ state = "IDLE"
  BY <1>3, AdapterDoes DEF ServedInv, Adapter
<1>4. CASE r_state = "idle" /\ state = "TX"
  <2>1. r_state' # "wait1" /\ served' = 0
    BY <1>4, AdapterDoes, CtlDoes
  <2>2. QED BY <2>1 DEF ServedInv
<1>5. CASE r_state = "wait1"
  <2>1. r_state' = "idle"
    BY <1>5, AdapterDoes
  <2>2. QED BY <2>1 DEF ServedInv
<1>6. CASE r_state \in {"read1", "write1"}
  <2>1. latched' = latched
    BY <1>6, AdapterDoes
  <2>2. /\ latched.we = 0 => ram' = ram
        /\ served' = 1 => IF latched.we = 1 THEN Merged(latched, ram'[a]) = ram'[a]
                          ELSE ctl_data' = ram'[a]
        /\ served = 1 => served' = 1
    <3>1. CASE ServesLatched
      <4>1. latched.we = 1 => ram'[a] = Merged(latched, ram[a])
        BY <1>1, <1>2, <3>1 DEF ServesLatched
      <4>2. Merged(latched, Merged(latched, ram[a])) = Merged(latched, ram[a])
        BY <1>1, <1>2, MergedIs
      <4>3. QED BY <1>2, <3>1, <4>1, <4>2 DEF ServesLatched
    <3>2. CASE UNCHANGED <<served, ctl_data, ram>>
      BY <1>1, <1>6, <3>2 DEF ServedInv
    <3>3. QED BY <1>6, <3>1, <3>2, CtlDoes
  <2>3. ASSUME r_state' = "wait1"
        PROVE  /\ served' = 1
               /\ per_buf'.rdt = IF latched.we = 1 THEN NoWord ELSE ram'[a][k]
    <3>1. /\ ctl_ack = 1
          /\ per_buf' = [rdt |-> IF r_state = "write1" THEN NoWord ELSE ctl_data[r_index], ack |-> 1]
      BY <1>6, <2>3, AdapterDoes
    <3>2. served = 1 /\ r_index = k /\ (r_state = "write1" <=> latched.we = 1)
      BY <1>1, <1>6, <3>1 DEF WideBusInv
    <3>3. latched.we = 0 => ctl_data = ram[a]
      BY <1>1, <1>6, <3>2 DEF ServedInv
    <3>4. per_buf'.rdt = IF r_state = "write1" THEN NoWord ELSE ctl_data[r_index]
      BY <3>1
    <3>5. QED BY <1>2, <2>2, <3>2, <3>3, <3>4
  <2>4. QED BY <2>1, <2>2, <2>3 DEF ServedInv
<1>7. QED BY <1>1, <1>3, <1>4, <1>5, <1>6

\* Every step of the path keeps the invariant.
LEMMA PathStep == PathInv /\ [Path!Next]_(Path!vars) => PathInv'
<1> SUFFICES ASSUME PathInv, [Path!Next]_(Path!vars) PROVE PathInv'
  OBVIOUS
<1>1. Parameters'
  BY DEF PathInv, Parameters, Path!PathAssumption, Path!RequestAssumption
<1>2. CASE Path!Edge
  <2>1. PathTypes'
    BY <1>2, MuxDoes, AdapterTypes, CtlTypes DEF PathTypes
  <2>2. QED BY <1>1, <1>2, <2>1, WideBusStep, ServedStep DEF PathInv
<1>3. CASE Path!Reset
  <2>1. /\ state' = "IDLE" /\ sampled_port_index' = 0 /\ active_port_index' = 0
        /\ cyc' = [p \in Ports |-> 0] /\ bypass' = [p \in Ports |-> 0]
        /\ req' = req /\ latched' = latched /\ ctl_data' = ctl_data /\ ram' = ram
        /\ r_state' = "idle" /\ host_buf' = Path!Ddr3!ZeroHost /\ per_buf' = Path!Ddr3!ZeroPer
        /\ r_index' = 0 /\ ctl_ack' = 0 /\ ctl_stall' = 1 /\ served' = 0
    BY <1>3 DEF Path!Reset, Path!Ddr3!ResetAdapter, Path!Ddr3!ToZeroState, Path!Mux!Ports, Ports
  <2>2. 0 \in Ports
    BY MuxAssumption DEF Ports
  <2>3. PathTypes'
    BY <2>1, <2>2, ZerosAre DEF PathInv, PathTypes
  <2>4. WideBusInv' /\ ServedInv'
    BY <2>1, ZerosAre DEF PathInv, WideBusInv, ServedInv
  <2>5. QED BY <1>1, <2>3, <2>4 DEF PathInv
<1>4. CASE UNCHANGED Path!vars
  <2>1. UNCHANGED <<state, sampled_port_index, active_port_index, cyc, req, bypass, r_state,
                    host_buf, per_buf, r_index, ctl_ack, ctl_stall, ctl_data, served, ram, latched>>
    BY <1>4 DEF Path!vars
  <2>2. QED BY <1>1, <2>1 DEF PathInv, PathTypes, WideBusInv, ServedInv
<1>5. QED BY <1>2, <1>3, <1>4 DEF Path!Next

\* The invariant holds in every state of the path.
LEMMA PathInvariant == Parameters /\ Path!Spec => []PathInv
  BY PathInit, PathStep, PTL DEF Path!Spec

\* Registers of multiplexer, adapter and controller keep their types, for any
\* hosts, bursts and requests.
THEOREM PathTypeCorrect == Parameters /\ Path!Spec => []Path!TypeOK
<1>1. PathInv => Path!TypeOK
  BY PathTypesAre DEF PathInv
<1>2. QED BY <1>1, PathInvariant, PTL

-----------------------------------------------------------------------------
(* The adapter and the controller are a peripheral of the multiplexer.     *)

\* An edge of the adapter is one of the peripheral.
LEMMA PeripheralStep ==
  ASSUME PathInv, Path!Edge
  PROVE  Path!Mux!PerEdge
<1>1. /\ r_state \in {"idle", "read1", "wait1", "write1"} /\ state \in {"IDLE", "TX"}
      /\ state = "TX" => cyc[active_port_index] = 1
      /\ per_buf.ack = 1 <=> r_state = "wait1"
      /\ per_buf'.ack = 1 <=> r_state' = "wait1"
  BY WideBusStep DEF PathInv, PathTypes, WideBusInv
<1>2. /\ Path!PerState = IF r_state = "wait1" THEN "ack" ELSE IF r_state = "idle" THEN "idle" ELSE "busy"
      /\ Path!PerState' = IF r_state' = "wait1" THEN "ack" ELSE IF r_state' = "idle" THEN "idle" ELSE "busy"
  BY <1>1 DEF Path!PerState
<1>3. CASE r_state = "idle" /\ state = "IDLE"
  <2>1. ~Path!Mux!HostPortCyc
    BY <1>3 DEF Path!Mux!HostPortCyc
  <2>2. r_state' = r_state /\ latched' = latched
    BY <1>3, AdapterDoes DEF Adapter
  <2>3. QED BY <1>2, <1>3, <2>1, <2>2 DEF Path!Mux!PerEdge
<1>4. CASE r_state = "idle" /\ state = "TX"
  <2>1. Path!Mux!HostPortCyc
    BY <1>1, <1>4 DEF Path!Mux!HostPortCyc
  <2>2. r_state' \in {"write1", "read1"} /\ latched' = req[active_port_index]
    BY <1>4, AdapterDoes
  <2>3. QED BY <1>2, <1>4, <2>1, <2>2 DEF Path!Mux!PerEdge
<1>5. CASE r_state \in {"read1", "write1"}
  <2>1. latched' = latched /\ (r_state' = r_state \/ r_state' = "wait1")
    BY <1>5, AdapterDoes
  <2>2. QED BY <1>2, <1>5, <2>1 DEF Path!Mux!PerEdge
<1>6. CASE r_state = "wait1"
  <2>1. latched' = latched /\ r_state' = "idle"
    BY <1>6, AdapterDoes
  <2>2. QED BY <1>2, <1>6, <2>1 DEF Path!Mux!PerEdge
<1>7. QED BY <1>1, <1>3, <1>4, <1>5, <1>6

\* Adapter and controller latch the request of the port on the bus and answer
\* it with an ack of one clock, however often the controller stalls, takes the
\* access again, or acknowledges it: what is proved of the multiplexer holds of
\* ram_mux on the board.
THEOREM PathIsPeripheral == Parameters /\ Path!Spec => Path!AdapterIsPeripheral
<1>1. Parameters /\ Path!Init => Path!Mux!Init
  <2> SUFFICES ASSUME Parameters, Path!Init PROVE Path!Mux!Init
    OBVIOUS
  <2>1. r_state = "idle" /\ per_buf.ack = 0
    BY ZerosAre DEF Path!Init, Path!Ddr3!InitAdapter
  <2>2. Path!PerState = "idle"
    BY <2>1 DEF Path!PerState
  <2>3. QED BY <2>2 DEF Path!Init, Path!Mux!Init
<1>2. PathInv /\ [Path!Next]_(Path!vars) => [Path!Mux!Next]_(Path!Mux!vars)
  <2> SUFFICES ASSUME PathInv, [Path!Next]_(Path!vars)
               PROVE  Path!Mux!Next \/ UNCHANGED Path!Mux!vars
    OBVIOUS
  <2>1. CASE Path!Edge
    <3>1. Path!Mux!PerEdge
      BY <2>1, PeripheralStep
    <3>2. CASE Path!Grant
      BY <3>1, <3>2 DEF Path!Grant, Path!OthersEdge, Path!Mux!Grant, Path!Mux!Next, Path!Mux!Edge
    <3>3. CASE Path!SampleNext
      BY <3>1, <3>3
         DEF Path!SampleNext, Path!OthersEdge, Path!Mux!SampleNext, Path!Mux!Next, Path!Mux!Edge
    <3>4. CASE Path!Transfer
      BY <3>1, <3>4
         DEF Path!Transfer, Path!OthersEdge, Path!Mux!Transfer, Path!Mux!Next, Path!Mux!Edge
    <3>5. QED BY <2>1, <3>2, <3>3, <3>4 DEF Path!Edge
  <2>2. CASE Path!Reset
    <3>1. r_state' = "idle" /\ per_buf' = Path!Ddr3!ZeroPer /\ Path!Ddr3!ZeroPer.ack = 0
      BY <2>2, ZerosAre DEF Path!Reset, Path!Ddr3!ResetAdapter, Path!Ddr3!ToZeroState, PathInv
    <3>2. Path!PerState' = "idle"
      BY <3>1 DEF Path!PerState
    <3>3. QED BY <2>2, <3>2 DEF Path!Reset, Path!Mux!Reset, Path!Mux!Next
  <2>3. CASE UNCHANGED Path!vars
    BY <2>3 DEF Path!vars, Path!Mux!vars, Path!Mux!muxVars, Path!PerState
  <2>4. QED BY <2>1, <2>2, <2>3 DEF Path!Next
<1>3. QED BY <1>1, <1>2, PathInvariant, PTL DEF Path!Spec, Path!AdapterIsPeripheral, Path!Mux!Spec

-----------------------------------------------------------------------------
(* The path implements one memory.                                         *)

\* The request of the port on the bus has been served.
Done(p) == r_state # "idle" /\ served = 1 /\ p = active_port_index

Phase(p) == IF cyc[p] = 0 THEN "idle" ELSE IF Path!Performed(p) THEN "done" ELSE "pending"
Phases == [p \in Ports |-> Phase(p)]
Vals == [p \in Ports |-> Path!Found(p)]
Mem == [a \in Burst \X (0 .. 7) |-> ram[a[1]][a[2]]]

\* What a port and its word look like to the abstract memory.
View(p) ==
  /\ Phase(p) = IF cyc[p] = 0 THEN "idle" ELSE IF Done(p) THEN "done" ELSE "pending"
  /\ Path!Found(p) = IF Done(p) /\ latched.we = 0
                     THEN ram[latched.adr[1]][latched.adr[2]] ELSE NoWord

\* A port that is served shows the word in memory, whatever register holds it.
LEMMA ViewIs == PathInv => \A p \in Ports : View(p)
<1> SUFFICES ASSUME PathInv, NEW p \in Ports PROVE View(p)
  OBVIOUS
<1>1. /\ r_state \in {"idle", "read1", "wait1", "write1"} /\ served \in {0, 1}
      /\ latched \in Requests /\ Parameters
  BY DEF PathInv, PathTypes
<1>2. latched.we \in {0, 1}
  BY <1>1, RequestIs
<1>3. Path!Performed(p) <=> Done(p)
  BY <1>1 DEF Path!Performed, Done, PathInv, WideBusInv, ServedInv
<1>4. ASSUME Done(p)
      PROVE  Path!Found(p) = IF latched.we = 0 THEN ram[latched.adr[1]][latched.adr[2]] ELSE NoWord
  <2>1. req[p] = latched /\ r_index = latched.adr[2] /\ r_state # "idle" /\ served = 1
    BY <1>4 DEF Done, PathInv, WideBusInv
  <2>2. Path!Found(p) = IF latched.we = 1 THEN NoWord
                        ELSE IF r_state = "wait1" THEN per_buf.rdt ELSE ctl_data[latched.adr[2]]
    BY <1>3, <1>4, <2>1 DEF Path!Found
  <2>3. /\ r_state = "wait1" /\ latched.we = 0 =>
             per_buf.rdt = ram[latched.adr[1]][latched.adr[2]]
        /\ latched.we = 0 => ctl_data = ram[latched.adr[1]]
    BY <2>1 DEF PathInv, ServedInv
  <2>4. QED BY <1>2, <2>2, <2>3
<1>5. ~Done(p) => Path!Found(p) = NoWord
  BY <1>3 DEF Path!Found
<1>6. QED BY <1>3, <1>4, <1>5 DEF View, Phase

\* The same after a step.
LEMMA ViewNext == PathInv' => (\A p \in Ports : View(p))'
  BY ViewIs, PTL

\* The abstract actions, of the phases, requests, words and memory of the path.
LEMMA AbstractIs ==
  ASSUME NEW p \in Ports
  PROVE  /\ Phase(p)' = Phase(p) /\ req'[p] = req[p] /\ Path!Found(p)' = Path!Found(p) =>
              Path!Memory!Stay(p)
         /\ Phase(p) = "idle" /\ Phase(p)' = "pending" /\ Path!Found(p)' = NoWord =>
              Path!Memory!Request(p)
         /\ Phase(p) = "done" /\ Phase(p)' = "idle" /\ req'[p] = req[p] /\ Path!Found(p)' = NoWord =>
              Path!Memory!Return(p)
  BY DEF Phase, Path!Memory!Stay, Path!Memory!Request, Path!Memory!Return, Path!Mux!Ports, Ports

\* A port whose request is not served on this edge, nor was before.
LEMMA WaitingPort ==
  ASSUME PathInv, PathInv', Path!Edge, NEW p \in Ports, ~Done(p), ~Done(p)'
  PROVE  Path!Memory!Stay(p) \/ Path!Memory!Request(p)
<1>1. View(p) /\ View(p)'
  BY ViewIs, ViewNext
<1>2. cyc[p] \in {0, 1} /\ cyc'[p] \in {0, 1}
  BY MuxDoes DEF PathInv, PathTypes
<1>3. ~(state = "TX" /\ active_port_index = p /\ r_state = "wait1")
  BY DEF Done, PathInv, ServedInv
<1>4. Path!Found(p) = NoWord /\ Path!Found(p)' = NoWord
  BY <1>1 DEF View
<1>5. CASE cyc[p] = 1
  BY <1>1, <1>3, <1>4, <1>5, MuxDoes, AbstractIs DEF View
<1>6. CASE cyc[p] = 0 /\ cyc'[p] = 0
  BY <1>1, <1>4, <1>6, MuxDoes, AbstractIs DEF View
<1>7. CASE cyc[p] = 0 /\ cyc'[p] = 1
  BY <1>1, <1>4, <1>7, AbstractIs DEF View
<1>8. QED BY <1>2, <1>5, <1>6, <1>7

\* The ports that do not have the bus wait, or do nothing.
LEMMA OtherPorts ==
  ASSUME PathInv, PathInv', Path!Edge, NEW p \in Ports,
         p # active_port_index \/ r_state = "idle"
  PROVE  Path!Memory!Stay(p) \/ Path!Memory!Request(p)
<1>1. ~Done(p)
  BY DEF Done
<1>2. ~Done(p)'
  <2>1. CASE r_state = "idle"
    BY <2>1, CtlDoes DEF Done
  <2>2. CASE r_state # "idle"
    <3>1. active_port_index' = active_port_index
      BY <2>2, MuxDoes DEF PathInv, WideBusInv
    <3>2. QED BY <2>2, <3>1 DEF Done
  <2>3. QED BY <2>1, <2>2
<1>3. QED BY <1>1, <1>2, WaitingPort

\* The memory after an edge: only the first time that a store is served changes
\* it, and then as a store of the abstract memory.
LEMMA MemoryAfter ==
  ASSUME PathInv, Path!Edge
  PROVE  /\ r_state = "idle" \/ served = 1 \/ ~ServesLatched => Mem' = Mem
         /\ r_state # "idle" /\ latched.we = 0 => ram' = ram
         /\ r_state # "idle" /\ ServesLatched /\ latched.we = 1 =>
              Mem' = [Mem EXCEPT ![latched.adr] =
                        [i \in 0 .. 3 |-> IF i \in latched.sel THEN latched.dat[i] ELSE @[i]]]
<1> DEFINE a == latched.adr[1]
           k == latched.adr[2]
<1>1. /\ Parameters /\ latched \in Requests /\ ram \in [Burst -> Wide] /\ WideBusInv /\ ServedInv
  BY DEF PathInv, PathTypes
<1>2. /\ a \in Burst /\ k \in 0 .. 7 /\ latched.adr = <<a, k>> /\ latched.adr \in Burst \X (0 .. 7)
      /\ latched.we \in {0, 1} /\ ram[a] \in Wide
  BY <1>1, RequestIs
<1>3. ASSUME ServesLatched, served = 1, r_state # "idle" PROVE ram' = ram
  <2>1. latched.we = 1 => Merged(latched, ram[a]) = ram[a]
    BY <1>1, <1>3 DEF ServedInv
  <2>2. [ram EXCEPT ![a] = ram[a]] = ram
    BY <1>1
  <2>3. QED BY <1>3, <2>1, <2>2 DEF ServesLatched
<1>4. r_state = "idle" \/ ~ServesLatched => ram' = ram
  BY CtlDoes
<1>5. ram' = ram => Mem' = Mem
  BY DEF Mem
<1>6. ASSUME r_state # "idle", ServesLatched, latched.we = 1
      PROVE  Mem' = [Mem EXCEPT ![latched.adr] =
                       [i \in 0 .. 3 |-> IF i \in latched.sel THEN latched.dat[i] ELSE @[i]]]
  <2>1. ram' = [ram EXCEPT ![a] = Merged(latched, ram[a])]
    BY <1>6 DEF ServesLatched
  <2>2. \A j \in 0 .. 7 :
          Merged(latched, ram[a])[j] =
            IF j = k THEN [i \in 0 .. 3 |-> IF i \in latched.sel THEN latched.dat[i] ELSE ram[a][j][i]]
            ELSE ram[a][j]
    BY <1>1, <1>2, MergedIs
  <2> DEFINE w == [i \in 0 .. 3 |-> IF i \in latched.sel THEN latched.dat[i] ELSE ram[a][k][i]]
  <2>3. \A j \in 0 .. 7 : Merged(latched, ram[a])[j] = IF j = k THEN w ELSE ram[a][j]
    BY <2>2
  <2>4. Mem[latched.adr] = ram[a][k]
    BY <1>2 DEF Mem
  <2>5. w = [i \in 0 .. 3 |-> IF i \in latched.sel THEN latched.dat[i] ELSE Mem[latched.adr][i]]
    BY <2>4
  <2> HIDE DEF w
  <2>6. ASSUME NEW x \in Burst, NEW j \in 0 .. 7
        PROVE  ram'[x][j] = IF x = a /\ j = k THEN w ELSE ram[x][j]
    BY <1>1, <1>2, <2>1, <2>3
  <2>7. ASSUME NEW c \in Burst \X (0 .. 7)
        PROVE  Mem'[c] = IF c = latched.adr THEN w ELSE Mem[c]
    <3>1. c[1] \in Burst /\ c[2] \in 0 .. 7 /\ c = <<c[1], c[2]>>
      OBVIOUS
    <3>2. c = latched.adr <=> c[1] = a /\ c[2] = k
      BY <1>2, <3>1
    <3>3. Mem'[c] = ram'[c[1]][c[2]] /\ Mem[c] = ram[c[1]][c[2]]
      BY DEF Mem
    <3>4. QED BY <2>6, <3>1, <3>2, <3>3
  <2>8. Mem' = [Mem EXCEPT ![latched.adr] = w]
    <3>1. /\ DOMAIN Mem = Burst \X (0 .. 7) /\ DOMAIN Mem' = Burst \X (0 .. 7)
          /\ Mem = [c \in Burst \X (0 .. 7) |-> Mem[c]] /\ Mem' = [c \in Burst \X (0 .. 7) |-> Mem'[c]]
      BY DEF Mem
    <3>2. QED BY <2>7, <3>1
  <2>9. QED BY <2>5, <2>8
<1>7. ASSUME r_state # "idle", latched.we = 0 PROVE ram' = ram
  BY <1>7, CtlDoes DEF ServesLatched
<1>8. QED BY <1>3, <1>4, <1>5, <1>6, <1>7

\* The port that has the bus is served, waits, or is answered.
LEMMA OwnerPort ==
  ASSUME PathInv, PathInv', Path!Edge, r_state # "idle",
         NEW p \in Ports, p = active_port_index
  PROVE  \/ /\ Mem' = Mem
            /\ \/ Path!Memory!Stay(p) \/ Path!Memory!Request(p)
               \/ Path!Memory!Return(p)
         \/ Path!Memory!Perform(p)
<1>1. /\ p \in Ports /\ cyc[p] = 1 /\ state = "TX" /\ latched = req[p] /\ latched \in Requests
      /\ Parameters /\ served \in {0, 1} /\ served' \in {0, 1}
      /\ r_state \in {"read1", "wait1", "write1"}
  BY CtlTypes DEF PathInv, PathTypes, WideBusInv
<1>2. View(p) /\ View(p)' /\ active_port_index' = p /\ req'[p] = req[p]
  <2>1. active_port_index' = p /\ req'[p] = req[p]
    BY <1>1, MuxDoes
  <2>2. QED BY <1>1, <2>1, ViewIs, ViewNext
<1>3. Phase(p) = IF served = 1 THEN "done" ELSE "pending"
  BY <1>1, <1>2 DEF View, Done
<1>4. CASE r_state = "wait1"
  <2>1. served = 1 /\ cyc'[p] = 0 /\ r_state' = "idle"
    BY <1>1, <1>4, MuxDoes, AdapterDoes DEF PathInv, ServedInv
  <2>2. Phase(p)' = "idle" /\ Path!Found(p)' = NoWord
    BY <1>2, <2>1 DEF View, Done
  <2>3. Mem' = Mem
    BY <2>1, MemoryAfter
  <2>4. QED BY <1>1, <1>2, <1>3, <2>1, <2>2, <2>3, AbstractIs
<1>5. CASE r_state \in {"read1", "write1"}
  <2>1. cyc'[p] = 1 /\ r_state' # "idle" /\ latched' = latched
    BY <1>1, <1>5, MuxDoes, AdapterDoes
  <2>2. Phase(p)' = IF served' = 1 THEN "done" ELSE "pending"
    BY <1>1, <1>2, <2>1 DEF View, Done
  <2>3. /\ Path!Found(p) = IF served = 1 /\ latched.we = 0
                           THEN ram[latched.adr[1]][latched.adr[2]] ELSE NoWord
        /\ Path!Found(p)' = IF served' = 1 /\ latched.we = 0
                            THEN ram'[latched.adr[1]][latched.adr[2]] ELSE NoWord
    BY <1>1, <1>2, <2>1 DEF View, Done
  <2>4. latched.we = 0 => ram' = ram
    BY <1>1, MemoryAfter
  <2>5. CASE served = 1 \/ ~ServesLatched
    <3>1. served' = served
      BY <1>1, <2>5, CtlDoes DEF ServesLatched
    <3>2. Mem' = Mem
      BY <2>5, MemoryAfter
    <3>3. QED BY <1>1, <1>2, <1>3, <2>2, <2>3, <2>4, <3>1, <3>2, AbstractIs
  <2>6. CASE served # 1 /\ ServesLatched
    <3>1. served' = 1
      BY <2>6 DEF ServesLatched
    <3>2. Phase(p) = "pending" /\ Phase(p)' = "done"
      BY <1>3, <2>2, <2>6, <3>1
    <3>3. latched.we \in {0, 1} /\ latched.adr \in Burst \X (0 .. 7)
      BY <1>1, RequestIs
    <3>4. CASE latched.we = 1
      <4>1. Path!Found(p)' = NoWord
        BY <2>3, <3>4
      <4>2. Mem' = [Mem EXCEPT ![req[p].adr] =
                      [i \in 0 .. 3 |-> IF i \in req[p].sel THEN req[p].dat[i] ELSE @[i]]]
        BY <1>1, <2>6, <3>4, MemoryAfter
      <4>3. QED BY <1>1, <1>2, <3>2, <3>4, <4>1, <4>2
                DEF Path!Memory!Perform, Path!Memory!Stored, Mem, Phase, Path!Mux!Ports, Ports
    <3>5. CASE latched.we = 0
      <4>1. Path!Found(p)' = Mem[req[p].adr]
        BY <1>1, <2>3, <2>4, <3>1, <3>3, <3>5 DEF Mem
      <4>2. Mem' = Mem
        BY <1>1, <2>4, <3>5 DEF Mem
      <4>3. QED BY <1>1, <1>2, <3>2, <3>5, <4>1, <4>2
                DEF Path!Memory!Perform, Mem, Phase, Path!Mux!Ports, Ports
    <3>6. QED BY <3>3, <3>4, <3>5
  <2>7. QED BY <2>5, <2>6
<1>6. QED BY <1>1, <1>4, <1>5

\* An edge of the path is one of the abstract memory.
LEMMA MemoryEdge ==
  ASSUME PathInv, PathInv', Path!Edge
  PROVE  Path!Memory!Edge
<1>1. ASSUME NEW p \in Ports, p # active_port_index \/ r_state = "idle"
      PROVE  Path!Memory!Stay(p) \/ Path!Memory!Request(p) \/ Path!Memory!Return(p)
  BY <1>1, OtherPorts
<1>2. req' \in [Ports -> Requests]
  BY MuxDoes
<1>3. CASE r_state = "idle"
  <2>1. Mem' = Mem
    BY <1>3, MemoryAfter
  <2>2. QED BY <1>1, <1>2, <1>3, <2>1 DEF Path!Memory!Edge, Mem, Path!Mux!Ports, Ports
<1>4. CASE r_state # "idle"
  <2>1. PICK p \in Ports : p = active_port_index
    BY DEF PathInv, PathTypes
  <2>2. CASE /\ Mem' = Mem
             /\ \/ Path!Memory!Stay(p) \/ Path!Memory!Request(p) \/ Path!Memory!Return(p)
    <3>1. \A q \in Ports : Path!Memory!Stay(q) \/ Path!Memory!Request(q) \/ Path!Memory!Return(q)
      BY <1>1, <2>1, <2>2
    <3>2. QED BY <1>2, <2>2, <3>1 DEF Path!Memory!Edge, Mem, Path!Mux!Ports, Ports
  <2>3. CASE Path!Memory!Perform(p)
    <3>1. \A q \in Ports \ {p} :
            Path!Memory!Stay(q) \/ Path!Memory!Request(q) \/ Path!Memory!Return(q)
      BY <1>1, <2>1
    <3>2. QED BY <1>2, <2>1, <2>3, <3>1 DEF Path!Memory!Edge, Path!Mux!Ports, Ports
  <2>4. QED BY <1>4, <2>1, <2>2, <2>3, OwnerPort
<1>5. QED BY <1>3, <1>4

\* Hosts, multiplexer, adapter and controller together are one memory of words:
\* every request takes effect once, on its own bytes, and a load finds what was
\* last stored, for any number of hosts, any bursts and requests, and however
\* often the controller serves an access again (wide_wb_ddr3.vhdl:73-125).
THEOREM PathIsMemory == Parameters /\ Path!Spec => Path!SharesOneMemory
<1>1. Parameters /\ Path!Init => Path!Memory!Init
  <2> SUFFICES ASSUME Parameters, Path!Init PROVE Path!Memory!Init
    OBVIOUS
  <2>1. PathInv
    BY PathInit
  <2>2. /\ cyc = [p \in Ports |-> 0] /\ req \in [Ports -> Requests]
        /\ r_state = "idle" /\ ram = [b \in Burst |-> Path!Ddr3!ZeroBurst]
    BY DEF Path!Init, Path!Ddr3!InitAdapter, Path!Mux!Ports, Ports
  <2>3. \A p \in Ports : Phase(p) = "idle" /\ Path!Found(p) = NoWord
    BY <2>1, <2>2, ViewIs DEF View, Done
  <2>4. Mem = [a \in Burst \X (0 .. 7) |-> [i \in 0 .. 3 |-> 0]]
    BY <2>2 DEF Mem, Path!Ddr3!ZeroBurst, Path!Ddr3!ZeroWord, Path!Ddr3!Index, Path!Ddr3!Lane
  <2>5. Phases = [p \in Ports |-> "idle"] /\ Vals = [p \in Ports |-> NoWord]
    BY <2>3 DEF Phases, Vals
  <2>6. QED BY <2>2, <2>4, <2>5 DEF Path!Memory!Init, Phases, Vals, Mem, Phase, Path!Mux!Ports, Ports
<1>2. PathInv /\ PathInv' /\ [Path!Next]_(Path!vars) => [Path!Memory!Next]_(Path!Memory!memVars)
  <2> SUFFICES ASSUME PathInv, PathInv', [Path!Next]_(Path!vars)
               PROVE  Path!Memory!Next \/ UNCHANGED Path!Memory!memVars
    OBVIOUS
  <2>1. CASE Path!Edge
    BY <2>1, MemoryEdge DEF Path!Memory!Next
  <2>2. CASE Path!Reset
    <3>1. /\ cyc' = [p \in Ports |-> 0] /\ req' = req /\ ram' = ram /\ r_state' = "idle"
      BY <2>2 DEF Path!Reset, Path!Ddr3!ResetAdapter, Path!Ddr3!ToZeroState, Path!Mux!Ports, Ports
    <3>2. \A p \in Ports : Phase(p)' = "idle" /\ Path!Found(p)' = NoWord
      BY <3>1, ViewNext DEF View, Done
    <3>3. Phases' = [p \in Ports |-> "idle"] /\ Vals' = [p \in Ports |-> NoWord] /\ Mem' = Mem
      BY <3>1, <3>2 DEF Phases, Vals, Mem
    <3>4. QED BY <3>1, <3>3
              DEF Path!Memory!Next, Path!Memory!Reset, Phases, Vals, Mem, Phase, Path!Mux!Ports, Ports
  <2>3. CASE UNCHANGED Path!vars
    BY <2>3 DEF Path!vars, Path!Memory!memVars, Path!Performed, Path!Found
  <2>4. QED BY <2>1, <2>2, <2>3 DEF Path!Next
<1>3. QED BY <1>1, <1>2, PathInvariant, PTL DEF Path!Spec, Path!SharesOneMemory, Path!Memory!Spec
=============================================================================
