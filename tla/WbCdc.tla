------------------------------- MODULE WbCdc -------------------------------
(***************************************************************************)
(* ip/general/wb_cdc.vhdl: a Wishbone bus taken from a host clock to a     *)
(* peripheral clock by a four-phase handshake: host_req rises, per_ack     *)
(* rises, host_req falls, per_ack falls, each seen by the other side       *)
(* through three flip-flops.  The clocks are independent: HostEdge and     *)
(* PerEdge are rising edges in any order and number.                       *)
(*                                                                         *)
(* A synchronizer is the sequence of its flip-flops, the one that is read  *)
(* last: <<q(0), q(1), sync>>.                                             *)
(***************************************************************************)
EXTENDS Naturals, Sequences

CONSTANTS
  Adr, Byte,          \* word addresses, and byte values with 0
  Requests,           \* records of adr, we, sel and dat
  NoWord              \* don't care

VARIABLES
  host_cyc, host_i,                                \* the host's bus: cyc, and the rest
  host_state, host_buf, host_req, host_ack_q, host_ack, host_rdt,
  per_state, per_req_q, per_ack, per_rdt, per_o,
  per_i_ack, per_i_rdt, mem                        \* the peripheral

hostVars == <<host_state, host_buf, host_req, host_ack_q, host_ack, host_rdt>>
perVars  == <<per_state, per_req_q, per_ack, per_rdt, per_o>>
slaveVars == <<per_i_ack, per_i_rdt, mem>>
busVars  == <<host_cyc, host_i>>
vars     == <<busVars, hostVars, perVars, slaveVars>>

Lane == 0 .. 3
Word == [Lane -> Byte]
ZeroWord == [i \in Lane |-> 0]

ASSUME CdcAssumption ==
  /\ 0 \in Byte
  /\ Requests \subseteq [adr : Adr, we : {0, 1}, sel : SUBSET Lane, dat : Word]

\* A request on a bus.
Bus(c, r) == [cyc |-> c, adr |-> r.adr, we |-> r.we, sel |-> r.sel, dat |-> r.dat]

Shift(q, bit) == <<bit, q[1], q[2]>>
Sync(q) == q[3]
Low == <<0, 0, 0>>

-----------------------------------------------------------------------------
(* Host side.                                                              *)

HostIdle ==
  /\ host_state = "IDLE"
  /\ host_ack' = 0
  /\ IF host_cyc = 1
     THEN host_buf' = host_i /\ host_req' = 1 /\ host_state' = "REQ"
     ELSE UNCHANGED <<host_buf, host_req, host_state>>
  /\ UNCHANGED host_rdt

\* Mutant: the request stays up after its answer.
HostReqHeld ==
  /\ host_state = "REQ"
  /\ IF Sync(host_ack_q) = 1
     THEN host_ack' = 1 /\ host_rdt' = per_rdt /\ host_state' = "WAIT_ACK_LOW"
     ELSE UNCHANGED <<host_ack, host_rdt, host_state>>
  /\ UNCHANGED <<host_buf, host_req>>

HostReq ==
  /\ host_state = "REQ"
  /\ IF Sync(host_ack_q) = 1
     THEN host_ack' = 1 /\ host_rdt' = per_rdt /\ host_req' = 0 /\ host_state' = "WAIT_ACK_LOW"
     ELSE UNCHANGED <<host_ack, host_rdt, host_req, host_state>>
  /\ UNCHANGED host_buf

\* Mutant: the host side is idle again as soon as it has answered.
HostWaitAckLowSkipped ==
  /\ host_state = "WAIT_ACK_LOW"
  /\ host_ack' = 0
  /\ host_state' = "IDLE"
  /\ UNCHANGED <<host_buf, host_req, host_rdt>>

HostWaitAckLow ==
  /\ host_state = "WAIT_ACK_LOW"
  /\ host_ack' = Sync(host_ack_q)
  /\ host_state' = IF Sync(host_ack_q) = 0 THEN "IDLE" ELSE host_state
  /\ UNCHANGED <<host_buf, host_req, host_rdt>>

HostSide ==
  /\ host_ack_q' = Shift(host_ack_q, per_ack)
  /\ HostIdle \/ HostReq \/ HostWaitAckLow

-----------------------------------------------------------------------------
(* Peripheral side.                                                        *)

PerIdle ==
  /\ per_state = "IDLE"
  /\ IF Sync(per_req_q) = 1
     THEN per_o' = Bus(1, host_buf) /\ per_state' = "START"
     ELSE per_o' = [per_o EXCEPT !.cyc = 0] /\ UNCHANGED per_state
  /\ UNCHANGED <<per_ack, per_rdt>>

\* Mutant: an answer leads to the state that only its declaration mentions.
PerStartDone ==
  /\ per_state = "START"
  /\ per_o' = [per_o EXCEPT !.cyc = 1 - per_i_ack]
  /\ IF per_i_ack = 1
     THEN per_rdt' = per_i_rdt /\ per_ack' = 1 /\ per_state' = "DONE"
     ELSE UNCHANGED <<per_rdt, per_ack, per_state>>

PerStart ==
  /\ per_state = "START"
  /\ per_o' = [per_o EXCEPT !.cyc = 1 - per_i_ack]
  /\ IF per_i_ack = 1
     THEN per_rdt' = per_i_rdt /\ per_ack' = 1 /\ per_state' = "WAIT"
     ELSE UNCHANGED <<per_rdt, per_ack, per_state>>

\* Mutant: the wait for the request to fall is left out.
PerWaitSkipped ==
  /\ per_state = "WAIT"
  /\ per_o' = [per_o EXCEPT !.cyc = 0]
  /\ per_ack' = 0 /\ per_state' = "IDLE"
  /\ UNCHANGED per_rdt

PerWait ==
  /\ per_state = "WAIT"
  /\ per_o' = [per_o EXCEPT !.cyc = 0]
  /\ IF Sync(per_req_q) = 0
     THEN per_ack' = 0 /\ per_state' = "IDLE"
     ELSE UNCHANGED <<per_ack, per_state>>
  /\ UNCHANGED per_rdt

PerSide ==
  /\ per_req_q' = Shift(per_req_q, host_req)
  /\ PerIdle \/ PerStart \/ PerWait

-----------------------------------------------------------------------------
InitCdc ==
  /\ host_state = "IDLE" /\ host_req = 0 /\ host_ack_q = Low /\ host_ack = 0
  /\ per_state = "IDLE" /\ per_req_q = Low /\ per_ack = 0

\* rst resets both sides at once, whatever the clocks do.  It also clears the
\* fields of the two buses, which nobody reads while cyc and ack are low.
ResetCdc ==
  /\ host_state' = "IDLE" /\ host_req' = 0 /\ host_ack_q' = Low /\ host_ack' = 0
  /\ host_rdt' = host_rdt
  /\ per_state' = "IDLE" /\ per_req_q' = Low /\ per_ack' = 0
  /\ per_o' = [per_o EXCEPT !.cyc = 0]
  /\ UNCHANGED <<host_buf, per_rdt>>

-----------------------------------------------------------------------------
(* What is on the two buses.                                               *)

\* The host holds its request until it sees ack, then lowers cyc, and raises
\* it again when ack is low.
HostBusEdge ==
  IF host_cyc = 1
  THEN host_cyc' = 1 - host_ack /\ UNCHANGED host_i
  ELSE \/ UNCHANGED busVars
       \/ /\ host_ack = 0
          /\ host_cyc' = 1 /\ host_i' \in Requests

\* The peripheral acknowledges a bus cycle with a pulse, after any time.
SlaveWaits ==
  /\ per_i_ack' = 0
  /\ UNCHANGED <<per_i_rdt, mem>>

Stored ==
  [mem EXCEPT ![per_o.adr] = [i \in Lane |-> IF i \in per_o.sel THEN per_o.dat[i] ELSE @[i]]]

SlaveServes ==
  /\ per_o.cyc = 1 /\ per_i_ack = 0
  /\ per_i_ack' = 1
  /\ per_i_rdt' = mem[per_o.adr]
  /\ mem' = IF per_o.we = 1 THEN Stored ELSE mem

SlaveEdge == SlaveWaits \/ SlaveServes

-----------------------------------------------------------------------------
Init ==
  /\ InitCdc
  /\ host_cyc = 0 /\ host_i \in Requests /\ host_buf = host_i
  /\ per_o = Bus(0, host_i)
  /\ host_rdt = ZeroWord /\ per_rdt = ZeroWord
  /\ per_i_ack = 0 /\ per_i_rdt = ZeroWord /\ mem = [a \in Adr |-> ZeroWord]

HostEdge == HostBusEdge /\ HostSide /\ UNCHANGED <<perVars, slaveVars>>
PerEdge  == PerSide /\ SlaveEdge /\ UNCHANGED <<busVars, hostVars>>

\* The host and the peripheral are reset together with the bridge.
Reset ==
  /\ ResetCdc
  /\ host_cyc' = 0 /\ per_i_ack' = 0
  /\ UNCHANGED <<host_i, per_i_rdt, mem>>

Next == HostEdge \/ PerEdge \/ Reset

Spec == Init /\ [][Next]_vars

\* Both clocks run, and the peripheral answers what is on its bus.
Fairness ==
  /\ WF_vars(HostEdge)
  /\ WF_vars(PerEdge)
  /\ WF_vars(PerEdge /\ SlaveServes)

FairSpec == Spec /\ Fairness

-----------------------------------------------------------------------------
(* Properties.                                                             *)

Bit == {0, 1}
BusType == [cyc : Bit, adr : Adr, we : Bit, sel : SUBSET Lane, dat : Word]

\* Registers and buses keep their types.
TypeOK ==
  /\ host_state \in {"IDLE", "REQ", "WAIT_ACK_LOW"}
  /\ host_cyc \in Bit /\ host_i \in Requests /\ host_buf \in Requests
  /\ host_req \in Bit /\ host_ack_q \in Bit \X Bit \X Bit
  /\ host_ack \in Bit /\ host_rdt \in Word
  /\ per_state \in {"IDLE", "START", "WAIT"}
  /\ per_req_q \in Bit \X Bit \X Bit /\ per_ack \in Bit /\ per_rdt \in Word
  /\ per_o \in BusType
  /\ per_i_ack \in Bit /\ per_i_rdt \in Word /\ mem \in [Adr -> Word]

\* Only the handshake crosses through synchronizers; request and read data are
\* copied from the other clock's registers, and must stand still then: the
\* host side waits in REQ when the request is copied, the peripheral side in
\* WAIT when the answer is.
CrossingDataStable ==
  /\ per_state = "IDLE" /\ Sync(per_req_q) = 1 => host_state = "REQ"
  /\ host_state = "REQ" /\ Sync(host_ack_q) = 1 => per_state = "WAIT"

\* The peripheral has served the request that is on the host's bus.
Performed ==
  \/ host_ack = 1
  \/ host_state = "REQ" /\ (per_ack = 1 \/ (per_state = "START" /\ per_i_ack = 1))

Found ==
  IF host_cyc = 0 \/ ~Performed \/ host_i.we = 1 THEN NoWord
  ELSE IF host_ack = 1 THEN host_rdt
  ELSE IF per_ack = 1 THEN per_rdt ELSE per_i_rdt

Memory ==
  INSTANCE SharedMemory WITH
    Ports <- {"host"}, PowerUpWord <- ZeroWord,
    phase <- [p \in {"host"} |->
                IF host_cyc = 0 THEN "idle" ELSE IF Performed THEN "done" ELSE "pending"],
    ask <- [p \in {"host"} |-> host_i],
    val <- [p \in {"host"} |-> Found]

\* Across the two clocks a host that waits for ack to fall before it asks again
\* has a memory of its own: a request is served once and only once before its
\* ack, with its own data, whatever the ratio of the clocks.  (The ack outlives
\* its request, wb_cdc.vhdl:97; MuntjacPath has a host that does not wait.)
CrossesOnce == Memory!Spec

\* Every request is answered, unless a reset ends it, and the ack falls again.
HostServed ==
  /\ host_cyc = 1 ~> host_ack = 1 \/ host_cyc = 0
  /\ host_ack = 1 ~> host_ack = 0
=============================================================================
