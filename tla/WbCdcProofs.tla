----------------------------- MODULE WbCdcProofs -----------------------------
(***************************************************************************)
(* Proofs about the clock crossing, for every set of addresses, bytes and  *)
(* requests, and for every ratio of the two clocks.                        *)
(***************************************************************************)
EXTENDS WbCdc, TLAPS

\* The registers that the host side and the peripheral side exchange through
\* their synchronizers form a ring of nine flip-flops, in which one edge, up
\* or down, travels at a time.
RingInv ==
  /\ host_req = (IF host_state = "REQ" THEN 1 ELSE 0)
  /\ host_ack = (IF host_state = "WAIT_ACK_LOW" THEN 1 ELSE 0)
  /\ per_ack = (IF per_state = "WAIT" THEN 1 ELSE 0)
  /\ host_state = "IDLE" =>
       per_state = "IDLE" /\ per_req_q = Low /\ host_ack_q = Low
  /\ host_state = "REQ" =>
       /\ per_req_q \in {Low, <<1, 0, 0>>, <<1, 1, 0>>, <<1, 1, 1>>}
       /\ per_state # "IDLE" => per_req_q = <<1, 1, 1>>
       /\ host_ack_q \in {Low, <<1, 0, 0>>, <<1, 1, 0>>, <<1, 1, 1>>}
       /\ per_state # "WAIT" => host_ack_q = Low
  /\ host_state = "WAIT_ACK_LOW" =>
       /\ per_req_q \in {<<1, 1, 1>>, <<0, 1, 1>>, <<0, 0, 1>>, Low}
       /\ host_ack_q \in {<<1, 1, 1>>, <<0, 1, 1>>, <<0, 0, 1>>, Low}
       /\ \/ per_state = "WAIT" /\ host_ack_q = <<1, 1, 1>>
          \/ per_state = "IDLE" /\ per_req_q = Low

\* What the two buses carry while the ring turns: the request of the host is
\* in its buffer and on the peripheral's bus, and the peripheral acknowledges
\* nothing else.
BusInv ==
  /\ host_state = "REQ" => host_cyc = 1 /\ host_buf = host_i
  /\ per_state = "START" => per_o = Bus(1, host_buf)
  /\ per_state # "START" => per_o.cyc = 0 /\ per_i_ack = 0
-----------------------------------------------------------------------------
\* A synchronizer takes a bit in and stays three bits long.
LEMMA ShiftType ==
  ASSUME NEW q \in Bit \X Bit \X Bit, NEW bit \in Bit
  PROVE  /\ Shift(q, bit) \in Bit \X Bit \X Bit
         /\ Sync(q) \in Bit
  BY DEF Shift, Sync

\* A store leaves a word of bytes in the memory.
LEMMA StoredType ==
  ASSUME per_o \in BusType, mem \in [Adr -> Word]
  PROVE  Stored \in [Adr -> Word]
<1> DEFINE merged == [i \in Lane |-> IF i \in per_o.sel THEN per_o.dat[i] ELSE mem[per_o.adr][i]]
<1>1. per_o.adr \in Adr /\ per_o.dat \in Word
  BY DEF BusType
<1>2. merged \in Word
  BY <1>1 DEF Word
<1>3. Stored = [mem EXCEPT ![per_o.adr] = merged]
  BY DEF Stored
<1>4. QED
  BY <1>1, <1>2, <1>3

\* A request on a bus is a typed bus.
LEMMA BusTyped ==
  ASSUME NEW c \in Bit, NEW r \in Requests
  PROVE  Bus(c, r) \in BusType
  BY CdcAssumption DEF Bus, BusType, Bit

\* A step of either clock keeps every register in its type.
LEMMA TypeStep == TypeOK /\ [Next]_vars => TypeOK'
<1> SUFFICES ASSUME TypeOK, [Next]_vars PROVE TypeOK'
  OBVIOUS
<1> USE DEF hostVars, perVars, slaveVars, busVars
<1>1. CASE HostEdge
  <2>1. host_cyc' \in Bit /\ host_i' \in Requests
    BY <1>1 DEF HostEdge, HostBusEdge, TypeOK, Bit
  <2>2. host_ack_q' \in Bit \X Bit \X Bit /\ Sync(host_ack_q) \in Bit
    BY <1>1, ShiftType DEF HostEdge, HostSide, TypeOK
  <2>3. /\ host_state' \in {"IDLE", "REQ", "WAIT_ACK_LOW"}
        /\ host_buf' \in Requests
        /\ host_req' \in Bit /\ host_ack' \in Bit /\ host_rdt' \in Word
    BY <1>1, <2>2 DEF HostEdge, HostSide, HostIdle, HostReq, HostWaitAckLow, TypeOK, Bit
  <2>4. QED
    BY <1>1, <2>1, <2>2, <2>3 DEF HostEdge, TypeOK
<1>2. CASE PerEdge
  <2>1. per_req_q' \in Bit \X Bit \X Bit
    BY <1>2, ShiftType DEF PerEdge, PerSide, TypeOK
  <2>2. per_o' \in BusType
    <3>1. Bus(1, host_buf) \in BusType
      BY BusTyped DEF TypeOK, Bit
    <3>2. \A c \in Bit : [per_o EXCEPT !.cyc = c] \in BusType
      BY DEF TypeOK, BusType
    <3>3. 1 - per_i_ack \in Bit /\ 0 \in Bit
      BY DEF TypeOK, Bit
    <3>4. QED
      BY <1>2, <3>1, <3>2, <3>3 DEF PerEdge, PerSide, PerIdle, PerStart, PerWait
  <2>3. per_state' \in {"IDLE", "START", "WAIT"} /\ per_ack' \in Bit /\ per_rdt' \in Word
    BY <1>2 DEF PerEdge, PerSide, PerIdle, PerStart, PerWait, TypeOK, Bit
  <2>4. per_i_ack' \in Bit /\ per_i_rdt' \in Word /\ mem' \in [Adr -> Word]
    <3>1. per_o.adr \in Adr
      BY DEF TypeOK, BusType
    <3>2. QED
      BY <1>2, <3>1, StoredType DEF PerEdge, SlaveEdge, SlaveWaits, SlaveServes, TypeOK, Bit
  <2>5. QED
    BY <1>2, <2>1, <2>2, <2>3, <2>4 DEF PerEdge, TypeOK
<1>3. CASE Reset
  <2>1. Low \in Bit \X Bit \X Bit
    BY DEF Low, Bit
  <2>2. per_o' \in BusType
    BY <1>3 DEF Reset, ResetCdc, TypeOK, BusType, Bit
  <2>3. QED
    BY <1>3, <2>1, <2>2 DEF Reset, ResetCdc, TypeOK, Bit
<1>4. CASE UNCHANGED vars
  BY <1>4 DEF vars, TypeOK
<1>5. QED
  BY <1>1, <1>2, <1>3, <1>4 DEF Next

\* Every register of the crossing and of both buses keeps its type.
THEOREM TypeCorrect == Spec => []TypeOK
<1>1. Init => TypeOK
  <2> SUFFICES ASSUME Init PROVE TypeOK
    OBVIOUS
  <2>1. ZeroWord \in Word
    BY CdcAssumption DEF ZeroWord, Word
  <2>2. Low \in Bit \X Bit \X Bit
    BY DEF Low, Bit
  <2>3. per_o \in BusType
    BY BusTyped DEF Init, Bit
  <2>4. QED
    BY <2>1, <2>2, <2>3 DEF Init, InitCdc, TypeOK, Bit
<1>2. QED
  BY <1>1, TypeStep, PTL DEF Spec
-----------------------------------------------------------------------------
(* The ring.                                                               *)

\* An edge of either clock, and a reset, moves the ring on.
LEMMA RingStep == TypeOK /\ RingInv /\ [Next]_vars => RingInv'
<1> SUFFICES ASSUME TypeOK, RingInv, [Next]_vars PROVE RingInv'
  OBVIOUS
<1> USE DEF hostVars, perVars, slaveVars, busVars, Shift, Sync, Low
<1>a. /\ host_state \in {"IDLE", "REQ", "WAIT_ACK_LOW"}
      /\ per_state \in {"IDLE", "START", "WAIT"}
  BY DEF TypeOK
<1>1. CASE HostEdge /\ HostIdle
  BY <1>1, <1>a DEF HostEdge, HostSide, HostIdle, RingInv
<1>2. CASE HostEdge /\ HostReq
  BY <1>2, <1>a DEF HostEdge, HostSide, HostReq, RingInv
<1>3. CASE HostEdge /\ HostWaitAckLow
  BY <1>3, <1>a DEF HostEdge, HostSide, HostWaitAckLow, RingInv
<1>4. CASE PerEdge /\ PerIdle
  BY <1>4, <1>a DEF PerEdge, PerSide, PerIdle, RingInv
<1>5. CASE PerEdge /\ PerStart
  BY <1>5, <1>a DEF PerEdge, PerSide, PerStart, RingInv
<1>6. CASE PerEdge /\ PerWait
  BY <1>6, <1>a DEF PerEdge, PerSide, PerWait, RingInv
<1>7. CASE Reset
  BY <1>7 DEF Reset, ResetCdc, RingInv
<1>8. CASE UNCHANGED vars
  BY <1>8 DEF vars, RingInv
<1>9. QED
  BY <1>1, <1>2, <1>3, <1>4, <1>5, <1>6, <1>7, <1>8
  DEF Next, HostEdge, HostSide, PerEdge, PerSide

\* One edge at a time travels round the ring, in every reachable state.
THEOREM RingCorrect == Spec => []RingInv
<1>1. Init => RingInv
  BY DEF Init, InitCdc, RingInv
<1>2. QED
  BY <1>1, TypeCorrect, RingStep, PTL DEF Spec

\* The request is copied while the host side waits in REQ, the answer while
\* the peripheral side waits in WAIT, at every ratio of the clocks.
THEOREM CrossingStable == Spec => []CrossingDataStable
<1>1. TypeOK /\ RingInv => CrossingDataStable
  <2> SUFFICES ASSUME TypeOK, RingInv PROVE CrossingDataStable
    OBVIOUS
  <2>1. /\ host_state \in {"IDLE", "REQ", "WAIT_ACK_LOW"}
        /\ per_state \in {"IDLE", "START", "WAIT"}
    BY DEF TypeOK
  <2>2. ASSUME per_state = "IDLE", Sync(per_req_q) = 1 PROVE host_state = "REQ"
    BY <2>1, <2>2 DEF RingInv, Sync, Low
  <2>3. ASSUME host_state = "REQ", Sync(host_ack_q) = 1 PROVE per_state = "WAIT"
    BY <2>1, <2>3 DEF RingInv, Sync, Low
  <2>4. QED
    BY <2>2, <2>3 DEF CrossingDataStable
<1>2. QED
  BY <1>1, TypeCorrect, RingCorrect, PTL
-----------------------------------------------------------------------------
(* The buses.                                                              *)

\* Each edge keeps the request of the host on its way.
LEMMA BusStep == TypeOK /\ RingInv /\ BusInv /\ [Next]_vars => BusInv'
<1> SUFFICES ASSUME TypeOK, RingInv, BusInv, [Next]_vars PROVE BusInv'
  OBVIOUS
<1> USE DEF hostVars, perVars, slaveVars, busVars
<1>a. /\ host_state \in {"IDLE", "REQ", "WAIT_ACK_LOW"}
      /\ per_state \in {"IDLE", "START", "WAIT"}
      /\ host_cyc \in Bit /\ per_i_ack \in Bit /\ per_o \in BusType
  BY DEF TypeOK
<1>b. \A c : [per_o EXCEPT !.cyc = c].cyc = c
  BY <1>a DEF BusType
<1>1. CASE HostEdge
  <2>1. host_state = "REQ" \/ host_state = "IDLE" => host_ack = 0
    BY <1>a DEF RingInv
  <2>2. host_state' = "REQ" => host_cyc' = 1 /\ host_buf' = host_i'
    BY <1>1, <1>a, <2>1
    DEF HostEdge, HostSide, HostBusEdge, HostIdle, HostReq, HostWaitAckLow, BusInv
  <2>3. per_state = "START" => host_state = "REQ"
    BY <1>a DEF RingInv
  <2>4. host_state = "REQ" => host_buf' = host_buf
    BY <1>1 DEF HostEdge, HostSide, HostIdle, HostReq, HostWaitAckLow
  <2>5. QED
    BY <1>1, <2>2, <2>3, <2>4 DEF HostEdge, BusInv
<1>2. CASE PerEdge /\ PerIdle
  <2>1. per_i_ack' = 0
    BY <1>2, <1>a DEF PerEdge, PerIdle, SlaveEdge, SlaveWaits, SlaveServes, BusInv
  <2>2. QED
    BY <1>2, <1>a, <1>b, <2>1 DEF PerEdge, PerIdle, BusInv
<1>3. CASE PerEdge /\ PerStart /\ per_i_ack = 1
  <2>1. per_i_ack' = 0
    BY <1>3 DEF PerEdge, SlaveEdge, SlaveWaits, SlaveServes
  <2>2. QED
    BY <1>3, <1>a, <1>b, <2>1 DEF PerEdge, PerStart, BusInv
<1>4. CASE PerEdge /\ PerStart /\ per_i_ack # 1
  <2>1. per_o.cyc = 1
    BY <1>4 DEF PerStart, BusInv, Bus
  <2>2. per_o' = per_o
    BY <1>4, <1>a, <2>1 DEF PerStart, BusType, Bit
  <2>3. QED
    BY <1>4, <2>2 DEF PerEdge, PerStart, BusInv
<1>5. CASE PerEdge /\ PerWait
  <2>1. per_i_ack' = 0
    BY <1>5, <1>a DEF PerEdge, PerWait, SlaveEdge, SlaveWaits, SlaveServes, BusInv
  <2>2. QED
    BY <1>5, <1>a, <1>b, <2>1 DEF PerEdge, PerWait, BusInv
<1>6. CASE Reset
  BY <1>6, <1>b DEF Reset, ResetCdc, BusInv
<1>7. CASE UNCHANGED vars
  BY <1>7 DEF vars, BusInv
<1>8. QED
  BY <1>1, <1>2, <1>3, <1>4, <1>5, <1>6, <1>7 DEF Next, PerEdge, PerSide

\* In every reachable state the peripheral sees the request of the host, and
\* acknowledges nothing else.
LEMMA BusCorrect == Spec => []BusInv
<1>1. Init => BusInv
  BY DEF Init, InitCdc, BusInv, Bus
<1>2. QED
  BY <1>1, TypeCorrect, RingCorrect, BusStep, PTL DEF Spec
-----------------------------------------------------------------------------
(* The crossing implements SharedMemory, with the host as its only port.   *)

\* The phase of the host's request, as SharedMemory sees it.
Phase == IF host_cyc = 0 THEN "idle" ELSE IF Performed THEN "done" ELSE "pending"

\* A step that moves nothing of the request is a stutter of the memory.
LEMMA StayIsStutter ==
  ASSUME Phase' = Phase, host_i' = host_i, Found' = Found, mem' = mem
  PROVE  [Memory!Next]_(Memory!memVars)
  BY DEF Memory!memVars, Phase

\* The host raises its request.
LEMMA RequestIsEdge ==
  ASSUME Phase = "idle", Phase' = "pending", Found' = NoWord, mem' = mem, host_i' \in Requests
  PROVE  Memory!Next
<1>1. Memory!Request("host")
  BY DEF Memory!Request, Phase
<1>2. QED
  BY <1>1 DEF Memory!Next, Memory!Edge

\* The host takes its answer.
LEMMA ReturnIsEdge ==
  ASSUME Phase = "done", Phase' = "idle", Found' = NoWord, mem' = mem,
         host_i' = host_i, host_i \in Requests
  PROVE  Memory!Next
<1>1. Memory!Return("host")
  BY DEF Memory!Return, Phase
<1>2. QED
  BY <1>1 DEF Memory!Next, Memory!Edge

\* The peripheral performs the request.
LEMMA ServeIsPerform ==
  ASSUME Phase = "pending", Phase' = "done", host_i' = host_i, host_i \in Requests,
         IF host_i.we = 1
         THEN /\ mem' = [mem EXCEPT ![host_i.adr] =
                   [i \in 0 .. 3 |-> IF i \in host_i.sel THEN host_i.dat[i] ELSE @[i]]]
              /\ Found' = NoWord
         ELSE mem' = mem /\ Found' = mem[host_i.adr]
  PROVE  Memory!Next
<1>1. Memory!Perform("host")
  BY DEF Memory!Perform, Memory!Stored, Phase
<1>2. QED
  BY <1>1 DEF Memory!Next, Memory!Edge

\* An edge of the host's clock raises a request, returns an answer, or leaves
\* the memory that the host sees alone.
LEMMA HostStep ==
  ASSUME TypeOK, RingInv, BusInv, HostEdge
  PROVE  [Memory!Next]_(Memory!memVars)
<1> USE DEF hostVars, perVars, slaveVars, busVars
<1>a. /\ host_state \in {"IDLE", "REQ", "WAIT_ACK_LOW"}
      /\ per_state \in {"IDLE", "START", "WAIT"}
      /\ host_cyc \in Bit /\ per_i_ack \in Bit /\ host_i \in Requests
  BY DEF TypeOK
<1>b. UNCHANGED <<per_state, per_ack, per_rdt, per_i_ack, per_i_rdt, mem>>
  BY DEF HostEdge
<1>1. CASE HostIdle
  <2>1. host_ack = 0 /\ host_ack' = 0 /\ per_state = "IDLE" /\ per_ack = 0
    BY <1>1, <1>a DEF HostIdle, RingInv
  <2>2. ~Performed /\ ~Performed'
    BY <1>1, <1>b, <2>1 DEF HostIdle, Performed
  <2>3. Found = NoWord /\ Found' = NoWord
    BY <2>2 DEF Found
  <2>4. CASE host_cyc = 1
    <3>1. host_cyc' = 1 /\ host_i' = host_i
      BY <2>1, <2>4 DEF HostEdge, HostBusEdge
    <3>2. QED
      BY <1>b, <2>2, <2>3, <2>4, <3>1, StayIsStutter DEF Phase
  <2>5. CASE host_cyc # 1 /\ host_cyc' = 1
    <3>1. Phase = "idle" /\ Phase' = "pending"
      BY <1>a, <2>2, <2>5 DEF Phase, Bit
    <3>2. host_i' \in Requests
      BY <1>a, <2>5 DEF HostEdge, HostBusEdge
    <3>3. QED
      BY <1>b, <2>3, <3>1, <3>2, RequestIsEdge
  <2>6. CASE host_cyc # 1 /\ host_cyc' # 1
    <3>1. UNCHANGED busVars
      BY <2>6 DEF HostEdge, HostBusEdge
    <3>2. QED
      BY <1>b, <2>2, <2>3, <3>1, StayIsStutter DEF Phase
  <2>7. QED
    BY <2>4, <2>5, <2>6
<1>2. CASE HostReq
  <2>1. host_ack = 0 /\ host_cyc = 1 /\ host_state = "REQ"
    BY <1>2, <1>a DEF HostReq, RingInv, BusInv
  <2>2. host_cyc' = 1 /\ host_i' = host_i
    BY <2>1 DEF HostEdge, HostBusEdge
  <2>3. CASE Sync(host_ack_q) = 1
    <3>1. per_ack = 1
      BY <1>a, <2>1, <2>3 DEF RingInv, Sync, Low
    <3>2. host_ack' = 1 /\ host_rdt' = per_rdt
      BY <1>2, <2>3 DEF HostReq
    <3>3. Performed /\ Performed'
      BY <2>1, <3>1, <3>2 DEF Performed
    <3>4. Found' = Found
      BY <2>1, <2>2, <3>1, <3>2, <3>3 DEF Found
    <3>5. QED
      BY <1>b, <2>1, <2>2, <3>3, <3>4, StayIsStutter DEF Phase
  <2>4. CASE Sync(host_ack_q) # 1
    <3>1. UNCHANGED <<host_ack, host_rdt, host_state>>
      BY <1>2, <2>4 DEF HostReq
    <3>2. Performed' = Performed
      BY <1>b, <3>1 DEF Performed
    <3>3. Found' = Found
      BY <1>b, <2>1, <2>2, <3>1, <3>2 DEF Found
    <3>4. QED
      BY <1>b, <2>1, <2>2, <3>2, <3>3, StayIsStutter DEF Phase
  <2>5. QED
    BY <2>3, <2>4
<1>3. CASE HostWaitAckLow
  <2>1. host_ack = 1
    BY <1>3 DEF HostWaitAckLow, RingInv
  <2>2. host_cyc' = 0 /\ host_i' = host_i
    BY <1>a, <2>1 DEF HostEdge, HostBusEdge, Bit
  <2>3. Phase' = "idle" /\ Found' = NoWord
    BY <2>2 DEF Phase, Found
  <2>4. CASE host_cyc = 1
    <3>1. Phase = "done"
      BY <2>1, <2>4 DEF Phase, Performed
    <3>2. QED
      BY <1>a, <1>b, <2>2, <2>3, <3>1, ReturnIsEdge
  <2>5. CASE host_cyc # 1
    <3>1. Phase = "idle" /\ Found = NoWord
      BY <1>a, <2>5 DEF Phase, Found, Bit
    <3>2. QED
      BY <1>b, <2>2, <2>3, <3>1, StayIsStutter
  <2>6. QED
    BY <2>4, <2>5
<1>4. QED
  BY <1>1, <1>2, <1>3 DEF HostEdge, HostSide

\* An edge of the peripheral's clock serves the request of the host once, or
\* leaves the memory that the host sees alone.
LEMMA PerStep ==
  ASSUME TypeOK, RingInv, BusInv, PerEdge
  PROVE  [Memory!Next]_(Memory!memVars)
<1> USE DEF hostVars, perVars, slaveVars, busVars
<1>a. /\ host_state \in {"IDLE", "REQ", "WAIT_ACK_LOW"}
      /\ per_state \in {"IDLE", "START", "WAIT"}
      /\ per_i_ack \in Bit /\ host_i \in Requests
  BY DEF TypeOK
<1>b. UNCHANGED <<host_cyc, host_i, host_state, host_ack, host_rdt>>
  BY DEF PerEdge
<1>s. ASSUME Performed' = Performed, Found' = Found, mem' = mem
      PROVE  [Memory!Next]_(Memory!memVars)
  BY <1>b, <1>s, StayIsStutter DEF Phase
<1>1. CASE PerIdle
  <2>1. per_ack = 0 /\ per_ack' = 0 /\ per_i_ack = 0 /\ per_i_ack' = 0 /\ mem' = mem
    BY <1>1, <1>a DEF PerEdge, PerIdle, SlaveEdge, SlaveWaits, SlaveServes, RingInv, BusInv
  <2>2. Performed' = Performed
    BY <1>b, <2>1 DEF Performed
  <2>3. Found' = Found
    BY <1>b, <2>1, <2>2 DEF Found, Performed
  <2>4. QED
    BY <1>s, <2>1, <2>2, <2>3
<1>2. CASE PerStart /\ per_i_ack = 1
  <2>1. /\ per_state = "START" /\ per_ack = 0 /\ per_ack' = 1
        /\ per_rdt' = per_i_rdt /\ mem' = mem
    BY <1>2, <1>a DEF PerEdge, PerStart, SlaveEdge, SlaveWaits, SlaveServes, RingInv
  <2>2. Performed' = Performed
    BY <1>2, <1>b, <2>1 DEF Performed
  <2>3. Found' = Found
    BY <1>2, <1>b, <2>1, <2>2 DEF Found
  <2>4. QED
    BY <1>s, <2>1, <2>2, <2>3
<1>3. CASE PerStart /\ per_i_ack # 1
  <2>1. /\ per_state = "START" /\ per_state' = "START" /\ per_ack = 0 /\ per_ack' = 0
        /\ host_state = "REQ" /\ host_ack = 0 /\ host_cyc = 1
        /\ per_o = Bus(1, host_i)
    BY <1>3, <1>a DEF PerStart, RingInv, BusInv
  <2>2. CASE SlaveServes
    <3>1. per_i_ack' = 1
      BY <2>2 DEF SlaveServes
    <3>2. Phase = "pending" /\ Phase' = "done"
      BY <1>3, <1>b, <2>1, <3>1 DEF Phase, Performed
    <3>3. CASE host_i.we = 1
      <4>1. mem' = [mem EXCEPT ![host_i.adr] =
              [i \in 0 .. 3 |-> IF i \in host_i.sel THEN host_i.dat[i] ELSE @[i]]]
        BY <2>1, <2>2, <3>3 DEF SlaveServes, Stored, Bus, Lane
      <4>2. Found' = NoWord
        BY <1>b, <3>3 DEF Found
      <4>3. QED
        BY <1>a, <1>b, <3>2, <3>3, <4>1, <4>2, ServeIsPerform
    <3>4. CASE host_i.we # 1
      <4>1. mem' = mem /\ per_i_rdt' = mem[host_i.adr]
        BY <2>1, <2>2, <3>4 DEF SlaveServes, Bus
      <4>2. Found' = mem[host_i.adr]
        BY <1>b, <2>1, <3>1, <3>4, <4>1 DEF Found, Performed
      <4>3. QED
        BY <1>a, <1>b, <3>2, <3>4, <4>1, <4>2, ServeIsPerform
    <3>5. QED
      BY <3>3, <3>4
  <2>3. CASE SlaveWaits
    <3>1. per_i_ack' = 0 /\ mem' = mem
      BY <2>3 DEF SlaveWaits
    <3>2. ~Performed /\ Performed' = Performed
      BY <1>3, <1>b, <2>1, <3>1 DEF Performed
    <3>3. Found' = Found
      BY <3>2 DEF Found
    <3>4. QED
      BY <1>s, <3>1, <3>2, <3>3
  <2>4. QED
    BY <2>2, <2>3 DEF PerEdge, SlaveEdge
<1>4. CASE PerWait
  <2>1. per_i_ack = 0 /\ per_i_ack' = 0 /\ mem' = mem /\ per_rdt' = per_rdt
    BY <1>4, <1>a DEF PerEdge, PerWait, SlaveEdge, SlaveWaits, SlaveServes, BusInv
  <2>2. CASE host_state = "REQ"
    <3>1. Sync(per_req_q) = 1
      BY <1>4, <2>2 DEF PerWait, RingInv, Sync
    <3>2. UNCHANGED <<per_ack, per_state>>
      BY <1>4, <3>1 DEF PerWait
    <3>3. Performed' = Performed
      BY <1>b, <2>1, <3>2 DEF Performed
    <3>4. Found' = Found
      BY <1>4, <1>b, <2>1, <2>2, <3>2, <3>3 DEF Found, RingInv, PerWait
    <3>5. QED
      BY <1>s, <2>1, <3>3, <3>4
  <2>3. CASE host_state # "REQ"
    <3>1. host_ack = 1
      BY <1>4, <1>a, <2>3 DEF PerWait, RingInv
    <3>2. Performed /\ Performed'
      BY <1>b, <3>1 DEF Performed
    <3>3. Found' = Found
      BY <1>b, <3>1, <3>2 DEF Found
    <3>4. QED
      BY <1>s, <2>1, <3>2, <3>3
  <2>4. QED
    BY <2>2, <2>3
<1>5. QED
  BY <1>1, <1>2, <1>3, <1>4 DEF PerEdge, PerSide

\* A reset abandons the host's request.
LEMMA ResetStep ==
  ASSUME Reset
  PROVE  Memory!Next
<1>1. host_cyc' = 0 /\ host_i' = host_i /\ mem' = mem
  BY DEF Reset
<1>2. QED
  BY <1>1 DEF Memory!Next, Memory!Reset, Found

\* The crossing behaves as a memory of the host's own: every request is served
\* once and only once before its ack, with its own data.
THEOREM CrossingImplementsMemory == Spec => CrossesOnce
<1>1. Init => Memory!Init
  <2> SUFFICES ASSUME Init PROVE Memory!Init
    OBVIOUS
  <2>1. host_cyc = 0 /\ host_i \in Requests /\ mem = [a \in Adr |-> ZeroWord]
    BY DEF Init
  <2>2. QED
    BY <2>1 DEF Memory!Init, Found
<1>2. TypeOK /\ RingInv /\ BusInv /\ [Next]_vars => [Memory!Next]_(Memory!memVars)
  <2> SUFFICES ASSUME TypeOK, RingInv, BusInv, [Next]_vars
               PROVE  [Memory!Next]_(Memory!memVars)
    OBVIOUS
  <2>1. CASE HostEdge
    BY <2>1, HostStep
  <2>2. CASE PerEdge
    BY <2>2, PerStep
  <2>3. CASE Reset
    BY <2>3, ResetStep
  <2>4. CASE UNCHANGED vars
    <3>1. Phase' = Phase /\ Found' = Found /\ host_i' = host_i /\ mem' = mem
      BY <2>4 DEF vars, busVars, hostVars, perVars, slaveVars, Phase, Found, Performed
    <3>2. QED
      BY <3>1, StayIsStutter
  <2>5. QED
    BY <2>1, <2>2, <2>3, <2>4 DEF Next
<1>3. QED
  BY <1>1, <1>2, TypeCorrect, RingCorrect, BusCorrect, PTL DEF Spec, CrossesOnce, Memory!Spec
=============================================================================
