------------------------- MODULE Ahb2WbBridgeProofs -------------------------
(***************************************************************************)
(* Proofs about the bridge for every set of addresses, bytes and beats.    *)
(***************************************************************************)
EXTENDS Ahb2WbBridge, TLAPS

\* The strobes of a beat name lanes of the word.
LEMMA StrobesType ==
  ASSUME NEW b \in Beats
  PROVE  ByteStrobes(b.size, b.off) \in SUBSET Lane
<1>1. b.size \in Size /\ b.off \in Lane
  BY BridgeAssumption DEF Beat
<1>2. QED
  BY <1>1 DEF ByteStrobes, Size, Lane

\* The bytes a store writes into a word are bytes.
LEMMA MergeType ==
  ASSUME NEW old \in Word, NEW new \in Word, NEW sel
  PROVE  Merge(old, new, sel) \in Word
  BY DEF Merge, Word

\* A bus edge keeps the phases of the bus among the transfers there are.
LEMMA BusEdgeType ==
  ASSUME TypeOK, BusEdge
  PROVE  /\ aph' \in Beats \cup {NoBeat, OtherBeat}
         /\ dph' \in Beats \cup {NoBeat, OtherBeat}
  BY DEF TypeOK, BusEdge, Offers

\* The slave keeps its registers and its memory typed.
LEMMA PerType ==
  ASSUME TypeOK, PerAccess \/ PerQuiet
  PROVE  per_ack' \in Bit /\ per_rdt' \in Word /\ mem' \in [Addr -> Word]
<1>1. CASE PerAccess
  <2>1. per_ack' \in Bit /\ per_rdt' \in Word
    BY <1>1 DEF PerAccess, TypeOK, Bit
  <2>2. Merge(mem[wb_adr], wb_dat, wb_sel) \in Word
    BY MergeType DEF TypeOK
  <2>3. mem' \in [Addr -> Word]
    BY <1>1, <2>2 DEF PerAccess, TypeOK
  <2>4. QED BY <2>1, <2>3
<1>2. CASE PerQuiet
  BY <1>2 DEF PerQuiet, TypeOK, Bit
<1>3. QED BY <1>1, <1>2

\* A step keeps every register of both clock domains in its type.
LEMMA TypeStep == TypeOK /\ [Next]_vars => TypeOK'
<1> SUFFICES ASSUME TypeOK, [Next]_vars PROVE TypeOK'
  OBVIOUS
<1> USE DEF rstVars, busVars, ahbCtl, ahbSync, ahbCmd, ahbVars,
            wbCtl, wbSync, wbCmd, wbVars, perVars
<1>1. CASE AhbAccept
  <2>1. aph \in Beat
    BY <1>1, BridgeAssumption DEF AhbAccept
  <2>2. aph.adr \in Addr /\ aph.write \in Bit
    BY <2>1 DEF Beat, Bit
  <2>3. ByteStrobes(aph.size, aph.off) \in SUBSET Lane
    BY <1>1, StrobesType DEF AhbAccept
  <2>4. QED
    BY <1>1, <2>2, <2>3, BusEdgeType DEF AhbAccept, AhbEdge, TypeOK, Bit
<1>2. CASE AhbIdle
  BY <1>2, BusEdgeType DEF AhbIdle, AhbEdge, TypeOK
<1>3. CASE AhbDataPhase
  <2>1. dph \in Beats => dph.data \in Word
    BY BridgeAssumption DEF Beat
  <2>2. ahb_hwdata' \in Word
    BY <1>3, <2>1, BridgeAssumption DEF AhbDataPhase, BusWriteData
  <2>3. QED
    BY <1>3, <2>2, BusEdgeType DEF AhbDataPhase, AhbEdge, TypeOK, Bit
<1>4. CASE AhbWaitAck
  BY <1>4, BusEdgeType DEF AhbWaitAck, AhbEdge, TypeOK, Bit
<1>5. CASE AhbCleanup
  BY <1>5, BusEdgeType DEF AhbCleanup, AhbEdge, TypeOK, Bit
<1>6. CASE AhbReset
  BY <1>6 DEF AhbReset, TypeOK, Bit
<1>7. CASE WbIdle
  BY <1>7, PerType DEF WbIdle, WbEdge, TypeOK
<1>8. CASE WbStart
  BY <1>8, PerType DEF WbStart, WbEdge, TypeOK, Bit
<1>9. CASE WbWait
  BY <1>9, PerType DEF WbWait, WbEdge, TypeOK, Bit
<1>10. CASE WbDone
  BY <1>10, PerType DEF WbDone, WbEdge, TypeOK, Bit
<1>11. CASE WbReset
  BY <1>11, PerType DEF WbReset, TypeOK, Bit
<1>12. CASE ResetAssert
  BY <1>12 DEF ResetAssert, TypeOK, Bit
<1>13. CASE ResetRelease
  BY <1>13 DEF ResetRelease, TypeOK, Bit
<1>14. CASE NoelvReset \/ NoelvRelease
  <2>1. CASE NoelvReset
    BY <2>1 DEF NoelvReset, TypeOK, Bit
  <2>2. CASE NoelvRelease
    BY <2>2 DEF NoelvRelease, TypeOK, Bit
  <2>3. QED BY <1>14, <2>1, <2>2
<1>15. CASE UNCHANGED vars
  BY <1>15 DEF vars, TypeOK
<1>16. QED
  BY <1>1, <1>2, <1>3, <1>4, <1>5, <1>6, <1>7, <1>8, <1>9, <1>10, <1>11,
     <1>12, <1>13, <1>14, <1>15 DEF Next, AhbTick, WbTick

\* Every register of the bridge, of the bus and of the slave keeps its type.
THEOREM TypeCorrect == Spec => []TypeOK
<1>1. Init => TypeOK
  BY BridgeAssumption DEF Init, TypeOK, Bit, Lane
<1>2. QED
  BY <1>1, TypeStep, PTL DEF Spec
-----------------------------------------------------------------------------
(* The four-phase handshake.                                               *)

\* The inductive step of the handshake, one case per clock edge.
LEMMA HandshakeStep == TypeOK /\ HandshakeInv /\ [Next]_vars => HandshakeInv'
<1> SUFFICES ASSUME TypeOK, HandshakeInv, [Next]_vars PROVE HandshakeInv'
  OBVIOUS
<1> USE DEF rstVars, busVars, ahbCtl, ahbSync, ahbCmd, ahbVars,
            wbCtl, wbSync, wbCmd, wbVars, perVars
<1>a. rst \in Bit /\ ahb_req \in Bit /\ ahb_hready \in Bit /\ wb_ack \in Bit
      /\ wb_cyc \in Bit /\ per_ack \in Bit
      /\ wb_req_q0 \in Bit /\ wb_req_q1 \in Bit /\ wb_req_sync \in Bit
      /\ ahb_ack_q0 \in Bit /\ ahb_ack_q1 \in Bit /\ ahb_ack_sync \in Bit
      /\ ahb_state \in {"IDLE", "DATA_PHASE", "WAIT_ACK", "CLEANUP"}
      /\ wb_state \in {"IDLE", "START", "WAIT", "DONE"}
      /\ rst_seen \subseteq {"ahb", "wb"}
  BY DEF TypeOK
<1>1. CASE AhbAccept
  BY <1>1, <1>a DEF AhbAccept, AhbEdge, HandshakeInv, RingInv, Bit
<1>2. CASE AhbIdle
  BY <1>2, <1>a DEF AhbIdle, AhbEdge, HandshakeInv, RingInv, Bit
<1>3. CASE AhbDataPhase
  BY <1>3, <1>a DEF AhbDataPhase, AhbEdge, HandshakeInv, RingInv, Bit
<1>4. CASE AhbWaitAck
  BY <1>4, <1>a DEF AhbWaitAck, AhbEdge, HandshakeInv, RingInv, Bit
<1>5. CASE AhbCleanup
  BY <1>5, <1>a DEF AhbCleanup, AhbEdge, HandshakeInv, RingInv, Bit
<1>6. CASE AhbReset
  BY <1>6, <1>a DEF AhbReset, HandshakeInv, ResetInv, Bit
<1>7. CASE WbIdle
  BY <1>7, <1>a DEF WbIdle, WbEdge, PerAccess, PerQuiet, HandshakeInv, RingInv, Bit
<1>8. CASE WbStart
  BY <1>8, <1>a DEF WbStart, WbEdge, PerAccess, PerQuiet, HandshakeInv, RingInv, Bit
<1>9. CASE WbWait
  BY <1>9, <1>a DEF WbWait, WbEdge, PerAccess, PerQuiet, HandshakeInv, RingInv, Bit
<1>10. CASE WbDone
  BY <1>10, <1>a DEF WbDone, WbEdge, PerAccess, PerQuiet, HandshakeInv, RingInv, Bit
<1>11. CASE WbReset
  BY <1>11, <1>a DEF WbReset, PerQuiet, HandshakeInv, ResetInv, Bit
<1>12. CASE ResetAssert
  BY <1>12, <1>a DEF ResetAssert, HandshakeInv, ResetInv, Bit
<1>13. CASE ResetRelease
  BY <1>13, <1>a DEF ResetRelease, HandshakeInv, ResetInv, RingInv, Bit
<1>14. CASE NoelvReset \/ NoelvRelease
  BY <1>14, <1>a DEF NoelvReset, NoelvRelease, HandshakeInv, RingInv, ResetInv
<1>15. CASE UNCHANGED vars
  BY <1>15 DEF vars, HandshakeInv, RingInv, ResetInv
<1>16. QED
  BY <1>1, <1>2, <1>3, <1>4, <1>5, <1>6, <1>7, <1>8, <1>9, <1>10, <1>11,
     <1>12, <1>13, <1>14, <1>15 DEF Next, AhbTick, WbTick

\* The request and ack of the two clock domains form a four-phase handshake
\* in every reachable state, through any interleaving of the clocks and of
\* resets.
THEOREM HandshakeCorrect == Spec => []HandshakeInv
<1>1. Init => HandshakeInv
  BY DEF Init, HandshakeInv, RingInv
<1>2. QED
  BY <1>1, TypeCorrect, HandshakeStep, PTL DEF Spec

\* No edge changes the registers the other domain samples while the request
\* (or the ack) that guards them is anywhere in its synchronizer.
THEOREM CrossingStable == Spec => CrossingDataStable
<1> DEFINE Stable ==
      /\ 1 \in {ahb_req, wb_req_q0, wb_req_q1, wb_req_sync}
           => UNCHANGED ahbCmd
      /\ 1 \in {wb_ack, ahb_ack_q0, ahb_ack_q1, ahb_ack_sync}
           => UNCHANGED wb_hrdata_reg
<1>1. ASSUME TypeOK, HandshakeInv, [Next]_vars PROVE [Stable]_vars
  <2> USE DEF rstVars, busVars, ahbCtl, ahbSync, ahbCmd, ahbVars,
              wbCtl, wbSync, wbCmd, wbVars, perVars
  <2>a. ahb_req \in Bit /\ wb_ack \in Bit
        /\ wb_req_q0 \in Bit /\ wb_req_q1 \in Bit /\ wb_req_sync \in Bit
        /\ ahb_ack_q0 \in Bit /\ ahb_ack_q1 \in Bit /\ ahb_ack_sync \in Bit
    BY <1>1 DEF TypeOK
  <2>1. CASE AhbAccept \/ AhbDataPhase
    <3>1. rst = 0 /\ ahb_state \in {"IDLE", "DATA_PHASE"}
      BY <2>1 DEF AhbAccept, AhbDataPhase, AhbEdge
    <3>2. ahb_req = 0 /\ wb_req_q0 = 0 /\ wb_req_q1 = 0 /\ wb_req_sync = 0
      BY <1>1, <2>a, <3>1 DEF HandshakeInv, RingInv, Bit
    <3>3. UNCHANGED wb_hrdata_reg
      BY <2>1 DEF AhbAccept, AhbDataPhase, AhbEdge
    <3>4. QED BY <3>2, <3>3
  <2>2. CASE WbWait
    <3>1. rst = 0 /\ wb_state = "WAIT"
      BY <2>2 DEF WbWait, WbEdge
    <3>2. wb_ack = 0 /\ ahb_ack_q0 = 0 /\ ahb_ack_q1 = 0 /\ ahb_ack_sync = 0
      BY <1>1, <2>a, <3>1 DEF HandshakeInv, RingInv, Bit
    <3>3. UNCHANGED ahbCmd
      BY <2>2 DEF WbWait, WbEdge
    <3>4. QED BY <3>2, <3>3
  <2>3. CASE AhbIdle \/ AhbWaitAck \/ AhbCleanup \/ AhbReset
    BY <2>3 DEF AhbIdle, AhbWaitAck, AhbCleanup, AhbReset, AhbEdge
  <2>4. CASE WbIdle \/ WbStart \/ WbDone \/ WbReset
    BY <2>4 DEF WbIdle, WbStart, WbDone, WbReset, WbEdge
  <2>5. CASE ResetAssert \/ ResetRelease \/ NoelvReset \/ NoelvRelease
    BY <2>5 DEF ResetAssert, ResetRelease, NoelvReset, NoelvRelease
  <2>6. CASE UNCHANGED vars
    BY <2>6 DEF vars
  <2>7. QED
    BY <1>1, <2>1, <2>2, <2>3, <2>4, <2>5, <2>6 DEF Next, AhbTick, WbTick
<1>2. QED
  BY <1>1, TypeCorrect, HandshakeCorrect, PTL DEF Spec, CrossingDataStable
-----------------------------------------------------------------------------
(* Address, direction, strobes and data of the transfer.                   *)

\* When no other slave stalls and the bridge is idle, every bus edge hands
\* the address phase over to the data phase.
LEMMA IdleBusMoves ==
  ASSUME OtherSlavesStall = FALSE, BusEdge, ahb_hready = 1
  PROVE  dph' = aph
  BY DEF BusEdge, BusReady

\* A bus whose masters are in reset stays idle.
LEMMA ResetBusStays ==
  ASSUME BusEdge, noelv_reset_n = 0, aph = NoBeat, dph = NoBeat
  PROVE  aph' = NoBeat /\ dph' = NoBeat
<1>1. NoBeat \notin Beats /\ NoBeat # OtherBeat
  BY BridgeAssumption
<1>2. QED
  BY <1>1 DEF BusEdge, BusReady, Offers

\* A busy bridge holds the transfer in its data phase.
LEMMA BusyBusHolds ==
  ASSUME BusEdge, dph \in Beats, ahb_hready = 0
  PROVE  dph' = dph
  BY DEF BusEdge, BusReady

\* The inductive step of the command registers.
LEMMA CommandStep ==
  ASSUME OtherSlavesStall = FALSE,
         TypeOK, HandshakeInv, CommandInv, [Next]_vars
  PROVE  CommandInv'
<1> USE DEF rstVars, busVars, ahbCtl, ahbSync, ahbCmd, ahbVars,
            wbCtl, wbSync, wbCmd, wbVars, perVars
<1>a. ahb_hready \in Bit /\ ahb_req \in Bit
  BY DEF TypeOK
<1>1. CASE AhbAccept
  <2>1. rst = 0 /\ ahb_state = "IDLE" /\ aph \in Beats
        /\ UNCHANGED <<rst, noelv_reset_n>>
    BY <1>1 DEF AhbAccept, AhbEdge
  <2>r. noelv_reset_n # 0
    BY <2>1, BridgeAssumption DEF CommandInv
  <2>2. ahb_hready = 1 /\ wb_state \notin {"START", "WAIT"}
    BY <2>1 DEF HandshakeInv, RingInv
  <2>3. dph' = aph
    BY <1>1, <2>2, IdleBusMoves DEF AhbAccept, AhbEdge
  <2>4. aph.write \in Bit
    BY <2>1, BridgeAssumption DEF Beat, Bit
  <2>5. QED
    BY <1>1, <2>1, <2>r, <2>2, <2>3, <2>4 DEF AhbAccept, AhbEdge, CommandInv, Bit
<1>2. ASSUME AhbIdle \/ AhbDataPhase \/ AhbWaitAck \/ AhbCleanup
      PROVE  /\ rst = 0 /\ rst' = 0 /\ noelv_reset_n' = noelv_reset_n
             /\ noelv_reset_n = 0 => aph' = NoBeat /\ dph' = NoBeat
             /\ noelv_reset_n = 1 /\ ahb_state # "IDLE" => dph \in Beats /\ dph' = dph
  <2>1. rst = 0 /\ BusEdge /\ UNCHANGED <<rst, noelv_reset_n>>
    BY <1>2 DEF AhbIdle, AhbDataPhase, AhbWaitAck, AhbCleanup, AhbEdge
  <2>2. noelv_reset_n = 0 => aph' = NoBeat /\ dph' = NoBeat
    BY <2>1, ResetBusStays DEF CommandInv
  <2>3. ASSUME noelv_reset_n = 1, ahb_state # "IDLE"
        PROVE  dph \in Beats /\ dph' = dph
    <3>1. dph \in Beats /\ ahb_hready = 0
      BY <1>a, <2>1, <2>3 DEF CommandInv, HandshakeInv, RingInv, Bit
    <3>2. QED
      BY <2>1, <3>1, BusyBusHolds
  <2>4. QED
    BY <2>1, <2>2, <2>3
<1>3. CASE AhbIdle
  BY <1>2, <1>3 DEF AhbIdle, AhbEdge, CommandInv, HandshakeInv, RingInv
<1>4. CASE AhbDataPhase
  <2>1. noelv_reset_n = 1 => ahb_hwdata' = dph.data
    BY <1>2, <1>4 DEF AhbDataPhase, BusWriteData
  <2>2. wb_state \notin {"START", "WAIT"}
    BY <1>2, <1>4 DEF AhbDataPhase, HandshakeInv, RingInv
  <2>3. QED
    BY <1>2, <1>4, <2>1, <2>2 DEF AhbDataPhase, AhbEdge, CommandInv
<1>5. CASE AhbWaitAck
  BY <1>2, <1>5 DEF AhbWaitAck, AhbEdge, CommandInv
<1>6. CASE AhbCleanup
  BY <1>2, <1>6 DEF AhbCleanup, AhbEdge, CommandInv
<1>7. CASE WbIdle
  BY <1>7 DEF WbIdle, WbEdge, CommandInv
<1>8. CASE WbStart
  BY <1>8 DEF WbStart, WbEdge, CommandInv
<1>9. CASE WbWait
  BY <1>9 DEF WbWait, WbEdge, CommandInv
<1>10. CASE WbDone
  BY <1>10 DEF WbDone, WbEdge, CommandInv
<1>11. CASE AhbReset \/ WbReset \/ ResetAssert
  BY <1>11 DEF AhbReset, WbReset, ResetAssert, CommandInv
<1>12. CASE ResetRelease
  BY <1>12 DEF ResetRelease, HandshakeInv, ResetInv, CommandInv
<1>13. CASE NoelvReset \/ NoelvRelease
  BY <1>13 DEF NoelvReset, NoelvRelease, CommandInv
<1>14. CASE UNCHANGED vars
  BY <1>14 DEF vars, CommandInv
<1>15. QED
  BY <1>1, <1>3, <1>4, <1>5, <1>6, <1>7, <1>8, <1>9, <1>10, <1>11, <1>12, <1>13,
     <1>14
  DEF Next, AhbTick, WbTick

\* Both domains hold what the transfer in the data phase says, as long as the
\* other slaves of the bus have no wait states.
LEMMA CommandCorrect ==
  ASSUME OtherSlavesStall = FALSE
  PROVE  Spec => []CommandInv
<1>1. Init => CommandInv
  BY DEF Init, CommandInv
<1>2. TypeOK /\ HandshakeInv /\ CommandInv /\ [Next]_vars => CommandInv'
  BY CommandStep
<1>3. QED
  BY <1>1, <1>2, TypeCorrect, HandshakeCorrect, PTL DEF Spec

\* Beats and data are never mis-paired, whatever the master does, as long as
\* the other slaves of the bus have no wait states.
THEOREM PairedCorrect ==
  ASSUME OtherSlavesStall = FALSE
  PROVE  Spec => []PairedAddressAndData
<1>1. TypeOK /\ HandshakeInv /\ CommandInv => PairedAddressAndData
  <2> SUFFICES ASSUME TypeOK, HandshakeInv, CommandInv, wb_cyc = 1, dph \in Beats
               PROVE  /\ wb_adr = dph.adr
                      /\ wb_we = dph.write
                      /\ wb_sel = ByteStrobes(dph.size, dph.off)
                      /\ wb_we = 1 => wb_dat = dph.data
    BY DEF PairedAddressAndData
  <2>1. rst = 0 /\ noelv_reset_n = 1
    BY BridgeAssumption DEF HandshakeInv, ResetInv, CommandInv, TypeOK, Bit
  <2>2. wb_state = "WAIT" /\ ahb_state = "WAIT_ACK"
    BY <2>1 DEF HandshakeInv, RingInv
  <2>3. QED
    BY <2>1, <2>2 DEF CommandInv
<1>2. QED
  BY <1>1, TypeCorrect, HandshakeCorrect, CommandCorrect, PTL
-----------------------------------------------------------------------------
(* The bridge implements AhbMemory.                                        *)

\* The strobes are exactly the bytes that the size and address of an aligned
\* beat cover, so that a store never clobbers its neighbours.
THEOREM StrobesCover ==
  ASSUME NEW b \in Beats
  PROVE  ByteStrobes(b.size, b.off) = Memory!Covered(b)
<1>1. b.size \in Size /\ b.off \in Lane /\ Aligned(b)
  BY BridgeAssumption DEF Beat
<1>2. CASE b.size = "byte"
  BY <1>1, <1>2 DEF ByteStrobes, Memory!Covered, Memory!NumBytes, Lane
<1>3. CASE b.size = "half"
  BY <1>1, <1>3 DEF ByteStrobes, Memory!Covered, Memory!NumBytes, Lane, Aligned
<1>4. CASE b.size = "word"
  BY <1>1, <1>4 DEF ByteStrobes, Memory!Covered, Memory!NumBytes, Lane, Aligned
<1>5. QED
  BY <1>1, <1>2, <1>3, <1>4 DEF Size

\* Nothing is left of a transfer while the NOEL-V runs.
LEMMA NothingLeft ==
  ASSUME noelv_reset_n = 1 \/ rst = 1 \/ ahb_state = "IDLE"
  PROVE  absLeft = {}
  BY DEF absLeft

\* The same of the next state.
LEMMA NothingLeftNext ==
  ASSUME noelv_reset_n' = 1 \/ rst' = 1 \/ ahb_state' = "IDLE"
  PROVE  absLeft' = {}
  BY DEF absLeft

\* The slave's access is the abstract Perform of the transfer.
LEMMA AccessIsPerform ==
  ASSUME TypeOK, HandshakeInv, CommandInv, WbWait, PerAccess, noelv_reset_n = 1
  PROVE  Memory!Perform
<1> USE DEF rstVars, busVars, ahbCtl, ahbSync, ahbCmd, ahbVars,
            wbCtl, wbSync, wbCmd, wbVars, perVars
<1>1. rst = 0 /\ wb_state = "WAIT" /\ ahb_state = "WAIT_ACK"
      /\ per_ack = 0 /\ ahb_hready = 0
  BY DEF WbWait, WbEdge, PerAccess, HandshakeInv, RingInv, TypeOK, Bit
<1>2. dph \in Beats /\ dph.write \in {0, 1}
  BY <1>1, BridgeAssumption DEF CommandInv, Beat
<1>3. /\ wb_adr = dph.adr /\ wb_we = dph.write
      /\ wb_sel = Memory!Covered(dph)
      /\ dph.write = 1 => wb_dat = dph.data
  BY <1>1, <1>2, StrobesCover DEF CommandInv
<1>4. /\ wb_state' = "WAIT" /\ per_ack' = 1
      /\ UNCHANGED <<dph, ahb_state, ahb_hready>>
  BY <1>1 DEF WbWait, WbEdge, PerAccess
<1>5. absPhase = "pending" /\ absPhase' = "done"
  BY <1>1, <1>2, <1>4 DEF absPhase, Performed
<1>l. absLeft = {} /\ absLeft' = {}
  BY NothingLeft, NothingLeftNext DEF WbWait, WbEdge
<1>6. CASE dph.write = 1
  <2>1. mem' = Memory!Stored(dph)
    BY <1>3, <1>6 DEF PerAccess, Merge, Memory!Stored, Lane
  <2>2. absVal' = NoWord
    BY <1>4, <1>6 DEF absVal
  <2>3. QED
    BY <1>2, <1>4, <1>5, <1>l, <1>6, <2>1, <2>2 DEF Memory!Perform
<1>7. CASE dph.write = 0
  <2>1. mem' = mem /\ per_rdt' = mem[dph.adr]
    BY <1>3, <1>7 DEF PerAccess
  <2>2. absVal' = mem[dph.adr]
    BY <1>1, <1>4, <1>5, <1>7, <2>1 DEF absVal
  <2>3. QED
    BY <1>2, <1>4, <1>5, <1>l, <1>7, <2>1, <2>2 DEF Memory!Perform
<1>8. QED
  BY <1>2, <1>6, <1>7

\* While the NOEL-V runs, every edge is a step of the memory, or leaves it alone.
LEMMA RunningStep ==
  ASSUME OtherSlavesStall = FALSE, TypeOK, HandshakeInv, CommandInv,
         AhbTick \/ WbTick, noelv_reset_n = 1
  PROVE  [Memory!Next]_(Memory!memVars)
<1> USE DEF rstVars, busVars, ahbCtl, ahbSync, ahbCmd, ahbVars,
            wbCtl, wbSync, wbCmd, wbVars, perVars
<1>a. /\ rst \in Bit /\ ahb_hready \in Bit /\ ahb_req \in Bit /\ wb_ack \in Bit
      /\ wb_req_sync \in Bit /\ per_ack \in Bit
      /\ ahb_ack_q0 \in Bit /\ ahb_ack_q1 \in Bit /\ ahb_ack_sync \in Bit
      /\ ahb_state \in {"IDLE", "DATA_PHASE", "WAIT_ACK", "CLEANUP"}
  BY DEF TypeOK
<1> DEFINE absBeat == IF dph \in Beats THEN dph ELSE NoBeat
<1>l. absLeft = {} /\ absLeft' = {}
  <2>1. noelv_reset_n' = 1
    BY DEF AhbTick, WbTick, AhbAccept, AhbIdle, AhbDataPhase, AhbWaitAck, AhbCleanup,
           WbIdle, WbStart, WbWait, WbDone, AhbEdge, WbEdge
  <2>2. QED BY <2>1, NothingLeft, NothingLeftNext
<1>s. ASSUME absPhase' = absPhase, absVal' = absVal, absBeat' = absBeat, mem' = mem
      PROVE  [Memory!Next]_(Memory!memVars)
  BY <1>l, <1>s DEF Memory!memVars
<1>1. CASE AhbAccept
  <2>1. rst = 0 /\ ahb_state = "IDLE" /\ aph \in Beats /\ ahb_hready' = 0
        /\ ahb_state' \in {"DATA_PHASE", "WAIT_ACK"}
        /\ UNCHANGED <<wb_state, per_ack, mem>>
    BY <1>1 DEF AhbAccept, AhbEdge
  <2>2. ahb_hready = 1 /\ wb_state = "IDLE"
    BY <1>a, <2>1 DEF HandshakeInv, RingInv, TypeOK, Bit
  <2>3. dph' = aph
    BY <1>1, <2>2, IdleBusMoves DEF AhbAccept, AhbEdge
  <2>4. absPhase \in {"idle", "returned"}
    BY <2>2 DEF absPhase
  <2>5. absPhase' = "pending"
    BY <2>1, <2>2, <2>3 DEF absPhase, Performed
  <2>6. absVal' = NoWord /\ absBeat' \in Beats
    BY <2>1, <2>3, <2>5 DEF absVal
  <2>7. Memory!Accept
    BY <1>l, <2>1, <2>4, <2>5, <2>6 DEF Memory!Accept
  <2>8. QED BY <2>7 DEF Memory!Next
<1>2. CASE AhbIdle
  <2>1. rst = 0 /\ ahb_state = "IDLE" /\ aph \notin Beats /\ UNCHANGED mem
    BY <1>2 DEF AhbIdle, AhbEdge
  <2>2. ahb_hready = 1
    BY <2>1 DEF HandshakeInv, RingInv
  <2>3. dph' = aph
    BY <1>2, <2>2, IdleBusMoves DEF AhbIdle, AhbEdge
  <2>4. absPhase' = "idle" /\ absVal' = NoWord /\ absBeat' = NoBeat
    BY <2>1, <2>3 DEF absPhase, absVal
  <2>5. CASE dph \in Beats
    <3>1. absPhase = "returned"
      BY <2>2, <2>5 DEF absPhase
    <3>2. Memory!Finish
      BY <1>l, <2>1, <2>4, <3>1 DEF Memory!Finish, Memory!Leave
    <3>3. QED BY <3>2 DEF Memory!Next
  <2>6. CASE dph \notin Beats
    <3>1. absPhase = "idle" /\ absVal = NoWord /\ absBeat = NoBeat
      BY <2>6 DEF absPhase, absVal
    <3>2. QED BY <1>s, <2>1, <2>4, <3>1
  <2>7. QED BY <2>5, <2>6
<1>3. ASSUME AhbDataPhase \/ AhbWaitAck \/ AhbCleanup
      PROVE  /\ rst = 0 /\ ahb_hready = 0 /\ dph \in Beats /\ dph' = dph
             /\ UNCHANGED <<wb_state, wb_hrdata_reg, per_ack, per_rdt, mem>>
             /\ absBeat' = absBeat
  <2>1. rst = 0 /\ ahb_state # "IDLE" /\ BusEdge
        /\ UNCHANGED <<wb_state, wb_hrdata_reg, per_ack, per_rdt, mem>>
    BY <1>3 DEF AhbDataPhase, AhbWaitAck, AhbCleanup, AhbEdge
  <2>2. dph \in Beats /\ ahb_hready = 0
    BY <1>a, <2>1 DEF CommandInv, HandshakeInv, RingInv, Bit
  <2>3. QED
    BY <2>1, <2>2, BusyBusHolds
<1>4. CASE AhbDataPhase
  <2>1. wb_state = "IDLE"
    BY <1>3, <1>4, <1>a DEF AhbDataPhase, HandshakeInv, RingInv, TypeOK, Bit
  <2>2. ahb_state = "DATA_PHASE" /\ ahb_state' = "WAIT_ACK" /\ ahb_hready' = 0
    BY <1>3, <1>4 DEF AhbDataPhase
  <2>3. absPhase = "pending" /\ absPhase' = "pending"
    BY <1>3, <1>4, <2>1, <2>2 DEF absPhase, Performed
  <2>4. absVal = NoWord /\ absVal' = NoWord
    BY <2>3 DEF absVal
  <2>5. QED BY <1>3, <1>4, <1>s, <2>3, <2>4
<1>5. CASE AhbWaitAck
  <2>1. ahb_state = "WAIT_ACK" /\ ahb_hready' = 0
    BY <1>3, <1>5 DEF AhbWaitAck
  <2>2. CASE ahb_ack_sync = 1
    <3>1. wb_state = "DONE"
      BY <1>3, <1>5, <1>a, <2>1, <2>2 DEF HandshakeInv, RingInv, Bit
    <3>2. ahb_state' = "CLEANUP" /\ ahb_hrdata' = wb_hrdata_reg
      BY <1>5, <2>2 DEF AhbWaitAck
    <3>3. absPhase = "done" /\ absPhase' = "done"
      BY <1>3, <1>5, <2>1, <3>1, <3>2 DEF absPhase, Performed
    <3>4. absVal' = absVal
      BY <1>3, <1>5, <2>1, <3>1, <3>2, <3>3 DEF absVal
    <3>5. QED BY <1>3, <1>5, <1>s, <3>3, <3>4
  <2>3. CASE ahb_ack_sync # 1
    <3>1. UNCHANGED <<ahb_state, ahb_hrdata, ahb_hready>>
      BY <1>5, <2>3 DEF AhbWaitAck
    <3>2. absPhase' = absPhase /\ absVal' = absVal
      BY <1>3, <1>5, <3>1 DEF absPhase, absVal, Performed
    <3>3. QED BY <1>3, <1>5, <1>s, <3>2
  <2>4. QED BY <2>2, <2>3
<1>6. CASE AhbCleanup
  <2>1. ahb_state = "CLEANUP" /\ UNCHANGED ahb_hrdata
    BY <1>6 DEF AhbCleanup
  <2>2. absPhase = "done"
    BY <1>3, <1>6, <2>1 DEF absPhase, Performed
  <2>3. CASE ahb_ack_sync = 0
    <3>1. absPhase' = "returned"
      BY <1>3, <1>6, <2>3 DEF AhbCleanup, absPhase
    <3>2. absVal' = absVal
      BY <1>3, <1>6, <2>1, <2>2, <3>1 DEF absVal
    <3>3. Memory!Return
      BY <1>l, <1>3, <1>6, <2>2, <3>1, <3>2 DEF Memory!Return
    <3>4. QED BY <3>3 DEF Memory!Next
  <2>4. CASE ahb_ack_sync # 0
    <3>1. UNCHANGED <<ahb_state, ahb_hready>>
      BY <1>6, <2>4 DEF AhbCleanup
    <3>2. absPhase' = absPhase /\ absVal' = absVal
      BY <1>3, <1>6, <2>1, <3>1 DEF absPhase, absVal, Performed
    <3>3. QED BY <1>3, <1>6, <1>s, <3>2
  <2>5. QED BY <2>3, <2>4
<1>7. CASE WbWait
  <2>1. rst = 0 /\ wb_state = "WAIT" /\ ahb_state = "WAIT_ACK" /\ ahb_hready = 0
        /\ UNCHANGED <<dph, ahb_state, ahb_hready, ahb_hrdata>>
    BY <1>7, <1>a DEF WbWait, WbEdge, HandshakeInv, RingInv, Bit
  <2>2. dph \in Beats
    BY <2>1 DEF CommandInv
  <2>3. CASE per_ack = 1
    <3>1. wb_state' = "DONE" /\ wb_hrdata_reg' = per_rdt /\ mem' = mem
      BY <1>7, <2>3 DEF WbWait, WbEdge, PerAccess, PerQuiet
    <3>2. absPhase = "done" /\ absPhase' = "done"
      BY <2>1, <2>2, <2>3, <3>1 DEF absPhase, Performed
    <3>3. absVal' = absVal
      BY <2>1, <2>2, <3>1, <3>2 DEF absVal
    <3>4. QED BY <1>s, <2>1, <3>1, <3>2, <3>3
  <2>4. CASE per_ack # 1 /\ PerAccess
    BY <1>7, <2>4, AccessIsPerform DEF Memory!Next
  <2>5. CASE per_ack # 1 /\ PerQuiet
    <3>1. wb_state' = "WAIT" /\ per_ack' = 0 /\ mem' = mem
      BY <1>7, <2>1, <2>5 DEF WbWait, PerQuiet
    <3>2. absPhase = "pending" /\ absPhase' = "pending"
      BY <2>1, <2>2, <2>5, <3>1 DEF absPhase, Performed
    <3>3. absVal = NoWord /\ absVal' = NoWord
      BY <3>2 DEF absVal
    <3>4. QED BY <1>s, <2>1, <3>1, <3>2, <3>3
  <2>6. QED BY <1>7, <2>3, <2>4, <2>5 DEF WbWait, WbEdge
<1>8. CASE WbIdle \/ WbStart \/ WbDone
  <2>1. rst = 0 /\ wb_state \in {"IDLE", "START", "DONE"}
        /\ UNCHANGED <<dph, ahb_state, ahb_hready, ahb_hrdata, wb_hrdata_reg>>
    BY <1>8 DEF WbIdle, WbStart, WbDone, WbEdge
  <2>2. wb_cyc # 1 /\ per_ack = 0
    BY <1>a, <2>1 DEF HandshakeInv, RingInv, Bit
  <2>3. mem' = mem /\ per_ack' = 0
    BY <1>8, <2>2 DEF WbIdle, WbStart, WbDone, WbEdge, PerAccess, PerQuiet
  <2>4. wb_state = "DONE" /\ wb_state' # "DONE" => ahb_state = "CLEANUP"
    <3>1. SUFFICES ASSUME wb_state = "DONE", wb_state' # "DONE"
                   PROVE  ahb_state = "CLEANUP"
      OBVIOUS
    <3>2. wb_req_sync = 0 /\ wb_ack = 1
      BY <1>8, <2>1, <3>1 DEF WbIdle, WbStart, WbDone, HandshakeInv, RingInv
    <3>3. QED
      BY <1>a, <2>1, <3>2 DEF HandshakeInv, RingInv, Bit
  <2>5. wb_state # "DONE" => wb_state' # "DONE"
    BY <1>8, <2>1 DEF WbIdle, WbStart, WbDone
  <2>6. Performed' = Performed
    BY <2>1, <2>2, <2>3, <2>4, <2>5 DEF Performed
  <2>7. absPhase' = absPhase
    BY <2>1, <2>6 DEF absPhase
  <2>8. absPhase = "done" => wb_state = "DONE" \/ ahb_state = "CLEANUP"
    BY <2>1 DEF absPhase, Performed
  <2>9. absVal' = absVal
    BY <2>1, <2>4, <2>5, <2>7, <2>8 DEF absVal, absPhase
  <2>10. QED BY <1>s, <2>1, <2>3, <2>7, <2>9
<1>9. QED
  BY <1>1, <1>2, <1>4, <1>5, <1>6, <1>7, <1>8 DEF AhbTick, WbTick

\* While the NOEL-V is in reset, a store that is left may take effect; nothing
\* else does.
LEMMA ResetStep ==
  ASSUME TypeOK, HandshakeInv, CommandInv, AhbTick \/ WbTick, noelv_reset_n = 0
  PROVE  [Memory!Next]_(Memory!memVars)
<1> USE DEF rstVars, busVars, ahbCtl, ahbSync, ahbCmd, ahbVars,
            wbCtl, wbSync, wbCmd, wbVars, perVars
<1>a. /\ ahb_req \in Bit /\ wb_ack \in Bit /\ wb_req_sync \in Bit /\ per_ack \in Bit
      /\ ahb_ack_q0 \in Bit /\ ahb_ack_q1 \in Bit /\ ahb_ack_sync \in Bit
      /\ ahb_hwrite \in Bit
      /\ ahb_state \in {"IDLE", "DATA_PHASE", "WAIT_ACK", "CLEANUP"}
      /\ wb_state \in {"IDLE", "START", "WAIT", "DONE"}
  BY DEF TypeOK
<1> DEFINE absBeat == IF dph \in Beats THEN dph ELSE NoBeat
<1>1. rst = 0 /\ rst' = 0 /\ noelv_reset_n' = 0
  BY DEF AhbTick, WbTick, AhbAccept, AhbIdle, AhbDataPhase, AhbWaitAck, AhbCleanup,
         WbIdle, WbStart, WbWait, WbDone, AhbEdge, WbEdge
<1>2. aph = NoBeat /\ dph = NoBeat /\ NoBeat \notin Beats
  BY <1>1, BridgeAssumption DEF CommandInv
<1>3. dph' = NoBeat
  <2>1. CASE AhbTick
    BY <1>2, <2>1, ResetBusStays
    DEF AhbTick, AhbAccept, AhbIdle, AhbDataPhase, AhbWaitAck, AhbCleanup, AhbEdge
  <2>2. CASE WbTick
    BY <1>2, <2>2 DEF WbTick, WbIdle, WbStart, WbWait, WbDone, WbEdge
  <2>3. QED BY <2>1, <2>2
<1>4. /\ absPhase = "idle" /\ absPhase' = "idle"
      /\ absVal = NoWord /\ absVal' = NoWord
      /\ absBeat = NoBeat /\ absBeat' = NoBeat
  BY <1>2, <1>3 DEF absPhase, absVal
<1>s. ASSUME absLeft' = absLeft, mem' = mem
      PROVE  [Memory!Next]_(Memory!memVars)
  BY <1>4, <1>s DEF Memory!memVars
<1>5. CASE AhbTick
  <2>1. UNCHANGED <<mem, wb_state, per_ack>>
    BY <1>5 DEF AhbTick, AhbAccept, AhbIdle, AhbDataPhase, AhbWaitAck, AhbCleanup, AhbEdge
  <2>2. CASE AhbIdle
    BY <1>s, <2>1, <2>2, NothingLeft, NothingLeftNext DEF AhbIdle
  <2>3. CASE AhbDataPhase
    <3>1. ahb_state = "DATA_PHASE" /\ ahb_state' = "WAIT_ACK"
          /\ UNCHANGED <<ahb_haddr, ahb_hwrite, ahb_sel>>
      BY <2>3 DEF AhbDataPhase
    <3>2. Performed' = Performed
      BY <2>1, <3>1 DEF Performed
    <3>3. QED BY <1>1, <1>s, <2>1, <3>1, <3>2 DEF absLeft
  <2>4. CASE AhbWaitAck /\ ahb_ack_sync = 1
    <3>1. wb_state = "DONE"
      BY <1>1, <1>a, <2>4 DEF AhbWaitAck, HandshakeInv, RingInv, Bit
    <3>2. Performed /\ Performed'
      BY <2>1, <3>1 DEF Performed
    <3>3. QED BY <1>s, <2>1, <3>2 DEF absLeft
  <2>5. CASE AhbWaitAck /\ ahb_ack_sync # 1
    <3>1. UNCHANGED <<ahb_state, ahb_haddr, ahb_hwrite, ahb_sel>>
      BY <2>5 DEF AhbWaitAck
    <3>2. QED BY <1>1, <1>s, <2>1, <3>1 DEF absLeft, Performed
  <2>6. CASE AhbCleanup
    <3>1. ahb_state = "CLEANUP" /\ ahb_state' \in {"CLEANUP", "IDLE"}
      BY <2>6 DEF AhbCleanup
    <3>2. QED BY <1>s, <2>1, <3>1 DEF absLeft, Performed
  <2>7. QED
    BY <1>2, <1>5, <2>2, <2>3, <2>4, <2>5, <2>6 DEF AhbTick, AhbAccept
<1>6. CASE WbWait
  <2>1. wb_state = "WAIT" /\ ahb_state = "WAIT_ACK"
        /\ UNCHANGED <<ahb_state, ahb_haddr, ahb_hwrite, ahb_sel>>
    BY <1>1, <1>6, <1>a DEF WbWait, WbEdge, HandshakeInv, RingInv, Bit
  <2>2. CASE per_ack = 1
    <3>1. wb_state' = "DONE" /\ mem' = mem
      BY <1>6, <2>2 DEF WbWait, WbEdge, PerAccess, PerQuiet
    <3>2. Performed /\ Performed'
      BY <2>1, <2>2, <3>1 DEF Performed
    <3>3. QED BY <1>s, <3>1, <3>2 DEF absLeft
  <2>3. CASE per_ack # 1 /\ PerAccess
    <3>1. ~Performed /\ wb_state' = "WAIT" /\ per_ack' = 1
      BY <1>6, <2>1, <2>3 DEF WbWait, PerAccess, Performed
    <3>2. absLeft' = {}
      BY <3>1 DEF absLeft, Performed
    <3>3. wb_adr = ahb_haddr /\ wb_we = ahb_hwrite /\ wb_sel = ahb_sel
      BY <1>1, <2>1 DEF CommandInv
    <3>4. CASE ahb_hwrite = 1
      <4> DEFINE store == [adr |-> ahb_haddr, bytes |-> ahb_sel]
      <4>1. absLeft = {store}
        BY <1>1, <1>2, <2>1, <3>1, <3>4 DEF absLeft
      <4>2. wb_dat \in [0 .. 3 -> Byte]
        BY DEF TypeOK, Word, Lane
      <4>3. mem' = [mem EXCEPT ![store.adr] =
              [i \in 0 .. 3 |-> IF i \in store.bytes THEN wb_dat[i] ELSE mem[store.adr][i]]]
        BY <2>3, <3>3, <3>4 DEF PerAccess, Merge, Lane
      <4>4. Memory!Straggle
        BY <1>4, <3>2, <4>1, <4>2, <4>3 DEF Memory!Straggle
      <4>5. QED BY <4>4 DEF Memory!Next
    <3>5. CASE ahb_hwrite # 1
      BY <1>s, <2>3, <3>2, <3>3, <3>5 DEF absLeft, PerAccess
    <3>6. QED BY <3>4, <3>5
  <2>4. CASE per_ack # 1 /\ PerQuiet
    <3>1. wb_state' = "WAIT" /\ per_ack' = 0 /\ mem' = mem
      BY <1>6, <2>1, <2>4 DEF WbWait, PerQuiet
    <3>2. Performed' = Performed
      BY <2>1, <2>4, <3>1 DEF Performed
    <3>3. QED BY <1>1, <1>s, <2>1, <3>1, <3>2 DEF absLeft
  <2>5. QED BY <1>6, <2>2, <2>3, <2>4 DEF WbWait, WbEdge
<1>7. CASE WbIdle \/ WbStart \/ WbDone
  <2>1. wb_state \in {"IDLE", "START", "DONE"}
        /\ UNCHANGED <<ahb_state, ahb_haddr, ahb_hwrite, ahb_sel>>
    BY <1>7 DEF WbIdle, WbStart, WbDone, WbEdge
  <2>2. wb_cyc # 1 /\ per_ack = 0
    BY <1>1, <1>a, <2>1 DEF HandshakeInv, RingInv, Bit
  <2>3. mem' = mem /\ per_ack' = 0
    BY <1>7, <2>2 DEF WbIdle, WbStart, WbDone, WbEdge, PerAccess, PerQuiet
  <2>5. wb_state = "DONE" /\ wb_state' # "DONE" => ahb_state = "CLEANUP"
    <3>1. SUFFICES ASSUME wb_state = "DONE", wb_state' # "DONE"
                   PROVE  ahb_state = "CLEANUP"
      OBVIOUS
    <3>2. wb_req_sync = 0 /\ wb_ack = 1
      BY <1>1, <1>7, <2>1, <3>1 DEF WbIdle, WbStart, WbDone, HandshakeInv, RingInv
    <3>3. QED
      BY <1>1, <1>a, <3>2 DEF HandshakeInv, RingInv, Bit
  <2>6. wb_state # "DONE" => wb_state' # "DONE"
    BY <1>7, <2>1 DEF WbIdle, WbStart, WbDone
  <2>7. Performed' = Performed
    BY <2>1, <2>2, <2>3, <2>5, <2>6 DEF Performed
  <2>8. QED BY <1>1, <1>s, <2>1, <2>3, <2>7 DEF absLeft
<1>8. QED
  BY <1>5, <1>6, <1>7 DEF WbTick

\* Every step of the bridge is a step of the memory, or leaves it alone.
LEMMA RefinementStep ==
  ASSUME OtherSlavesStall = FALSE,
         TypeOK, HandshakeInv, CommandInv, [Next]_vars
  PROVE  [Memory!Next]_(Memory!memVars)
<1> USE DEF rstVars, busVars, ahbCtl, ahbSync, ahbCmd, ahbVars,
            wbCtl, wbSync, wbCmd, wbVars, perVars
<1>a. /\ rst \in Bit /\ noelv_reset_n \in Bit /\ ahb_hwrite \in Bit
      /\ ahb_state \in {"IDLE", "DATA_PHASE", "WAIT_ACK", "CLEANUP"}
  BY DEF TypeOK
<1> DEFINE absBeat == IF dph \in Beats THEN dph ELSE NoBeat
<1>n. NoBeat \notin Beats
  BY BridgeAssumption
<1>s. ASSUME absPhase' = absPhase, absVal' = absVal, absBeat' = absBeat, mem' = mem,
             absLeft' = absLeft
      PROVE  [Memory!Next]_(Memory!memVars)
  BY <1>s DEF Memory!memVars
<1>i. ASSUME dph = NoBeat
      PROVE  absPhase = "idle" /\ absVal = NoWord /\ absBeat = NoBeat
  BY <1>n, <1>i DEF absPhase, absVal
<1>j. ASSUME dph' = NoBeat
      PROVE  absPhase' = "idle" /\ absVal' = NoWord /\ absBeat' = NoBeat
  BY <1>n, <1>j DEF absPhase, absVal
<1>r. ASSUME dph' = NoBeat, mem' = mem, absLeft' = {}
      PROVE  [Memory!Next]_(Memory!memVars)
  <2>1. absPhase' = "idle" /\ absVal' = NoWord /\ absBeat' = NoBeat
    BY <1>j, <1>r
  <2>2. CASE absPhase = "idle" /\ absLeft = {}
    <3>1. dph \notin Beats
      BY <2>2 DEF absPhase
    <3>2. absVal = NoWord /\ absBeat = NoBeat
      BY <2>2, <3>1 DEF absVal
    <3>3. QED BY <1>r, <1>s, <2>1, <2>2, <3>2
  <2>3. CASE absPhase # "idle" \/ absLeft # {}
    BY <1>r, <2>1, <2>3 DEF Memory!Next, Memory!Reset, Memory!Leave
  <2>4. QED BY <2>2, <2>3
<1>1. CASE AhbTick \/ WbTick
  BY <1>1, <1>a, RunningStep, ResetStep DEF Bit
<1>2. CASE AhbReset \/ WbReset \/ ResetRelease
  <2>1. rst = 1 /\ dph = NoBeat /\ dph' = NoBeat /\ mem' = mem
    BY <1>2 DEF AhbReset, WbReset, ResetRelease, PerQuiet, HandshakeInv, ResetInv
  <2>2. rst' = 1 \/ ahb_state' = "IDLE"
    BY <1>2 DEF AhbReset, WbReset, ResetRelease, HandshakeInv, ResetInv
  <2>3. absLeft = {} /\ absLeft' = {}
    BY <2>1, <2>2, NothingLeft, NothingLeftNext
  <2>4. QED BY <1>s, <1>i, <1>j, <2>1, <2>3
<1>3. CASE ResetAssert
  <2>1. dph' = NoBeat /\ mem' = mem /\ rst' = 1
    BY <1>3 DEF ResetAssert
  <2>2. QED BY <1>r, <2>1, NothingLeftNext
<1>4. CASE NoelvReset
  <2>1. /\ rst = 0 /\ noelv_reset_n = 1 /\ noelv_reset_n' = 0 /\ dph' = NoBeat
        /\ UNCHANGED <<rst, ahb_state, ahb_haddr, ahb_hwrite, ahb_sel, wb_state, per_ack, mem>>
    BY <1>4 DEF NoelvReset
  <2>2. absLeft = {} /\ Performed' = Performed
    BY <2>1, NothingLeft DEF Performed
  <2>3. CASE ahb_state # "IDLE" /\ ahb_hwrite = 1 /\ ~Performed
    <3>1. /\ dph \in Beats /\ dph.write = 1
          /\ ahb_haddr = dph.adr /\ ahb_sel = Memory!Covered(dph)
      BY <2>1, <2>3, StrobesCover DEF CommandInv
    <3>2. ahb_hready # 1
      BY <2>1, <2>3 DEF HandshakeInv, RingInv
    <3>3. absPhase = "pending"
      BY <2>3, <3>1, <3>2 DEF absPhase
    <3>4. absLeft' = {[adr |-> dph.adr, bytes |-> Memory!Covered(dph)]}
      BY <2>1, <2>2, <2>3, <3>1 DEF absLeft
    <3>5. Memory!Abandon
      BY <1>j, <2>1, <3>1, <3>3, <3>4 DEF Memory!Abandon, Memory!Leave
    <3>6. QED BY <3>5 DEF Memory!Next
  <2>4. CASE ~(ahb_state # "IDLE" /\ ahb_hwrite = 1 /\ ~Performed)
    <3>1. absLeft' = {}
      BY <2>1, <2>2, <2>4 DEF absLeft
    <3>2. QED BY <1>r, <2>1, <3>1
  <2>5. QED BY <2>3, <2>4
<1>5. CASE NoelvRelease
  <2>1. dph = NoBeat /\ dph' = NoBeat /\ mem' = mem /\ ahb_state = "IDLE" /\ noelv_reset_n' = 1
    BY <1>5 DEF NoelvRelease, CommandInv
  <2>2. absLeft = {} /\ absLeft' = {}
    BY <2>1, NothingLeft, NothingLeftNext
  <2>3. QED BY <1>s, <1>i, <1>j, <2>1, <2>2
<1>6. CASE UNCHANGED vars
  BY <1>6, <1>s DEF vars, absPhase, absVal, absLeft, Performed
<1>7. QED
  BY <1>1, <1>2, <1>3, <1>4, <1>5, <1>6 DEF Next

\* The bridge implements the abstract memory: every beat takes effect exactly
\* once, on its own bytes, and a load returns what it found.
THEOREM BridgeImplementsMemory ==
  ASSUME OtherSlavesStall = FALSE
  PROVE  Spec => ServesEachBeatOnce
<1>1. Init => Memory!Init
  BY BridgeAssumption DEF Init, Memory!Init, absPhase, absVal, absLeft
<1>2. TypeOK /\ HandshakeInv /\ CommandInv /\ [Next]_vars
        => [Memory!Next]_(Memory!memVars)
  BY RefinementStep
<1>3. QED
  BY <1>1, <1>2, TypeCorrect, HandshakeCorrect, CommandCorrect, PTL
  DEF Spec, ServesEachBeatOnce, Memory!Spec
=============================================================================
