----------------------------- MODULE TlC2WbLite -----------------------------
(***************************************************************************)
(* ip/tl/tl_c2wblite.ent.vhdl: the adapter of the muntjac board between a  *)
(* TileLink master and a Wishbone Lite bus of 32-bit words.                *)
(* ip/tl/tl_uh2wblite.ent.vhdl is the same machine without the Acquires.   *)
(*                                                                         *)
(* All registers are those of one clock; an action is one rising edge, and *)
(* reads what is visible before it.  A word is two lanes of one bit, so    *)
(* that it is a number below 4 and as a signed one from -2 to 1.  Source,  *)
(* size and sink of a response are copies of the request's and are left    *)
(* out, and so are the channels B, C and E, which carry nothing.           *)
(***************************************************************************)
EXTENDS Integers, Sequences

CONSTANTS
  AdrCount,       \* words of the memory behind the bus; addresses wrap
  Transactions,   \* sequences of A beats a master may send
  ReadyAlways     \* TRUE: a master that never lowers d_ready

Word  == 0 .. 3
Lane  == 0 .. 1
Adr   == 0 .. AdrCount - 1
Burst == 2 ^ 5    \* beats of the largest size

Puts    == {"PutFullData", "PutPartialData"}
Atomics == {"ArithmeticData", "LogicalData"}
Reads   == {"Get", "AcquireBlock"}
Opcodes == Puts \cup Atomics \cup Reads \cup {"AcquirePerm", "Intent"}
Params  == {"MIN", "MAX", "MINU", "MAXU", "ADD", "XOR", "OR", "AND", "SWAP"}

Beats ==
  [opcode : Opcodes, param : Params, size : 0 .. 7, address : Adr,
   data : Word, mask : SUBSET Lane]

VARIABLES
  todo, a_valid, d_ready,              \* the master; todo[1] is the beat on channel A
  state, saved_a, saved_wb_dat, beat_count, get_address,
  a_ready, d,                          \* tl_o
  wb,                                  \* wb_o
  wb_ack, wb_rdt, mem,                 \* the slave on the bus
  gold, owed   \* history: memory and responses as the accepted requests define them

masterVars  == <<todo, a_valid, d_ready>>
adapterVars == <<state, saved_a, saved_wb_dat, beat_count, get_address, a_ready, d, wb>>
slaveVars   == <<wb_ack, wb_rdt, mem>>
historyVars == <<gold, owed>>
vars        == <<masterVars, adapterVars, slaveVars, historyVars>>

-----------------------------------------------------------------------------
(* Words.                                                                  *)

Signed(w) == IF w >= 2 THEN w - 4 ELSE w

\* Bit by bit.
Lanewise(op(_, _), v, w) == op(v % 2, w % 2) + 2 * op(v \div 2, w \div 2)

\* The lanes of mask from `new`, the others from `old`.
Merge(old, new, mask) ==
  ((IF 0 \in mask THEN new ELSE old) % 2) + 2 * ((IF 1 \in mask THEN new ELSE old) \div 2)

\* get_total_beats
TotalBeats(size) == IF size <= 2 THEN 1 ELSE 2 ^ (size - 2)

\* As TileLink has it: the beats of a burst are of one kind, and only stores
\* and atomics send more than one.
ASSUME BurstAssumption ==
  /\ AdrCount \in Nat \ {0} /\ ReadyAlways \in BOOLEAN
  /\ \A t \in Transactions :
       /\ t \in Seq(Beats) /\ t # <<>>
       /\ \/ /\ Len(t) = TotalBeats(t[1].size)
             /\ \E kind \in {Puts, Atomics} : \A i \in 1 .. Len(t) : t[i].opcode \in kind
          \/ Len(t) = 1 /\ t[1].opcode \in Reads \cup {"AcquirePerm", "Intent"}

\* What asks for permission asks for a word.  It sends one beat whatever it asks
\* for, but the adapter counts those of its size: after the Grant of a block it
\* waits in A_WAIT for beats that do not come (line 318), and takes the next
\* request for one of them, with the count that is left.  DeliversOwed and
\* IdleMeansDone suppose that it is not asked for one.
PermissionsOfWords ==
  \A t \in Transactions : t[1].opcode \in {"AcquirePerm", "Intent"} => t[1].size <= 2

\* The combinational ALU, on the saved request and the word that was read.
AluRes(a, m) ==
  CASE a.param = "MIN"  -> IF Signed(m) < Signed(a.data) THEN m ELSE a.data
    [] a.param = "MAX"  -> IF Signed(m) > Signed(a.data) THEN m ELSE a.data
    [] a.param = "MINU" -> IF m < a.data THEN m ELSE a.data
    [] a.param = "MAXU" -> IF m > a.data THEN m ELSE a.data
    [] a.param = "ADD"  -> (m + a.data) % 4
    [] a.param = "XOR"  -> Lanewise(LAMBDA x, y : (x + y) % 2, m, a.data)
    [] a.param = "OR"   -> Lanewise(LAMBDA x, y : (x + y + x * y) % 2, m, a.data)
    [] a.param = "AND"  -> Lanewise(LAMBDA x, y : x * y, m, a.data)
    [] OTHER            -> a.data

-----------------------------------------------------------------------------
(* The adapter.  Every edge first gives the outputs their defaults.        *)

NoD   == [valid |-> 0, opcode |-> "AccessAck", data |-> 0]
NoBus == [cyc |-> 0, adr |-> 0, we |-> 0, sel |-> {}, dat |-> 0]

DLow   == d' = [d EXCEPT !.valid = 0]
CycLow == wb' = [wb EXCEPT !.cyc = 0]

\* The request on channel A is taken; state after it.
Accepts == a_valid = 1 /\ a_ready = 1

Accept(next) ==
  /\ a_ready' = IF Accepts THEN 0 ELSE 1
  /\ state' = IF Accepts THEN next ELSE state
  /\ saved_a' = IF Accepts THEN Head(todo) ELSE saved_a
  /\ DLow /\ CycLow
  /\ UNCHANGED saved_wb_dat

Idle ==
  /\ state = "IDLE"
  /\ LET op == Head(todo).opcode IN
       Accept(IF op \in Reads \cup Atomics THEN "WB_RD_WAIT"
              ELSE IF op = "AcquirePerm" THEN "TL_RESP" ELSE "WB_WR_WAIT")
  /\ beat_count' = IF Accepts THEN TotalBeats(Head(todo).size) ELSE beat_count
  /\ get_address' =
       IF Accepts /\ Head(todo).opcode \in Reads THEN Head(todo).address ELSE get_address

\* Mutant: a_ready keeps its default in this state.
AWaitNotReady ==
  /\ state = "A_WAIT"
  /\ a_ready' = 0 /\ DLow /\ CycLow
  /\ UNCHANGED <<state, saved_a, saved_wb_dat, beat_count, get_address>>

AWait ==
  /\ state = "A_WAIT"
  /\ Accept(IF Head(todo).opcode \in Atomics THEN "WB_RD_WAIT" ELSE "WB_WR_WAIT")
  /\ UNCHANGED <<beat_count, get_address>>

\* The read cycle; cyc is its value after the edge.
WbRdWaitWith(cyc) ==
  /\ state = "WB_RD_WAIT"
  /\ wb' = [wb EXCEPT !.cyc = cyc, !.we = 0, !.sel = Lane,
                      !.adr = IF saved_a.opcode \in Reads THEN get_address ELSE saved_a.address]
  /\ saved_wb_dat' = IF wb_ack = 1 THEN wb_rdt ELSE saved_wb_dat
  /\ state' = IF wb_ack = 0 THEN state ELSE IF saved_a.opcode \in Reads THEN "TL_RESP" ELSE "ALU"
  /\ a_ready' = 0 /\ DLow
  /\ UNCHANGED <<saved_a, beat_count, get_address>>

\* Mutant: the ack does not end the bus cycle.
WbRdWaitKeepsCyc == WbRdWaitWith(1)

WbRdWait == WbRdWaitWith(1 - wb_ack)

Alu ==
  /\ state = "ALU" /\ state' = "WB_WR_WAIT"
  /\ a_ready' = 0 /\ DLow /\ CycLow
  /\ UNCHANGED <<saved_a, saved_wb_dat, beat_count, get_address>>

\* What the write cycle stores: an atomic's result, or the data of a Put.
WriteData ==
  IF saved_a.opcode \in Atomics
  THEN Merge(saved_wb_dat, AluRes(saved_a, saved_wb_dat), saved_a.mask)
  ELSE saved_a.data

\* The write cycle; `more` when the burst goes on after this beat.
WbWrWaitWith(more) ==
  /\ state = "WB_WR_WAIT"
  /\ wb' = [cyc |-> 1 - wb_ack, adr |-> saved_a.address, sel |-> saved_a.mask, dat |-> WriteData,
            we |-> IF saved_a.opcode \in Atomics \cup Puts THEN 1 ELSE 0]
  /\ saved_wb_dat' = IF wb_ack = 1 /\ saved_a.opcode \notin Atomics THEN wb_rdt ELSE saved_wb_dat
  /\ beat_count' = IF wb_ack = 1 /\ more THEN beat_count - 1 ELSE beat_count
  /\ state' = IF wb_ack = 0 THEN state ELSE IF more THEN "A_WAIT" ELSE "TL_RESP"
  /\ a_ready' = 0 /\ DLow
  /\ UNCHANGED <<saved_a, get_address>>

\* Mutant: every beat of a Put burst is answered.
WbWrWaitAnswersBeats == WbWrWaitWith(FALSE)

WbWrWait == WbWrWaitWith(saved_a.opcode \in Puts /\ beat_count > 1)

\* The response of the saved request.
Response ==
  LET op == saved_a.opcode IN
  [opcode |-> CASE op = "AcquireBlock" -> "GrantData"
                [] op = "AcquirePerm"  -> "Grant"
                [] op \in Atomics \cup {"Get"} -> "AccessAckData"
                [] OTHER -> "AccessAck",
   data |-> IF op \in Reads \cup Atomics THEN saved_wb_dat ELSE 0]

\* valid is a register, and is high for one clock more than this state;
\* `next` when the burst goes on after this response.
TlRespWith(next) ==
  /\ state = "TL_RESP"
  /\ d' = [valid |-> 1, opcode |-> Response.opcode, data |-> Response.data]
  /\ LET goesOn == d_ready = 1 /\ next
         reads  == saved_a.opcode \in Reads
     IN /\ beat_count' = IF goesOn THEN beat_count - 1 ELSE beat_count
        /\ get_address' = IF goesOn /\ reads THEN (get_address + 1) % AdrCount ELSE get_address
        /\ state' = IF d_ready = 0 THEN state
                    ELSE IF ~next THEN "IDLE" ELSE IF reads THEN "WB_RD_WAIT" ELSE "A_WAIT"
  /\ a_ready' = 0 /\ CycLow
  /\ UNCHANGED <<saved_a, saved_wb_dat>>

\* Mutant: the counter is not looked at.
TlRespNoCount == TlRespWith(saved_a.opcode \notin Puts)

TlResp == TlRespWith(saved_a.opcode \notin Puts /\ beat_count > 1)

AdapterEdge == Idle \/ AWait \/ WbRdWait \/ Alu \/ WbWrWait \/ TlResp

InitAdapter ==
  /\ state = "IDLE" /\ beat_count = 0 /\ get_address = 0
  /\ saved_a \in {t[1] : t \in Transactions} /\ saved_wb_dat = 0
  /\ a_ready = 0 /\ d = NoD /\ wb = NoBus

ResetAdapter ==
  /\ state' = "IDLE" /\ beat_count' = 0
  /\ a_ready' = 0 /\ d' = NoD /\ wb' = NoBus
  /\ UNCHANGED <<saved_a, saved_wb_dat, get_address>>

-----------------------------------------------------------------------------
(* The master and the slave.                                               *)

\* The master holds a beat until it is accepted, and may leave gaps between
\* beats.
MasterEdge ==
  /\ \/ Accepts /\ todo' = Tail(todo)
     \/ ~Accepts /\ todo # <<>> /\ todo' = todo
     \/ ~Accepts /\ todo = <<>> /\ todo' \in Transactions \cup {<<>>}
  /\ a_valid' \in IF todo' = <<>> THEN {0} ELSE IF a_valid = 1 /\ ~Accepts THEN {1} ELSE {0, 1}
  /\ d_ready' \in IF ReadyAlways THEN {1} ELSE {0, 1}

\* The slave acknowledges a bus cycle with a pulse, after any time.
SlaveWaits ==
  /\ wb_ack' = 0
  /\ UNCHANGED <<wb_rdt, mem>>

SlaveServes ==
  /\ wb.cyc = 1 /\ wb_ack = 0
  /\ wb_ack' = 1
  /\ wb_rdt' = mem[wb.adr]
  /\ mem' = IF wb.we = 1 THEN [mem EXCEPT ![wb.adr] = Merge(@, wb.dat, wb.sel)] ELSE mem

SlaveEdge == SlaveWaits \/ SlaveServes

-----------------------------------------------------------------------------
(* What the accepted beats mean.  A beat of a burst of puts goes to the    *)
(* address that it carries; testing/tl_c_master.ent.vhdl:182 advances it   *)
(* from beat to beat, where TileLink keeps it constant in a burst.         *)

\* The word an atomic leaves behind, by the meaning of its param.
AtomicMeaning(a, m) ==
  LET Least(S, le(_, _)) == CHOOSE x \in S : \A y \in S : le(x, y)
      both == {m, a.data}
      SignedLE(x, y) == (x + 2) % 4 <= (y + 2) % 4
      Bits(Holds(_)) == (IF Holds(0) THEN 1 ELSE 0) + (IF Holds(1) THEN 2 ELSE 0)
      In(i, w) == (w \div 2 ^ i) % 2 = 1
  IN CASE a.param = "MIN"  -> Least(both, SignedLE)
       [] a.param = "MAX"  -> Least(both, LAMBDA x, y : SignedLE(y, x))
       [] a.param = "MINU" -> Least(both, LAMBDA x, y : x <= y)
       [] a.param = "MAXU" -> Least(both, LAMBDA x, y : y <= x)
       [] a.param = "ADD"  -> (m + a.data) % 4
       [] a.param = "XOR"  -> Bits(LAMBDA i : In(i, m) # In(i, a.data))
       [] a.param = "OR"   -> Bits(LAMBDA i : In(i, m) \/ In(i, a.data))
       [] a.param = "AND"  -> Bits(LAMBDA i : In(i, m) /\ In(i, a.data))
       [] a.param = "SWAP" -> a.data

\* Responses to a beat: every word of a read, the old word of an atomic beat,
\* one for a whole Put burst, one for any other request.
Responses(a, last) ==
  LET Old(op, b) == [opcode |-> op, data |-> gold[(a.address + b) % AdrCount]]
      Ack(op)    == <<[opcode |-> op, data |-> 0]>>
  IN CASE a.opcode = "Get"          -> [b \in 1 .. TotalBeats(a.size) |-> Old("AccessAckData", b - 1)]
       [] a.opcode = "AcquireBlock" -> [b \in 1 .. TotalBeats(a.size) |-> Old("GrantData", b - 1)]
       [] a.opcode \in Atomics      -> <<Old("AccessAckData", 0)>>
       [] a.opcode = "AcquirePerm"  -> Ack("Grant")
       [] a.opcode \in Puts         -> IF last THEN Ack("AccessAck") ELSE <<>>
       [] OTHER                     -> Ack("AccessAck")

Stored(a, m) ==
  CASE a.opcode \in Puts    -> Merge(m, a.data, a.mask)
    [] a.opcode \in Atomics -> Merge(m, AtomicMeaning(a, m), a.mask)
    [] OTHER                -> m

\* The master takes a response when valid and ready meet.
Taken == d.valid = 1 /\ d_ready = 1

HistoryEdge ==
  LET a == Head(todo)
      rest == IF Taken /\ owed # <<>> THEN Tail(owed) ELSE owed
  IN IF Accepts
     THEN /\ gold' = [gold EXCEPT ![a.address] = Stored(a, @)]
          /\ owed' = rest \o Responses(a, Len(todo) = 1)
     ELSE gold' = gold /\ owed' = rest

-----------------------------------------------------------------------------
Init ==
  /\ todo = <<>> /\ a_valid = 0 /\ d_ready \in IF ReadyAlways THEN {1} ELSE {0, 1}
  /\ InitAdapter
  /\ wb_ack = 0 /\ wb_rdt = 0 /\ mem = [x \in Adr |-> 0]
  /\ gold = mem /\ owed = <<>>

Edge == MasterEdge /\ AdapterEdge /\ SlaveEdge /\ HistoryEdge

\* A clock edge with rst high: master and adapter start anew, the slave ends
\* what it does and keeps the memory.
Reset ==
  /\ todo' = <<>> /\ a_valid' = 0 /\ UNCHANGED d_ready
  /\ ResetAdapter
  /\ SlaveEdge
  /\ gold' = mem' /\ owed' = <<>>

Next == Edge \/ Reset

Spec == Init /\ [][Next]_vars

\* The clock runs, a master with a beat to send sends it, a slave with a
\* request on its bus answers it.
Fairness ==
  /\ WF_vars(Edge /\ (todo # <<>> => a_valid' = 1))
  /\ WF_vars(Edge /\ SlaveServes)

FairSpec == Spec /\ Fairness

-----------------------------------------------------------------------------
(* Properties.                                                             *)

\* Registers keep their types; the counter never exceeds the largest burst.
TypeOK ==
  /\ state \in {"IDLE", "A_WAIT", "WB_RD_WAIT", "ALU", "WB_WR_WAIT", "TL_RESP"}
  /\ saved_a \in Beats /\ saved_wb_dat \in Word /\ wb_rdt \in Word
  /\ beat_count \in 0 .. Burst /\ get_address \in Adr
  /\ a_valid \in {0, 1} /\ d_ready \in {0, 1} /\ a_ready \in {0, 1} /\ wb_ack \in {0, 1}
  /\ d \in [valid : {0, 1}, data : Word,
            opcode : {"AccessAck", "AccessAckData", "Grant", "GrantData"}]
  /\ wb \in [cyc : {0, 1}, adr : Adr, we : {0, 1}, sel : SUBSET Lane, dat : Word]
  /\ mem \in [Adr -> Word] /\ gold \in [Adr -> Word]

\* A response on channel D is the one the master is owed next, with the word
\* the requests before it left in memory: no beat of a burst is left out,
\* repeated, or read at the address of another.
DeliversOwed ==
  d.valid = 1 => owed # <<>> /\ [opcode |-> d.opcode, data |-> d.data] = Head(owed)

\* When the adapter waits for a new request, everything before it is answered
\* and the memory is what the requests made it, beat by beat and lane by lane.
IdleMeansDone ==
  state = "IDLE" /\ d.valid = 0 => owed = <<>> /\ mem = gold

\* Every request is accepted, and every accepted request is answered in full,
\* unless a reset ends it.
AllAnswered ==
  /\ a_valid = 1 ~> Accepts \/ a_valid = 0
  /\ owed # <<>> ~> owed = <<>>
=============================================================================
