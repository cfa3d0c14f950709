---------------------------- MODULE SharedMemory ----------------------------
(***************************************************************************)
(* What the DDR3 path promises to the hosts that share it: one memory of   *)
(* words.  Every request takes effect exactly once, alone, between the     *)
(* clock edge on which its host raises cyc and the one on which it sees    *)
(* ack.  A store changes the selected bytes of the addressed word and      *)
(* nothing else; a load gives its host the word as it was at that moment.  *)
(***************************************************************************)
EXTENDS Naturals

CONSTANTS Ports, Adr, Requests, NoWord, PowerUpWord

VARIABLES
  phase,   \* of each port: "idle", "pending", "done"
  ask,     \* what each port asks for
  val,     \* the word a served load has found, or NoWord
  mem

memVars == <<phase, ask, val, mem>>

Stored(r) ==
  [mem EXCEPT ![r.adr] = [i \in 0 .. 3 |-> IF i \in r.sel THEN r.dat[i] ELSE @[i]]]

Init ==
  /\ phase = [p \in Ports |-> "idle"]
  /\ ask \in [Ports -> Requests]
  /\ val = [p \in Ports |-> NoWord]
  /\ mem = [a \in Adr |-> PowerUpWord]

\* What a clock edge may do to a port.
Stay(p)    == phase'[p] = phase[p] /\ ask'[p] = ask[p] /\ val'[p] = val[p]
Request(p) == phase[p] = "idle" /\ phase'[p] = "pending" /\ val'[p] = NoWord
Return(p)  == phase[p] = "done" /\ phase'[p] = "idle" /\ ask'[p] = ask[p] /\ val'[p] = NoWord

\* The request of p takes effect.
Perform(p) ==
  /\ phase[p] = "pending" /\ phase'[p] = "done"
  /\ ask'[p] = ask[p]
  /\ IF ask[p].we = 1
     THEN mem' = Stored(ask[p]) /\ val'[p] = NoWord
     ELSE mem' = mem /\ val'[p] = mem[ask[p].adr]

\* One clock edge: the ports move together, at most one of them is served.
Edge ==
  /\ DOMAIN phase' = Ports /\ DOMAIN val' = Ports
  /\ ask' \in [Ports -> Requests]
  /\ \/ mem' = mem /\ \A p \in Ports : Stay(p) \/ Request(p) \/ Return(p)
     \/ \E served \in Ports :
          /\ Perform(served)
          /\ \A p \in Ports \ {served} : Stay(p) \/ Request(p) \/ Return(p)

\* A reset abandons every request, served or not, and leaves the memory as it is.
Reset ==
  /\ phase' = [p \in Ports |-> "idle"]
  /\ val' = [p \in Ports |-> NoWord]
  /\ UNCHANGED <<ask, mem>>

Next == Edge \/ Reset

Spec == Init /\ [][Next]_memVars
=============================================================================
