----------------------------- MODULE FsmProgram -----------------------------
(***************************************************************************)
(* What an FSM promises about its IO, without registers, handshakes and    *)
(* stalls: it walks through the states; in each of them it performs the    *)
(* accesses whose condition holds, at once, with the values which were     *)
(* read and received so far, sends to the channels and goes on: to a state *)
(* which receives a 1, or else to the next one.                            *)
(***************************************************************************)
EXTENDS Integers, Sequences

CONSTANTS NumStates, Input, Output, Access, access, Channel, channel, MaxItems

VARIABLES bit, st, count, written, last, sent

Io == Input \cup Output
Read == {a \in Access : access[a].intf \in Input}
Value == Read \cup Channel
defState(v) == IF v \in Channel THEN channel[v].read ELSE access[v].state

Unconditional(a) == access[a].guard = SUBSET Value

\* The values as the accesses of the current state see them.
Now(v) ==
  IF defState(v) # st THEN last[v]
  ELSE IF v \in Channel THEN sent[v]
  ELSE count[access[v].intf] + 1

Ones ==
  {v \in Value :
     /\ defState(v) <= st
     /\ IF v \in Channel THEN Now(v) = 1
        ELSE Now(v) <= MaxItems /\ bit[access[v].intf][Now(v)]}

\* The functions of the current state do not depend on later values.
Holds(f) == Ones \in f

Performed == {a \in Access : access[a].state = st /\ Holds(access[a].guard)}

Sends(c) == channel[c].write = st
ToSend(c) == IF Holds(channel[c].src) THEN 1 ELSE 0

Init ==
  /\ bit \in [Input -> [0..MaxItems -> BOOLEAN]]
  /\ st = 0
  /\ count = [io \in Io |-> 0]
  /\ written = [io \in Output |-> << >>]
  /\ last = [v \in Value |-> 0]
  /\ sent = [c \in Channel |-> channel[c].init]

Next ==
  /\ \A a \in Performed : count[access[a].intf] < MaxItems
  /\ count' = [io \in Io |-> IF \E a \in Performed : access[a].intf = io
                             THEN count[io] + 1 ELSE count[io]]
  /\ written' =
       [io \in Output |->
          written[io] \o
            IF \E a \in Performed : access[a].intf = io
            THEN LET a == CHOOSE b \in Performed : access[b].intf = io
                 IN  << [access |-> a, values |-> [v \in access[a].operands |-> Now(v)]] >>
            ELSE << >>]
  /\ last' = [v \in Value |-> IF defState(v) = st /\ (v \in Channel \/ Unconditional(v))
                              THEN Now(v) ELSE last[v]]
  /\ sent' = [c \in Channel |-> IF Sends(c) THEN ToSend(c) ELSE sent[c]]
  /\ LET received == {channel[c].read : c \in {d \in Channel : Sends(d) /\ ToSend(d) = 1}}
     IN  st' \in IF received = {} THEN {(st + 1) % NumStates} ELSE received
  /\ UNCHANGED bit

Spec == Init /\ [][Next]_<<bit, st, count, written, last, sent>>

=============================================================================
