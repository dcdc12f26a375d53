------------------------------ MODULE Channel ------------------------------
(***************************************************************************)
(* What a buffered channel promises: messages are received in the order    *)
(* they were sent, each by one receiver; a Send returns once its message   *)
(* is among the first Capacity of those waiting, or has been taken; a Recv *)
(* returns with a message.                                                 *)
(***************************************************************************)
EXTENDS Sequences, Naturals

CONSTANTS Callers, Messages, NoMessage, Capacity

VARIABLES line,   \* sent and not yet taken, oldest first
          taken,  \* taken[c]: what the Recv of c is about to return
          owed,   \* the messages whose Send has not returned
          sent    \* the messages sent so far

vars == <<line, taken, owed, sent>>

Init ==
  /\ line = <<>> /\ taken = [c \in Callers |-> NoMessage]
  /\ owed = {} /\ sent = {}

Send(m) == m \notin sent /\ sent' = sent \union {m} /\ owed' = owed \union {m}

Put(m) == Send(m) /\ line' = Append(line, m) /\ UNCHANGED taken

\* A message that nothing is in front of may go straight to a receiver.
Pass(m, c) ==
  /\ line = <<>> /\ taken[c] = NoMessage
  /\ Send(m)
  /\ taken' = [taken EXCEPT ![c] = m]
  /\ UNCHANGED line

Take(c) ==
  /\ line # <<>> /\ taken[c] = NoMessage
  /\ taken' = [taken EXCEPT ![c] = Head(line)] /\ line' = Tail(line)
  /\ UNCHANGED <<owed, sent>>

SendReturns(m) ==
  /\ m \in owed
  /\ \A i \in DOMAIN line : line[i] = m => i <= Capacity
  /\ owed' = owed \ {m}
  /\ UNCHANGED <<line, taken, sent>>

RecvReturns(c) ==
  /\ taken[c] # NoMessage
  /\ taken' = [taken EXCEPT ![c] = NoMessage]
  /\ UNCHANGED <<line, owed, sent>>

Next ==
  \/ \E m \in Messages : Put(m) \/ SendReturns(m)
  \/ \E c \in Callers : Take(c) \/ RecvReturns(c) \/ \E m \in Messages : Pass(m, c)

Spec == Init /\ [][Next]_vars
=============================================================================
