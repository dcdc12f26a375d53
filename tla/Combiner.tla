------------------------------ MODULE Combiner ------------------------------
(***************************************************************************)
(* What a strand promises: callbacks run one at a time and once per call,  *)
(* those that had to wait in the order they came, and a call returns when  *)
(* its callback has run.                                                   *)
(***************************************************************************)
EXTENDS Sequences

CONSTANTS Callers, Nobody

VARIABLES line,    \* callers that wait for their callback to run
          inside,  \* the caller whose callback is running
          served   \* callers whose callback has run

vars == <<line, inside, served>>

Init == line = <<>> /\ inside = Nobody /\ served = {}

Out(c) == c # inside /\ c \notin served /\ \A i \in DOMAIN line : line[i] # c

Enter(c) ==
  /\ Out(c) /\ inside = Nobody /\ line = <<>>
  /\ inside' = c
  /\ UNCHANGED <<line, served>>

Queue(c) ==
  /\ Out(c)
  /\ line' = Append(line, c)
  /\ UNCHANGED <<inside, served>>

Begin ==
  /\ inside = Nobody /\ line # <<>>
  /\ inside' = Head(line) /\ line' = Tail(line)
  /\ UNCHANGED served

End ==
  /\ inside # Nobody
  /\ inside' = Nobody /\ served' = served \union {inside}
  /\ UNCHANGED line

Return(c) ==
  /\ c \in served /\ served' = served \ {c}
  /\ UNCHANGED <<line, inside>>

Next == (\E c \in Callers : Enter(c) \/ Queue(c) \/ Return(c)) \/ Begin \/ End

Spec == Init /\ [][Next]_vars
=============================================================================
