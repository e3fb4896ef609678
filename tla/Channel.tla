------------------------------- MODULE Channel -------------------------------
(***************************************************************************)
(* What a channel of a message broker promises to the handler that reads   *)
(* it, however messages travel: one that is taken was published, is taken  *)
(* once, and, if the channel is ordered, after those published before it   *)
(* that are taken at all.  Messages are numbered as they are published.    *)
(***************************************************************************)
EXTENDS Integers

VARIABLES
  ordered,  \* messages come in the order of their numbers
  sent,     \* how many were published
  taken     \* those that getNextMessage has returned

Init == ordered \in BOOLEAN /\ sent = 0 /\ taken = {}

Publish == sent' = sent + 1 /\ UNCHANGED <<ordered, taken>>

Take(n) ==
  /\ n \in 1..sent /\ n \notin taken
  /\ ordered => \A m \in taken : m < n
  /\ taken' = taken \cup {n}
  /\ UNCHANGED <<ordered, sent>>

Next == Publish \/ \E n \in 1..sent : Take(n)

Spec == Init /\ [][Next]_<<ordered, sent, taken>>

=============================================================================
