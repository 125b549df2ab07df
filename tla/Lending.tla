------------------------------ MODULE Lending -------------------------------
(***************************************************************************)
(* What a pool promises its borrowers: a connection is lent to one         *)
(* borrower at a time, and lent again only after it has been given back.   *)
(***************************************************************************)
CONSTANTS Borrowers, Connections, Nothing

VARIABLE lent      \* the connection each borrower has, or Nothing

Init == lent = [b \in Borrowers |-> Nothing]

Lend(b, c) ==
  /\ lent[b] = Nothing
  /\ \A other \in Borrowers : lent[other] # c
  /\ lent' = [lent EXCEPT ![b] = c]

GiveBack(b) ==
  /\ lent[b] # Nothing
  /\ lent' = [lent EXCEPT ![b] = Nothing]

Next == \E b \in Borrowers : GiveBack(b) \/ \E c \in Connections : Lend(b, c)

Spec == Init /\ [][Next]_lent

=============================================================================
