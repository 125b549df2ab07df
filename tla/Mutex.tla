------------------------------- MODULE Mutex --------------------------------
(***************************************************************************)
(* What a lock whose release may be carried out twice promises: it is      *)
(* granted only when every owner it still has was robbed of it, and only   *)
(* a release of another client that has not returned robs an owner.        *)
(***************************************************************************)
CONSTANT Clients

VARIABLES
  owners,      \* the clients that own the lock, as far as they know
  robbed,      \* the owners among them that have lost it
  releasing    \* the clients whose release has not returned

vars == <<owners, robbed, releasing>>

Init ==
  /\ owners = {}
  /\ robbed = {}
  /\ releasing = {}

Grant(c) ==
  /\ c \notin owners \cup releasing
  /\ owners \subseteq robbed
  /\ owners' = owners \cup {c}
  /\ UNCHANGED <<robbed, releasing>>

\* The owner gives the lock up.
Release(c) ==
  /\ c \in owners
  /\ owners' = owners \ {c}
  /\ robbed' = robbed \ {c}
  /\ releasing' = releasing \cup {c}

\* The release returns, or will be repeated: it may have robbed the owners.
Released(c) ==
  /\ c \in releasing
  /\ robbed' \in {robbed, owners}
  /\ releasing' \in {releasing, releasing \ {c}}
  /\ UNCHANGED owners

\* An owner or a releasing client dies.
Die(c) ==
  /\ c \in owners \cup releasing
  /\ owners' = owners \ {c}
  /\ robbed' = robbed \ {c}
  /\ releasing' = releasing \ {c}

Next == \E c \in Clients : Grant(c) \/ Release(c) \/ Released(c) \/ Die(c)

Spec == Init /\ [][Next]_vars

=============================================================================
