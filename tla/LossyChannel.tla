---------------------------- MODULE LossyChannel ----------------------------
(***************************************************************************)
(* What a message queue without acknowledgements promises: what is handled *)
(* has been put into it, once for each time it is handled.  Anything may   *)
(* be lost on the way.                                                     *)
(***************************************************************************)
EXTENDS Sequences

VARIABLES
  held,      \* the messages in the channel
  handled    \* the messages that have been handled, oldest first

Init == held = {} /\ handled = <<>>

Put ==
  /\ \E e \in held' \ held : held' = held \union {e}
  /\ UNCHANGED handled

Handle(e) ==
  /\ held' = held \ {e}
  /\ handled' = Append(handled, e)

Lose ==
  /\ held' \subseteq held
  /\ UNCHANGED handled

Next == Put \/ Lose \/ \E e \in held : Handle(e)

Spec == Init /\ [][Next]_<<held, handled>>

=============================================================================
