------------------------------ MODULE Channel -------------------------------
(***************************************************************************)
(* What a session of ServerCore promises to the handlers on both its ends:  *)
(* what one end sends is handled by the other whole, once and in order.     *)
(* Only messages the other end has not handled can be lost, all of them     *)
(* from some message on.                                                    *)
(***************************************************************************)
EXTENDS Naturals, Sequences

CONSTANTS Sessions, Messages

VARIABLES
  sent,    \* what was sent over a session and not lost, in order
  handled  \* what its other end has handled, in order

Init ==
  /\ sent = [s \in Sessions |-> <<>>]
  /\ handled = [s \in Sessions |-> <<>>]

Send(s, m) ==
  /\ sent' = [sent EXCEPT ![s] = Append(@, m)]
  /\ UNCHANGED handled

Lose(s, n) ==
  /\ n \in Len(handled[s]) .. Len(sent[s])
  /\ sent' = [sent EXCEPT ![s] = SubSeq(@, 1, n)]
  /\ UNCHANGED handled

Handle(s) ==
  /\ Len(handled[s]) < Len(sent[s])
  /\ handled' = [handled EXCEPT ![s] = Append(@, sent[s][Len(@) + 1])]
  /\ UNCHANGED sent

Next ==
  \E s \in Sessions :
    \/ \E m \in Messages : Send(s, m)
    \/ \E n \in 0 .. Len(sent[s]) : Lose(s, n)
    \/ Handle(s)

Spec == Init /\ [][Next]_<<sent, handled>>
=============================================================================
