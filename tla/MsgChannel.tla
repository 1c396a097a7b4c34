----------------------------- MODULE MsgChannel -----------------------------
(***************************************************************************)
(* What both ends expect of a connection: the messages that SendData       *)
(* accepted are delivered once, in order and whole; a message that         *)
(* SendData refused is dropped as a whole.  Connection is shown to         *)
(* implement it.                                                           *)
(***************************************************************************)
EXTENDS Naturals, Sequences

CONSTANT Message   \* what may be sent

VARIABLES accepted, delivered

vars == <<accepted, delivered>>

Init == accepted = <<>> /\ delivered = <<>>

Accept ==
  /\ \E m \in Message : accepted' = Append(accepted, m)
  /\ UNCHANGED delivered

Deliver ==
  /\ Len(delivered) < Len(accepted)
  /\ delivered' = Append(delivered, accepted[Len(delivered) + 1])
  /\ UNCHANGED accepted

Next == Accept \/ Deliver

Safe == Init /\ [][Next]_vars
=============================================================================
