-------------------------------- MODULE Delivery --------------------------------
(***************************************************************************)
(* What a cell channel of the private routes promises its user: a stream   *)
(* channel delivers a prefix of what was sent, in order and each payload   *)
(* once; a datagram channel delivers each payload at most once.            *)
(***************************************************************************)
EXTENDS Integers, Sequences

CONSTANT Payloads

VARIABLES
  stream,      (* the class of the channel                                   *)
  sent,        (* the payloads sent so far                                   *)
  delivered    (* what was delivered: numbers and payloads of sent           *)

vars == <<stream, sent, delivered>>

Item(i) == [number |-> i, payload |-> sent[i]]

Init ==
  /\ stream \in BOOLEAN
  /\ sent = <<>>
  /\ delivered = <<>>

Send ==
  /\ \E p \in Payloads : sent' = Append(sent, p)
  /\ UNCHANGED <<stream, delivered>>

(* One arrival may deliver several payloads that waited for it.            *)
DeliverInOrder ==
  /\ stream
  /\ \E n \in (Len(delivered) + 1)..Len(sent) : delivered' = [i \in 1..n |-> Item(i)]
  /\ UNCHANGED <<stream, sent>>

DeliverOnce ==
  /\ ~stream
  /\ \E i \in 1..Len(sent) :
       /\ \A j \in 1..Len(delivered) : delivered[j].number # i
       /\ delivered' = Append(delivered, Item(i))
  /\ UNCHANGED <<stream, sent>>

Next == Send \/ DeliverInOrder \/ DeliverOnce

Spec == Init /\ [][Next]_vars
=============================================================================
