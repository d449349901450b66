--------------------------- MODULE BoundedChannel ---------------------------
(***************************************************************************)
(* What a bounded buffer promises: the products 1, 2, 3, ... come out one  *)
(* by one in the order they went in, none is lost or repeated, and at most *)
(* Capacity of them are inside.  ProdConsBound implements this with a ring *)
(* of slots and two semaphores.                                            *)
(***************************************************************************)
EXTENDS Naturals, Sequences

CONSTANT Capacity

VARIABLES sent,      (* the last product put in; they are numbered from 1  *)
          channel,   (* the products inside, oldest first                  *)
          received   (* the last product taken out                         *)

vars == <<sent, channel, received>>

Init ==
  /\ sent = 0
  /\ channel = <<>>
  /\ received = 0

Put ==
  /\ Len(channel) < Capacity
  /\ sent' = sent + 1
  /\ channel' = Append(channel, sent + 1)
  /\ UNCHANGED received

Get ==
  /\ channel # <<>>
  /\ received' = Head(channel)
  /\ channel' = Tail(channel)
  /\ UNCHANGED sent

Next == Put \/ Get

Spec == Init /\ [][Next]_vars
=============================================================================
