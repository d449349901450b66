-------------------------- MODULE OrderedGreetings --------------------------
(***************************************************************************)
(* What the programs that order their output promise, however they do it   *)
(* (a chain of semaphores, a busy wait, an array printed at the end, one   *)
(* thread at a time, a chain of messages): whatever is announced comes     *)
(* after everything with a smaller number, and only once.                  *)
(***************************************************************************)
EXTENDS Naturals, Sequences

CONSTANT Numbers    (* what may be announced                               *)

VARIABLE said       (* what was announced so far, in order                 *)

Init == said = <<>>

Announce(n) ==
  /\ \A i \in 1 .. Len(said) : said[i] < n
  /\ said' = Append(said, n)

Next == \E n \in Numbers : Announce(n)

Spec == Init /\ [][Next]_said
=============================================================================
