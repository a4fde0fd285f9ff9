----------------------------- MODULE StreamQueue -----------------------------
(***************************************************************************)
(* What every stream of the design promises, cycle by cycle: a queue of at  *)
(* most Depth words that loses, doubles and reorders none.  SaGrid takes    *)
(* its FIFOs and links to be such queues.                                   *)
(***************************************************************************)
EXTENDS Naturals, Sequences

CONSTANTS Data, Depth

VARIABLES
  q,       \* the words in the queue, the oldest first
  ready,   \* the queue takes a word in this cycle if one is offered
  write,   \* the producer offers a word, din
  din,
  read,    \* the consumer takes the oldest word if there is one
  reset

Init == q = << >> /\ ready \in BOOLEAN

Rest == IF read /\ q # << >> THEN Tail(q) ELSE q

Next ==
  /\ q' = IF reset THEN << >>
          ELSE IF write /\ ready THEN Append(Rest, din) ELSE Rest
  /\ ready' \in BOOLEAN
  /\ ready' => Len(q') < Depth

Spec == Init /\ [][Next]_<<q, ready, write, din, read, reset>>
=============================================================================
