------------------------------ MODULE MCHostRun ------------------------------
(* Products that leave ragged tiles in every direction, operands at their    *)
(* bounds, buffers for one tile, for two, and for all.                       *)
EXTENDS HostRun

Values(rows, cols, step) ==
  Sized(rows, cols, LAMBDA i, j : (((i * 5 + j * 3) * step) % (2 * AMAX + 1)) - AMAX)

Tall == [A |-> Values(5, 3, 1), B |-> Values(3, 2, 2)]
Wide == [A |-> Values(3, 3, 3), B |-> Values(3, 3, 1)]

AJob(m, size, given, runs, found) ==
  [A |-> m.A, B |-> m.B, size |-> size, chunk |-> given, runs |-> runs, found |-> found]

MCJobs ==
  {AJob(m, size, 0, 2, R * S) : m \in {Tall, Wide}, size \in {18, 41, 75}}
    \cup {AJob(Tall, 200, given, 1, R * S) : given \in {0, 1}}
    \cup {AJob(Wide, 75, 0, 1, R * S - 1)}
=============================================================================
