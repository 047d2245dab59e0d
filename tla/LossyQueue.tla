------------------------------ MODULE LossyQueue ------------------------------
(***************************************************************************)
(* What the tick trace promises its reader (state_trace.hpp:18-32): rows   *)
(* reach the file in order and unchanged; a row is lost only when it is    *)
(* offered while Capacity rows wait, and every loss is counted.            *)
(***************************************************************************)
EXTENDS Naturals, Sequences

CONSTANTS Row, Capacity

VARIABLES pending, written, lost

vars == <<pending, written, lost>>

Init == pending = <<>> /\ written = <<>> /\ lost = 0

\* The control thread hands over a row; it never waits.
Accept == /\ Len(pending) < Capacity
          /\ \E row \in Row : pending' = Append(pending, row)
          /\ UNCHANGED <<written, lost>>

Lose == /\ Len(pending) = Capacity
        /\ lost' = lost + 1
        /\ UNCHANGED <<pending, written>>

\* A batch goes to the file.
Flush == /\ \E n \in 1..Len(pending) :
              /\ written' = written \o SubSeq(pending, 1, n)
              /\ pending' = SubSeq(pending, n + 1, Len(pending))
         /\ UNCHANGED lost

Next == Accept \/ Lose \/ Flush

Spec == Init /\ [][Next]_vars

=============================================================================
