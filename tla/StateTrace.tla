------------------------------ MODULE StateTrace ------------------------------
(***************************************************************************)
(* The tick trace (state_trace.cpp): the control thread fills one row per  *)
(* tick into a ring, a writer thread drains the ring to a file.  There is  *)
(* no lock: head_ has one writer, tail_ the other, both wrap like the      *)
(* 32-bit counters they are (modulo Width), and a row is published with a  *)
(* release after it is filled, so interleaving the steps one by one loses  *)
(* no behaviour.                                                           *)
(*                                                                         *)
(* A row is its three counting columns: "call", the tick it was recorded   *)
(* in (its time stamp), "tick" and "dropped", the counters the code puts   *)
(* into it.  A row being filled is NoRow.                                  *)
(***************************************************************************)
EXTENDS Integers, Sequences, SequencesExt

CONSTANTS
  Ring,      \* kRing
  Width,     \* 2^32: values of head_ and tail_
  MaxCalls,  \* bound: ticks of the control loop
  NoRow

Row == [call : 1..MaxCalls, tick : 0..MaxCalls, dropped : 0..MaxCalls]

ASSUME RingAssumption  == /\ Ring \in Nat \ {0} /\ Width \in Nat
                          /\ Ring < Width /\ Width % Ring = 0
ASSUME BoundAssumption == MaxCalls \in Nat
ASSUME NoRowAssumption == NoRow \notin Row

VARIABLES
  \* ── the control thread
  rpc,        \* where record() stands
  rhead,      \* its local copy of head_
  calls,      \* history: calls of record() so far
  tick,       \* tick_: rows filled
  retired,    \* the control loop is joined
  \* ── shared
  ring, head, tail, dropped, stop,
  \* ── the writer thread
  wpc,        \* where writer_loop stands
  whead,      \* its local copies
  wtail,
  run_at, run_left,  \* the contiguous run being written: next index, rows left
  file,
  committed   \* history: rows in the file when tail_ was stored last

producer == <<rpc, rhead, calls, tick, retired>>
writer   == <<wpc, whead, wtail, run_at, run_left, file, committed>>
trace_vars == <<producer, ring, head, tail, dropped, stop, writer>>

TypeOK ==
  /\ rpc \in {"idle", "fill", "publish"} /\ rhead \in 0..(Width - 1)
  /\ calls \in 0..MaxCalls /\ tick \in 0..MaxCalls /\ retired \in BOOLEAN
  /\ ring \in [0..(Ring - 1) -> Row \cup {NoRow}]
  /\ head \in 0..(Width - 1) /\ tail \in 0..(Width - 1)
  /\ dropped \in 0..MaxCalls /\ stop \in BOOLEAN
  /\ wpc \in {"sleep", "drain", "check", "stopped"}
  /\ whead \in 0..(Width - 1) /\ wtail \in 0..(Width - 1)
  /\ run_at \in 0..Ring /\ run_left \in 0..Ring
  /\ file \in Seq(Row) /\ committed \in 0..MaxCalls

TraceInit ==
  /\ rpc = "idle" /\ rhead = 0 /\ calls = 0 /\ tick = 0 /\ retired = FALSE
  /\ ring = [i \in 0..(Ring - 1) |-> NoRow]
  /\ head = 0 /\ tail = 0 /\ dropped = 0 /\ stop = FALSE
  /\ wpc = "sleep" /\ whead = 0 /\ wtail = 0 /\ run_at = 0 /\ run_left = 0
  /\ file = <<>> /\ committed = 0

\* Unsigned arithmetic on the counters.
advance(i, n) == (i + n) % Width
distance(from, to) == (to - from) % Width

-----------------------------------------------------------------------------
(* record(), on the control thread                                         *)

full_Late == distance(tail, head) > Ring  \* mutant
full == distance(tail, head) >= Ring

\* The writer is behind: drop this row and count it.
RecordDrops_Silent ==  \* mutant: not counted
  /\ rpc = "idle" /\ ~retired /\ calls < MaxCalls
  /\ full
  /\ calls' = calls + 1
  /\ UNCHANGED <<rpc, rhead, tick, retired, ring, head, tail, dropped, stop, writer>>
RecordDrops ==
  /\ rpc = "idle" /\ ~retired /\ calls < MaxCalls
  /\ full
  /\ calls' = calls + 1
  /\ dropped' = dropped + 1
  /\ UNCHANGED <<rpc, rhead, tick, retired, ring, head, tail, stop, writer>>

\* Room for a row: fill() starts by clearing it ...
RecordStarts ==
  /\ rpc = "idle" /\ ~retired /\ calls < MaxCalls
  /\ ~full
  /\ calls' = calls + 1
  /\ rhead' = head
  /\ ring' = [ring EXCEPT ![head % Ring] = NoRow]
  /\ rpc' = "fill"
  /\ UNCHANGED <<tick, retired, head, tail, dropped, stop, writer>>

\* ... and ends with every column in place.
RecordFills ==
  /\ rpc = "fill"
  /\ ring' = [ring EXCEPT ![rhead % Ring] =
                [call |-> calls, tick |-> tick, dropped |-> dropped]]
  /\ tick' = tick + 1
  /\ rpc' = "publish"
  /\ UNCHANGED <<rhead, calls, retired, head, tail, dropped, stop, writer>>

RecordPublishes ==
  /\ rpc = "publish"
  /\ head' = advance(rhead, 1)
  /\ rpc' = "idle"
  /\ UNCHANGED <<rhead, calls, tick, retired, ring, tail, dropped, stop, writer>>

-----------------------------------------------------------------------------
(* writer_loop()                                                           *)

WriterWakes ==
  /\ wpc = "sleep"
  /\ whead' = head /\ wtail' = tail
  /\ wpc' = "drain"
  /\ UNCHANGED <<producer, ring, head, tail, dropped, stop, run_at, run_left, file,
                 committed>>

\* The contiguous run up to the ring's end; fwrite then reads it row by row.
RunStarts ==
  /\ wpc = "drain" /\ run_left = 0 /\ wtail # whead
  /\ LET idx == wtail % Ring
         n   == Min({distance(wtail, whead), Ring - idx})
     IN  /\ run_at' = idx /\ run_left' = n
         /\ wtail' = advance(wtail, n)
  /\ UNCHANGED <<producer, ring, head, tail, dropped, stop, wpc, whead, file, committed>>

RunWrites ==
  /\ wpc = "drain" /\ run_left > 0
  /\ file' = Append(file, ring[run_at])
  /\ run_at' = run_at + 1 /\ run_left' = run_left - 1
  /\ UNCHANGED <<producer, ring, head, tail, dropped, stop, wpc, whead, wtail, committed>>

WriterStores ==
  /\ wpc = "drain" /\ run_left = 0 /\ wtail = whead
  /\ tail' = wtail
  /\ committed' = Len(file)
  /\ wpc' = "check"
  /\ UNCHANGED <<producer, ring, head, dropped, stop, whead, wtail, run_at, run_left, file>>

WriterChecks_Hasty ==  \* mutant: what was published meanwhile is left behind
  /\ wpc = "check"
  /\ wpc' = IF stop THEN "stopped" ELSE "sleep"
  /\ UNCHANGED <<producer, ring, head, tail, dropped, stop, whead, wtail, run_at,
                 run_left, file, committed>>
WriterChecks ==
  /\ wpc = "check"
  /\ wpc' = IF stop /\ head = wtail THEN "stopped" ELSE "sleep"
  /\ UNCHANGED <<producer, ring, head, tail, dropped, stop, whead, wtail, run_at,
                 run_left, file, committed>>

-----------------------------------------------------------------------------
(* GearsonicInference::stop joins the control loop, then stops the trace.  *)

ControllerJoined ==
  /\ rpc = "idle" /\ ~retired
  /\ retired' = TRUE
  /\ UNCHANGED <<rpc, rhead, calls, tick, ring, head, tail, dropped, stop, writer>>

StopTrace ==
  /\ retired /\ ~stop
  /\ stop' = TRUE
  /\ UNCHANGED <<producer, ring, head, tail, dropped, writer>>

Record == RecordDrops \/ RecordStarts \/ RecordFills \/ RecordPublishes
Writer == WriterWakes \/ RunStarts \/ RunWrites \/ WriterStores \/ WriterChecks

TraceNext == Record \/ Writer \/ ControllerJoined \/ StopTrace

\* The writer's loop runs on its own thread until stopped.
TraceSpec == TraceInit /\ [][TraceNext]_trace_vars /\ WF_trace_vars(Writer)

-----------------------------------------------------------------------------
(* Properties                                                              *)

(* The columns of the file account for every tick: row i carries i - 1,    *)
(* and the rows dropped before it are exactly the ticks missing before it  *)
(* ("so an incident can be reconstructed afterwards", state_trace.hpp:19-  *)
(* 20, 31-32).  A torn, repeated, overwritten or lost row would break it.  *)
Reconstructible ==
  \A i \in DOMAIN file : /\ file[i].tick = i - 1
                         /\ file[i].call = file[i].tick + file[i].dropped + 1

\* The rows between tail_ and head_, oldest first; the file up to tail_.
PendingRows == [k \in 1..distance(tail, head) |-> ring[(tail + k - 1) % Ring]]

Queue == INSTANCE LossyQueue WITH Capacity <- Ring, pending <- PendingRows,
                                  written <- SubSeq(file, 1, committed),
                                  lost <- dropped

(* The ring implements the queue its reader may think of: in order,        *)
(* unchanged, a loss only while Ring rows wait.                            *)
ImplementsQueue == Queue!Spec

(* After stop() everything recorded is in the file (state_trace.cpp:64-71, *)
(* :88): the last rows, of the ticks before a shutdown, are not lost.      *)
StopFlushes == stop ~> (wpc = "stopped" /\ Len(file) + dropped = calls)

=============================================================================
