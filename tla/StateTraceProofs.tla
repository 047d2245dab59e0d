-------------------------- MODULE StateTraceProofs --------------------------
(***************************************************************************)
(* Theorems of StateTrace, for every ring, counter width and number of     *)
(* ticks: the file accounts for every tick, nothing is left in the ring    *)
(* after a stop, and the ring implements LossyQueue.                       *)
(*                                                                         *)
(* The proofs count in natural numbers: `published` rows, `claimed` by the *)
(* writer, `committed` to tail_.  The counters of the code are these       *)
(* modulo Width, and the row of tick k is kept in slot k % Ring.           *)
(***************************************************************************)
EXTENDS StateTrace, SequenceTheorems, TLAPS

-----------------------------------------------------------------------------
(* Wrapping counters                                                       *)

LEMMA DivMod ==
  ASSUME NEW x \in Int, NEW n \in Nat \ {0}
  PROVE  /\ (x % n) \in 0..(n - 1)
         /\ x = n * (x \div n) + (x % n)
         /\ x \div n \in Int
  BY SMT

(* A multiple of n that is smaller than n is zero.                         *)
LEMMA SmallMultiple ==
  ASSUME NEW n \in Nat \ {0}, NEW d \in Int, n * d < n, -n < n * d
  PROVE  d = 0
<1>1. d >= 1 => n * d >= n
  BY SMT
<1>2. d <= -1 => n * d <= -n
  BY SMT
<1> QED BY <1>1, <1>2, SMT

LEMMA ModShift ==
  ASSUME NEW n \in Nat \ {0}, NEW a \in Int, NEW q \in Int
  PROVE  (a + n * q) % n = a % n
<1> DEFINE r == a % n
           s == (a + n * q) % n
           d == ((a + n * q) \div n) - q - (a \div n)
<1>1. /\ r \in 0..(n - 1) /\ a = n * (a \div n) + r /\ a \div n \in Int
      /\ s \in 0..(n - 1) /\ a + n * q = n * ((a + n * q) \div n) + s
      /\ (a + n * q) \div n \in Int
  BY DivMod
<1>2. n * d = r - s /\ d \in Int
  <2>1. n * d = n * ((a + n * q) \div n) - n * q - n * (a \div n) /\ n * q \in Int
    BY <1>1, SMT
  <2> QED BY <1>1, <2>1, SMT
<1> HIDE DEF r, s, d
<1>3. d = 0
  BY <1>1, <1>2, SmallMultiple, SMT
<1>4. r = s
  BY <1>1, <1>2, <1>3, SMT
<1> QED BY <1>4 DEF r, s

LEMMA ModSmall ==
  ASSUME NEW n \in Nat \ {0}, NEW a \in 0..(n - 1)
  PROVE  a % n = a
  BY SMT

LEMMA ModAdd ==
  ASSUME NEW n \in Nat \ {0}, NEW a \in Int, NEW b \in Int
  PROVE  ((a % n) + b) % n = (a + b) % n
<1> DEFINE r == a % n
           q == a \div n
<1>1. a = n * q + r /\ q \in Int /\ r \in Int
  BY DivMod
<1> HIDE DEF r, q
<1>2. r + b \in Int /\ n * q \in Int
  BY <1>1, SMT
<1>3. ((r + b) + n * q) % n = (r + b) % n
  BY <1>1, <1>2, ModShift, Zenon
<1>4. (r + b) + n * q = a + b
  BY <1>1, <1>2, SMT
<1>5. (r + b) % n = (a + b) % n
  BY <1>3, <1>4, Zenon
<1> QED BY <1>5 DEF r

(* Numbers less than n apart have different remainders.                    *)
LEMMA ModApart ==
  ASSUME NEW n \in Nat \ {0}, NEW a \in Int, NEW b \in Int, a < b, b - a < n
  PROVE  a % n # b % n
<1> SUFFICES ASSUME a % n = b % n PROVE FALSE
  OBVIOUS
<1> DEFINE d == (b \div n) - (a \div n)
<1>1. /\ a = n * (a \div n) + (a % n) /\ a \div n \in Int /\ a % n \in Int
      /\ b = n * (b \div n) + (b % n) /\ b \div n \in Int
  BY DivMod
<1>2. n * d = b - a /\ d \in Int
  BY <1>1, SMT
<1> HIDE DEF d
<1>3. d = 0
  BY <1>2, SmallMultiple, SMT
<1> QED BY <1>2, <1>3, SMT

-----------------------------------------------------------------------------
(* The counters of the code                                                *)

LEMMA Sizes == /\ Ring \in Nat \ {0} /\ Width \in Nat \ {0} /\ Ring < Width
               /\ 0 % Width = 0 /\ 0 % Ring = 0
<1>1. Ring \in Nat \ {0} /\ Width \in Nat \ {0} /\ Ring < Width
  BY RingAssumption
<1> QED BY <1>1, ModSmall

(* advance: the counter of a + n rows.                                     *)
LEMMA Advance ==
  ASSUME NEW a \in Int, NEW n \in Int
  PROVE  advance(a % Width, n) = (a + n) % Width
  BY Sizes, ModAdd DEF advance

(* distance: how far two counters are apart, if less than a turn.          *)
LEMMA Distance ==
  ASSUME NEW a \in Int, NEW b \in Int, a <= b, b - a < Width
  PROVE  distance(a % Width, b % Width) = b - a
<1> DEFINE r == a % Width
           q == a \div Width
<1>1. r \in Int /\ q \in Int /\ a = Width * q + r
  BY Sizes, DivMod
<1> HIDE DEF r, q
<1>2. -r \in Int /\ Width * q \in Int /\ b - a \in Int
  BY <1>1, Sizes, SMT
<1>3. ((b % Width) + (-r)) % Width = (b + (-r)) % Width
  BY <1>2, Sizes, ModAdd, Zenon
<1>4. ((b - a) + Width * q) % Width = (b - a) % Width
  BY <1>1, <1>2, Sizes, ModShift, Zenon
<1>5. b + (-r) = (b - a) + Width * q
  BY <1>1, <1>2, SMT
<1>6. (b % Width) + (-r) = (b % Width) - r
  BY <1>1, Sizes, DivMod
<1>7. ((b % Width) - r) % Width = (b - a) % Width
  BY <1>3, <1>4, <1>5, <1>6, Zenon
<1>8. (b - a) % Width = b - a
  BY Sizes, ModSmall
<1> QED BY <1>7, <1>8 DEF distance, r

(* A turn of the counters is a whole number of turns of the ring.          *)
LEMMA SlotOfCounter ==
  ASSUME NEW a \in Int, NEW n \in Int
  PROVE  ((a % Width) + n) % Ring = (a + n) % Ring
<1> DEFINE r == a % Width
           q == a \div Width
           w == Width \div Ring
<1>1. w \in Int /\ Width = Ring * w
  <2>1. Width \in Int /\ Width % Ring = 0
    BY RingAssumption
  <2>2. Width = Ring * w + (Width % Ring) /\ w \in Int
    BY <2>1, Sizes, DivMod
  <2> HIDE DEF w
  <2> QED BY <2>1, <2>2, Sizes, SMT
<1>2. r \in Int /\ q \in Int /\ a = Width * q + r
  BY Sizes, DivMod
<1> HIDE DEF r, q, w
<1>3. r + n \in Int /\ w * q \in Int
  BY <1>1, <1>2, SMT
<1>4. ((r + n) + Ring * (w * q)) % Ring = (r + n) % Ring
  BY <1>3, Sizes, ModShift, Zenon
<1>5. (r + n) + Ring * (w * q) = a + n
  <2>1. Ring * (w * q) = Width * q /\ Width * q \in Int
    BY <1>1, <1>2, Sizes, SMT
  <2> QED BY <1>2, <2>1, SMT
<1>6. (r + n) % Ring = (a + n) % Ring
  BY <1>4, <1>5, Zenon
<1> QED BY <1>6 DEF r

LEMMA SlotOfIndex ==
  ASSUME NEW a \in Int
  PROVE  (a % Width) % Ring = a % Ring
<1>1. ((a % Width) + 0) % Ring = (a + 0) % Ring
  BY SlotOfCounter
<1>2. a % Width \in Int
  BY Sizes, DivMod
<1>3. (a % Width) + 0 = a % Width /\ a + 0 = a
  BY <1>2
<1> QED BY <1>1, <1>3

-----------------------------------------------------------------------------
(* The invariant                                                           *)

(* Rows published by record(), and rows in the file or in the run that is  *)
(* being written.                                                          *)
published == IF rpc = "publish" THEN tick - 1 ELSE tick
claimed   == Len(file) + run_left

(* The row of tick k.                                                      *)
accounts(k, row) == row \in Row /\ row.tick = k /\ row.call = k + row.dropped + 1

(* Each call of record() fills a row or counts a loss.                     *)
CountInv ==
  /\ calls = tick + dropped + (IF rpc = "fill" THEN 1 ELSE 0)
  /\ rpc = "publish" => tick > 0
  /\ stop => retired
  /\ retired => rpc = "idle"

(* What the shared counters stand for, and that the writer is never more   *)
(* than a ring behind.                                                     *)
IndexInv ==
  /\ head = published % Width /\ tail = committed % Width
  /\ rpc # "idle" => rhead = head
  /\ committed <= Len(file) /\ claimed <= published
  /\ published - committed <= Ring
  /\ rpc # "idle" => published - committed < Ring

(* The writer's copies of them.                                            *)
DrainInv ==
  /\ wpc # "drain" => run_left = 0 /\ committed = Len(file)
  /\ wpc \in {"drain", "check"} => wtail = claimed % Width
  /\ wpc = "drain" => \E h \in claimed .. published : whead = h % Width
  /\ run_left > 0 => run_at = Len(file) % Ring /\ run_at + run_left <= Ring

(* Every row from tail_ on is in its slot, also after it was written.      *)
RowInv ==
  /\ \A i \in 1 .. Len(file) : accounts(i - 1, file[i])
  /\ \A k \in committed .. tick - 1 : accounts(k, ring[k % Ring])
  /\ \A k \in committed .. Len(file) - 1 : file[k + 1] = ring[k % Ring]

StopInv == wpc = "stopped" => stop /\ Len(file) = tick

TraceInv == TypeOK /\ CountInv /\ IndexInv /\ DrainInv /\ RowInv /\ StopInv

(* The numbers, and what the two distances that the code takes are.        *)
LEMMA Numbers ==
  ASSUME TraceInv
  PROVE  /\ tick \in Nat /\ dropped \in Nat /\ calls \in Nat /\ MaxCalls \in Nat
         /\ committed \in Nat /\ Len(file) \in Nat /\ run_left \in Nat
         /\ published \in Nat /\ claimed \in Nat /\ published <= tick
         /\ committed <= Len(file) /\ Len(file) <= claimed /\ claimed <= published
         /\ published - committed <= Ring
         /\ distance(tail, head) = published - committed
<1>1. /\ tick \in Nat /\ dropped \in Nat /\ calls \in Nat /\ MaxCalls \in Nat
      /\ committed \in Nat /\ run_left \in Nat /\ file \in Seq(Row)
  BY BoundAssumption DEF TraceInv, TypeOK
<1>2. Len(file) \in Nat
  BY <1>1, LenProperties
<1>3. published \in Nat /\ published <= tick
  BY <1>1 DEF TraceInv, CountInv, published
<1>4. claimed \in Nat /\ Len(file) <= claimed
  BY <1>1, <1>2 DEF claimed
<1>5. /\ committed <= Len(file) /\ claimed <= published
      /\ published - committed <= Ring
      /\ head = published % Width /\ tail = committed % Width
  BY DEF TraceInv, IndexInv
<1>6. committed <= published /\ published - committed < Width
  BY <1>1, <1>2, <1>3, <1>4, <1>5, Sizes
<1>7. distance(tail, head) = published - committed
  BY <1>1, <1>3, <1>5, <1>6, Distance
<1> QED BY <1>1, <1>2, <1>3, <1>4, <1>5, <1>7

(* The slot of a row that is not pending is none of theirs.                *)
LEMMA SlotsApart ==
  ASSUME NEW low \in Nat, NEW top \in Nat, top - low < Ring
  PROVE  \A k \in low .. top - 1 : k % Ring # top % Ring
<1> SUFFICES ASSUME NEW k \in low .. top - 1 PROVE k % Ring # top % Ring
  OBVIOUS
<1>1. k \in Int /\ top \in Int /\ k < top /\ top - k < Ring
  BY Sizes
<1> QED BY <1>1, Sizes, ModApart, Zenon

LEMMA SlotInRing == \A k \in Int : k % Ring \in 0..(Ring - 1)
  BY Sizes, DivMod

LEMMA CounterInWidth == \A k \in Int : k % Width \in 0..(Width - 1)
  BY Sizes, DivMod

LEMMA InvAtStart == TraceInit => TraceInv
<1> SUFFICES ASSUME TraceInit PROVE TraceInv
  OBVIOUS
<1>1. /\ file = <<>> /\ Len(file) = 0 /\ file \in Seq(Row)
  BY DEF TraceInit
<1>2. /\ rpc = "idle" /\ rhead = 0 /\ calls = 0 /\ tick = 0 /\ retired = FALSE
      /\ ring = [i \in 0..(Ring - 1) |-> NoRow]
      /\ head = 0 /\ tail = 0 /\ dropped = 0 /\ stop = FALSE
      /\ wpc = "sleep" /\ whead = 0 /\ wtail = 0 /\ run_at = 0 /\ run_left = 0
      /\ committed = 0
  BY DEF TraceInit
<1>3. TypeOK
  BY <1>1, <1>2, Sizes, BoundAssumption DEF TypeOK
<1>4. published = 0 /\ claimed = 0
  BY <1>1, <1>2 DEF published, claimed
<1>5. CountInv /\ StopInv
  BY <1>2 DEF CountInv, StopInv
<1>6. IndexInv /\ DrainInv
  BY <1>1, <1>2, <1>4, Sizes DEF IndexInv, DrainInv
<1>7. RowInv
  BY <1>1, <1>2 DEF RowInv
<1> QED BY <1>3, <1>5, <1>6, <1>7 DEF TraceInv

(* record(): a loss is counted, a row cleared, filled and published.       *)
LEMMA InvDrop ==
  ASSUME TraceInv, RecordDrops
  PROVE  TraceInv'
<1>1. /\ rpc = "idle" /\ calls' = calls + 1 /\ dropped' = dropped + 1 /\ calls < MaxCalls
      /\ UNCHANGED <<rpc, rhead, tick, retired, ring, head, tail, stop, wpc, whead, wtail,
                     run_at, run_left, file, committed>>
  BY DEF RecordDrops, writer
<1>2. UNCHANGED <<published, claimed>>
  BY <1>1 DEF published, claimed
<1>3. TypeOK'
  BY <1>1, Numbers DEF TraceInv, TypeOK, CountInv
<1>4. CountInv' /\ StopInv'
  BY <1>1, Numbers DEF TraceInv, CountInv, StopInv
<1>5. IndexInv' /\ DrainInv'
  BY <1>1, <1>2 DEF TraceInv, IndexInv, DrainInv
<1>6. RowInv'
  BY <1>1 DEF TraceInv, RowInv, accounts
<1> QED BY <1>3, <1>4, <1>5, <1>6 DEF TraceInv

LEMMA InvStart ==
  ASSUME TraceInv, RecordStarts
  PROVE  TraceInv'
<1>1. /\ rpc = "idle" /\ ~retired /\ rpc' = "fill" /\ calls' = calls + 1 /\ calls < MaxCalls
      /\ rhead' = head /\ ring' = [ring EXCEPT ![head % Ring] = NoRow] /\ ~full
      /\ UNCHANGED <<tick, retired, head, tail, dropped, stop, wpc, whead, wtail,
                     run_at, run_left, file, committed>>
  BY DEF RecordStarts, writer
<1>2. UNCHANGED <<published, claimed>> /\ published = tick
  BY <1>1 DEF published, claimed
<1>3. published - committed < Ring
  BY <1>1, Numbers, Sizes DEF full
<1>4. head % Ring = tick % Ring
  <2>1. head = tick % Width
    BY <1>2 DEF TraceInv, IndexInv
  <2> QED BY <2>1, Numbers, SlotOfIndex
<1>5. TypeOK'
  <2>1. ring' \in [0..(Ring - 1) -> Row \cup {NoRow}]
    BY <1>1 DEF TraceInv, TypeOK
  <2> QED BY <1>1, <2>1, Numbers DEF TraceInv, TypeOK, CountInv
<1>6. CountInv' /\ StopInv'
  BY <1>1, Numbers DEF TraceInv, CountInv, StopInv
<1>7. IndexInv' /\ DrainInv'
  BY <1>1, <1>2, <1>3 DEF TraceInv, IndexInv, DrainInv
<1>8. RowInv'
  <2>1. \A k \in committed .. tick - 1 : k % Ring # tick % Ring
    BY <1>2, <1>3, Numbers, SlotsApart
  <2>2. \A k \in committed .. tick - 1 : ring'[k % Ring] = ring[k % Ring]
    <3> SUFFICES ASSUME NEW k \in committed .. tick - 1
                 PROVE  ring'[k % Ring] = ring[k % Ring]
      OBVIOUS
    <3>1. k \in Int /\ k % Ring \in 0..(Ring - 1)
      BY Numbers, SlotInRing
    <3> QED BY <1>1, <1>4, <2>1, <3>1 DEF TraceInv, TypeOK
  <2>3. Len(file) - 1 <= tick - 1
    BY Numbers
  <2>4. \A k \in committed .. Len(file) - 1 : k \in committed .. tick - 1
    BY <2>3, Numbers
  <2> QED BY <1>1, <2>2, <2>4 DEF TraceInv, RowInv, accounts
<1> QED BY <1>5, <1>6, <1>7, <1>8 DEF TraceInv

(* While a row is being filled or published it is the next one, in a slot  *)
(* of its own.                                                             *)
LEMMA FillingSlot ==
  ASSUME TraceInv, rpc # "idle"
  PROVE  /\ published - committed < Ring /\ rhead = published % Width
         /\ rhead % Ring = published % Ring
         /\ \A k \in committed .. published - 1 : k % Ring # published % Ring
<1>1. rhead = published % Width /\ published - committed < Ring
  BY DEF TraceInv, IndexInv
<1>2. rhead % Ring = published % Ring
  BY <1>1, Numbers, SlotOfIndex
<1>3. \A k \in committed .. published - 1 : k % Ring # published % Ring
  BY <1>1, Numbers, SlotsApart
<1> QED BY <1>1, <1>2, <1>3

LEMMA InvFill ==
  ASSUME TraceInv, RecordFills
  PROVE  TraceInv'
<1> DEFINE row == [call |-> calls, tick |-> tick, dropped |-> dropped]
<1>1. /\ rpc = "fill" /\ rpc' = "publish" /\ tick' = tick + 1
      /\ ring' = [ring EXCEPT ![rhead % Ring] = row]
      /\ UNCHANGED <<rhead, calls, retired, head, tail, dropped, stop, wpc, whead, wtail,
                     run_at, run_left, file, committed>>
  BY DEF RecordFills, writer
<1>2. UNCHANGED <<published, claimed>> /\ published = tick
  BY <1>1, Numbers DEF published, claimed
<1>3. calls = tick + dropped + 1 /\ calls \in 1..MaxCalls
  BY <1>1, Numbers DEF TraceInv, CountInv, TypeOK
<1>4. accounts(tick, row)
  BY <1>3, Numbers DEF accounts, Row
<1> HIDE DEF row
<1>5. /\ rhead % Ring = tick % Ring /\ tick % Ring \in 0..(Ring - 1)
      /\ \A k \in committed .. tick - 1 : k % Ring # tick % Ring
  BY <1>1, <1>2, FillingSlot, Numbers, SlotInRing
<1>6. TypeOK'
  <2>1. ring' \in [0..(Ring - 1) -> Row \cup {NoRow}]
    BY <1>1, <1>4 DEF TraceInv, TypeOK, accounts
  <2>2. tick + 1 \in 0..MaxCalls
    BY <1>3, Numbers
  <2> QED BY <1>1, <2>1, <2>2 DEF TraceInv, TypeOK
<1>7. CountInv' /\ StopInv'
  BY <1>1, <1>3, Numbers DEF TraceInv, CountInv, StopInv
<1>8. IndexInv' /\ DrainInv'
  BY <1>1, <1>2 DEF TraceInv, IndexInv, DrainInv
<1>9. RowInv'
  <2>1. ring'[tick % Ring] = row
    BY <1>1, <1>5 DEF TraceInv, TypeOK
  <2>2. \A k \in committed .. tick - 1 : ring'[k % Ring] = ring[k % Ring]
    <3> SUFFICES ASSUME NEW k \in committed .. tick - 1
                 PROVE  ring'[k % Ring] = ring[k % Ring]
      OBVIOUS
    <3>1. k \in Int /\ k % Ring \in 0..(Ring - 1) /\ k % Ring # tick % Ring
      BY <1>5, Numbers, SlotInRing
    <3> QED BY <1>1, <1>5, <3>1 DEF TraceInv, TypeOK
  <2>3. \A k \in committed .. tick' - 1 : accounts(k, ring'[k % Ring])
    <3> SUFFICES ASSUME NEW k \in committed .. tick' - 1
                 PROVE  accounts(k, ring'[k % Ring])
      OBVIOUS
    <3>1. k = tick \/ k \in committed .. tick - 1
      BY <1>1, Numbers
    <3> QED BY <1>4, <2>1, <2>2, <3>1 DEF TraceInv, RowInv
  <2>4. \A k \in committed .. Len(file) - 1 : k \in committed .. tick - 1
    BY Numbers
  <2>5. /\ \A i \in 1 .. Len(file) : accounts(i - 1, file[i])
        /\ \A k \in committed .. Len(file) - 1 : file[k + 1] = ring'[k % Ring]
    BY <2>2, <2>4 DEF TraceInv, RowInv
  <2> QED BY <1>1, <2>3, <2>5 DEF RowInv, accounts
<1> QED BY <1>6, <1>7, <1>8, <1>9 DEF TraceInv

LEMMA InvPublish ==
  ASSUME TraceInv, RecordPublishes
  PROVE  TraceInv'
<1>1. /\ rpc = "publish" /\ rpc' = "idle" /\ head' = advance(rhead, 1)
      /\ UNCHANGED <<rhead, calls, tick, retired, ring, tail, dropped, stop, wpc, whead,
                     wtail, run_at, run_left, file, committed>>
  BY DEF RecordPublishes, writer
<1>2. published' = published + 1 /\ UNCHANGED claimed
  BY <1>1, Numbers DEF published, claimed
<1>3. head' = published' % Width
  BY <1>1, <1>2, FillingSlot, Advance, Numbers
<1>4. TypeOK'
  <2>1. head' \in 0..(Width - 1)
    BY <1>2, <1>3, CounterInWidth, Numbers
  <2> QED BY <1>1, <2>1 DEF TraceInv, TypeOK
<1>5. CountInv' /\ StopInv'
  BY <1>1 DEF TraceInv, CountInv, StopInv
<1>6. IndexInv'
  <2>1. published' - committed <= Ring
    BY <1>1, <1>2, FillingSlot, Numbers, Sizes
  <2>2. claimed' <= published'
    BY <1>2, Numbers
  <2> QED BY <1>1, <1>3, <2>1, <2>2 DEF TraceInv, IndexInv
<1>7. DrainInv'
  <2>1. \A h \in claimed .. published : h \in claimed .. published'
    BY <1>2, Numbers
  <2> QED BY <1>1, <1>2, <2>1 DEF TraceInv, DrainInv
<1>8. RowInv'
  BY <1>1 DEF TraceInv, RowInv, accounts
<1> QED BY <1>4, <1>5, <1>6, <1>7, <1>8 DEF TraceInv

(* writer_loop(): it looks, takes a run, writes it row by row and stores.  *)
LEMMA InvWake ==
  ASSUME TraceInv, WriterWakes
  PROVE  TraceInv'
<1>1. /\ wpc = "sleep" /\ wpc' = "drain" /\ whead' = head /\ wtail' = tail
      /\ UNCHANGED <<rpc, rhead, calls, tick, retired, ring, head, tail, dropped, stop,
                     run_at, run_left, file, committed>>
  BY DEF WriterWakes, producer
<1>2. UNCHANGED <<published, claimed>>
  BY <1>1 DEF published, claimed
<1>3. claimed = committed /\ published \in claimed .. published
  BY <1>1, Numbers DEF TraceInv, DrainInv, claimed
<1>4. TypeOK'
  BY <1>1 DEF TraceInv, TypeOK
<1>5. CountInv' /\ StopInv' /\ IndexInv'
  BY <1>1, <1>2 DEF TraceInv, CountInv, StopInv, IndexInv
<1>6. DrainInv'
  BY <1>1, <1>2, <1>3 DEF TraceInv, DrainInv, IndexInv
<1>7. RowInv'
  BY <1>1 DEF TraceInv, RowInv, accounts
<1> QED BY <1>4, <1>5, <1>6, <1>7 DEF TraceInv

LEMMA MinOfTwo ==
  ASSUME NEW a \in Int, NEW b \in Int
  PROVE  Min({a, b}) = IF a <= b THEN a ELSE b
<1> DEFINE least == IF a <= b THEN a ELSE b
           P(x) == x \in {a, b} /\ \A y \in {a, b} : x =< y
<1>1. P(least) /\ \A x : P(x) => x = least
  OBVIOUS
<1>2. Min({a, b}) = CHOOSE x : P(x)
  BY DEF Min
<1> HIDE DEF P, least
<1>3. Min({a, b}) = least
  BY <1>1, <1>2
<1> QED BY <1>3 DEF least

(* A run starts at the first unwritten row, ends before the ring does, and *)
(* takes no row that was not published when the writer looked.             *)
LEMMA InvRun ==
  ASSUME TraceInv, RunStarts
  PROVE  TraceInv'
<1> DEFINE idx == wtail % Ring
           n   == Min({distance(wtail, whead), Ring - idx})
<1>1. /\ wpc = "drain" /\ run_left = 0
      /\ run_at' = idx /\ run_left' = n /\ wtail' = advance(wtail, n)
      /\ UNCHANGED <<rpc, rhead, calls, tick, retired, ring, head, tail, dropped, stop,
                     wpc, whead, file, committed>>
  BY DEF RunStarts, producer
<1>2. PICK h \in claimed .. published : whead = h % Width
  BY <1>1 DEF TraceInv, DrainInv
<1>3. /\ wtail = claimed % Width /\ claimed = Len(file) /\ h \in Nat
      /\ claimed <= h /\ h <= published
  BY <1>1, <1>2, Numbers DEF TraceInv, DrainInv, claimed
<1>4. distance(wtail, whead) = h - claimed
  <2>1. claimed \in Int /\ h \in Int /\ claimed <= h /\ h - claimed < Width
    BY <1>3, Numbers, Sizes
  <2>2. distance(claimed % Width, h % Width) = h - claimed
    BY <2>1, Distance, Zenon
  <2> QED BY <1>2, <1>3, <2>2, Zenon
<1>5. idx = Len(file) % Ring /\ idx \in 0..(Ring - 1)
  BY <1>3, SlotOfIndex, SlotInRing, Numbers
<1> HIDE DEF idx
<1>6. n \in Nat /\ n <= h - claimed /\ idx + n <= Ring
  <2>1. h - claimed \in Nat /\ Ring - idx \in Nat
    BY <1>3, <1>5, Numbers, Sizes
  <2>2. n = IF h - claimed <= Ring - idx THEN h - claimed ELSE Ring - idx
    BY <1>4, <2>1, MinOfTwo
  <2> HIDE DEF n
  <2> QED BY <1>5, <2>1, <2>2, Sizes
<1> HIDE DEF n
<1>7. /\ UNCHANGED published /\ claimed' = claimed + n
      /\ claimed' \in Nat /\ claimed' <= h
  BY <1>1, <1>3, <1>6, Numbers DEF published, claimed
<1>8. wtail' = claimed' % Width
  BY <1>1, <1>3, <1>6, <1>7, Numbers, Advance
<1>9. TypeOK'
  <2>1. run_at' \in 0..Ring /\ run_left' \in 0..Ring
    BY <1>1, <1>5, <1>6, Sizes
  <2>2. wtail' \in 0..(Width - 1)
    BY <1>7, <1>8, CounterInWidth
  <2> QED BY <1>1, <2>1, <2>2 DEF TraceInv, TypeOK
<1>10. CountInv' /\ StopInv'
  BY <1>1 DEF TraceInv, CountInv, StopInv
<1>11. IndexInv'
  BY <1>1, <1>3, <1>7, Numbers DEF TraceInv, IndexInv
<1>12. DrainInv'
  <2>1. h \in claimed' .. published'
    BY <1>3, <1>7, Numbers
  <2> QED BY <1>1, <1>2, <1>5, <1>6, <1>8, <2>1 DEF TraceInv, DrainInv
<1>13. RowInv'
  BY <1>1 DEF TraceInv, RowInv, accounts
<1> QED BY <1>9, <1>10, <1>11, <1>12, <1>13 DEF TraceInv

LEMMA InvWrite ==
  ASSUME TraceInv, RunWrites
  PROVE  TraceInv'
<1> DEFINE n == Len(file)
<1>1. /\ wpc = "drain" /\ run_left > 0 /\ file' = Append(file, ring[run_at])
      /\ run_at' = run_at + 1 /\ run_left' = run_left - 1
      /\ UNCHANGED <<rpc, rhead, calls, tick, retired, ring, head, tail, dropped, stop,
                     wpc, whead, wtail, committed>>
  BY DEF RunWrites, producer
<1>2. /\ run_at = n % Ring /\ run_at + run_left <= Ring /\ run_at \in Nat
      /\ n \in Nat /\ committed <= n /\ n < tick /\ claimed = n + run_left
  BY <1>1, Numbers DEF TraceInv, DrainInv, TypeOK, claimed
<1>3. ring[run_at] \in Row /\ accounts(n, ring[run_at])
  <2>1. n \in committed .. tick - 1
    BY <1>2, Numbers
  <2>2. accounts(n, ring[n % Ring])
    BY <2>1 DEF TraceInv, RowInv
  <2> QED BY <1>2, <2>2 DEF accounts
<1>4. /\ file' \in Seq(Row) /\ Len(file') = n + 1
      /\ \A i \in 1 .. n : file'[i] = file[i]
      /\ file'[n + 1] = ring[run_at]
  <2>1. file \in Seq(Row)
    BY DEF TraceInv, TypeOK
  <2> QED BY <1>1, <1>3, <2>1, AppendProperties
<1> HIDE DEF n
<1>5. UNCHANGED <<published, claimed>>
  <2>1. claimed' = n + 1 + run_left'
    BY <1>4 DEF claimed
  <2> QED BY <1>1, <1>2, <2>1, Numbers DEF published
<1>6. TypeOK'
  <2>1. run_at' \in 0..Ring /\ run_left' \in 0..Ring
    BY <1>1, <1>2, Numbers, Sizes
  <2> QED BY <1>1, <1>4, <2>1 DEF TraceInv, TypeOK
<1>7. CountInv' /\ StopInv'
  BY <1>1 DEF TraceInv, CountInv, StopInv
<1>8. IndexInv'
  <2>1. committed' <= Len(file')
    BY <1>1, <1>2, <1>4, Numbers
  <2> QED BY <1>1, <1>5, <2>1 DEF TraceInv, IndexInv
<1>9. DrainInv'
  <2>1. run_left' > 0 => (n + 1) % Ring = run_at + 1
    <3> SUFFICES ASSUME run_left' > 0 PROVE (n + 1) % Ring = run_at + 1
      OBVIOUS
    <3>1. run_at + 1 \in 0..(Ring - 1)
      BY <1>1, <1>2, Numbers, Sizes
    <3>2. ((n % Ring) + 1) % Ring = (n + 1) % Ring
      <4>1. n \in Int /\ 1 \in Int
        BY <1>2
      <4> QED BY <4>1, Sizes, ModAdd, Zenon
    <3>3. (run_at + 1) % Ring = run_at + 1
      BY <3>1, Sizes, ModSmall
    <3> QED BY <1>2, <3>2, <3>3
  <2>2. run_left' > 0 => run_at' = Len(file') % Ring /\ run_at' + run_left' <= Ring
    BY <1>1, <1>2, <1>4, <2>1, Numbers
  <2> QED BY <1>1, <1>5, <2>2 DEF TraceInv, DrainInv
<1>10. RowInv'
  <2>1. \A i \in 1 .. Len(file') : accounts(i - 1, file'[i])
    <3> SUFFICES ASSUME NEW i \in 1 .. n + 1 PROVE accounts(i - 1, file'[i])
      BY <1>4
    <3>1. CASE i = n + 1
      BY <1>2, <1>3, <1>4, <3>1
    <3>2. CASE i \in 1 .. n
      BY <1>4, <3>2 DEF TraceInv, RowInv, n
    <3> QED BY <1>2, <3>1, <3>2
  <2>2. \A k \in committed .. Len(file') - 1 : file'[k + 1] = ring[k % Ring]
    <3> SUFFICES ASSUME NEW k \in committed .. n PROVE file'[k + 1] = ring[k % Ring]
      BY <1>2, <1>4
    <3>1. CASE k = n
      BY <1>2, <1>4, <3>1
    <3>2. CASE k # n
      <4>1. k + 1 \in 1 .. n /\ k \in committed .. Len(file) - 1
        BY <1>2, <3>2, Numbers DEF n
      <4> QED BY <1>4, <4>1 DEF TraceInv, RowInv
    <3> QED BY <3>1, <3>2
  <2> QED BY <1>1, <2>1, <2>2 DEF TraceInv, RowInv, accounts
<1> QED BY <1>6, <1>7, <1>8, <1>9, <1>10 DEF TraceInv

LEMMA InvStore ==
  ASSUME TraceInv, WriterStores
  PROVE  TraceInv'
<1>1. /\ wpc = "drain" /\ run_left = 0 /\ wpc' = "check"
      /\ tail' = wtail /\ committed' = Len(file)
      /\ UNCHANGED <<rpc, rhead, calls, tick, retired, ring, head, dropped, stop, whead,
                     wtail, run_at, run_left, file>>
  BY DEF WriterStores, producer
<1>2. UNCHANGED <<published, claimed>> /\ claimed = Len(file)
  BY <1>1, Numbers DEF published, claimed
<1>3. /\ wtail = Len(file) % Width /\ Len(file) <= published /\ Len(file) <= MaxCalls
      /\ published - Len(file) <= published - committed
  BY <1>1, <1>2, Numbers DEF TraceInv, DrainInv, TypeOK
<1>4. TypeOK'
  BY <1>1, <1>3, Numbers DEF TraceInv, TypeOK
<1>5. CountInv' /\ StopInv'
  BY <1>1 DEF TraceInv, CountInv, StopInv
<1>6. IndexInv'
  BY <1>1, <1>2, <1>3, Numbers, Sizes DEF TraceInv, IndexInv
<1>7. DrainInv'
  BY <1>1, <1>2, <1>3 DEF TraceInv, DrainInv
<1>8. RowInv'
  <2>1. /\ \A k \in committed' .. tick - 1 : k \in committed .. tick - 1
        /\ \A k \in committed' .. Len(file) - 1 : k \in committed .. Len(file) - 1
    BY <1>1, Numbers
  <2> QED BY <1>1, <2>1 DEF TraceInv, RowInv, accounts
<1> QED BY <1>4, <1>5, <1>6, <1>7, <1>8 DEF TraceInv

(* The writer leaves when a stop was asked and its tail_ is head_: the two *)
(* are less than a turn apart, so that nothing is left behind.             *)
LEMMA InvCheck ==
  ASSUME TraceInv, WriterChecks
  PROVE  TraceInv'
<1>1. /\ wpc = "check" /\ wpc' = IF stop /\ head = wtail THEN "stopped" ELSE "sleep"
      /\ UNCHANGED <<rpc, rhead, calls, tick, retired, ring, head, tail, dropped, stop,
                     whead, wtail, run_at, run_left, file, committed>>
  BY DEF WriterChecks, producer
<1>2. UNCHANGED <<published, claimed>>
  BY <1>1 DEF published, claimed
<1>3. TypeOK'
  BY <1>1 DEF TraceInv, TypeOK
<1>4. CountInv' /\ IndexInv' /\ DrainInv'
  BY <1>1, <1>2 DEF TraceInv, CountInv, IndexInv, DrainInv
<1>5. RowInv'
  BY <1>1 DEF TraceInv, RowInv, accounts
<1>6. StopInv'
  <2> SUFFICES ASSUME stop, head = wtail PROVE Len(file) = tick
    BY <1>1 DEF StopInv
  <2>1. published = tick
    BY DEF TraceInv, CountInv, published
  <2>2. committed = Len(file) /\ tail = committed % Width /\ wtail = claimed % Width
        /\ claimed = Len(file)
    BY <1>1, Numbers DEF TraceInv, DrainInv, IndexInv, claimed
  <2>3. distance(tail, tail) = committed - committed
    BY <2>2, Numbers, Sizes, Distance
  <2> QED BY <2>1, <2>2, <2>3, Numbers
<1> QED BY <1>3, <1>4, <1>5, <1>6 DEF TraceInv

LEMMA InvStop ==
  ASSUME TraceInv, ControllerJoined \/ StopTrace
  PROVE  TraceInv'
<1>1. /\ UNCHANGED <<rpc, rhead, calls, tick, ring, head, tail, dropped, wpc, whead, wtail,
                     run_at, run_left, file, committed>>
      /\ \/ rpc = "idle" /\ retired' = TRUE /\ UNCHANGED stop
         \/ retired /\ stop' = TRUE /\ UNCHANGED retired
  BY DEF ControllerJoined, StopTrace, producer, writer
<1>2. UNCHANGED <<published, claimed>>
  BY <1>1 DEF published, claimed
<1>3. TypeOK' /\ CountInv' /\ StopInv'
  BY <1>1 DEF TraceInv, TypeOK, CountInv, StopInv
<1>4. IndexInv' /\ DrainInv'
  BY <1>1, <1>2 DEF TraceInv, IndexInv, DrainInv
<1>5. RowInv'
  BY <1>1 DEF TraceInv, RowInv, accounts
<1> QED BY <1>3, <1>4, <1>5 DEF TraceInv

LEMMA InvQuiet == TraceInv /\ UNCHANGED trace_vars => TraceInv'
  BY DEF trace_vars, producer, writer, TraceInv, TypeOK, CountInv, IndexInv, DrainInv, RowInv,
         StopInv, published, claimed, accounts

LEMMA TraceInvariant == TraceSpec => []TraceInv
<1>1. TraceInit => TraceInv
  BY InvAtStart
<1>2. TraceInv /\ [TraceNext]_trace_vars => TraceInv'
  BY InvDrop, InvStart, InvFill, InvPublish, InvWake, InvRun, InvWrite, InvStore, InvCheck,
     InvStop, InvQuiet DEF TraceNext, Record, Writer
<1> QED BY <1>1, <1>2, PTL DEF TraceSpec

-----------------------------------------------------------------------------
(* What the file says                                                      *)

(* The counters only ever hold what they may, for every width.             *)
THEOREM TraceTypes == TraceSpec => []TypeOK
<1>1. TraceInv => TypeOK
  BY DEF TraceInv
<1> QED BY <1>1, TraceInvariant, PTL

(* Row i of the file is the row of tick i - 1, whole, and the rows dropped *)
(* before it are the ticks that are missing: no interleaving of record()   *)
(* and writer_loop() tears, repeats, overwrites or loses a row.            *)
THEOREM FileAccounts == TraceSpec => []Reconstructible
<1>1. TraceInv => Reconstructible
  <2> SUFFICES ASSUME TraceInv, NEW i \in DOMAIN file
               PROVE  /\ file[i].tick = i - 1
                      /\ file[i].call = file[i].tick + file[i].dropped + 1
    BY DEF Reconstructible
  <2>1. i \in 1 .. Len(file)
    BY LenProperties DEF TraceInv, TypeOK
  <2>2. accounts(i - 1, file[i])
    BY <2>1 DEF TraceInv, RowInv
  <2> QED BY <2>2 DEF accounts
<1> QED BY <1>1, TraceInvariant, PTL

(* Once the writer is joined every call of record() is a row of the file   *)
(* or a counted loss: what was published after its last look is written    *)
(* before it leaves (StateTrace::stop, the last test of writer_loop).      *)
FlushedAtStop == wpc = "stopped" => Len(file) + dropped = calls

THEOREM StopKeepsRows == TraceSpec => []FlushedAtStop
<1>1. TraceInv => FlushedAtStop
  <2> SUFFICES ASSUME TraceInv, wpc = "stopped" PROVE Len(file) + dropped = calls
    BY DEF FlushedAtStop
  <2>1. Len(file) = tick /\ rpc = "idle"
    BY DEF TraceInv, StopInv, CountInv
  <2> QED BY <2>1, Numbers DEF TraceInv, CountInv
<1> QED BY <1>1, TraceInvariant, PTL

-----------------------------------------------------------------------------
(* The queue                                                               *)

LEMMA FunctionIsSeq ==
  ASSUME NEW S, NEW n \in Nat, NEW f \in [1..n -> S]
  PROVE  f \in Seq(S) /\ Len(f) = n
<1>1. f \in Seq(S)
  BY SeqDef
<1>2. DOMAIN f = 1..Len(f) /\ DOMAIN f = 1..n /\ Len(f) \in Nat
  BY <1>1, LenProperties
<1>3. Len(f) = n
  BY <1>2, SMT
<1> QED BY <1>1, <1>3

(* The rows of the queue, by the ticks they are of.                        *)
PendingFacts ==
  /\ PendingRows \in Seq(Row) /\ Len(PendingRows) = published - committed
  /\ \A k \in 1 .. published - committed :
       PendingRows[k] = ring[(committed + (k - 1)) % Ring]

LEMMA Pending == TraceInv => PendingFacts
<1> SUFFICES ASSUME TraceInv PROVE PendingFacts
  OBVIOUS
<1> DEFINE n == published - committed
<1>1. n \in Nat /\ distance(tail, head) = n /\ tail = committed % Width
  BY Numbers DEF TraceInv, IndexInv
<1>2. PendingRows = [k \in 1..n |-> ring[(tail + k - 1) % Ring]]
  BY <1>1 DEF PendingRows
<1>3. ASSUME NEW k \in 1..n
      PROVE  /\ (tail + k - 1) % Ring = (committed + (k - 1)) % Ring
             /\ ring[(tail + k - 1) % Ring] \in Row
  <2>1. k - 1 \in Int /\ committed \in Int /\ tail \in Int
    BY Numbers DEF TraceInv, TypeOK
  <2>2. ((committed % Width) + (k - 1)) % Ring = (committed + (k - 1)) % Ring
    BY <2>1, SlotOfCounter, Zenon
  <2>3. tail + k - 1 = tail + (k - 1)
    BY <2>1
  <2>4. (tail + k - 1) % Ring = (committed + (k - 1)) % Ring
    BY <1>1, <2>2, <2>3, Zenon
  <2>5. committed + (k - 1) \in committed .. tick - 1
    BY <2>1, Numbers
  <2>6. accounts(committed + (k - 1), ring[(committed + (k - 1)) % Ring])
    BY <2>5, Zenon DEF TraceInv, RowInv
  <2> QED BY <2>4, <2>6 DEF accounts
<1>4. PendingRows \in [1..n -> Row]
  BY <1>2, <1>3
<1>5. \A k \in 1..n : PendingRows[k] = ring[(committed + (k - 1)) % Ring]
  BY <1>2, <1>3
<1> QED BY <1>1, <1>4, <1>5, FunctionIsSeq DEF PendingFacts

LEMMA PendingNext == TraceInv' => PendingFacts'
BY Pending, PTL

LEMMA Written ==
  ASSUME TraceInv
  PROVE  /\ SubSeq(file, 1, committed) \in Seq(Row)
         /\ Len(SubSeq(file, 1, committed)) = committed
         /\ \A i \in 1 .. committed : SubSeq(file, 1, committed)[i] = file[i]
<1>1. file \in Seq(Row) /\ committed \in Nat /\ Len(file) \in Nat /\ committed <= Len(file)
  BY Numbers DEF TraceInv, TypeOK
<1>2. \A i \in 1 .. committed : file[i] \in Row
  BY <1>1, ElementOfSeq
<1>3. /\ SubSeq(file, 1, committed) \in Seq(Row)
      /\ Len(SubSeq(file, 1, committed)) = IF 1 <= committed THEN committed - 1 + 1 ELSE 0
      /\ \A i \in 1 .. committed - 1 + 1 : SubSeq(file, 1, committed)[i] = file[1 + i - 1]
  BY <1>1, <1>2, SubSeqProperties
<1> QED BY <1>1, <1>3

(* The queue's variables do not change when the rows that count do not.    *)
LEMMA SameQueue ==
  ASSUME TraceInv, TraceInv', UNCHANGED <<published, committed, dropped>>,
         \A k \in committed .. published - 1 : ring'[k % Ring] = ring[k % Ring],
         SubSeq(file', 1, committed) = SubSeq(file, 1, committed)
  PROVE  UNCHANGED Queue!vars
<1>1. PendingFacts /\ PendingFacts'
  BY Pending, PendingNext
<1>2. /\ PendingRows \in Seq(Row) /\ PendingRows' \in Seq(Row)
      /\ Len(PendingRows') = Len(PendingRows) /\ Len(PendingRows) = published - committed
  BY <1>1 DEF PendingFacts
<1>3. ASSUME NEW k \in 1 .. published - committed
      PROVE  PendingRows'[k] = PendingRows[k]
  <2>1. committed + (k - 1) \in committed .. published - 1
    BY Numbers
  <2>2. ring'[(committed + (k - 1)) % Ring] = ring[(committed + (k - 1)) % Ring]
    BY <2>1, Zenon
  <2>3. PendingRows'[k] = ring'[(committed + (k - 1)) % Ring]
    BY <1>1, Zenon DEF PendingFacts
  <2>4. PendingRows[k] = ring[(committed + (k - 1)) % Ring]
    BY <1>1, Zenon DEF PendingFacts
  <2> QED BY <2>2, <2>3, <2>4, Zenon
<1>4. PendingRows' = PendingRows
  BY <1>2, <1>3, SeqEqual, Zenon
<1> QED BY <1>4 DEF Queue!vars

LEMMA QueueAtStart == TraceInit => Queue!Init
<1> SUFFICES ASSUME TraceInit PROVE Queue!Init
  OBVIOUS
<1>1. TraceInv
  BY InvAtStart
<1>2. committed = 0 /\ published = 0 /\ dropped = 0
  BY DEF TraceInit, published
<1>3. PendingRows = <<>>
  BY <1>1, <1>2, Pending, EmptySeq DEF PendingFacts
<1>4. SubSeq(file, 1, committed) = <<>>
  BY <1>2, SubSeqEmpty
<1> QED BY <1>2, <1>3, <1>4 DEF Queue!Init

(* The producer's steps: a loss while the queue is full, a row accepted    *)
(* when it is published, and nothing in between.                           *)
LEMMA QueueRecord ==
  ASSUME TraceInv, TraceInv', Record
  PROVE  Queue!Next \/ UNCHANGED Queue!vars
<1>1. CASE RecordDrops
  <2>1. /\ full /\ dropped' = dropped + 1
        /\ UNCHANGED <<rpc, tick, ring, head, tail, file, committed>>
    BY <1>1 DEF RecordDrops, writer
  <2>2. Len(PendingRows) = Ring
    BY <2>1, Numbers, Pending, Sizes DEF PendingFacts, full
  <2>3. UNCHANGED PendingRows
    BY <2>1 DEF PendingRows
  <2> QED BY <2>1, <2>2, <2>3 DEF Queue!Next, Queue!Lose
<1>2. CASE RecordStarts
  <2>1. /\ rpc = "idle" /\ rpc' = "fill" /\ ~full
        /\ ring' = [ring EXCEPT ![head % Ring] = NoRow]
        /\ UNCHANGED <<tick, dropped, file, committed>>
    BY <1>2 DEF RecordStarts, writer
  <2>2. UNCHANGED published /\ published - committed < Ring
    BY <2>1, Numbers, Sizes DEF published, full
  <2>3. head % Ring = published % Ring
    BY Numbers, SlotOfIndex DEF TraceInv, IndexInv
  <2>4. ASSUME NEW k \in committed .. published - 1
        PROVE  ring'[k % Ring] = ring[k % Ring]
    <3>1. k % Ring # published % Ring
      BY <2>2, Numbers, SlotsApart
    <3>2. k \in Int /\ k % Ring \in 0..(Ring - 1)
      BY Numbers, SlotInRing
    <3> QED BY <2>1, <2>3, <3>1, <3>2 DEF TraceInv, TypeOK
  <2> QED BY <2>1, <2>2, <2>4, SameQueue
<1>3. CASE RecordFills
  <2>1. /\ rpc = "fill" /\ rpc' = "publish" /\ tick' = tick + 1
        /\ \E row : ring' = [ring EXCEPT ![rhead % Ring] = row]
        /\ UNCHANGED <<dropped, file, committed>>
    BY <1>3 DEF RecordFills, writer
  <2>2. UNCHANGED published
    BY <2>1, Numbers DEF published
  <2>3. ASSUME NEW k \in committed .. published - 1
        PROVE  ring'[k % Ring] = ring[k % Ring]
    <3>1. k % Ring # rhead % Ring
      BY <2>1, FillingSlot
    <3>2. k \in Int /\ k % Ring \in 0..(Ring - 1)
      BY Numbers, SlotInRing
    <3> QED BY <2>1, <3>1, <3>2 DEF TraceInv, TypeOK
  <2> QED BY <2>1, <2>2, <2>3, SameQueue
<1>4. CASE RecordPublishes
  <2>1. /\ rpc = "publish" /\ rpc' = "idle"
        /\ UNCHANGED <<tick, ring, tail, dropped, file, committed>>
    BY <1>4 DEF RecordPublishes, writer
  <2>2. published' = published + 1 /\ published - committed < Ring /\ published < tick
    BY <2>1, FillingSlot, Numbers DEF published
  <2> DEFINE row == ring[published % Ring]
             n   == published - committed
  <2>3. row \in Row
    <3>1. published \in committed .. tick - 1
      BY <2>2, Numbers
    <3> QED BY <3>1 DEF TraceInv, RowInv, accounts
  <2>4. /\ PendingRows \in Seq(Row) /\ Len(PendingRows) = n /\ n \in Nat /\ n < Ring
        /\ PendingRows' \in Seq(Row) /\ Len(PendingRows') = n + 1
        /\ \A k \in 1 .. n : PendingRows[k] = ring[(committed + (k - 1)) % Ring]
        /\ \A k \in 1 .. n + 1 : PendingRows'[k] = ring[(committed + (k - 1)) % Ring]
    <3>1. published' - committed' = n + 1 /\ n \in Nat
      BY <2>1, <2>2, Numbers
    <3> QED BY <2>1, <2>2, <3>1, Pending, PendingNext DEF PendingFacts
  <2>5. committed + ((n + 1) - 1) = published
    BY Numbers
  <2> HIDE DEF row
  <2>6. PendingRows' = Append(PendingRows, row)
    <3>1. /\ Append(PendingRows, row) \in Seq(Row) /\ Len(Append(PendingRows, row)) = n + 1
          /\ \A k \in 1 .. n : Append(PendingRows, row)[k] = PendingRows[k]
          /\ Append(PendingRows, row)[n + 1] = row
      BY <2>3, <2>4, AppendProperties
    <3> HIDE DEF n
    <3>2. ASSUME NEW k \in 1 .. n + 1
          PROVE  PendingRows'[k] = Append(PendingRows, row)[k]
      <4>1. CASE k \in 1 .. n
        BY <2>4, <3>1, <4>1, Zenon
      <4>2. CASE k = n + 1
        BY <2>4, <2>5, <3>1, <4>2, Zenon DEF row
      <4> QED BY <2>4, <4>1, <4>2
    <3> QED BY <2>4, <3>1, <3>2, SeqEqual, Zenon
  <2> QED BY <2>1, <2>3, <2>4, <2>6 DEF Queue!Next, Queue!Accept
<1> QED BY <1>1, <1>2, <1>3, <1>4 DEF Record

(* Storing tail_ hands over what is in the file since it was stored last:  *)
(* the first rows of the queue.                                            *)
LEMMA QueueFlush ==
  ASSUME TraceInv, TraceInv', WriterStores, Len(file) # committed
  PROVE  Queue!Flush
<1> DEFINE n == Len(file) - committed
           m == published - committed
<1>1. /\ committed' = Len(file) /\ UNCHANGED <<rpc, tick, ring, dropped, file>>
  BY DEF WriterStores, producer
<1>2. UNCHANGED published
  BY <1>1 DEF published
<1>3. /\ n \in Nat /\ m \in Nat /\ n \in 1 .. m /\ committed \in Nat
      /\ Len(file) = committed + n /\ published' - committed' = m - n
      /\ published - committed = m
  BY <1>1, <1>2, Numbers
<1>4. /\ PendingRows \in Seq(Row) /\ Len(PendingRows) = m
      /\ \A k \in 1 .. m : PendingRows[k] = ring[(committed + (k - 1)) % Ring]
  BY Pending DEF PendingFacts
<1>5. /\ PendingRows' \in Seq(Row) /\ Len(PendingRows') = m - n
      /\ \A k \in 1 .. m - n : PendingRows'[k] = ring[(committed + n + (k - 1)) % Ring]
  BY <1>1, <1>3, PendingNext DEF PendingFacts
<1>6. \A k \in committed .. Len(file) - 1 : file[k + 1] = ring[k % Ring]
  BY DEF TraceInv, RowInv
<1>7. /\ SubSeq(file, 1, committed) \in Seq(Row)
      /\ Len(SubSeq(file, 1, committed)) = committed
      /\ \A i \in 1 .. committed : SubSeq(file, 1, committed)[i] = file[i]
      /\ file \in Seq(Row)
  BY Written DEF TraceInv, TypeOK
<1>8. \A k \in 1 .. m : PendingRows[k] \in Row
  BY <1>4, ElementOfSeq
<1> HIDE DEF n, m
<1> DEFINE first == SubSeq(PendingRows, 1, n)
           rest  == SubSeq(PendingRows, n + 1, m)
<1>9. first \in Seq(Row) /\ Len(first) = n /\ \A k \in 1 .. n : first[k] = PendingRows[k]
  <2>1. \A k \in 1 .. n : PendingRows[k] \in Row
    BY <1>3, <1>8
  <2>2. /\ first \in Seq(Row) /\ Len(first) = IF 1 <= n THEN n - 1 + 1 ELSE 0
        /\ \A k \in 1 .. n - 1 + 1 : first[k] = PendingRows[1 + k - 1]
    BY <1>3, <2>1, SubSeqProperties
  <2> HIDE DEF first
  <2> QED BY <1>3, <2>2
<1>10. /\ rest \in Seq(Row) /\ Len(rest) = m - n
       /\ \A k \in 1 .. m - n : rest[k] = PendingRows[n + k]
  <2>1. \A k \in n + 1 .. m : PendingRows[k] \in Row
    BY <1>3, <1>8
  <2>2. /\ rest \in Seq(Row) /\ Len(rest) = IF n + 1 <= m THEN m - (n + 1) + 1 ELSE 0
        /\ \A k \in 1 .. m - (n + 1) + 1 : rest[k] = PendingRows[(n + 1) + k - 1]
    BY <1>3, <2>1, SubSeqProperties
  <2> HIDE DEF rest
  <2> QED BY <1>3, <2>2
<1> HIDE DEF first, rest
<1>11. file = SubSeq(file, 1, committed) \o first
  <2> DEFINE both == SubSeq(file, 1, committed) \o first
  <2>1. /\ both \in Seq(Row) /\ Len(both) = committed + n
        /\ \A i \in 1 .. committed + n :
             both[i] = IF i <= committed THEN SubSeq(file, 1, committed)[i] ELSE first[i - committed]
    BY <1>7, <1>9, ConcatProperties
  <2> HIDE DEF both
  <2>2. ASSUME NEW i \in 1 .. committed + n PROVE both[i] = file[i]
    <3>1. CASE i <= committed
      BY <1>3, <1>7, <2>1, <3>1
    <3>2. CASE ~(i <= committed)
      <4>1. /\ i - committed \in 1 .. n /\ i - committed \in 1 .. m
            /\ committed + ((i - committed) - 1) = i - 1
            /\ i - 1 \in committed .. Len(file) - 1 /\ (i - 1) + 1 = i
        BY <1>3, <3>2
      <4>2. both[i] = first[i - committed]
        BY <2>1, <3>2
      <4>3. first[i - committed] = ring[(i - 1) % Ring]
        BY <1>4, <1>9, <4>1, Zenon
      <4>4. file[i] = ring[(i - 1) % Ring]
        BY <1>6, <4>1, Zenon
      <4> QED BY <4>2, <4>3, <4>4, Zenon
    <3> QED BY <3>1, <3>2
  <2>3. Len(both) = Len(file) /\ \A i \in 1 .. Len(both) : both[i] = file[i]
    BY <1>3, <2>1, <2>2, Zenon
  <2>4. both = file
    BY <1>7, <2>1, <2>3, SeqEqual, Zenon
  <2> QED BY <2>4 DEF both
<1>12. SubSeq(file', 1, committed') = SubSeq(file, 1, committed) \o first
  <2>1. SubSeq(file, 1, Len(file)) = file
    BY <1>7, SubSeqFull
  <2> QED BY <1>1, <1>11, <2>1, Zenon
<1>13. PendingRows' = rest
  <2>1. ASSUME NEW k \in 1 .. m - n PROVE PendingRows'[k] = rest[k]
    <3>1. /\ n + k \in 1 .. m /\ committed + ((n + k) - 1) = committed + n + (k - 1)
      BY <1>3
    <3>2. rest[k] = ring[(committed + ((n + k) - 1)) % Ring]
      BY <1>4, <1>10, <3>1, Zenon
    <3> QED BY <1>5, <3>1, <3>2, Zenon
  <2>2. /\ Len(PendingRows') = Len(rest)
        /\ \A k \in 1 .. Len(PendingRows') : PendingRows'[k] = rest[k]
    BY <1>5, <1>10, <2>1, Zenon
  <2> QED BY <1>5, <1>10, <2>2, SeqEqual, Zenon
<1>14. n \in 1 .. Len(PendingRows) /\ Len(PendingRows) = m
  BY <1>3, <1>4
<1> QED BY <1>1, <1>12, <1>13, <1>14 DEF Queue!Flush, first, rest

LEMMA QueueRest ==
  ASSUME TraceInv, TraceInv', Writer \/ ControllerJoined \/ StopTrace
  PROVE  Queue!Next \/ UNCHANGED Queue!vars
<1>1. CASE RunWrites
  <2>1. /\ wpc = "drain" /\ run_left > 0 /\ file' = Append(file, ring[run_at])
        /\ UNCHANGED <<rpc, tick, ring, dropped, committed>>
    BY <1>1 DEF RunWrites, producer
  <2>2. UNCHANGED published
    BY <2>1 DEF published
  <2>3. ring[run_at] \in Row
    <3>1. run_at = Len(file) % Ring /\ Len(file) \in committed .. tick - 1
      BY <2>1, Numbers DEF TraceInv, DrainInv, claimed
    <3> QED BY <3>1 DEF TraceInv, RowInv, accounts
  <2>4. SubSeq(file', 1, committed) = SubSeq(file, 1, committed)
    <3>1. /\ file \in Seq(Row) /\ Len(file) \in Nat
          /\ committed \in Nat /\ committed <= Len(file)
      BY Numbers DEF TraceInv, TypeOK
    <3>2. /\ Len(file') = Len(file) + 1
          /\ \A i \in 1 .. Len(file) : file'[i] = file[i]
      BY <2>1, <2>3, <3>1, AppendProperties
    <3>3. \A i \in 1 .. committed : file[i] \in Row /\ file'[i] = file[i]
      BY <3>1, <3>2, ElementOfSeq
    <3>4. /\ SubSeq(file', 1, committed) \in Seq(Row)
          /\ Len(SubSeq(file', 1, committed)) = IF 1 <= committed THEN committed - 1 + 1 ELSE 0
          /\ \A i \in 1 .. committed - 1 + 1 : SubSeq(file', 1, committed)[i] = file'[1 + i - 1]
      BY <3>1, <3>3, SubSeqProperties
    <3>5. /\ Len(SubSeq(file', 1, committed)) = committed
          /\ \A i \in 1 .. committed : SubSeq(file', 1, committed)[i] = file[i]
      BY <3>1, <3>3, <3>4
    <3> QED BY <3>4, <3>5, Written, SeqEqual
  <2> QED BY <2>1, <2>2, <2>4, SameQueue
<1>2. CASE WriterStores
  <2>1. CASE Len(file) # committed
    BY <1>2, <2>1, QueueFlush DEF Queue!Next
  <2>2. CASE Len(file) = committed
    <3>1. UNCHANGED <<rpc, tick, ring, dropped, file, committed>>
      BY <1>2, <2>2 DEF WriterStores, producer
    <3> QED BY <3>1, SameQueue DEF published
  <2> QED BY <2>1, <2>2
<1>3. CASE WriterWakes \/ RunStarts \/ WriterChecks \/ ControllerJoined \/ StopTrace
  <2>1. UNCHANGED <<rpc, tick, ring, dropped, file, committed>>
    BY <1>3 DEF WriterWakes, RunStarts, WriterChecks, ControllerJoined, StopTrace, producer, writer
  <2> QED BY <2>1, SameQueue DEF published
<1> QED BY <1>1, <1>2, <1>3 DEF Writer

(* The ring and its two threads implement the lossy queue, for every ring, *)
(* counter width and number of ticks: in order, unchanged, a loss only     *)
(* while Ring rows wait, and each loss counted (StateTrace::record and     *)
(* writer_loop).                                                           *)
THEOREM TraceIsAQueue == TraceSpec => ImplementsQueue
<1>1. TraceInit => Queue!Init
  BY QueueAtStart
<1>2. TraceInv /\ TraceInv' /\ [TraceNext]_trace_vars => [Queue!Next]_(Queue!vars)
  <2> SUFFICES ASSUME TraceInv, TraceInv', [TraceNext]_trace_vars
               PROVE  Queue!Next \/ UNCHANGED Queue!vars
    OBVIOUS
  <2>1. CASE Record
    BY <2>1, QueueRecord
  <2>2. CASE Writer \/ ControllerJoined \/ StopTrace
    BY <2>2, QueueRest
  <2>3. CASE UNCHANGED trace_vars
    <3>1. UNCHANGED <<rpc, tick, ring, dropped, file, committed>>
      BY <2>3 DEF trace_vars, producer, writer
    <3> QED BY <3>1, SameQueue DEF published
  <2> QED BY <2>1, <2>2, <2>3 DEF TraceNext
<1> QED BY <1>1, <1>2, TraceInvariant, PTL DEF TraceSpec, ImplementsQueue, Queue!Spec

=============================================================================
