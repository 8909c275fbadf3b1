------------------------------ MODULE TickRing ------------------------------
(***************************************************************************)
(* The ring buffer through which the order-book worker hands the trades it *)
(* sees to the nociceptor (browser/ring_buffer.js): a SharedArrayBuffer    *)
(* with one writer and one reader on different threads and no lock.        *)
(*                                                                         *)
(* The writer fills the slot of its write head and then advances the head; *)
(* the reader takes the head once per batch and reads the slots one after  *)
(* another, so each of these is a step.  Neither looks at where the other  *)
(* is.  Indexes wrap at 2^32, which is 1 modulo the number of slots: the   *)
(* last index before the wrap and the first after it share slot 0.         *)
(***************************************************************************)
EXTENDS Integers, Sequences, FiniteSets, FiniteSetsExt

CONSTANTS
  Tick,      \* what a slot may hold
  None,      \* no tick
  Capacity,  \* CAPACITY: slots of the ring, 65535
  Width,     \* 2^32, where the heads wrap
  Batch,     \* ticks a poll asks for, 32
  MaxLag     \* bound: unread ticks before another trade is seen

ASSUME RingAssumption ==
  /\ None \notin Tick
  /\ Capacity \in Nat \ {0}
  /\ Batch \in Nat \ {0}
  /\ MaxLag \in Nat
  /\ Width \in Nat
  /\ Width > MaxLag + Capacity
  /\ Width % Capacity = 1

VARIABLES
  head,     \* the write head
  slots,    \* the ticks in the buffer
  filling,  \* the tick being written to the slot of the write head
  reader,   \* the nociceptor has a reader
  at,       \* _local_read
  left,     \* slots still to be read by the batch under way
  owed      \* observer: the ticks published and not yet read

ringVars == <<head, slots, filling, reader, at, left, owed>>

Slot(i) == i % Capacity

RingTypeOK ==
  /\ head \in 0..(Width - 1)
  /\ slots \in [0..(Capacity - 1) -> Tick \cup {None}]
  /\ filling \in Tick \cup {None}
  /\ reader \in BOOLEAN
  /\ at \in 0..(Width - 1)
  /\ left \in 0..Batch
  /\ owed \in Seq(Tick)
  /\ Len(owed) <= MaxLag + 1

RingInit ==
  /\ head = 0
  /\ slots = [s \in 0..(Capacity - 1) |-> None]
  /\ filling = None
  /\ reader = FALSE
  /\ at = 0
  /\ left = 0
  /\ owed = <<>>

\* RingBufferWriter.write up to its last store.
BeginWrite(t) ==
  /\ filling = None
  /\ filling' = t
  /\ UNCHANGED <<head, slots, reader, at, left, owed>>

\* Mutant of Publish: the head wraps with the slots.
PublishModuloCapacity ==
  /\ filling # None
  /\ slots' = [slots EXCEPT ![Slot(head)] = filling]
  /\ head' = (head + 1) % Capacity
  /\ owed' = IF reader THEN Append(owed, filling) ELSE owed
  /\ filling' = None
  /\ UNCHANGED <<reader, at, left>>

\* The store that advances the write head.
Publish ==
  /\ filling # None
  /\ slots' = [slots EXCEPT ![Slot(head)] = filling]
  /\ head' = (head + 1) % Width
  /\ owed' = IF reader THEN Append(owed, filling) ELSE owed
  /\ filling' = None
  /\ UNCHANGED <<reader, at, left>>

\* A new RingBufferReader starts at the write head.
Attach ==
  /\ reader' = TRUE
  /\ at' = head
  /\ left' = 0
  /\ owed' = <<>>
  /\ UNCHANGED <<head, slots, filling>>

\* The worker with the reader is gone.
Detach ==
  /\ reader' = FALSE
  /\ at' = 0
  /\ left' = 0
  /\ owed' = <<>>
  /\ UNCHANGED <<head, slots, filling>>

\* Mutant of Available: no correction for a head that has wrapped.
AvailableUnwrapped == head - at

Available == (head - at + Width) % Width

\* readBatch takes the write head and settles how much it reads.
BeginRead ==
  /\ reader
  /\ left = 0
  /\ Available > 0
  /\ left' = Min({Available, Batch, Capacity})
  /\ UNCHANGED <<head, slots, filling, reader, at, owed>>

\* What the reader may find: the slot, or what the writer is putting there.
Readable ==
  {slots[Slot(at)]} \cup
    IF filling # None /\ Slot(head) = Slot(at) THEN {filling} ELSE {}

\* One slot of the batch.
ReadSlot ==
  /\ left > 0
  /\ left' = left - 1
  /\ at' = (at + 1) % Width
  /\ owed' = Tail(owed)
  /\ UNCHANGED <<head, slots, filling, reader>>

-----------------------------------------------------------------------------
\* Ticks behind the k-th unread one, the one being written included.
Behind(k) == Len(owed) - k + (IF filling = None THEN 0 ELSE 1)

\* The index of the k-th unread tick.
IndexOf(k) == (at + k - 1) % Width

\* The reader is never ahead of the writer, and every unread tick is whole in
\* its slot, with the writer elsewhere, until Capacity ticks stand behind it;
\* only the last tick before the heads wrap lasts no longer than the next one
\* (ring_buffer.js 42-53, 71-90).
TicksIntact ==
  /\ left <= Len(owed)
  /\ \A k \in DOMAIN owed :
       Behind(k) < (IF IndexOf(k) = Width - 1 THEN 1 ELSE Capacity) =>
         /\ slots[Slot(IndexOf(k))] = owed[k]
         /\ filling # None => Slot(head) # Slot(IndexOf(k))
=============================================================================
