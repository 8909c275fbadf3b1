-------------------------- MODULE NociceptorProofs --------------------------
(***************************************************************************)
(* Proofs about Nociceptor and the ring buffer it reads, for any capacity, *)
(* width of the heads and batch.  The reader follows the write head at the *)
(* distance of the ticks it is owed, modulo the width; within Capacity of  *)
(* each other two indexes share no slot, and over the wrap, where the      *)
(* width is 1 modulo Capacity, the slots go on as if the last index before *)
(* the wrap and the first after it were one.                               *)
(***************************************************************************)
EXTENDS Nociceptor, SequenceTheorems, TLAPS

\* The reader follows the write head, and a reader that is gone reads nothing.
Follows ==
  IF reader THEN head = (at + Len(owed)) % Width
            ELSE left = 0 /\ owed = <<>>

\* Unread tick k is still to be found in its slot.
Lasting(k) == Behind(k) < (IF IndexOf(k) = Width - 1 THEN 1 ELSE Capacity)

Held == \A k \in DOMAIN owed : Lasting(k) => slots[Slot(IndexOf(k))] = owed[k]

RingInv == RingTypeOK /\ Follows /\ left <= Len(owed) /\ Held

-----------------------------------------------------------------------------
(* Indexes modulo the capacity and the width                               *)

\* Quotient and remainder.
LEMMA Division ==
  ASSUME NEW C \in Nat \ {0}, NEW x \in Nat
  PROVE  /\ x \div C \in Nat /\ x % C \in 0..(C - 1)
         /\ x = C * (x \div C) + (x % C)
BY SMT

LEMMA Remainder ==
  ASSUME NEW C \in Nat \ {0}, NEW x \in Nat, NEW q \in Int, NEW r \in 0..(C - 1),
         x = C * q + r
  PROVE  x % C = r
BY SMT

\* A head that wraps at most once.
LEMMA Wrapped ==
  ASSUME NEW W \in Nat \ {0}, NEW i \in 0..(2 * W - 1)
  PROVE  /\ i < W => i % W = i
         /\ i >= W => i % W = i - W
<1>1. CASE i < W
  BY <1>1, SMT
<1>2. CASE i >= W
  <2>1. i - W \in 0..(W - 1) /\ i = W * 1 + (i - W) /\ i \in Nat
    BY <1>2
  <2>2. i % W = i - W
    BY <2>1, Remainder
  <2> QED BY <1>2, <2>2
<1> QED BY <1>1, <1>2

\* Multiples of C are at least C apart.
LEMMA Multiples ==
  ASSUME NEW C \in Nat \ {0}, NEW p \in Int, NEW q \in Int, p < q
  PROVE  C * q - C * p >= C
<1>1. C * q - C * p = C * (q - p)
  BY SMT
<1>2. \A d \in Int : d >= 1 => C * d >= C
  BY SMT
<1>3. q - p \in Int /\ q - p >= 1
  BY SMT
<1> QED BY <1>1, <1>2, <1>3

\* Two indexes less than C apart do not share a slot.
LEMMA SlotsDiffer ==
  ASSUME NEW C \in Nat \ {0}, NEW x \in Nat, NEW y \in Nat, x < y, y - x < C
  PROVE  x % C # y % C
<1> SUFFICES ASSUME x % C = y % C PROVE FALSE
  OBVIOUS
<1> DEFINE p == x \div C
           q == y \div C
           r == x % C
           a == C * p
           b == C * q
<1>1. p \in Nat /\ q \in Nat /\ x = a + r /\ y = b + r /\ r \in 0..(C - 1)
  BY Division
<1>2. a \in Int /\ b \in Int
  BY <1>1
<1>3. p < q => b - a >= C
  BY <1>1, Multiples
<1>4. q < p => a - b >= C
  BY <1>1, Multiples
<1>5. p = q => a = b
  OBVIOUS
<1> HIDE DEF p, q, r, a, b
<1> QED BY <1>1, <1>2, <1>3, <1>4, <1>5

\* The slots repeat with a multiple of C.
LEMMA SlotsRepeat ==
  ASSUME NEW C \in Nat \ {0}, NEW W \in Nat, W % C = 1, NEW x \in Nat
  PROVE  x + (W - 1) \in Nat /\ (x + (W - 1)) % C = x % C
<1> DEFINE w == W \div C
           q == x \div C
           r == x % C
<1>1. w \in Nat /\ W = C * w + 1
  BY Division
<1>2. q \in Nat /\ r \in 0..(C - 1) /\ x = C * q + r
  BY Division
<1>3. C * w + C * q = C * (w + q) /\ C * w \in Nat /\ C * q \in Nat
  BY <1>1, <1>2
<1>4. x + (W - 1) = C * (w + q) + r
  <2> HIDE DEF w, q, r
  <2> QED BY <1>1, <1>2, <1>3
<1>5. x + (W - 1) \in Nat /\ w + q \in Int
  BY <1>1, <1>2, <1>3
<1> QED BY <1>2, <1>4, <1>5, Remainder

-----------------------------------------------------------------------------
(* The ring                                                                *)

LEMMA Bounds ==
  ASSUME RingTypeOK
  PROVE  /\ Capacity \in Nat \ {0} /\ Width \in Nat \ {0} /\ Batch \in Nat \ {0}
         /\ MaxLag \in Nat
         /\ Len(owed) \in Nat /\ Len(owed) + Capacity <= Width
         /\ at \in Nat /\ at < Width
         /\ DOMAIN owed = 1..Len(owed)
<1>1. owed \in Seq(Tick)
  BY DEF RingTypeOK
<1>2. Len(owed) \in Nat /\ DOMAIN owed = 1..Len(owed)
  BY <1>1
<1> QED BY <1>2, RingAssumption DEF RingTypeOK

\* The index of an unread tick, or of the one after the last.
LEMMA IndexIs ==
  ASSUME RingTypeOK, NEW k \in 1..(Len(owed) + 1)
  PROVE  /\ at + k - 1 < Width => IndexOf(k) = at + k - 1
         /\ at + k - 1 >= Width => IndexOf(k) = at + k - 1 - Width
<1> DEFINE place == at + k - 1
<1>1. place \in 0..(2 * Width - 1) /\ Width \in Nat \ {0}
  BY Bounds, SMTT(30)
<1>2. IndexOf(k) = place % Width
  BY DEF IndexOf
<1> HIDE DEF place
<1>3. (place < Width => IndexOf(k) = place) /\ (place >= Width => IndexOf(k) = place - Width)
  BY <1>1, <1>2, Wrapped
<1>4. at \in Nat /\ Width \in Nat /\ k \in Nat
  BY Bounds
<1> QED BY <1>3, <1>4 DEF place

LEMMA SlotInRange ==
  ASSUME RingTypeOK, NEW place \in Nat
  PROVE  Slot(place) \in 0..(Capacity - 1)
<1>1. Capacity \in Nat \ {0}
  BY Bounds
<1> QED BY <1>1, Division DEF Slot

LEMMA IndexInRange ==
  ASSUME RingTypeOK, NEW k \in 1..(Len(owed) + 1)
  PROVE  IndexOf(k) \in 0..(Width - 1)
<1>1. at + k - 1 \in Nat /\ Width \in Nat \ {0}
  BY Bounds
<1> QED BY <1>1, Division DEF IndexOf

\* The write head, seen from the reader.
LEMMA HeadIs ==
  ASSUME RingTypeOK, Follows, reader
  PROVE  /\ head = IndexOf(Len(owed) + 1)
         /\ at + Len(owed) < Width => head = at + Len(owed)
         /\ at + Len(owed) >= Width => head = at + Len(owed) - Width
<1>1. at + (Len(owed) + 1) - 1 = at + Len(owed)
  BY Bounds
<1>2. Len(owed) + 1 \in 1..(Len(owed) + 1)
  BY Bounds
<1> QED BY <1>1, <1>2, IndexIs DEF Follows, IndexOf

\* The writer is in another slot than an unread tick that fewer than Capacity
\* others follow, unless the heads wrap right after this tick.
LEMMA WriterElsewhere ==
  ASSUME RingTypeOK, Follows, reader, NEW k \in DOMAIN owed,
         Len(owed) - k + 1 < (IF IndexOf(k) = Width - 1 THEN 1 ELSE Capacity)
  PROVE  Slot(head) # Slot(IndexOf(k))
<1> DEFINE mine == at + k - 1
           next == at + Len(owed)
<1>1. k \in 1..Len(owed) /\ k \in 1..(Len(owed) + 1) /\ k \in Nat
  BY Bounds
<1>2. mine \in Nat /\ next \in Nat /\ mine < next /\ next - mine = Len(owed) - k + 1
  BY <1>1, Bounds, SMTT(30)
<1>3. (mine < Width => IndexOf(k) = mine) /\ (mine >= Width => IndexOf(k) = mine - Width)
  BY <1>1, IndexIs, Bounds
<1>4. (next < Width => head = next) /\ (next >= Width => head = next - Width)
  BY HeadIs, Bounds
<1>5. IndexOf(k) # Width - 1 /\ next - mine < Capacity
  <2>1. Len(owed) - k + 1 \in Nat \ {0}
    BY <1>1, Bounds
  <2>2. IndexOf(k) # Width - 1
    BY <2>1
  <2>3. Len(owed) - k + 1 < Capacity
    BY <2>2
  <2> QED BY <1>2, <2>2, <2>3
<1> HIDE DEF mine, next
<1>6. CASE next < Width
  <2>1. IndexOf(k) = mine /\ head = next
    BY <1>2, <1>3, <1>4, <1>6, Bounds
  <2> QED BY <1>2, <1>5, <2>1, Bounds, SlotsDiffer DEF Slot
<1>7. CASE mine >= Width
  <2>1. /\ IndexOf(k) = mine - Width /\ head = next - Width
        /\ mine - Width \in Nat /\ next - Width \in Nat
        /\ mine - Width < next - Width /\ (next - Width) - (mine - Width) < Capacity
    BY <1>2, <1>3, <1>4, <1>5, <1>7, Bounds, SMTT(30)
  <2> QED BY <2>1, Bounds, SlotsDiffer DEF Slot
<1>8. CASE mine < Width /\ next >= Width
  <2>1. /\ IndexOf(k) = mine /\ head = next - Width /\ next - Width \in Nat
        /\ (next - Width) + (Width - 1) = next - 1 /\ next - 1 \in Nat
        /\ mine < next - 1 /\ (next - 1) - mine < Capacity
    BY <1>2, <1>3, <1>4, <1>5, <1>8, Bounds, SMTT(30)
  <2>2. (next - 1) % Capacity = (next - Width) % Capacity
    BY <2>1, Bounds, RingAssumption, SlotsRepeat
  <2>3. mine % Capacity # (next - 1) % Capacity
    BY <1>2, <2>1, Bounds, SlotsDiffer
  <2> QED BY <2>1, <2>2, <2>3 DEF Slot
<1> QED BY <1>2, <1>6, <1>7, <1>8, Bounds

\* What Held says of the ticks that last keeps the writer out of their slots.
LEMMA RingIntact == RingInv => TicksIntact
<1> SUFFICES ASSUME RingInv, NEW k \in DOMAIN owed, Lasting(k), filling # None
             PROVE  Slot(head) # Slot(IndexOf(k))
  BY DEF RingInv, Held, Lasting, TicksIntact
<1>1. k \in 1..Len(owed) /\ Len(owed) \in Nat
  BY Bounds DEF RingInv
<1>2. reader
  BY <1>1 DEF RingInv, Follows
<1>3. Behind(k) = Len(owed) - k + 1
  BY DEF Behind
<1> QED BY <1>2, <1>3, WriterElsewhere DEF RingInv, Lasting

\* What a wrapped head is when it goes on.
LEMMA WrapNext ==
  ASSUME NEW W \in Nat \ {0}, NEW x \in 0..(2 * W - 2)
  PROVE  ((x % W) + 1) % W = (x + 1) % W
<1>1. CASE x + 1 < W
  <2>1. x % W = x
    BY <1>1, Wrapped
  <2> QED BY <2>1
<1>2. CASE x + 1 = W
  <2>1. x % W = x
    BY <1>2, Wrapped
  <2> QED BY <2>1
<1>3. CASE x >= W
  <2> DEFINE y == x - W
         z == x + 1
  <2>1. /\ y \in 0..(W - 2) /\ y + 1 = z - W /\ x \in 0..(2 * W - 1)
        /\ z \in 0..(2 * W - 1) /\ z >= W
    BY <1>3
  <2>2. x % W = y
    BY <1>3, <2>1, Wrapped
  <2>3. z % W = y + 1
    <3> HIDE DEF z
    <3> QED BY <2>1, Wrapped
  <2>4. (y + 1) % W = y + 1
    <3> HIDE DEF y
    <3>1. y + 1 \in 0..(2 * W - 1) /\ y + 1 < W
      BY <2>1
    <3> QED BY <3>1, Wrapped
  <2> QED BY <2>2, <2>3, <2>4
<1> QED BY <1>1, <1>2, <1>3

\* Two steps round the wrap are one.
LEMMA WrapSum ==
  ASSUME NEW W \in Nat \ {0}, NEW x \in 0..(W - 1), NEW n \in 0..(W - 1)
  PROVE  (((x + 1) % W) + n) % W = (x + 1 + n) % W
<1>1. CASE x + 1 < W
  <2>1. (x + 1) % W = x + 1
    BY <1>1, Wrapped
  <2> QED BY <2>1
<1>2. CASE x + 1 = W
  <2>1. (x + 1) % W = 0
    <3>1. W \in 0..(2 * W - 1) /\ W - W = 0
      OBVIOUS
    <3>2. W % W = 0
      BY <3>1, Wrapped
    <3> QED BY <1>2, <3>2
  <2>2. n % W = n /\ 0 + n = n
    BY Wrapped
  <2>3. (W + n) % W = n
    <3> DEFINE sum == W + n
    <3>1. sum \in 0..(2 * W - 1) /\ sum >= W /\ sum - W = n
      OBVIOUS
    <3> HIDE DEF sum
    <3>2. sum % W = n
      BY <3>1, Wrapped
    <3> QED BY <3>2 DEF sum
  <2> QED BY <1>2, <2>1, <2>2, <2>3
<1> QED BY <1>1, <1>2

-----------------------------------------------------------------------------
(* The steps of writer and reader                                          *)

\* Steps that touch neither head, slots nor reader.
LEMMA RingStill == RingInv /\ UNCHANGED ringVars => RingInv'
BY DEF RingInv, RingTypeOK, Follows, Held, Lasting, Behind, IndexOf, Slot, ringVars

LEMMA BeginWriteKeeps ==
  ASSUME RingInv, NEW tick \in Tick, BeginWrite(tick)
  PROVE  RingInv'
<1>1. RingTypeOK' /\ Follows' /\ left' <= Len(owed')
  BY DEF RingInv, RingTypeOK, Follows, BeginWrite
<1>2. ASSUME NEW k \in DOMAIN owed, Lasting(k)' PROVE Lasting(k)
  <2>1. k \in Nat /\ Len(owed) \in Nat
    BY Bounds DEF RingInv
  <2>2. filling = None /\ Behind(k) \in Int /\ Behind(k) <= Behind(k)'
    BY <2>1 DEF BeginWrite, Behind
  <2>3. UNCHANGED <<at, slots, owed>>
    BY DEF BeginWrite
  <2>4. IndexOf(k)' = IndexOf(k)
    BY <2>3 DEF IndexOf
  <2>5. Behind(k)' \in Int
    BY <2>1, <2>3 DEF Behind
  <2> QED BY <1>2, <2>2, <2>4, <2>5, Bounds DEF Lasting, RingInv
<1>3. Held'
  BY <1>2 DEF Held, RingInv, BeginWrite, Slot, IndexOf
<1> QED BY <1>1, <1>3 DEF RingInv

LEMMA AttachKeeps == RingInv /\ Attach => RingInv'
<1> SUFFICES ASSUME RingInv, Attach PROVE RingInv'
  OBVIOUS
<1>1. owed' = <<>> /\ Len(owed') = 0 /\ DOMAIN owed' = {}
  BY DEF Attach
<1>2. RingTypeOK'
  BY <1>1, Bounds DEF RingInv, RingTypeOK, Attach
<1>3. Follows'
  <2>1. head \in 0..(Width - 1) /\ Width \in Nat \ {0}
    BY Bounds DEF RingInv, RingTypeOK
  <2>2. head % Width = head /\ head + 0 = head
    BY <2>1, Wrapped
  <2> QED BY <1>1, <2>2 DEF Follows, Attach
<1> QED BY <1>1, <1>2, <1>3 DEF RingInv, Held, Attach

LEMMA DetachKeeps == RingInv /\ Detach => RingInv'
<1> SUFFICES ASSUME RingInv, Detach PROVE RingInv'
  OBVIOUS
<1>1. owed' = <<>> /\ Len(owed') = 0 /\ DOMAIN owed' = {}
  BY DEF Detach
<1>2. RingTypeOK'
  <2>1. Width \in Nat \ {0} /\ Batch \in Nat /\ MaxLag \in Nat
    BY Bounds DEF RingInv
  <2>2. /\ head' \in 0..(Width - 1)
        /\ slots' \in [0..(Capacity - 1) -> Tick \cup {None}]
        /\ filling' \in Tick \cup {None}
    BY DEF RingInv, RingTypeOK, Detach
  <2>3. at' \in 0..(Width - 1) /\ left' \in 0..Batch
    BY <2>1 DEF Detach
  <2>4. reader' \in BOOLEAN
    BY DEF Detach
  <2>5. owed' \in Seq(Tick)
    BY <1>1
  <2>6. Len(owed') <= MaxLag + 1
    BY <1>1, <2>1
  <2> QED BY <2>2, <2>3, <2>4, <2>5, <2>6 DEF RingTypeOK
<1> QED BY <1>1, <1>2 DEF RingInv, Held, Detach, Follows

\* A tick is published into a slot that holds none of those still to be found.
LEMMA PublishKeeps ==
  ASSUME RingInv, Publish, reader => Len(owed) <= MaxLag
  PROVE  RingInv'
<1>1. /\ RingTypeOK /\ Follows /\ left <= Len(owed) /\ Held
      /\ filling \in Tick /\ filling' = None
      /\ slots' = [slots EXCEPT ![Slot(head)] = filling]
      /\ UNCHANGED <<reader, at, left>>
  BY DEF RingInv, Publish, RingTypeOK
<1>2. head \in 0..(Width - 1) /\ Width \in Nat \ {0}
  BY <1>1, Bounds DEF RingTypeOK
<1>3. head' \in 0..(Width - 1)
  <2>1. head + 1 \in Nat
    BY <1>2
  <2>2. (head + 1) % Width \in 0..(Width - 1)
    BY <1>2, <2>1, Division
  <2> QED BY <2>2 DEF Publish
<1>4. Slot(head) \in 0..(Capacity - 1)
  BY <1>1, <1>2, SlotInRange
<1>5. /\ slots' \in [0..(Capacity - 1) -> Tick \cup {None}]
      /\ slots'[Slot(head)] = filling
      /\ \A s \in 0..(Capacity - 1) : s # Slot(head) => slots'[s] = slots[s]
  BY <1>1, <1>4 DEF RingTypeOK
<1>6. CASE ~reader
  <2>1. owed = <<>> /\ owed' = <<>> /\ left' = 0
    BY <1>1, <1>6 DEF Publish, Follows
  <2>2. Len(owed') = 0 /\ DOMAIN owed' = {} /\ MaxLag \in Nat
    BY <1>1, <2>1, Bounds
  <2>3. RingTypeOK'
    BY <1>1, <1>3, <1>5, <2>1, <2>2 DEF RingTypeOK
  <2> QED BY <1>1, <1>6, <2>1, <2>2, <2>3 DEF RingInv, Follows, Held
<1>7. CASE reader
  <2>1. /\ owed' = Append(owed, filling) /\ owed' \in Seq(Tick)
        /\ Len(owed) \in Nat /\ Len(owed') = Len(owed) + 1
        /\ DOMAIN owed' = 1..(Len(owed) + 1) /\ DOMAIN owed = 1..Len(owed)
        /\ owed'[Len(owed) + 1] = filling
        /\ \A k \in 1..Len(owed) : owed'[k] = owed[k]
    BY <1>1, <1>7, Bounds DEF Publish, RingTypeOK
  <2>2. RingTypeOK'
    <3>1. Len(owed') <= MaxLag + 1
      BY <1>7, <2>1, Bounds, <1>1
    <3> QED BY <1>1, <1>3, <1>5, <2>1, <3>1 DEF RingTypeOK
  <2>3. Follows'
    <3> DEFINE x == at + Len(owed)
    <3>1. x \in 0..(2 * Width - 2) /\ x + 1 = at + Len(owed')
      <4>1. /\ at \in Nat /\ Len(owed) \in Nat /\ Width \in Nat /\ Capacity \in Nat \ {0}
            /\ at < Width /\ Len(owed) + Capacity <= Width
        BY <1>1, Bounds
      <4> QED BY <2>1, <4>1
    <3>2. head = x % Width
      BY <1>1, <1>7 DEF Follows
    <3> HIDE DEF x
    <3>3. (head + 1) % Width = (x + 1) % Width
      BY <1>2, <3>1, <3>2, WrapNext
    <3>4. head' = (at + Len(owed')) % Width
      BY <3>1, <3>3 DEF Publish
    <3> QED BY <1>1, <1>7, <3>4 DEF Follows
  <2>4. left' <= Len(owed')
    BY <1>1, <2>1 DEF RingTypeOK
  <2>5. \A k \in DOMAIN owed' : IndexOf(k)' = IndexOf(k)
    BY <1>1 DEF IndexOf
  <2>6. ASSUME NEW k \in DOMAIN owed', Lasting(k)'
        PROVE  slots'[Slot(IndexOf(k))] = owed'[k]
    <3>1. CASE k = Len(owed) + 1
      <4>1. IndexOf(k) = head
        BY <1>1, <1>7, <3>1, HeadIs
      <4> QED BY <1>5, <2>1, <3>1, <4>1
    <3>2. CASE k \in 1..Len(owed)
      <4>1. Behind(k) = Len(owed) - k + 1 /\ Behind(k)' = Len(owed) - k + 1
        BY <1>1, <2>1, <3>2 DEF Behind, Publish
      <4>2. Lasting(k)
        BY <2>5, <2>6, <4>1 DEF Lasting
      <4>3. Slot(IndexOf(k)) # Slot(head)
        BY <1>1, <1>7, <2>1, <3>2, <4>1, <4>2, WriterElsewhere DEF Lasting
      <4>4. Slot(IndexOf(k)) \in 0..(Capacity - 1)
        <5>1. IndexOf(k) \in Nat
          <6>1. k \in 1..(Len(owed) + 1)
            BY <2>1, <3>2
          <6> QED BY <1>1, <6>1, IndexInRange
        <5> QED BY <1>1, <5>1, SlotInRange
      <4>5. slots[Slot(IndexOf(k))] = owed[k]
        BY <1>1, <2>1, <3>2, <4>2 DEF Held
      <4> QED BY <1>5, <2>1, <3>2, <4>3, <4>4, <4>5
    <3> QED BY <2>1, <2>6, <3>1, <3>2
  <2>7. Held'
    BY <2>5, <2>6 DEF Held, Slot
  <2> QED BY <2>2, <2>3, <2>4, <2>7 DEF RingInv
<1> QED BY <1>6, <1>7

LEMMA MinOfThree ==
  ASSUME NEW a \in Nat, NEW b \in Nat, NEW c \in Nat
  PROVE  /\ Min({a, b, c}) \in {a, b, c}
         /\ Min({a, b, c}) <= a /\ Min({a, b, c}) <= b
<1> DEFINE least == IF a <= b THEN (IF a <= c THEN a ELSE c)
                              ELSE (IF b <= c THEN b ELSE c)
<1>1. least \in {a, b, c} /\ \A y \in {a, b, c} : least <= y
  OBVIOUS
<1> HIDE DEF least
<1>2. /\ Min({a, b, c}) \in {a, b, c}
      /\ \A y \in {a, b, c} : Min({a, b, c}) <= y
  BY <1>1 DEF Min
<1> QED BY <1>2

\* What the reader finds available is what it is owed.
LEMMA AvailableIsOwed ==
  ASSUME RingTypeOK, Follows, reader
  PROVE  Available = Len(owed)
<1> DEFINE n == Len(owed)
           ahead == head - at + Width
<1>1. /\ at \in Nat /\ n \in Nat /\ Width \in Nat \ {0} /\ at < Width /\ n < Width
      /\ head \in 0..(Width - 1)
  BY SMTT(30), Bounds DEF RingTypeOK
<1>2. (at + n < Width => head = at + n) /\ (at + n >= Width => head = at + n - Width)
  BY HeadIs
<1>3. Available = ahead % Width
  BY DEF Available
<1> HIDE DEF n
<1>4. CASE at + n < Width
  <2>1. ahead \in 0..(2 * Width - 1) /\ ahead >= Width /\ ahead - Width = n
    BY <1>1, <1>2, <1>4
  <2> HIDE DEF ahead
  <2> QED BY <1>1, <1>3, <2>1, Wrapped DEF n
<1>5. CASE at + n >= Width
  <2>1. ahead \in 0..(2 * Width - 1) /\ ahead < Width /\ ahead = n
    BY <1>1, <1>2, <1>5
  <2> HIDE DEF ahead
  <2> QED BY <1>1, <1>3, <2>1, Wrapped DEF n
<1> QED BY <1>1, <1>4, <1>5

\* A batch is never longer than what the reader is owed.
LEMMA BeginReadKeeps == RingInv /\ BeginRead => RingInv'
<1> SUFFICES ASSUME RingInv, BeginRead PROVE RingInv'
  OBVIOUS
<1>1. /\ RingTypeOK /\ Follows /\ Held /\ reader
      /\ UNCHANGED <<head, slots, filling, reader, at, owed>>
      /\ left' = Min({Available, Batch, Capacity})
  BY DEF RingInv, BeginRead
<1>2. Available = Len(owed) /\ Len(owed) \in Nat /\ Batch \in Nat /\ Capacity \in Nat
  BY <1>1, AvailableIsOwed, Bounds
<1>3. left' \in 0..Batch /\ left' <= Len(owed)
  BY <1>1, <1>2, MinOfThree
<1>4. RingTypeOK' /\ Follows' /\ left' <= Len(owed')
  BY <1>1, <1>3 DEF RingTypeOK, Follows
<1>5. Held'
  BY <1>1 DEF Held, Lasting, Behind, IndexOf, Slot
<1> QED BY <1>4, <1>5 DEF RingInv

\* A slot read is a tick that is no longer owed.
LEMMA ReadSlotKeeps == RingInv /\ ReadSlot => RingInv'
<1> SUFFICES ASSUME RingInv, ReadSlot PROVE RingInv'
  OBVIOUS
<1>1. /\ RingTypeOK /\ Follows /\ Held /\ left <= Len(owed) /\ left > 0
      /\ UNCHANGED <<head, slots, filling, reader>>
      /\ left' = left - 1 /\ at' = (at + 1) % Width /\ owed' = Tail(owed)
  BY DEF RingInv, ReadSlot
<1>2. reader
  BY <1>1 DEF Follows
<1>3. /\ Len(owed) \in Nat \ {0} /\ owed' \in Seq(Tick) /\ Len(owed') = Len(owed) - 1
      /\ DOMAIN owed' = 1..(Len(owed) - 1) /\ DOMAIN owed = 1..Len(owed)
      /\ \A k \in 1..(Len(owed) - 1) : owed'[k] = owed[k + 1]
  <2>1. owed \in Seq(Tick) /\ left \in Nat /\ Len(owed) \in Nat /\ Len(owed) > 0
    BY <1>1 DEF RingTypeOK
  <2>2. owed # <<>>
    BY <2>1
  <2> QED BY <1>1, <2>1, <2>2
<1>4. /\ Width \in Nat \ {0} /\ at \in 0..(Width - 1) /\ Capacity \in Nat \ {0}
      /\ Len(owed) + Capacity <= Width
  BY <1>1, Bounds DEF RingTypeOK
<1>5. at' \in 0..(Width - 1)
  <2>1. at + 1 \in Nat
    BY <1>4
  <2> QED BY <1>1, <1>4, <2>1, Division
<1>6. RingTypeOK'
  <2>1. left' \in 0..Batch /\ Len(owed') <= MaxLag + 1
    BY <1>1, <1>3, RingAssumption DEF RingTypeOK
  <2> QED BY <1>1, <1>3, <1>5, <2>1 DEF RingTypeOK
<1>7. ASSUME NEW n \in 0..(Len(owed) - 1)
      PROVE  (at' + n) % Width = (at + 1 + n) % Width
  <2>1. n \in 0..(Width - 1)
    BY <1>3, <1>4
  <2> QED BY <1>1, <1>4, <2>1, WrapSum
<1>8. Follows'
  <2> DEFINE n == Len(owed) - 1
  <2>1. n \in 0..(Len(owed) - 1) /\ at + 1 + n = at + Len(owed)
    BY <1>3, <1>4
  <2>2. (at' + n) % Width = (at + Len(owed)) % Width
    BY <1>7, <2>1
  <2> QED BY <1>1, <1>2, <1>3, <2>2 DEF Follows
<1>9. ASSUME NEW k \in DOMAIN owed'
      PROVE  k + 1 \in DOMAIN owed /\ IndexOf(k)' = IndexOf(k + 1) /\ Behind(k)' = Behind(k + 1)
  <2>1. k \in Nat \ {0} /\ k - 1 \in 0..(Len(owed) - 1) /\ k + 1 \in DOMAIN owed
    BY <1>3
  <2>2. (at' + (k - 1)) % Width = (at + 1 + (k - 1)) % Width
    BY <1>7, <2>1
  <2>3. at' + k - 1 = at' + (k - 1) /\ at + (k + 1) - 1 = at + 1 + (k - 1)
    BY <1>4, <1>5, <2>1
  <2>4. IndexOf(k)' = IndexOf(k + 1)
    BY <2>2, <2>3 DEF IndexOf
  <2>5. Behind(k)' = Behind(k + 1)
    BY <1>1, <1>3, <2>1 DEF Behind
  <2> QED BY <2>1, <2>4, <2>5
<1>10. Held'
  <2> SUFFICES ASSUME NEW k \in DOMAIN owed', Lasting(k)'
               PROVE  slots'[Slot(IndexOf(k)')] = owed'[k]
    BY DEF Held, Slot
  <2>1. Lasting(k + 1)
    BY <1>9 DEF Lasting
  <2>2. slots[Slot(IndexOf(k + 1))] = owed[k + 1]
    BY <1>1, <1>9, <2>1 DEF Held
  <2> QED BY <1>1, <1>3, <1>9, <2>2
<1>11. left' <= Len(owed')
  BY <1>1, <1>3 DEF RingTypeOK
<1> QED BY <1>6, <1>8, <1>10, <1>11 DEF RingInv

-----------------------------------------------------------------------------
(* Types                                                                   *)

\* The tick being written and the one to be written again come out of a
\* backlog that was short of MaxLag.
Backlog ==
  /\ Len(owed) <= MaxLag + 1
  /\ filling # None \/ again => MaxLag >= 1 /\ Len(owed) <= MaxLag
  /\ filling # None /\ again => Len(owed) < MaxLag
  /\ again => lastSide \in Tick

TypeInv == TypeOK /\ RingInv /\ Backlog

LEMMA InitTyped == Init => TypeInv
<1> SUFFICES ASSUME Init PROVE TypeInv
  OBVIOUS
<1>1. /\ Width \in Nat \ {0} /\ Batch \in Nat /\ MaxLag \in Nat /\ Capacity \in Nat \ {0}
  BY RingAssumption
<1>2. /\ head = 0 /\ filling = None /\ reader = FALSE /\ at = 0 /\ left = 0 /\ owed = <<>>
      /\ slots = [s \in 0..(Capacity - 1) |-> None]
  BY DEF Init, RingInit
<1>3. owed \in Seq(Tick) /\ Len(owed) = 0 /\ DOMAIN owed = {}
  BY <1>2
<1>4. RingTypeOK
  <2>1. head \in 0..(Width - 1) /\ at \in 0..(Width - 1) /\ left \in 0..Batch
        /\ Len(owed) <= MaxLag + 1
    BY <1>1, <1>2, <1>3
  <2> QED BY <1>2, <1>3, <2>1 DEF RingTypeOK
<1>5. RingInv
  BY <1>2, <1>3, <1>4 DEF RingInv, Follows, Held
<1>6. FeedTypeOK
  BY DEF Init, FeedTypeOK, Timer
<1>7. /\ buyVol \in Nat /\ sellVol \in Nat /\ warm \in 0..Warmup
  BY NociceptorAssumption DEF Init
<1>8. /\ host \in {"page", "daemon"} /\ booked \in BOOLEAN /\ again \in BOOLEAN
      /\ lastSide \in Tick \cup {None} /\ regime \in Regime
      /\ {passive, frozen, hidden, replaced, healthy, clean, passed} \subseteq BOOLEAN
  BY DEF Init, Regime
<1>9. Backlog
  BY <1>1, <1>2, <1>3 DEF Init, Backlog
<1> QED BY <1>4, <1>5, <1>6, <1>7, <1>8, <1>9 DEF TypeInv, TypeOK

LEMMA FeedTyped ==
  ASSUME FeedTypeOK, Reconnection \/ Outage
  PROVE  FeedTypeOK'
BY DEF FeedTypeOK, Reconnection, Outage, Connect, Opened, ConnectTimeout, Watchdog,
       PeerCloses, SocketDies, Closed, Timer

\* The ring's part of what the worker and the order-book worker do.
LEMMA RingStep == TypeInv /\ Worker => RingInv'
<1> SUFFICES ASSUME TypeInv, Worker PROVE RingInv'
  OBVIOUS
<1>1. RingInv /\ Backlog /\ None \notin Tick
  BY RingAssumption DEF TypeInv
<1>2. CASE \E side \in Tick : Trade(side) \/ OtherTrade(side)
  BY <1>1, <1>2, BeginWriteKeeps DEF Trade, OtherTrade
<1>3. CASE WriteAgain
  BY <1>1, <1>3, BeginWriteKeeps DEF WriteAgain, Backlog
<1>4. CASE FinishWrite
  <2>1. Publish /\ filling # None
    BY <1>4 DEF FinishWrite, Publish
  <2>2. Len(owed) <= MaxLag
    BY <1>1, <2>1 DEF Backlog
  <2> QED BY <1>1, <2>1, <2>2, PublishKeeps
<1>5. CASE ChangeBook \/ LatencySample \/ Hide \/ Show \/ SetFreeze
  BY <1>1, <1>5, RingStill DEF ChangeBook, LatencySample, Hide, Show, SetFreeze
<1>6. CASE BeginPoll
  BY <1>1, <1>6, BeginReadKeeps DEF BeginPoll
<1>7. CASE \E side \in Tick, volume \in MinVolume..MaxVolume : PollTick(side, volume)
  BY <1>1, <1>7, ReadSlotKeeps DEF PollTick
<1>8. CASE StartNociceptor
  BY <1>1, <1>8, AttachKeeps DEF StartNociceptor
<1>9. CASE Replace
  BY <1>1, <1>9, DetachKeeps DEF Replace
<1> QED BY <1>2, <1>3, <1>4, <1>5, <1>6, <1>7, <1>8, <1>9 DEF Worker, Trades, Poll

\* Rounding errs by half a unit at most, and nothing grows.
LEMMA Decays ==
  ASSUME NEW average \in Nat
  PROVE  /\ Decayed(average) \in Nat
         /\ 2 * (Decay * Decayed(average)) <= 2 * (average * (Decay - 1)) + Decay
         /\ 2 * (Decay * Decayed(average)) > 2 * (average * (Decay - 1)) - Decay
<1> DEFINE kept == average * (Decay - 1)
           half == Decay \div 2
           sum == kept + half
           q == sum \div Decay
           r == sum % Decay
<1>1. Decay \in Nat \ {0}
  BY NociceptorAssumption
<1>2. kept \in Nat
  <2>1. \A a, b \in Nat : a * b \in Nat
    OBVIOUS
  <2> QED BY <1>1, <2>1
<1>3. half \in Nat /\ 2 * half <= Decay /\ 2 * half > Decay - 2
  BY <1>1
<1>4. sum \in Nat
  BY <1>2, <1>3
<1>5. q \in Nat /\ r \in 0..(Decay - 1) /\ sum = Decay * q + r
  <2> HIDE DEF sum
  <2> QED BY <1>1, <1>4, Division
<1>6. Decayed(average) = q
  BY DEF Decayed
<1> DEFINE prod == Decay * q
<1>7. prod \in Int /\ sum = prod + r /\ sum = kept + half
  BY <1>1, <1>5
<1> HIDE DEF kept, half, q, r, prod, sum
<1>8. 2 * prod <= 2 * kept + Decay /\ 2 * prod > 2 * kept - Decay
  BY <1>1, <1>2, <1>3, <1>5, <1>7
<1> QED BY <1>5, <1>6, <1>8 DEF kept, prod

LEMMA NothingDecays == Decayed(0) = 0
<1>1. Decay \in Nat \ {0} /\ Decay - 1 \in Int
  BY NociceptorAssumption
<1>2. 0 * (Decay - 1) = 0 /\ (0 + Decay \div 2) \div Decay = 0
  BY <1>1
<1> QED BY <1>2 DEF Decayed

LEMMA NeverGrows ==
  ASSUME NEW average \in Nat
  PROVE  Decayed(average) <= average
<1> DEFINE d == Decayed(average)
<1>1. /\ Decay \in Nat \ {0} /\ d \in Nat
      /\ 2 * (Decay * d) <= 2 * (average * (Decay - 1)) + Decay
  BY Decays, NociceptorAssumption
<1> HIDE DEF d
<1>2. average * (Decay - 1) = Decay * average - average
  BY <1>1
<1>3. ASSUME d > average PROVE FALSE
  <2>1. Decay * d - Decay * average >= Decay
    BY <1>1, <1>3, Multiples
  <2> DEFINE x == Decay * d
             y == Decay * average
  <2>2. /\ x \in Int /\ y \in Int /\ x - y >= Decay
        /\ 2 * x <= 2 * (y - average) + Decay
    BY <1>1, <1>2, <2>1
  <2> HIDE DEF x, y
  <2> QED BY <1>1, <2>2
<1>4. d <= average
  BY <1>1, <1>3
<1> QED BY <1>4 DEF d

\* The warm-up counts every tick until it is over.
LEMMA Warmed ==
  ASSUME warm \in 0..Warmup
  PROVE  /\ Min({warm + 1, Warmup}) \in 0..Warmup
         /\ Min({warm + 1, Warmup}) <= warm + 1
         /\ Min({warm + 1, Warmup}) < Warmup => Min({warm + 1, Warmup}) = warm + 1
<1>1. warm + 1 \in Nat /\ Warmup \in Nat
  BY NociceptorAssumption
<1> DEFINE w == Min({warm + 1, Warmup})
<1>2. w \in {warm + 1, Warmup, Warmup} /\ w <= warm + 1 /\ w <= Warmup
  <2>1. {warm + 1, Warmup} = {warm + 1, Warmup, Warmup}
    OBVIOUS
  <2> QED BY <1>1, <2>1, MinOfThree
<1> HIDE DEF w
<1>3. w \in 0..Warmup /\ w <= warm + 1 /\ (w < Warmup => w = warm + 1)
  BY <1>1, <1>2
<1> QED BY <1>3 DEF w

\* The types of what belongs to no other module.
LEMMA WorkerTyped ==
  ASSUME TypeInv, Worker, passed' = FALSE
  PROVE  /\ booked' \in BOOLEAN /\ again' \in BOOLEAN
         /\ lastSide' \in Tick \cup {None}
         /\ buyVol' \in Nat /\ sellVol' \in Nat
         /\ warm' \in 0..Warmup
         /\ regime' \in Regime
         /\ passive' \in BOOLEAN /\ frozen' \in BOOLEAN /\ hidden' \in BOOLEAN
         /\ replaced' \in BOOLEAN /\ healthy' \in BOOLEAN /\ clean' \in BOOLEAN
<1>1. /\ booked \in BOOLEAN /\ again \in BOOLEAN /\ lastSide \in Tick \cup {None}
      /\ passive \in BOOLEAN /\ frozen \in BOOLEAN /\ hidden \in BOOLEAN
      /\ replaced \in BOOLEAN /\ healthy \in BOOLEAN /\ clean \in BOOLEAN
  BY DEF TypeInv, TypeOK
<1>2. /\ buyVol \in Nat /\ sellVol \in Nat /\ warm \in 0..Warmup
      /\ regime \in Regime
  BY DEF TypeInv, TypeOK
<1>3. CASE \E side \in Tick : Trade(side)
  BY <1>1, <1>2, <1>3 DEF Trade, vpinVars, modeVars
<1>4. CASE \E side \in Tick : OtherTrade(side)
  BY <1>1, <1>2, <1>4 DEF OtherTrade, marketVars, vpinVars, modeVars
<1>5. CASE WriteAgain \/ FinishWrite \/ ChangeBook
  BY <1>1, <1>2, <1>5
     DEF WriteAgain, FinishWrite, ChangeBook, marketVars, vpinVars, modeVars
<1>6. CASE BeginPoll
  BY <1>1, <1>2, <1>6 DEF BeginPoll, marketVars, vpinVars, modeVars
<1>7. CASE \E side \in Tick, volume \in MinVolume..MaxVolume : PollTick(side, volume)
  <2>1. PICK side \in Tick, volume \in MinVolume..MaxVolume : PollTick(side, volume)
    BY <1>7
  <2>2. buyVol' \in Nat /\ sellVol' \in Nat
    <3>1. volume \in Nat
      BY NociceptorAssumption
    <3>2. Decayed(buyVol) \in Nat /\ Decayed(sellVol) \in Nat
      BY <1>2, Decays
    <3>3. \A n \in Nat : n + volume \in Nat /\ n + 0 \in Nat
      BY <3>1
    <3> QED BY <2>1, <3>2, <3>3 DEF PollTick
  <2>3. warm' \in 0..Warmup
    BY <1>2, <2>1, Warmed DEF PollTick
  <2>4. regime' \in Regime
    BY <1>2, <2>1 DEF PollTick, NextRegime, Regime
  <2>5. clean' \in BOOLEAN /\ UNCHANGED <<marketVars, modeVars>>
    BY <1>1, <2>1 DEF PollTick
  <2> QED BY <1>1, <2>2, <2>3, <2>4, <2>5 DEF marketVars, modeVars
<1>8. CASE LatencySample
  BY <1>1, <1>2, <1>8 DEF LatencySample, marketVars, vpinVars
<1>9. CASE Hide \/ Show \/ SetFreeze
  BY <1>1, <1>2, <1>9 DEF Hide, Show, SetFreeze, marketVars, vpinVars
<1>10. CASE StartNociceptor
  BY <1>1, <1>2, <1>10 DEF StartNociceptor, marketVars, vpinVars, modeVars
<1>11. CASE Replace
  <2>1. 0 \in Nat /\ 0 \in 0..Warmup /\ "LowVol" \in Regime
    BY NociceptorAssumption DEF Regime
  <2> QED BY <1>1, <1>2, <1>11, <2>1 DEF Replace, marketVars
<1> QED BY <1>3, <1>4, <1>5, <1>6, <1>7, <1>8, <1>9, <1>10, <1>11
        DEF Worker, Trades, Poll

\* The bound on trades bounds the ticks the reader is owed.
LEMMA NextBacklog == TypeInv /\ Worker => Backlog'
<1> SUFFICES ASSUME TypeInv, Worker PROVE Backlog'
  OBVIOUS
<1>1. /\ RingInv /\ RingTypeOK /\ Backlog /\ None \notin Tick /\ again \in BOOLEAN
      /\ Len(owed) \in Nat /\ MaxLag \in Nat
  BY RingAssumption, Bounds DEF TypeInv, TypeOK, RingInv
<1>2. ASSUME NEW side \in Tick, Trade(side) \/ OtherTrade(side)
      PROVE  Backlog'
  <2>1. /\ filling = None /\ filling' = side /\ Len(owed) < MaxLag /\ ~again
        /\ UNCHANGED owed /\ (again' => lastSide' \in Tick)
    BY <1>2 DEF Trade, OtherTrade, BeginWrite, marketVars
  <2> QED BY <1>1, <2>1 DEF Backlog
<1>3. CASE WriteAgain
  <2>1. /\ again /\ ~again' /\ filling = None /\ filling' = lastSide /\ UNCHANGED owed
    BY <1>3 DEF WriteAgain, BeginWrite
  <2> QED BY <1>1, <2>1 DEF Backlog
<1>4. CASE FinishWrite
  <2>1. /\ filling # None /\ filling' = None /\ UNCHANGED <<again, lastSide>>
        /\ owed' = IF reader THEN Append(owed, filling) ELSE owed
    BY <1>4 DEF FinishWrite, Publish, marketVars
  <2>2. Len(owed') <= Len(owed) + 1 /\ Len(owed') \in Nat
    <3>1. owed \in Seq(Tick) /\ filling \in Tick
      BY <1>1, <2>1 DEF RingTypeOK
    <3>2. Len(Append(owed, filling)) = Len(owed) + 1
      BY <3>1
    <3> QED BY <1>1, <2>1, <3>2
  <2> QED BY <1>1, <2>1, <2>2 DEF Backlog
<1>5. CASE \/ ChangeBook \/ LatencySample \/ Hide \/ Show \/ SetFreeze \/ BeginPoll
  <2>1. UNCHANGED <<owed, filling, again, lastSide>>
    BY <1>5 DEF ChangeBook, LatencySample, Hide, Show, SetFreeze, BeginPoll, BeginRead,
                ringVars, marketVars
  <2> QED BY <1>1, <2>1 DEF Backlog
<1>6. CASE \E side \in Tick, volume \in MinVolume..MaxVolume : PollTick(side, volume)
  <2>1. /\ UNCHANGED <<filling, again, lastSide>>
        /\ owed' = Tail(owed) /\ left > 0 /\ left <= Len(owed) /\ left \in Nat
    BY <1>1, <1>6 DEF PollTick, ReadSlot, marketVars, RingInv, RingTypeOK
  <2>2. Len(owed') = Len(owed) - 1
    <3>1. owed \in Seq(Tick) /\ owed # <<>>
      BY <1>1, <2>1 DEF RingTypeOK
    <3> QED BY <2>1, <3>1
  <2> QED BY <1>1, <2>1, <2>2 DEF Backlog
<1>7. CASE StartNociceptor \/ Replace
  <2>1. /\ UNCHANGED <<filling, again, lastSide>> /\ owed' = <<>>
    BY <1>7 DEF StartNociceptor, Replace, Attach, Detach, marketVars
  <2>2. Len(owed') = 0
    BY <2>1
  <2> QED BY <1>1, <2>1, <2>2 DEF Backlog
<1> QED BY <1>2, <1>3, <1>4, <1>5, <1>6, <1>7 DEF Worker, Trades, Poll

LEMMA SignalTyped ==
  ASSUME OnSignal
  PROVE  passed' \in BOOLEAN
BY DEF OnSignal

LEMMA NextTyped == TypeInv /\ [Next]_vars => TypeInv'
<1> SUFFICES ASSUME TypeInv, [Next]_vars PROVE TypeInv'
  OBVIOUS
<1>1. CASE Worker /\ Apart
  <2>1. RingInv' /\ RingTypeOK' /\ Backlog'
    BY <1>1, RingStep, NextBacklog DEF RingInv
  <2>2. FeedTypeOK' /\ host' \in {"page", "daemon"} /\ passed' = FALSE
    BY <1>1 DEF Apart, feedVars, FeedTypeOK, TypeInv, TypeOK
  <2>3. {passive, frozen, hidden, replaced, healthy, clean, passed}' \subseteq BOOLEAN
    BY <1>1, <2>2, WorkerTyped
  <2>4. TypeOK'
    BY <1>1, <2>1, <2>2, <2>3, WorkerTyped DEF TypeOK
  <2> QED BY <2>1, <2>4 DEF TypeInv
<1>2. CASE (Reconnection \/ Outage) /\ Wire
  <2>1. FeedTypeOK'
    BY <1>2, FeedTyped DEF TypeInv, TypeOK
  <2>2. UNCHANGED <<host, ringVars, workerVars>> /\ passed' = FALSE
    BY <1>2 DEF Wire
  <2>3. RingInv' /\ RingTypeOK'
    BY <2>2, RingStill DEF TypeInv, RingInv
  <2>4. Backlog'
    BY <2>2 DEF Backlog, TypeInv, ringVars, workerVars, marketVars
  <2>5. {passive, frozen, hidden, replaced, healthy, clean, passed}' \subseteq BOOLEAN
    BY <2>1, <2>2 DEF TypeInv, TypeOK, workerVars, modeVars
  <2>6. TypeOK'
    BY <2>1, <2>2, <2>3, <2>5 DEF TypeInv, TypeOK, workerVars, marketVars, vpinVars
  <2> QED BY <2>3, <2>4, <2>6 DEF TypeInv
<1>3. CASE OnSignal \/ UNCHANGED vars
  <2>1. UNCHANGED <<host, feedVars, ringVars, workerVars>>
    BY <1>3 DEF OnSignal, vars
  <2>2. passed' \in BOOLEAN
    BY <1>3, SignalTyped DEF vars, TypeInv, TypeOK
  <2>3. RingInv' /\ RingTypeOK'
    BY <2>1, RingStill DEF TypeInv, RingInv
  <2>4. Backlog'
    BY <2>1 DEF Backlog, TypeInv, ringVars, workerVars, marketVars
  <2>5. FeedTypeOK'
    BY <2>1 DEF TypeInv, TypeOK, FeedTypeOK, feedVars
  <2>6. {passive, frozen, hidden, replaced, healthy, clean, passed}' \subseteq BOOLEAN
    BY <2>1, <2>2 DEF TypeInv, TypeOK, workerVars, modeVars
  <2>7. TypeOK'
    BY <2>1, <2>3, <2>5, <2>6 DEF TypeInv, TypeOK, workerVars, marketVars, vpinVars
  <2> QED BY <2>3, <2>4, <2>7 DEF TypeInv
<1> QED BY <1>1, <1>2, <1>3 DEF Next

-----------------------------------------------------------------------------
(* Signals                                                                 *)

\* A worker in a hidden tab is passive until something is known to have made
\* it active again.
Wary == hidden /\ ~healthy /\ ~replaced => passive

LEMMA InitWary == Init => Wary
BY DEF Init, Wary

\* Only what PassesWarranted names makes a hidden worker active.
LEMMA NextWary == TypeInv /\ Wary /\ [Next]_vars => Wary'
<1> SUFFICES ASSUME TypeInv, Wary, [Next]_vars PROVE Wary'
  OBVIOUS
<1>1. CASE UNCHANGED modeVars
  BY <1>1 DEF Wary, modeVars
<1>2. CASE LatencySample
  BY <1>2 DEF LatencySample, Wary
<1>3. CASE Hide \/ Show \/ SetFreeze \/ Replace
  BY <1>3 DEF Hide, Show, SetFreeze, Replace, Wary
<1>4. CASE \/ Trades \/ Poll \/ StartNociceptor \/ OnSignal \/ Wire \/ UNCHANGED vars
  BY <1>1, <1>4
     DEF Trades, Trade, OtherTrade, WriteAgain, FinishWrite, ChangeBook, Poll, BeginPoll,
         PollTick, StartNociceptor, OnSignal, Wire, workerVars, vars
<1> QED BY <1>2, <1>3, <1>4 DEF Next, Worker

\* What is let through comes from a worker neither frozen nor passive.
LEMMA PassesAwake ==
  ASSUME OnSignal, passed', frozen \in BOOLEAN, passive \in BOOLEAN
  PROVE  ~frozen /\ ~passive
<1>1. "pass" \in Answers[frozen][passive]
  BY DEF OnSignal
<1>2. PICK sig \in Signal, macro \in Macro, vetoed \in BOOLEAN, clears \in BOOLEAN :
        "pass" = Filter(sig, macro, vetoed, clears, frozen, passive)
  BY <1>1 DEF Answers
<1> QED BY <1>2 DEF Filter

LEMMA NextWarranted ==
  ASSUME TypeInv, Wary, [Next]_vars
  PROVE  [passed' => ~frozen' /\ (hidden' => healthy' \/ replaced')]_vars
<1>1. CASE OnSignal
  <2>1. UNCHANGED <<frozen, hidden, healthy, replaced>>
    BY <1>1 DEF OnSignal, workerVars, modeVars
  <2>2. frozen \in BOOLEAN /\ passive \in BOOLEAN
    BY DEF TypeInv, TypeOK
  <2>3. passed' => ~frozen /\ ~passive
    BY <1>1, <2>2, PassesAwake
  <2> QED BY <2>1, <2>3 DEF Wary
<1>2. CASE Apart \/ Wire \/ UNCHANGED vars
  BY <1>2 DEF Apart, Wire, vars
<1> QED BY <1>1, <1>2 DEF Next

-----------------------------------------------------------------------------
(* The socket                                                              *)

\* A handshake and an open socket each have the timer that would end them.
Watched ==
  /\ link = "connecting" => "connect" \in armed
  /\ link = "open" => "watchdog" \in armed

LEMMA InitWatched == Init => Watched
BY DEF Init, Watched

\* Every event of a socket leaves it with its timer or without a socket.
LEMMA NextWatched == TypeInv /\ Watched /\ [Next]_vars => Watched'
<1> SUFFICES ASSUME Watched, [Next]_vars PROVE Watched'
  OBVIOUS
<1>1. CASE Reconnection \/ Outage
  BY <1>1 DEF Reconnection, Outage, Connect, Opened, ConnectTimeout, Watchdog,
              PeerCloses, SocketDies, Closed, Watched
<1>2. CASE UNCHANGED feedVars
  BY <1>2 DEF feedVars, Watched
<1> QED BY <1>1, <1>2 DEF Next, OnSignal, Apart, vars

-----------------------------------------------------------------------------
(* Crises                                                                  *)

\* The ticks the reader has before it: those it is owed, the one being written
\* and the one to be written again.
Written == IF filling = None THEN owed ELSE Append(owed, filling)
Coming == IF again THEN Append(Written, lastSide) ELSE Written

\* No side comes three times running, and the last is that of the last trade.
Alternates(s, last) ==
  /\ \A n \in 1..Len(s) : n + 2 <= Len(s) => ~(s[n] = s[n + 1] /\ s[n + 1] = s[n + 2])
  /\ s # <<>> => s[Len(s)] = last

\* Side d came the last r times: what s may still bring.
Continues(s, d, r) ==
  s # <<>> /\ s[1] = d => r = 1 /\ (Len(s) >= 2 => s[2] # d)

\* What is to come is seldom more than two ticks.
LEMMA AppendPair ==
  ASSUME NEW x, NEW y
  PROVE  Append(<<x>>, y) = <<x, y>>
<1> DEFINE s == Append(<<x>>, y)
           t == <<x, y>>
<1>1. /\ t \in Seq({x, y}) /\ Len(t) = 2 /\ t[1] = x /\ t[2] = y
      /\ <<x>> \in Seq({x, y}) /\ Len(<<x>>) = 1 /\ <<x>>[1] = x
  OBVIOUS
<1>2. s \in Seq({x, y}) /\ Len(s) = 2 /\ s[1] = x /\ s[2] = y
  BY <1>1
<1> HIDE DEF s, t
<1>3. \A i \in 1..Len(s) : s[i] = t[i]
  <2>1. \A i \in 1..2 : i = 1 \/ i = 2
    OBVIOUS
  <2> QED BY <1>1, <1>2, <2>1
<1>4. s = t
  BY <1>1, <1>2, <1>3, SeqEqual
<1> QED BY <1>4 DEF s, t

LEMMA AlternatesTail ==
  ASSUME NEW s \in Seq(Tick), s # <<>>, NEW last, Alternates(s, last)
  PROVE  Alternates(Tail(s), last)
<1>1. /\ Len(s) \in Nat \ {0} /\ Len(Tail(s)) = Len(s) - 1
      /\ \A n \in 1..(Len(s) - 1) : Tail(s)[n] = s[n + 1]
  OBVIOUS
<1>2. ASSUME NEW n \in 1..Len(Tail(s)), n + 2 <= Len(Tail(s)),
             Tail(s)[n] = Tail(s)[n + 1], Tail(s)[n + 1] = Tail(s)[n + 2]
      PROVE  FALSE
  <2>1. /\ n \in 1..(Len(s) - 1) /\ n + 1 \in 1..(Len(s) - 1) /\ n + 2 \in 1..(Len(s) - 1)
        /\ n + 1 \in 1..Len(s) /\ (n + 1) + 2 <= Len(s)
        /\ (n + 1) + 1 = n + 2 /\ (n + 2) + 1 = (n + 1) + 2
    BY <1>1, <1>2
  <2>2. s[n + 1] = s[(n + 1) + 1] /\ s[(n + 1) + 1] = s[(n + 1) + 2]
    BY <1>1, <1>2, <2>1
  <2> QED BY <2>1, <2>2 DEF Alternates
<1>3. ASSUME Tail(s) # <<>> PROVE Tail(s)[Len(Tail(s))] = last
  <2>1. Len(Tail(s)) # 0
    BY <1>3
  <2>2. Len(s) - 1 \in 1..(Len(s) - 1) /\ (Len(s) - 1) + 1 = Len(s)
    BY <1>1, <2>1
  <2>3. Tail(s)[Len(Tail(s))] = s[Len(s)]
    BY <1>1, <2>2
  <2> QED BY <2>3 DEF Alternates
<1> QED BY <1>2, <1>3 DEF Alternates

\* A trade of another side than the last, written once or twice.
LEMMA AlternatesAppend ==
  ASSUME NEW s \in Seq(Tick), NEW last, Alternates(s, last),
         NEW side \in Tick, side # last
  PROVE  /\ Alternates(Append(s, side), side)
         /\ Alternates(Append(Append(s, side), side), side)
<1> DEFINE n == Len(s)
           t == Append(s, side)
           u == Append(t, side)
<1>1. /\ n \in Nat /\ t \in Seq(Tick) /\ Len(t) = n + 1 /\ t[n + 1] = side
      /\ \A k \in 1..n : t[k] = s[k]
  OBVIOUS
<1>2. /\ u \in Seq(Tick) /\ Len(u) = n + 2 /\ u[n + 2] = side /\ u[n + 1] = side
      /\ \A k \in 1..n : u[k] = s[k]
  <2> HIDE DEF t
  <2>1. Len(u) = Len(t) + 1 /\ u[Len(t) + 1] = side /\ \A k \in 1..Len(t) : u[k] = t[k]
    BY <1>1
  <2>2. (n + 1) + 1 = n + 2 /\ n + 1 \in 1..(n + 1) /\ \A k \in 1..n : k \in 1..(n + 1)
    BY <1>1
  <2> QED BY <1>1, <2>1, <2>2
<1>3. n > 0 => s[n] # side
  <2>1. n > 0 => s # <<>>
    OBVIOUS
  <2> QED BY <2>1 DEF Alternates
<1>4. \A k \in 1..n : k + 2 <= n => ~(s[k] = s[k + 1] /\ s[k + 1] = s[k + 2])
  BY DEF Alternates
<1> HIDE DEF n, t, u
<1>5. ASSUME NEW k \in 1..Len(u), k + 2 <= Len(u), u[k] = u[k + 1], u[k + 1] = u[k + 2]
      PROVE  FALSE
  <2>1. k \in 1..n
    BY <1>1, <1>2, <1>5
  <2>2. CASE k = n
    <3>1. n > 0 /\ k + 1 = n + 1 /\ u[k] = s[k]
      BY <1>1, <1>2, <2>1, <2>2
    <3> QED BY <1>2, <1>3, <1>5, <2>2, <3>1
  <2>3. CASE k = n - 1
    <3>1. n > 0 /\ k + 1 = n /\ k + 2 = n + 1 /\ u[n] = s[n]
      BY <1>1, <1>2, <2>1, <2>3
    <3> QED BY <1>2, <1>3, <1>5, <3>1
  <2>4. CASE k + 2 <= n
    <3>1. u[k] = s[k] /\ u[k + 1] = s[k + 1] /\ u[k + 2] = s[k + 2]
      BY <1>1, <1>2, <2>1, <2>4
    <3> QED BY <1>4, <1>5, <2>1, <2>4, <3>1
  <2> QED BY <1>1, <2>1, <2>2, <2>3, <2>4
<1>6. ASSUME NEW k \in 1..Len(t), k + 2 <= Len(t), t[k] = t[k + 1], t[k + 1] = t[k + 2]
      PROVE  FALSE
  <2>1. k \in 1..n
    BY <1>1, <1>6
  <2>2. CASE k = n - 1
    <3>1. n > 0 /\ k + 1 = n /\ k + 2 = n + 1 /\ t[n] = s[n]
      BY <1>1, <2>1, <2>2
    <3> QED BY <1>1, <1>3, <1>6, <3>1
  <2>3. CASE k + 2 <= n
    <3>1. t[k] = s[k] /\ t[k + 1] = s[k + 1] /\ t[k + 2] = s[k + 2]
      BY <1>1, <2>1, <2>3
    <3> QED BY <1>4, <1>6, <2>1, <2>3, <3>1
  <2> QED BY <1>1, <1>6, <2>1, <2>2, <2>3
<1>7. Alternates(t, side)
  BY <1>1, <1>6 DEF Alternates
<1>8. Alternates(u, side)
  BY <1>2, <1>5 DEF Alternates
<1> QED BY <1>7, <1>8 DEF t, u

\* A trade of the other side, written once or twice, does not make a run of
\* three.
LEMMA ContinuesAppend ==
  ASSUME NEW s \in Seq(Tick), NEW last, Alternates(s, last),
         NEW side \in Tick, side # last,
         NEW d \in Tick, NEW r \in {1, 2}, Continues(s, d, r), s = <<>> => d = last
  PROVE  /\ Continues(Append(s, side), d, r)
         /\ Continues(Append(Append(s, side), side), d, r)
<1> DEFINE t == Append(s, side)
           u == Append(t, side)
<1>1. /\ Len(s) \in Nat /\ t \in Seq(Tick) /\ Len(t) = Len(s) + 1
      /\ t[Len(s) + 1] = side /\ t # <<>>
      /\ \A k \in 1..Len(s) : t[k] = s[k]
  OBVIOUS
<1>2. /\ Len(u) = Len(s) + 2 /\ u # <<>>
      /\ \A k \in 1..(Len(s) + 1) : u[k] = t[k]
  <2> HIDE DEF t
  <2>1. Len(u) = Len(t) + 1 /\ u # <<>> /\ \A k \in 1..Len(t) : u[k] = t[k]
    BY <1>1
  <2> QED BY <1>1, <2>1
<1> HIDE DEF t, u
<1>3. CASE s = <<>>
  <2>1. Len(s) = 0
    BY <1>3
  <2>2. t[1] = side /\ u[1] = side /\ d # side
    BY <1>1, <1>2, <1>3, <2>1
  <2> QED BY <2>2 DEF Continues, t, u
<1>4. CASE s # <<>>
  <2>1. Len(s) >= 1 /\ s[Len(s)] # side
    BY <1>1, <1>4 DEF Alternates
  <2>2. t[1] = s[1] /\ u[1] = s[1]
    BY <1>1, <1>2, <2>1
  <2>3. ASSUME s[1] = d PROVE r = 1 /\ t[2] # d /\ u[2] # d
    <3>1. CASE Len(s) = 1
      <4>1. t[2] = side /\ u[2] = side /\ side # d
        BY <1>1, <1>2, <2>1, <2>3, <3>1
      <4> QED BY <1>4, <2>3, <4>1 DEF Continues
    <3>2. CASE Len(s) >= 2
      <4>1. t[2] = s[2] /\ u[2] = s[2]
        BY <1>1, <1>2, <3>2
      <4>2. r = 1 /\ (Len(s) >= 2 => s[2] # d)
        BY <1>4, <2>3 DEF Continues
      <4>3. s[2] # d
        BY <3>2, <4>2
      <4>4. t[2] # d /\ u[2] # d
        BY <4>1, <4>3
      <4> QED BY <4>2, <4>4
    <3>3. Len(s) = 1 \/ Len(s) >= 2
      <4>1. Len(s) \in Nat
        OBVIOUS
      <4>2. Len(s) >= 1
        BY <2>1
      <4>3. ASSUME NEW n \in Nat, n >= 1 PROVE n = 1 \/ n >= 2
        BY <4>3
      <4> QED BY ONLY <4>1, <4>2, <4>3
    <3> QED BY <3>1, <3>2, <3>3
  <2> QED BY <2>2, <2>3 DEF Continues, t, u
<1> QED BY <1>3, <1>4

\* After a tick the reader has heard its side once, or once more.
LEMMA ContinuesTail ==
  ASSUME NEW s \in Seq(Tick), s # <<>>, NEW last, Alternates(s, last)
  PROVE  /\ Continues(Tail(s), s[1], 1)
         /\ Continues(s, s[1], 1) => Continues(Tail(s), s[1], 2)
<1>1. /\ Len(s) \in Nat \ {0} /\ Len(Tail(s)) = Len(s) - 1
      /\ \A n \in 1..(Len(s) - 1) : Tail(s)[n] = s[n + 1]
      /\ Tail(s) # <<>> => Len(s) >= 2
  OBVIOUS
<1>2. Tail(s) # <<>> => Tail(s)[1] = s[2]
  BY <1>1
<1>3. Len(Tail(s)) >= 2 => Tail(s)[2] = s[3] /\ ~(s[1] = s[2] /\ s[2] = s[3])
  <2> SUFFICES ASSUME Len(Tail(s)) >= 2
               PROVE  Tail(s)[2] = s[3] /\ ~(s[1] = s[2] /\ s[2] = s[3])
    OBVIOUS
  <2>1. Len(s) >= 3 /\ 1 + 1 = 2 /\ 1 + 2 = 3 /\ 2 + 1 = 3 /\ 1 \in 1..Len(s)
        /\ 2 \in 1..(Len(s) - 1)
    BY <1>1
  <2>2. Tail(s)[2] = s[3]
    BY <1>1, <2>1
  <2>3. ~(s[1] = s[1 + 1] /\ s[1 + 1] = s[1 + 2])
    BY <2>1 DEF Alternates
  <2> QED BY <2>1, <2>2, <2>3
<1>4. Continues(Tail(s), s[1], 1)
  BY <1>2, <1>3 DEF Continues
<1>5. ASSUME Continues(s, s[1], 1) PROVE Continues(Tail(s), s[1], 2)
  <2>1. Len(s) >= 2 => s[2] # s[1]
    BY <1>5 DEF Continues
  <2>2. Tail(s) # <<>> => Tail(s)[1] # s[1]
    BY <1>1, <1>2, <2>1
  <2> QED BY <2>2 DEF Continues
<1> QED BY <1>4, <1>5

\* Averages of which neither is more than five times the other are no crisis.
LEMMA NoCrisisBelow ==
  ASSUME NEW b \in Nat, NEW s \in Nat, 5 * b >= s, 5 * s >= b, NEW w \in Nat
  PROVE  Vpin(b, s, w) \in Nat /\ Vpin(b, s, w) < 67
<1> DEFINE gap == 100 * (IF b > s THEN b - s ELSE s - b)
           sum == b + s
           v == gap \div sum
<1>1. Vpin(b, s, w) = IF w < Warmup \/ sum = 0 THEN 0 ELSE v
  BY DEF Vpin
<1>2. CASE sum = 0
  BY <1>1, <1>2
<1>3. CASE sum # 0
  <2>1. gap \in Nat /\ sum \in Nat \ {0} /\ gap < 67 * sum
    BY <1>3
  <2> HIDE DEF gap, sum
  <2>2. v \in Nat /\ gap % sum \in 0..(sum - 1) /\ gap = sum * v + (gap % sum)
    BY <2>1, Division
  <2>3. ASSUME v > 67 PROVE FALSE
    <3>1. sum * v - sum * 67 >= sum
      BY <2>1, <2>2, <2>3, Multiples
    <3> HIDE DEF v
    <3>2. sum * v \in Int /\ sum * 67 = 67 * sum
      BY <2>1, <2>2
    <3> QED BY <2>1, <2>2, <3>1, <3>2
  <2>4. ASSUME v = 67 PROVE FALSE
    <3> HIDE DEF v
    <3>1. sum * v = 67 * sum
      BY <2>1, <2>4
    <3> QED BY <2>1, <2>2, <3>1
  <2> HIDE DEF v
  <2> QED BY <1>1, <2>2, <2>3, <2>4
<1> QED BY <1>2, <1>3

\* How much less than five times one average the other is decays by an eighth
\* at most, and rounding takes less than 5 of it.
LEMMA Margin ==
  ASSUME NEW x \in Nat, NEW y \in Nat, 5 * x >= y, Decay >= 8
  PROVE  8 * (5 * Decayed(x) - Decayed(y)) >= 7 * (5 * x - y) - 40
<1> DEFINE a == Decayed(x)
           b == Decayed(y)
           t == 5 * a - b - (5 * x - y) + 5
<1>1. Decay \in Nat \ {0} /\ a \in Nat /\ b \in Nat /\ t \in Int
  BY NociceptorAssumption, Decays
<1>2. /\ 2 * (Decay * a) > 2 * (x * (Decay - 1)) - Decay
      /\ 2 * (Decay * b) <= 2 * (y * (Decay - 1)) + Decay
  BY Decays
<1>3. /\ x * (Decay - 1) = Decay * x - x /\ y * (Decay - 1) = Decay * y - y
      /\ Decay * t = 5 * (Decay * a) - Decay * b - 5 * (Decay * x) + Decay * y + 5 * Decay
  BY <1>1
<1>4. /\ Decay * a \in Int /\ Decay * b \in Int /\ Decay * x \in Int
      /\ Decay * y \in Int /\ Decay * t \in Int
  BY <1>1
<1>5. Decay * t > -(5 * x - y)
  <2> DEFINE da == Decay * a
             db == Decay * b
             dx == Decay * x
             dy == Decay * y
             dt == Decay * t
  <2>1. /\ da \in Int /\ db \in Int /\ dx \in Int /\ dy \in Int /\ dt \in Int
        /\ 2 * da > 2 * (dx - x) - Decay /\ 2 * db <= 2 * (dy - y) + Decay
        /\ dt = 5 * da - db - 5 * dx + dy + 5 * Decay
    BY <1>2, <1>3, <1>4
  <2> HIDE DEF da, db, dx, dy, dt
  <2>2. dt > -(5 * x - y)
    BY <1>1, <2>1
  <2> QED BY <2>2 DEF dt
<1>6. t < 0 => Decay * t <= 8 * t
  <2>1. \A n \in Nat, m \in Nat : n * m >= 0
    OBVIOUS
  <2>2. ASSUME t < 0 PROVE (Decay - 8) * (0 - t) >= 0
    <3>1. Decay - 8 \in Nat /\ 0 - t \in Nat
      BY <1>1, <2>2
    <3> HIDE DEF t
    <3> QED BY <2>1, <3>1
  <2>3. (Decay - 8) * (0 - t) = 8 * t - Decay * t
    <3> HIDE DEF t
    <3> QED BY <1>1
  <2> HIDE DEF t
  <2> QED BY <1>1, <1>4, <2>2, <2>3
<1> DEFINE dt == Decay * t
<1>7. dt \in Int /\ dt > -(5 * x - y) /\ (t < 0 => dt <= 8 * t)
  BY <1>4, <1>5, <1>6
<1>8. 8 * (5 * a - b) = 8 * t + 8 * (5 * x - y) - 40
  BY <1>1
<1> HIDE DEF dt, t, a, b
<1>9. 8 * t + 8 * (5 * x - y) - 40 >= 7 * (5 * x - y) - 40
  BY <1>1, <1>7
<1> QED BY <1>8, <1>9 DEF a, b

\* Everything written is a tick.
LEMMA ComingTyped ==
  ASSUME TypeInv
  PROVE  /\ owed \in Seq(Tick) /\ Written \in Seq(Tick) /\ Coming \in Seq(Tick)
         /\ filling # None => filling \in Tick
         /\ again => lastSide \in Tick
<1>1. owed \in Seq(Tick) /\ (filling # None => filling \in Tick)
  BY DEF TypeInv, RingInv, RingTypeOK
<1>2. again => lastSide \in Tick
  BY DEF TypeInv, Backlog
<1>3. \A s \in Seq(Tick), t \in Tick : Append(s, t) \in Seq(Tick)
  OBVIOUS
<1>4. Written \in Seq(Tick)
  BY <1>1, <1>3 DEF Written
<1> QED BY <1>1, <1>2, <1>3, <1>4 DEF Coming

\* What comes when the reader takes one.
LEMMA ComingRead ==
  ASSUME TypeInv, ReadSlot, UNCHANGED <<again, lastSide>>
  PROVE  /\ Coming # <<>> /\ Coming[1] = Head(owed)
         /\ Coming' = Tail(Coming)
<1>1. /\ owed \in Seq(Tick) /\ (filling # None => filling \in Tick)
      /\ Written \in Seq(Tick) /\ (again => lastSide \in Tick)
  BY ComingTyped
<1>2. owed' = Tail(owed) /\ UNCHANGED filling /\ owed # <<>>
  <2>1. left > 0 /\ left <= Len(owed) /\ left \in Nat /\ Len(owed) \in Nat
    BY Bounds DEF ReadSlot, TypeInv, RingInv, RingTypeOK
  <2>2. owed # <<>>
    BY <2>1
  <2> QED BY <2>2 DEF ReadSlot
<1>3. ASSUME NEW s \in Seq(Tick), s # <<>>, NEW t \in Tick
      PROVE  /\ Append(s, t) # <<>> /\ Append(s, t)[1] = s[1]
             /\ Tail(Append(s, t)) = Append(Tail(s), t)
  <2>1. Len(s) \in Nat \ {0} /\ 1 \in 1..Len(s)
    BY <1>3
  <2>2. Append(s, t) # <<>> /\ Append(s, t)[1] = s[1]
    BY <2>1
  <2>3. Tail(Append(s, t)) = Append(Tail(s), t)
    BY <1>3, HeadTailAppend
  <2> QED BY <2>2, <2>3
<1>4. Written # <<>> /\ Written[1] = owed[1] /\ Written' = Tail(Written)
  BY <1>1, <1>2, <1>3 DEF Written
<1>5. Coming # <<>> /\ Coming[1] = Written[1] /\ Coming' = Tail(Coming)
  BY <1>1, <1>3, <1>4 DEF Coming
<1> QED BY <1>1, <1>2, <1>4, <1>5

\* A tick that is published to no reader is not to come any more.
LEMMA ComingPublished ==
  ASSUME TypeInv, Publish, UNCHANGED <<again, lastSide>>
  PROVE  IF reader THEN Coming' = Coming ELSE Coming # <<>> /\ Coming' = Tail(Coming)
<1>1. /\ filling \in Tick /\ filling' = None /\ (again => lastSide \in Tick)
      /\ owed' = IF reader THEN Append(owed, filling) ELSE owed
      /\ filling # None
  BY ComingTyped DEF Publish
<1>2. CASE reader
  BY <1>1, <1>2 DEF Coming, Written
<1>3. CASE ~reader
  <2>1. owed = <<>> /\ owed' = <<>>
    BY <1>1, <1>3 DEF TypeInv, RingInv, Follows
  <2>2. Written = <<filling>> /\ Written' = <<>>
    BY <1>1, <2>1 DEF Written
  <2>3. CASE again
    <3>1. Coming = Append(<<filling>>, lastSide) /\ Coming' = Append(<<>>, lastSide)
      <4>1. Coming = Append(Written, lastSide)
        BY <2>3 DEF Coming
      <4>2. Coming' = Append(Written', lastSide)
        BY <2>3 DEF Coming
      <4> QED BY <2>2, <4>1, <4>2
    <3>2. Coming = <<filling, lastSide>> /\ Coming' = <<lastSide>>
      BY <3>1, AppendPair
    <3> QED BY <1>3, <3>2
  <2>4. CASE ~again
    <3>1. Coming = <<filling>> /\ Coming' = <<>>
      BY <1>1, <2>2, <2>4 DEF Coming
    <3> QED BY <1>3, <3>1
  <2> QED BY <2>3, <2>4
<1> QED BY <1>2, <1>3

\* A reader that is gone takes what it was owed with it.
LEMMA ComingDetached ==
  ASSUME TypeInv, Detach, UNCHANGED <<again, lastSide>>, Alternates(Coming, lastSide)
  PROVE  Alternates(Coming', lastSide)
<1>1. /\ owed \in Seq(Tick) /\ Written \in Seq(Tick) /\ (again => lastSide \in Tick)
      /\ (filling # None => filling \in Tick)
      /\ owed' = <<>> /\ UNCHANGED filling
  BY ComingTyped DEF Detach
<1>2. Written' = IF filling = None THEN <<>> ELSE <<filling>>
  BY <1>1 DEF Written
<1>3. CASE again
  <2>1. Coming' = Append(Written', lastSide)
    BY <1>3 DEF Coming
  <2>2. Coming' = <<lastSide>> \/ Coming' = <<filling, lastSide>>
    <3>1. CASE filling = None
      <4>1. Coming' = Append(<<>>, lastSide)
        BY <1>2, <2>1, <3>1
      <4> QED BY <4>1
    <3>2. CASE filling # None
      <4>1. Coming' = Append(<<filling>>, lastSide)
        BY <1>2, <2>1, <3>2
      <4> QED BY <4>1, AppendPair
    <3> QED BY <3>1, <3>2
  <2>3. CASE Coming' = <<lastSide>>
    BY <2>3 DEF Alternates
  <2>4. CASE Coming' = <<filling, lastSide>>
    <3>1. Len(Coming') = 2 /\ Coming'[2] = lastSide
      BY <2>4
    <3> QED BY <3>1 DEF Alternates
  <2> QED BY <2>2, <2>3, <2>4
<1>4. CASE ~again
  <2>1. Coming' = Written' /\ Coming = Written
    BY <1>1, <1>4 DEF Coming
  <2>2. CASE filling = None
    BY <1>2, <2>1, <2>2 DEF Alternates
  <2>3. CASE filling # None
    <3>1. /\ Written = Append(owed, filling) /\ Written # <<>>
          /\ Written[Len(Written)] = filling
      BY <1>1, <2>3 DEF Written
    <3>2. filling = lastSide
      BY <2>1, <3>1 DEF Alternates
    <3>3. Coming' = <<lastSide>>
      BY <1>2, <2>1, <2>3, <3>2
    <3> QED BY <3>3 DEF Alternates
  <2> QED BY <2>2, <2>3
<1> QED BY <1>3, <1>4

Other(d) == IF d = "buy" THEN "sell" ELSE "buy"
VolumeOf(d) == IF d = "buy" THEN buyVol ELSE sellVol

\* What the theorem below asks of the constants.
Calm ==
  /\ Decay >= 8
  /\ Warmup >= 3
  /\ CrisisAt >= 67
  /\ 245 * MinVolume >= 218 * MaxVolume + 600

\* Side d came the last r times, the first side ever: the other average is
\* still empty.
Onesided(d, r) ==
  /\ warm = r
  /\ VolumeOf(Other(d)) = 0
  /\ MinVolume <= VolumeOf(d) /\ VolumeOf(d) <= r * MaxVolume

\* Side d came the last r times, after the other one: how much less than five
\* times one average the other is.  After the first tick of a side there is
\* room for a second one, after any for one of the other side.
Balanced(d, r) ==
  /\ 49 * (5 * VolumeOf(d) - VolumeOf(Other(d))) >= 120 * (MaxVolume + 5)
  /\ 5 * VolumeOf(Other(d)) >= VolumeOf(d)
  /\ r = 1 => 7 * (5 * VolumeOf(Other(d)) - VolumeOf(d)) >= 8 * (MaxVolume + 5)

Heard(d, r) ==
  /\ Onesided(d, r) \/ Balanced(d, r)
  /\ Coming = <<>> => d = lastSide
  /\ Continues(Coming, d, r)

\* While the reader is clean: what it has heard and what is to come alternate.
Sound ==
  /\ ~reader => warm = 0
  /\ warm = 0 => buyVol = 0 /\ sellVol = 0
  /\ clean =>
       /\ Alternates(Coming, lastSide)
       /\ warm = 0 \/ \E d \in Tick, r \in {1, 2} : Heard(d, r)
       /\ regime # "Crisis"

LEMMA InitSound == Init => Sound
<1> SUFFICES ASSUME Init PROVE Sound
  OBVIOUS
<1>1. /\ owed = <<>> /\ filling = None /\ ~again /\ warm = 0 /\ regime = "LowVol"
      /\ buyVol = 0 /\ sellVol = 0
  BY DEF Init, RingInit
<1>2. Coming = <<>>
  BY <1>1 DEF Coming, Written
<1> QED BY <1>1, <1>2 DEF Sound, Alternates

\* What writes no tick and reads none changes nothing.
LEMMA StillSound ==
  ASSUME Sound,
         UNCHANGED <<reader, warm, regime, buyVol, sellVol, lastSide, clean, Coming>>
  PROVE  Sound'
BY DEF Sound, Heard, Onesided, Balanced, VolumeOf, Alternates, Continues

\* The averages after a tick.
LEMMA AveragesRead ==
  ASSUME TypeInv, NEW side \in Tick, NEW volume \in MinVolume..MaxVolume,
         PollTick(side, volume)
  PROVE  /\ VolumeOf(side)' = Decayed(VolumeOf(side)) + volume
         /\ VolumeOf(Other(side))' = Decayed(VolumeOf(Other(side)))
         /\ VolumeOf(side) \in Nat /\ VolumeOf(Other(side)) \in Nat
         /\ VolumeOf(side)' \in Nat /\ VolumeOf(Other(side))' \in Nat
         /\ buyVol' \in Nat /\ sellVol' \in Nat
<1>1. buyVol \in Nat /\ sellVol \in Nat /\ volume \in Nat
  BY NociceptorAssumption DEF TypeInv, TypeOK
<1>2. /\ buyVol' = Decayed(buyVol) + IF side = "buy" THEN volume ELSE 0
      /\ sellVol' = Decayed(sellVol) + IF side = "sell" THEN volume ELSE 0
  BY DEF PollTick
<1>3. Decayed(buyVol) \in Nat /\ Decayed(sellVol) \in Nat
  BY <1>1, Decays
<1>4. \A n \in Nat : n + volume \in Nat /\ n + 0 = n
  BY <1>1
<1>5. CASE side = "buy"
  <2>1. Other(side) = "sell" /\ buyVol' = Decayed(buyVol) + volume /\ sellVol' = Decayed(sellVol)
    BY <1>2, <1>3, <1>4, <1>5 DEF Other
  <2> QED BY <1>1, <1>3, <1>4, <1>5, <2>1 DEF VolumeOf
<1>6. CASE side = "sell"
  <2>1. Other(side) = "buy" /\ buyVol' = Decayed(buyVol) /\ sellVol' = Decayed(sellVol) + volume
    BY <1>2, <1>3, <1>4, <1>6 DEF Other
  <2> QED BY <1>1, <1>3, <1>4, <1>6, <2>1 DEF VolumeOf
<1> QED BY <1>5, <1>6, NociceptorAssumption

\* The first side, read once more, and then the other one.
LEMMA OnesidedRead ==
  ASSUME TypeInv, Calm, NEW side \in Tick, NEW volume \in MinVolume..MaxVolume,
         PollTick(side, volume)
  PROVE  /\ Onesided(side, 1) => /\ VolumeOf(Other(side))' = 0
                                 /\ MinVolume <= VolumeOf(side)'
                                 /\ VolumeOf(side)' <= 2 * MaxVolume
         /\ \A r \in {1, 2} : Onesided(Other(side), r) => Balanced(side, 1)'
<1> DEFINE p == VolumeOf(side)
           q == VolumeOf(Other(side))
           u == Decayed(p)
           v == Decayed(q)
<1>1. p \in Nat /\ q \in Nat /\ p' = u + volume /\ q' = v
  BY AveragesRead
<1>2. /\ MinVolume \in Nat \ {0} /\ MaxVolume \in Nat /\ MinVolume <= MaxVolume
      /\ volume \in Nat /\ MinVolume <= volume /\ volume <= MaxVolume
      /\ 245 * MinVolume >= 218 * MaxVolume + 600
  BY NociceptorAssumption DEF Calm
<1>3. Other(Other(side)) = side
  BY NociceptorAssumption DEF Other
<1>4. u \in Nat /\ v \in Nat
  BY <1>1, Decays
<1>5. Decayed(0) = 0
  BY NothingDecays
<1>6. u <= p /\ v <= q
  BY <1>1, NeverGrows
<1>7. ASSUME q = 0 PROVE v = 0
  BY <1>5, <1>7
<1>8. ASSUME p = 0 PROVE u = 0 /\ 8 * (5 * v) >= 7 * (5 * q) - 40
  <2>1. u = 0
    BY <1>5, <1>8
  <2>2. 8 * (5 * v - Decayed(0)) >= 7 * (5 * q - 0) - 40
    <3>1. q \in Nat /\ 5 * q >= 0 /\ 0 \in Nat /\ Decay >= 8
      BY <1>1 DEF Calm
    <3> HIDE DEF q
    <3> QED BY <3>1, Margin
  <2> HIDE DEF v, q
  <2> QED BY <1>1, <1>4, <1>5, <2>1, <2>2
<1>9. ASSUME Onesided(side, 1)
      PROVE  q' = 0 /\ MinVolume <= p' /\ p' <= 2 * MaxVolume
  <2>1. q = 0 /\ p <= MaxVolume
    BY <1>1, <1>2, <1>9 DEF Onesided
  <2>2. v = 0
    BY <1>7, <2>1
  <2> HIDE DEF p, q, u, v
  <2> QED BY <1>1, <1>2, <1>4, <1>6, <2>1, <2>2
<1>10. ASSUME NEW r \in {1, 2}, Onesided(Other(side), r) PROVE Balanced(side, 1)'
  <2>1. p = 0 /\ MinVolume <= q /\ q <= r * MaxVolume
    BY <1>3, <1>10 DEF Onesided
  <2>2. q <= 2 * MaxVolume
    BY <1>1, <1>2, <2>1
  <2>3. p' = volume /\ q' = v /\ v <= 2 * MaxVolume /\ 40 * v >= 35 * MinVolume - 40
    <3>1. u = 0 /\ 8 * (5 * v) >= 7 * (5 * q) - 40
      BY <1>8, <2>1
    <3> HIDE DEF p, q, u, v
    <3> QED BY <1>1, <1>2, <1>4, <1>6, <2>1, <2>2, <3>1
  <2> HIDE DEF p, q, u, v
  <2>4. /\ 49 * (5 * p' - q') >= 120 * (MaxVolume + 5)
        /\ 5 * q' >= p'
        /\ 7 * (5 * q' - p') >= 8 * (MaxVolume + 5)
    BY <1>2, <1>4, <2>3
  <2> QED BY <2>4 DEF Balanced, p, q
<1> QED BY <1>9, <1>10

\* Once both sides have come, either of them may come again.
LEMMA BalancedRead ==
  ASSUME TypeInv, Calm, NEW side \in Tick, NEW volume \in MinVolume..MaxVolume,
         PollTick(side, volume)
  PROVE  /\ Balanced(side, 1) => Balanced(side, 2)'
         /\ \A r \in {1, 2} : Balanced(Other(side), r) => Balanced(side, 1)'
<1> DEFINE p == VolumeOf(side)
           q == VolumeOf(Other(side))
           u == Decayed(p)
           v == Decayed(q)
<1>1. p \in Nat /\ q \in Nat /\ p' = u + volume /\ q' = v
  BY AveragesRead
<1>2. /\ MinVolume \in Nat \ {0} /\ MaxVolume \in Nat /\ MinVolume <= MaxVolume
      /\ volume \in Nat /\ MinVolume <= volume /\ volume <= MaxVolume
      /\ 245 * MinVolume >= 218 * MaxVolume + 600
  BY NociceptorAssumption DEF Calm
<1>3. Other(Other(side)) = side
  BY NociceptorAssumption DEF Other
<1>4. u \in Nat /\ v \in Nat
  BY <1>1, Decays
<1>5. /\ 5 * p >= q => 8 * (5 * u - v) >= 7 * (5 * p - q) - 40
      /\ 5 * q >= p => 8 * (5 * v - u) >= 7 * (5 * q - p) - 40
  BY <1>1, Margin DEF Calm
<1>6. ASSUME Balanced(side, 1) PROVE Balanced(side, 2)'
  <2>1. /\ 49 * (5 * p - q) >= 120 * (MaxVolume + 5) /\ 5 * q >= p
        /\ 7 * (5 * q - p) >= 8 * (MaxVolume + 5)
    BY <1>6 DEF Balanced
  <2> HIDE DEF p, q, u, v
  <2>2. 5 * p >= q
    BY <1>1, <1>2, <2>1
  <2>3. 49 * (5 * p' - q') >= 120 * (MaxVolume + 5) /\ 5 * q' >= p'
    BY <1>1, <1>2, <1>4, <1>5, <2>1, <2>2
  <2> QED BY <2>3 DEF Balanced, p, q
<1>7. ASSUME NEW r \in {1, 2}, Balanced(Other(side), r) PROVE Balanced(side, 1)'
  <2>1. 49 * (5 * q - p) >= 120 * (MaxVolume + 5) /\ 5 * p >= q
    BY <1>3, <1>7 DEF Balanced
  <2> HIDE DEF p, q, u, v
  <2>2. 5 * q >= p
    BY <1>1, <1>2, <2>1
  <2>3. 49 * (5 * p' - q') >= 120 * (MaxVolume + 5)
    BY <1>1, <1>2, <1>4, <1>5, <2>1, <2>2
  <2>4. 7 * (5 * q' - p') >= 8 * (MaxVolume + 5) /\ 5 * q' >= p'
    BY <1>1, <1>2, <1>4, <1>5, <2>1, <2>2
  <2> QED BY <2>3, <2>4 DEF Balanced, p, q
<1> QED BY <1>6, <1>7

\* One tick more of what alternates.
LEMMA ReadSound ==
  ASSUME TypeInv, Calm, Sound, NEW side \in Tick, NEW volume \in MinVolume..MaxVolume,
         PollTick(side, volume)
  PROVE  Sound'
<1>1. /\ reader /\ reader' /\ UNCHANGED lastSide
      /\ warm' = Min({warm + 1, Warmup}) /\ warm \in 0..Warmup /\ Warmup \in Nat
  <2>1. reader
    <3>1. left > 0
      BY DEF PollTick, ReadSlot
    <3> QED BY <3>1 DEF TypeInv, RingInv, Follows
  <2> QED BY <2>1, NociceptorAssumption
          DEF PollTick, ReadSlot, marketVars, TypeInv, TypeOK
<1>6. /\ warm' \in 0..Warmup /\ warm' <= warm + 1 /\ warm' > 0
      /\ warm' < Warmup => warm' = warm + 1
  BY <1>1, Warmed DEF Calm
<1> SUFFICES ASSUME clean'
             PROVE  /\ Alternates(Coming', lastSide)
                    /\ \E d \in Tick, r \in {1, 2} : Heard(d, r)'
                    /\ regime' # "Crisis"
  BY <1>1, <1>6 DEF Sound, Alternates
<1>2. /\ clean /\ side = Head(owed) /\ Alternates(Coming, lastSide) /\ regime # "Crisis"
      /\ warm = 0 \/ \E d \in Tick, r \in {1, 2} : Heard(d, r)
  BY DEF Sound, PollTick
<1>3. /\ Coming \in Seq(Tick) /\ Coming # <<>> /\ Coming[1] = side
      /\ Coming' = Tail(Coming)
  BY <1>2, ComingTyped, ComingRead DEF PollTick, marketVars
<1>4. Alternates(Coming', lastSide) /\ Continues(Coming', side, 1)
  BY <1>2, <1>3, AlternatesTail, ContinuesTail
<1>5. Coming' = <<>> => side = lastSide'
  <2> SUFFICES ASSUME Coming' = <<>> PROVE side = lastSide
    BY <1>1
  <2>1. Len(Coming) = 1
    <3>1. Len(Tail(Coming)) = Len(Coming) - 1 /\ Len(Coming) \in Nat
      BY <1>3
    <3>2. Tail(Coming) = <<>>
      BY <1>3
    <3>3. Len(<<>>) = 0
      OBVIOUS
    <3>4. Len(Tail(Coming)) = 0
      BY ONLY <3>2, <3>3
    <3> QED BY ONLY <3>1, <3>4
  <2> QED BY <1>2, <1>3, <2>1 DEF Alternates
<1>7. \E d \in Tick, r \in {1, 2} : Heard(d, r)'
  <2>1. CASE warm = 0
    <3>1. warm' = 1
      BY <1>6, <2>1 DEF Calm
    <3>2. VolumeOf(side) = 0 /\ VolumeOf(Other(side)) = 0
      BY <2>1 DEF Sound, VolumeOf
    <3>3. VolumeOf(Other(side))' = 0 /\ VolumeOf(side)' = volume
      BY <3>2, AveragesRead, NothingDecays, NociceptorAssumption
    <3>4. Onesided(side, 1)'
      BY <3>1, <3>3, NociceptorAssumption DEF Onesided
    <3> QED BY <1>4, <1>5, <3>4 DEF Heard
  <2>2. ASSUME NEW d \in Tick, NEW r \in {1, 2}, Heard(d, r), d # side
        PROVE  Heard(side, 1)'
    <3>1. d = Other(side)
      BY <2>2, NociceptorAssumption DEF Other
    <3>2. Balanced(side, 1)'
      BY <2>2, <3>1, OnesidedRead, BalancedRead DEF Heard
    <3> QED BY <1>4, <1>5, <3>2 DEF Heard
  <2>3. ASSUME NEW d \in Tick, NEW r \in {1, 2}, Heard(d, r), d = side
        PROVE  Heard(side, 2)'
    <3>1. r = 1
      BY <1>3, <2>3 DEF Heard, Continues
    <3>2. Continues(Coming, side, 1)
      BY <2>3, <3>1 DEF Heard
    <3>3. Continues(Coming', side, 2)
      BY <1>2, <1>3, <3>2, ContinuesTail
    <3>4. CASE Onesided(side, 1)
      <4>1. warm' = 2
        BY <1>1, <1>6, <3>4 DEF Calm, Onesided
      <4>2. Onesided(side, 2)'
        BY <3>4, <4>1, OnesidedRead DEF Onesided
      <4> QED BY <1>5, <3>3, <4>2 DEF Heard
    <3>5. CASE Balanced(side, 1)
      <4>1. Balanced(side, 2)'
        BY <3>5, BalancedRead
      <4> QED BY <1>5, <3>3, <4>1 DEF Heard
    <3> QED BY <2>3, <3>1, <3>4, <3>5 DEF Heard
  <2> QED BY <1>2, <2>1, <2>2, <2>3
<1>8. regime' # "Crisis"
  <2> DEFINE v == Vpin(buyVol', sellVol', warm')
  <2>1. v \in Nat /\ v < 67
    <3>1. CASE warm' < Warmup
      BY <3>1 DEF Vpin
    <3>2. CASE warm' >= Warmup
      <4>1. PICK d \in Tick, r \in {1, 2} : Heard(d, r)'
        BY <1>7
      <4>2. warm' # r
        BY <1>1, <1>6, <3>2 DEF Calm
      <4>3. Balanced(d, r)'
        BY <4>1, <4>2 DEF Heard, Onesided
      <4>4. /\ VolumeOf(d)' \in Nat /\ VolumeOf(Other(d))' \in Nat
            /\ buyVol' \in Nat /\ sellVol' \in Nat /\ warm' \in Nat
        BY <1>6, AveragesRead DEF VolumeOf
      <4>5. 5 * VolumeOf(d)' >= VolumeOf(Other(d))' /\ 5 * VolumeOf(Other(d))' >= VolumeOf(d)'
        BY <4>3, <4>4, NociceptorAssumption DEF Balanced
      <4>6. 5 * buyVol' >= sellVol' /\ 5 * sellVol' >= buyVol'
        <5>1. CASE d = "buy"
          BY <4>5, <5>1 DEF VolumeOf, Other
        <5>2. CASE d = "sell"
          BY <4>5, <5>2 DEF VolumeOf, Other
        <5> QED BY <5>1, <5>2, NociceptorAssumption
      <4> QED BY <4>4, <4>6, NoCrisisBelow
    <3> QED BY <1>1, <1>6, <3>1, <3>2
  <2> HIDE DEF v
  <2>2. v < CrisisAt /\ CrisisAt \in Nat
    BY <2>1, NociceptorAssumption DEF Calm
  <2>3. regime' = IF left = 1 THEN NextRegime(v) ELSE regime
    BY DEF PollTick, v
  <2>4. ~(v >= CrisisAt)
    BY <2>1, <2>2
  <2> QED BY <1>2, <2>3, <2>4 DEF NextRegime
<1> QED BY <1>4, <1>7, <1>8

\* Ticks come at most twice running, so neither average is ever more than five
\* times the other.
LEMMA NextSound == Calm /\ TypeInv /\ Sound /\ [Next]_vars => Sound'
<1> SUFFICES ASSUME Calm, TypeInv, Sound, [Next]_vars PROVE Sound'
  OBVIOUS
<1>1. ASSUME NEW side \in Tick, Trade(side) PROVE Sound'
  <2>1. /\ filling = None /\ ~again /\ filling' = side /\ lastSide' = side
        /\ side # None /\ clean' = (clean /\ side # lastSide)
        /\ UNCHANGED <<owed, reader, warm, regime, buyVol, sellVol>>
    BY <1>1, RingAssumption DEF Trade, BeginWrite, vpinVars
  <2>2. Coming = owed /\ owed \in Seq(Tick)
    BY <2>1, ComingTyped DEF Coming, Written
  <2>3. Coming' = IF again' THEN Append(Append(owed, side), side) ELSE Append(owed, side)
    BY <2>1 DEF Coming, Written
  <2> SUFFICES ASSUME clean'
               PROVE  /\ Alternates(Coming', side)
                      /\ warm = 0 \/ \E d \in Tick, r \in {1, 2} : Heard(d, r)'
    BY <2>1 DEF Sound, Alternates
  <2>4. clean /\ side # lastSide /\ Alternates(owed, lastSide)
    BY <2>1, <2>2 DEF Sound
  <2>5. Alternates(Coming', side)
    BY <2>2, <2>3, <2>4, AlternatesAppend
  <2>6. ASSUME NEW d \in Tick, NEW r \in {1, 2}, Heard(d, r) PROVE Heard(d, r)'
    <3>1. Continues(owed, d, r) /\ (owed = <<>> => d = lastSide)
      BY <2>2, <2>6 DEF Heard
    <3>2. Continues(Coming', d, r)
      BY <2>2, <2>3, <2>4, <3>1, ContinuesAppend
    <3>3. Coming' # <<>>
      <4>1. \A s \in Seq(Tick) : Append(s, side) \in Seq(Tick) /\ Append(s, side) # <<>>
        OBVIOUS
      <4> QED BY <2>2, <2>3, <4>1
    <3>4. VolumeOf(d)' = VolumeOf(d) /\ VolumeOf(Other(d))' = VolumeOf(Other(d))
      BY <2>1 DEF VolumeOf
    <3> QED BY <2>1, <2>6, <3>2, <3>3, <3>4 DEF Heard, Onesided, Balanced
  <2> QED BY <2>4, <2>5, <2>6 DEF Sound
<1>2. CASE \E side \in Tick : OtherTrade(side)
  BY <1>2 DEF OtherTrade, BeginWrite, vpinVars, Sound
<1>3. CASE WriteAgain
  <2>1. /\ filling = None /\ again /\ filling' = lastSide /\ ~again'
        /\ lastSide # None
        /\ UNCHANGED <<owed, reader, warm, regime, buyVol, sellVol, lastSide, clean>>
    BY <1>3, RingAssumption, ComingTyped DEF WriteAgain, BeginWrite, vpinVars
  <2>2. Coming' = Coming
    BY <2>1 DEF Coming, Written
  <2> QED BY <2>1, <2>2, StillSound
<1>4. CASE FinishWrite
  <2>1. /\ Publish
        /\ UNCHANGED <<reader, warm, regime, buyVol, sellVol, lastSide, clean, again>>
    BY <1>4 DEF FinishWrite, Publish, vpinVars, marketVars
  <2>2. CASE reader
    BY <2>1, <2>2, ComingPublished, StillSound
  <2>3. CASE ~reader
    <3>1. Coming \in Seq(Tick) /\ Coming # <<>> /\ Coming' = Tail(Coming)
      BY <2>1, <2>3, ComingTyped, ComingPublished
    <3>2. Alternates(Coming, lastSide) => Alternates(Coming', lastSide)
      BY <3>1, AlternatesTail
    <3> QED BY <2>1, <2>3, <3>2 DEF Sound, Alternates
  <2> QED BY <2>2, <2>3
<1>5. CASE \/ ChangeBook \/ LatencySample \/ Hide \/ Show \/ SetFreeze \/ BeginPoll
  <2>1. UNCHANGED <<owed, filling, again, reader, warm, regime, buyVol, sellVol, lastSide,
                    clean>>
    BY <1>5 DEF ChangeBook, LatencySample, Hide, Show, SetFreeze, BeginPoll, BeginRead,
                ringVars, marketVars, vpinVars
  <2> QED BY <2>1, StillSound DEF Coming, Written
<1>6. CASE \E side \in Tick, volume \in MinVolume..MaxVolume : PollTick(side, volume)
  BY <1>6, ReadSound
<1>7. CASE StartNociceptor
  <2>1. /\ ~reader /\ owed' = <<>>
        /\ UNCHANGED <<filling, again, warm, regime, buyVol, sellVol, lastSide, clean>>
    BY <1>7 DEF StartNociceptor, Attach, marketVars, vpinVars
  <2>2. owed = <<>> /\ warm = 0
    BY <2>1 DEF Sound, TypeInv, RingInv, Follows
  <2>3. Coming' = Coming
    BY <2>1, <2>2 DEF Coming, Written
  <2> QED BY <2>1, <2>2, <2>3 DEF Sound, Alternates
<1>8. CASE Replace
  <2>1. /\ Detach /\ warm' = 0 /\ regime' = "LowVol" /\ buyVol' = 0 /\ sellVol' = 0
        /\ UNCHANGED <<again, lastSide, clean>>
    BY <1>8 DEF Replace, marketVars
  <2>2. Alternates(Coming, lastSide) => Alternates(Coming', lastSide)
    BY <2>1, ComingDetached
  <2> QED BY <2>1, <2>2 DEF Sound, Alternates
<1>9. CASE OnSignal \/ Wire \/ UNCHANGED vars
  <2>1. UNCHANGED <<owed, filling, again, reader, warm, regime, buyVol, sellVol, lastSide,
                    clean>>
    BY <1>9 DEF OnSignal, Wire, vars, ringVars, workerVars, marketVars, vpinVars
  <2> QED BY <2>1, StillSound DEF Coming, Written
<1> QED BY <1>1, <1>2, <1>3, <1>4, <1>5, <1>6, <1>7, <1>8, <1>9
        DEF Next, Worker, Trades, Poll

-----------------------------------------------------------------------------
(* The theorems                                                            *)

LEMMA TypesInvariant == Spec => []TypeInv
BY InitTyped, NextTyped, PTL DEF Spec

\* Every variable keeps its type, and the reader never lags by more than the
\* bound on trades and the one that is written twice.
THEOREM NociceptorTypeCorrect == Spec => []TypeOK
<1>1. TypeInv => TypeOK
  BY DEF TypeInv
<1> QED BY <1>1, TypesInvariant, PTL

\* No tick is read torn, twice or out of place by a reader that has not been
\* lapped, for a ring of any size, wherever the heads are when they wrap.
THEOREM TicksIntactCorrect == Spec => []TicksIntact
<1>1. TypeInv => TicksIntact
  BY RingIntact DEF TypeInv
<1> QED BY <1>1, TypesInvariant, PTL

\* A market whose sides alternate is not taken for a crisis, whatever the
\* average (at most an eighth a tick; the code's is 1/50), the warm-up (three
\* ticks or more; the code's is 100) and the threshold (67 % or more; the
\* code's is 70), if volumes differ by no more than a tenth or so: by then
\* neither average is more than five times the other.  600 is what rounding to
\* integers costs.
THEOREM NoFalseCrisisCorrect ==
  ASSUME Decay >= 8, Warmup >= 3, CrisisAt >= 67,
         245 * MinVolume >= 218 * MaxVolume + 600
  PROVE  Spec => []NoFalseCrisis
<1>1. Init => Sound
  BY InitSound
<1>2. Calm
  BY DEF Calm
<1>3. TypeInv /\ Sound /\ [Next]_vars => Sound'
  BY <1>2, NextSound
<1>4. Sound => NoFalseCrisis
  BY DEF Sound, NoFalseCrisis
<1> QED BY <1>1, <1>3, <1>4, TypesInvariant, PTL DEF Spec

\* No signal passes a frozen worker, nor a hidden one that nothing has made
\* active again.
THEOREM PassesWarrantedCorrect == Spec => PassesWarranted
<1>1. TypeInv /\ Wary /\ [Next]_vars
        => [passed' => ~frozen' /\ (hidden' => healthy' \/ replaced')]_vars
  BY NextWarranted
<1>2. Spec => []Wary
  BY InitWary, NextWary, TypesInvariant, PTL DEF Spec
<1> QED BY <1>1, <1>2, TypesInvariant, PTL DEF Spec, PassesWarranted

\* A handshake or an open socket is never without the timer that ends it when
\* nobody answers: what the daemon's return to the feed rests on.
THEOREM SocketsWatched == Spec => []Watched
BY InitWatched, NextWatched, TypesInvariant, PTL DEF Spec
=============================================================================
