-------------------------- MODULE AudioBufferProofs --------------------------
(* Theorems about the jitter buffer, for every capacity, every RTP width   *)
(* and every set of tasks: who owns a slot, the order of the index, the    *)
(* queue that the pool implements, and what back-pressure is worth.        *)
EXTENDS AudioBuffer, FiniteSetTheorems, SequenceTheorems, TLAPS

(* Facts about arithmetic modulo m, for RTP timestamps (2^32), which wrap. *)
LEMMA ModSmall ==
  ASSUME NEW m \in Nat \ {0}, NEW d \in Int, -m < d, d < m
  PROVE  d % m = IF d >= 0 THEN d ELSE d + m
BY SMT

LEMMA DivMod ==
  ASSUME NEW m \in Nat \ {0}, NEW d \in Int
  PROVE  /\ d = m * (d \div m) + (d % m)
         /\ d % m \in 0 .. m - 1
         /\ d \div m \in Int
BY SMT

LEMMA NoSmallMultiple ==
  ASSUME NEW m \in Nat \ {0}, NEW k \in Int, -m < m * k, m * k < m
  PROVE  k = 0
<1>1. CASE k >= 1
  <2>1. m * k >= m  BY <1>1
  <2> QED BY <2>1
<1>2. CASE k <= -1
  <2>1. m * k <= -m  BY <1>2
  <2> QED BY <2>1
<1> QED BY <1>1, <1>2

(* A full turn of the clock changes nothing.                               *)
LEMMA ModShift ==
  ASSUME NEW m \in Nat \ {0}, NEW d \in Int
  PROVE  (d + m) % m = d % m
<1> DEFINE a == d \div m
           b == (d + m) \div m
           r == d % m
           s == (d + m) % m
<1>1. d = m * a + r /\ r \in 0 .. m - 1 /\ a \in Int
  BY DivMod
<1>2. d + m = m * b + s /\ s \in 0 .. m - 1 /\ b \in Int
  BY DivMod
<1> HIDE DEF a, b, r, s
<1>3. m * b + s = m * a + r + m
  BY <1>1, <1>2
<1>4. m * (b - a - 1) = r - s
  BY <1>1, <1>2, <1>3
<1>5. b - a - 1 = 0
  BY <1>1, <1>2, <1>4, NoSmallMultiple
<1>6. m * (b - a - 1) = 0
  BY <1>5
<1>7. r = s
  BY <1>1, <1>2, <1>4, <1>6
<1> QED BY <1>7 DEF r, s

(* Inside one window of less than half the range, "earlier" is the order   *)
(* of the distances from the window's base.                                *)
LEMMA WindowIsOrder ==
  ASSUME NEW m \in Nat \ {0}, NEW u \in 0 .. m - 1, NEW v \in 0 .. m - 1,
         NEW base \in 0 .. m - 1,
         (u - base) % m < m \div 2, (v - base) % m < m \div 2
  PROVE  (u - v) % m >= (m + 1) \div 2 <=> (u - base) % m < (v - base) % m
<1> DEFINE w(d) == IF d >= 0 THEN d ELSE d + m
<1>0. ASSUME NEW x \in 0 .. m - 1, NEW y \in 0 .. m - 1
      PROVE  (x - y) % m = w(x - y)
  <2>1. x - y \in Int /\ -m < x - y /\ x - y < m
    OBVIOUS
  <2> QED BY <2>1, ModSmall
<1>1. (u - base) % m = w(u - base)
  BY <1>0
<1>2. (v - base) % m = w(v - base)
  BY <1>0
<1>3. (u - v) % m = w(u - v)
  BY <1>0
<1> QED BY <1>1, <1>2, <1>3

-----------------------------------------------------------------------------
(* Sequences as sets of slots.                                             *)

LEMMA InsertIsSeq ==
  ASSUME NEW S, NEW s \in Seq(S), NEW g \in 0 .. Len(s), NEW x \in S
  PROVE  /\ InsertAfter(s, g, x) \in Seq(S)
         /\ Len(InsertAfter(s, g, x)) = Len(s) + 1
         /\ \A i \in 1 .. Len(s) + 1 :
              InsertAfter(s, g, x)[i] =
                IF i <= g THEN s[i] ELSE IF i = g + 1 THEN x ELSE s[i - 1]
<1> DEFINE n == Len(s) + 1
           v(i) == IF i <= g THEN s[i] ELSE IF i = g + 1 THEN x ELSE s[i - 1]
<1>1. n \in Nat /\ \A i \in 1 .. n : v(i) \in S
  OBVIOUS
<1>2. InsertAfter(s, g, x) = [i \in 1 .. n |-> v(i)]
  BY DEF InsertAfter
<1> QED BY <1>1, <1>2

LEMMA AppendElements ==
  ASSUME NEW S, NEW s \in Seq(S), NEW x \in S
  PROVE  /\ Elements(Append(s, x)) = Elements(s) \cup {x}
         /\ Injective(s) /\ x \notin Elements(s) => Injective(Append(s, x))
BY DEF Elements, Injective

LEMMA TailElements ==
  ASSUME NEW S, NEW s \in Seq(S), s # <<>>
  PROVE  /\ Elements(s) = Elements(Tail(s)) \cup {Head(s)}
         /\ Head(s) \in Elements(s)
         /\ Injective(s) => Injective(Tail(s)) /\ Head(s) \notin Elements(Tail(s))
<1>1. /\ Head(s) = s[1] /\ Len(s) \in Nat \ {0} /\ Len(Tail(s)) = Len(s) - 1
      /\ \A i \in 1 .. Len(s) - 1 : Tail(s)[i] = s[i + 1]
  OBVIOUS
<1>2. \A i \in 2 .. Len(s) : i - 1 \in 1 .. Len(s) - 1 /\ s[i] = Tail(s)[i - 1]
  BY <1>1
<1>3. Elements(s) \subseteq Elements(Tail(s)) \cup {Head(s)}
  <2> SUFFICES ASSUME NEW i \in 1 .. Len(s)
               PROVE  s[i] \in Elements(Tail(s)) \cup {Head(s)}
    BY DEF Elements
  <2>1. CASE i = 1  BY <2>1, <1>1
  <2>2. CASE i # 1  BY <2>2, <1>1, <1>2 DEF Elements
  <2> QED BY <2>1, <2>2
<1>4. Elements(Tail(s)) \cup {Head(s)} \subseteq Elements(s)
  BY <1>1 DEF Elements
<1> QED BY <1>1, <1>3, <1>4 DEF Elements, Injective

Front(s) == SubSeq(s, 1, Len(s) - 1)

LEMMA FrontElements ==
  ASSUME NEW S, NEW s \in Seq(S), s # <<>>
  PROVE  /\ Front(s) \in Seq(S)
         /\ Len(Front(s)) = Len(s) - 1
         /\ s[Len(s)] \in S
         /\ Elements(s) = Elements(Front(s)) \cup {s[Len(s)]}
         /\ s[Len(s)] \in Elements(s)
         /\ Injective(s) => /\ Injective(Front(s))
                            /\ s[Len(s)] \notin Elements(Front(s))
<1>1. Len(s) \in Nat \ {0}
  OBVIOUS
<1>2. /\ Front(s) \in Seq(S)
      /\ Len(Front(s)) = Len(s) - 1
      /\ \A i \in 1 .. Len(s) - 1 : Front(s)[i] = s[i]
  <2>1. ASSUME NEW n \in Nat, n = Len(s) - 1
        PROVE  /\ SubSeq(s, 1, n) \in Seq(S)
               /\ Len(SubSeq(s, 1, n)) = n
               /\ \A i \in 1 .. n : SubSeq(s, 1, n)[i] = s[i]
    <3>1. \A i \in 1 .. n : s[i] \in S
      BY <1>1, <2>1
    <3> QED BY <3>1, SubSeqProperties
  <2>2. Len(s) - 1 \in Nat
    BY <1>1
  <2> QED BY <2>1, <2>2, Zenon DEF Front
<1> QED BY <1>1, <1>2 DEF Elements, Injective

LEMMA ConcatElements ==
  ASSUME NEW S, NEW s \in Seq(S), NEW r \in Seq(S)
  PROVE  /\ Elements(s \o r) = Elements(s) \cup Elements(r)
         /\ Injective(s) /\ Injective(r) /\ Elements(s) \cap Elements(r) = {}
              => Injective(s \o r)
<1>1. /\ s \o r \in Seq(S) /\ Len(s \o r) = Len(s) + Len(r)
      /\ Len(s) \in Nat /\ Len(r) \in Nat
      /\ \A i \in 1 .. Len(s) + Len(r) :
           (s \o r)[i] = IF i <= Len(s) THEN s[i] ELSE r[i - Len(s)]
  OBVIOUS
<1>2. \A i \in 1 .. Len(r) : (s \o r)[i + Len(s)] = r[i]
  BY <1>1
<1>3. \A i \in 1 .. Len(s) : (s \o r)[i] = s[i]
  BY <1>1
<1>4. Elements(s \o r) \subseteq Elements(s) \cup Elements(r)
  <2> SUFFICES ASSUME NEW i \in 1 .. Len(s) + Len(r)
               PROVE  (s \o r)[i] \in Elements(s) \cup Elements(r)
    BY <1>1 DEF Elements
  <2>1. CASE i <= Len(s)  BY <2>1, <1>1 DEF Elements
  <2>2. CASE i > Len(s)   BY <2>2, <1>1 DEF Elements
  <2> QED BY <2>1, <2>2, <1>1
<1>5. Elements(s) \cup Elements(r) \subseteq Elements(s \o r)
  <2>1. Elements(s) \subseteq Elements(s \o r)  BY <1>1, <1>3 DEF Elements
  <2>2. Elements(r) \subseteq Elements(s \o r)
    <3> SUFFICES ASSUME NEW i \in 1 .. Len(r)
                 PROVE  r[i] \in Elements(s \o r)
      BY DEF Elements
    <3>1. i + Len(s) \in 1 .. Len(s \o r)  BY <1>1
    <3> QED BY <3>1, <1>2 DEF Elements
  <2> QED BY <2>1, <2>2
<1>6. ASSUME Injective(s), Injective(r), Elements(s) \cap Elements(r) = {},
             NEW i \in 1 .. Len(s \o r), NEW j \in 1 .. Len(s \o r),
             (s \o r)[i] = (s \o r)[j]
      PROVE  i = j
  <2> /\ i \in Nat \ {0} /\ j \in Nat \ {0}
      /\ i <= Len(s) + Len(r) /\ j <= Len(s) + Len(r)
    BY <1>1
  <2>1. CASE i <= Len(s) /\ j <= Len(s)
    <3>1. i \in 1 .. Len(s) /\ j \in 1 .. Len(s) /\ s[i] = s[j]
      BY <2>1, <1>1, <1>3, <1>6
    <3> QED BY <3>1, <1>6 DEF Injective
  <2>2. CASE i > Len(s) /\ j > Len(s)
    <3>1. /\ i - Len(s) \in 1 .. Len(r) /\ j - Len(s) \in 1 .. Len(r)
          /\ r[i - Len(s)] = r[j - Len(s)]
      BY <2>2, <1>1, <1>6
    <3>2. i - Len(s) = j - Len(s)
      BY <3>1, <1>6 DEF Injective
    <3> QED BY <3>2, <1>1
  <2>3. CASE i <= Len(s) /\ j > Len(s)
    <3>1. i \in 1 .. Len(s) /\ j - Len(s) \in 1 .. Len(r)
      BY <2>3
    <3>2. s[i] = r[j - Len(s)]
      BY <2>3, <1>1, <1>6
    <3> QED BY <3>1, <3>2, <1>6 DEF Elements
  <2>4. CASE i > Len(s) /\ j <= Len(s)
    <3>1. j \in 1 .. Len(s) /\ i - Len(s) \in 1 .. Len(r)
      BY <2>4
    <3>2. s[j] = r[i - Len(s)]
      BY <2>4, <1>1, <1>6
    <3> QED BY <3>1, <3>2, <1>6 DEF Elements
  <2> QED BY <2>1, <2>2, <2>3, <2>4, <1>1
<1> QED BY <1>4, <1>5, <1>6 DEF Injective

LEMMA InsertElements ==
  ASSUME NEW S, NEW s \in Seq(S), NEW g \in 0 .. Len(s), NEW x \in S
  PROVE  /\ Elements(InsertAfter(s, g, x)) = Elements(s) \cup {x}
         /\ Injective(s) /\ x \notin Elements(s)
              => Injective(InsertAfter(s, g, x))
<1> DEFINE r == InsertAfter(s, g, x)
<1> HIDE DEF r
<1>1. /\ Len(r) = Len(s) + 1 /\ Len(s) \in Nat
      /\ \A i \in 1 .. Len(s) + 1 :
           r[i] = IF i <= g THEN s[i] ELSE IF i = g + 1 THEN x ELSE s[i - 1]
  <2>1. InsertAfter(s, g, x) = r
    BY DEF r
  <2>2. Len(r) = Len(s) + 1
    BY <2>1, InsertIsSeq
  <2>3. \A i \in 1 .. Len(s) + 1 :
          InsertAfter(s, g, x)[i] =
            IF i <= g THEN s[i] ELSE IF i = g + 1 THEN x ELSE s[i - 1]
    BY InsertIsSeq
  <2> QED BY <2>1, <2>2, <2>3
<1>2. Elements(r) \subseteq Elements(s) \cup {x}
  <2> SUFFICES ASSUME NEW i \in 1 .. Len(s) + 1
               PROVE  r[i] \in Elements(s) \cup {x}
    BY <1>1 DEF Elements
  <2>1. CASE i <= g  BY <2>1, <1>1 DEF Elements
  <2>2. CASE i = g + 1  BY <2>2, <1>1 DEF Elements
  <2>3. CASE i > g + 1  BY <2>3, <1>1 DEF Elements
  <2> QED BY <2>1, <2>2, <2>3
<1>3. x \in Elements(r)
  <2>1. g + 1 \in 1 .. Len(r) /\ r[g + 1] = x  BY <1>1
  <2> QED BY <2>1 DEF Elements
<1>4. Elements(s) \subseteq Elements(r)
  <2> SUFFICES ASSUME NEW i \in 1 .. Len(s) PROVE s[i] \in Elements(r)
    BY DEF Elements
  <2>1. CASE i <= g
    <3>1. i \in 1 .. Len(r) /\ r[i] = s[i]  BY <2>1, <1>1
    <3> QED BY <3>1 DEF Elements
  <2>2. CASE i > g
    <3>1. i + 1 \in 1 .. Len(r) /\ r[i + 1] = s[i]  BY <2>2, <1>1
    <3> QED BY <3>1 DEF Elements
  <2> QED BY <2>1, <2>2
<1>5. ASSUME Injective(s), x \notin Elements(s),
             NEW i \in 1 .. Len(r), NEW j \in 1 .. Len(r), r[i] = r[j]
      PROVE  i = j
  <2>1. \A k \in 1 .. Len(s) : s[k] # x
    BY <1>5 DEF Elements
  <2>2. CASE i = g + 1
    BY <2>1, <2>2, <1>1, <1>5
  <2>3. CASE j = g + 1
    BY <2>1, <2>3, <1>1, <1>5
  <2>4. CASE i # g + 1 /\ j # g + 1
    BY <2>4, <1>1, <1>5 DEF Injective
  <2> QED BY <2>2, <2>3, <2>4
<1> QED BY <1>2, <1>3, <1>4, <1>5 DEF r, Injective

-----------------------------------------------------------------------------
(* Type correctness.  A slot is in hand exactly while its consumer is at   *)
(* "held", and a producer inside the queueing loop has a chunk to queue.   *)
HoldsWhileHeld   == \A c \in Consumers : held[c] # NoSlot <=> pc[c] = "held"
QueueingHasChunk == \A p \in Producers :
                      pc[p] \in {"queue", "give"} => packet[p].left > 0
TypeInv == TypeOK /\ HoldsWhileHeld /\ QueueingHasChunk

USE CapacityAssumption, ModulusAssumption, PacketAssumption, BoundAssumption,
    TaskAssumption, NoSlotAssumption

LEMMA TypeInit == Init => TypeInv
<1> SUFFICES ASSUME Init PROVE TypeInv
  OBVIOUS
<1>1. [i \in 1 .. Capacity |-> i - 1] \in Seq(Slots)
  <2> DEFINE v(i) == i - 1
  <2>1. Capacity \in Nat /\ \A i \in 1 .. Capacity : v(i) \in Slots
    BY DEF Slots
  <2> QED BY <2>1
<1>2. <<>> \in Seq(Slots) /\ 0 \in Stamps
  BY DEF Stamps
<1> QED BY <1>1, <1>2
        DEF Init, TypeInv, TypeOK, HoldsWhileHeld, QueueingHasChunk, Tasks

(* What the overflow protection leaves behind.                             *)
LEMMA EvictionTyped ==
  ASSUME TypeOK
  PROVE  /\ AfterEviction.sorted \in Seq(Slots)
         /\ AfterEviction.free \in Seq(Slots)
         /\ AfterEviction.tokens \in 0 .. Capacity
<1>1. CASE Evicting
  <2>1. sorted # <<>> /\ Head(sorted) \in Slots /\ Tail(sorted) \in Seq(Slots)
    BY <1>1 DEF Evicting, TypeOK
  <2> QED BY <1>1, <2>1 DEF AfterEviction, TypeOK
<1>2. CASE ~Evicting
  BY <1>2 DEF AfterEviction, TypeOK
<1> QED BY <1>1, <1>2

LEMMA PopTyped ==
  ASSUME NEW f \in Seq(Slots), f # <<>>
  PROVE  Front(f) \in Seq(Slots) /\ f[Len(f)] \in Slots
BY FrontElements

LEMMA DropRest ==
  ASSUME NEW P, NEW T, NEW N \in Nat, NEW f \in [P -> [ts : T, left : 0 .. N]],
         NEW p \in P
  PROVE  [f EXCEPT ![p].left = 0] \in [P -> [ts : T, left : 0 .. N]]
BY SMT

LEMMA TypeStep == TypeInv /\ [Next]_vars => TypeInv'
<1> SUFFICES ASSUME TypeInv, [Next]_vars PROVE TypeInv'
  OBVIOUS
<1> USE DEF TypeInv, TypeOK, HoldsWhileHeld, QueueingHasChunk, Tasks, Goto
<1>1. ASSUME NEW p \in Producers, ReceivePacket(p) PROVE TypeInv'
  <2>1. PICK t \in Stamps, n \in 1 .. PacketChunks :
          packet' = [packet EXCEPT ![p] = [ts |-> t, left |-> n]]
    BY <1>1 DEF ReceivePacket
  <2>2. packet' \in [Producers -> [ts : Stamps, left : 0 .. PacketChunks]]
    BY <2>1
  <2> QED BY <1>1, <2>1, <2>2 DEF ReceivePacket
<1>2. ASSUME NEW p \in Producers, StoreChunk(p) PROVE TypeInv'
  <2> DEFINE f == AfterEviction.free
             slot == f[Len(f)]
  <2>1. /\ f # <<>> /\ f \in Seq(Slots)
        /\ AfterEviction.sorted \in Seq(Slots)
        /\ data_ready' \in 0 .. Capacity
        /\ free_stack' = Front(f)
        /\ rtp' = [rtp EXCEPT ![slot] = packet[p].ts]
    BY <1>2, EvictionTyped DEF StoreChunk, Front
  <2>2. PICK g \in InsertGaps(AfterEviction.sorted, packet[p].ts) :
          sorted' = InsertAfter(AfterEviction.sorted, g, slot)
    BY <1>2 DEF StoreChunk
  <2> HIDE DEF f
  <2>3. free_stack' \in Seq(Slots) /\ slot \in Slots
    BY <2>1, PopTyped
  <2>4. rtp' \in [Slots -> Stamps]
    BY <2>1, <2>3
  <2> HIDE DEF slot
  <2>5. g \in 0 .. Len(AfterEviction.sorted)
    BY DEF InsertGaps
  <2>6. sorted' \in Seq(Slots)
    BY <2>1, <2>2, <2>3, <2>5, InsertIsSeq, Zenon
  <2>7. /\ pc' = [pc EXCEPT ![p] = "give"] /\ pc[p] = "queue"
        /\ UNCHANGED <<held, packet, sent>>
    BY <1>2 DEF StoreChunk
  <2> QED BY <2>1, <2>3, <2>4, <2>6, <2>7
<1>3. ASSUME NEW p \in Producers, RefuseChunk(p) PROVE TypeInv'
  <2>1. packet' = [packet EXCEPT ![p].left = 0]
    BY <1>3 DEF RefuseChunk
  <2>2. packet' \in [Producers -> [ts : Stamps, left : 0 .. PacketChunks]]
    BY <2>1, DropRest
  <2> QED BY <1>3, <2>1, <2>2 DEF RefuseChunk
<1>4. ASSUME NEW p \in Producers, GiveToken(p) PROVE TypeInv'
  <2>1. packet[p].ts \in Stamps /\ packet[p].left \in 1 .. PacketChunks
    BY <1>4 DEF GiveToken
  <2>2. (packet[p].ts + 1) % RtpModulus \in Stamps
    BY <2>1 DEF Stamps
  <2>3. packet' = [packet EXCEPT ![p] =
                     [ts   |-> (packet[p].ts + 1) % RtpModulus,
                      left |-> packet[p].left - 1]]
    BY <1>4 DEF GiveToken
  <2>4. packet' \in [Producers -> [ts : Stamps, left : 0 .. PacketChunks]]
    BY <2>1, <2>2, <2>3
  <2>5. data_ready' \in 0 .. Capacity
    BY <1>4 DEF GiveToken
  <2>6. pc'[p] \in {"queue", "give"} => packet'[p].left > 0
    BY <1>4, <2>1, <2>3 DEF GiveToken
  <2> QED BY <1>4, <2>3, <2>4, <2>5, <2>6 DEF GiveToken
<1>5. ASSUME NEW c \in Consumers, TakeToken(c) PROVE TypeInv'
  BY <1>5 DEF TakeToken
<1>6. ASSUME NEW c \in Consumers, TakeTimesOut(c) PROVE TypeInv'
  BY <1>6 DEF TakeTimesOut, vars
<1>7. ASSUME NEW c \in Consumers, TakeNothing(c) PROVE TypeInv'
  BY <1>7 DEF TakeNothing
<1>8. ASSUME NEW c \in Consumers, TakeFrame(c) PROVE TypeInv'
  <2>1. Head(sorted) \in Slots /\ Tail(sorted) \in Seq(Slots)
    BY <1>8 DEF TakeFrame
  <2> QED BY <1>8, <2>1 DEF TakeFrame
<1>9. ASSUME NEW c \in Consumers, ReturnFrame(c) PROVE TypeInv'
  <2>1. held[c] \in Slots
    BY <1>9 DEF ReturnFrame
  <2>2. free_stack' \in Seq(Slots)
    BY <1>9, <2>1 DEF ReturnFrame
  <2> QED BY <1>9, <2>2 DEF ReturnFrame
<1>10. ASSUME NEW f \in Flushers, FlushIndex(f) PROVE TypeInv'
  BY <1>10 DEF FlushIndex
<1>11. ASSUME NEW f \in Flushers, DrainToken(f) PROVE TypeInv'
  BY <1>11 DEF DrainToken
<1>12. ASSUME NEW f \in Flushers, DrainDone(f) PROVE TypeInv'
  BY <1>12 DEF DrainDone
<1>13. CASE UNCHANGED vars
  BY <1>13 DEF vars
<1> QED BY <1>1, <1>2, <1>3, <1>4, <1>5, <1>6, <1>7, <1>8, <1>9, <1>10,
           <1>11, <1>12, <1>13 DEF Next, Produce, Consume, Flush

(* Every variable keeps its type, and a consumer that reads a frame holds  *)
(* a slot of the pool.                                                     *)
THEOREM TypeCorrect == Spec => []TypeOK
<1>1. Spec => []TypeInv
  BY TypeInit, TypeStep, PTL DEF Spec
<1>2. TypeInv => TypeOK
  BY DEF TypeInv
<1> QED BY <1>1, <1>2, PTL

-----------------------------------------------------------------------------
(* Slot ownership.                                                         *)
PoolInv == TypeInv /\ SlotOwnership

LEMMA PoolInit == Init => SlotOwnership
<1> SUFFICES ASSUME Init PROVE SlotOwnership
  OBVIOUS
<1>1. Elements(sorted) = {} /\ Injective(sorted)
  BY DEF Init, Elements, Injective
<1>2. Len(free_stack) = Capacity /\ \A i \in 1 .. Capacity : free_stack[i] = i - 1
  BY DEF Init
<1>3. Injective(free_stack)
  BY <1>2 DEF Injective
<1>4. ASSUME NEW s \in Slots PROVE s \in Elements(free_stack)
  <2>1. s + 1 \in 1 .. Capacity /\ free_stack[s + 1] = s
    BY <1>2 DEF Slots
  <2> QED BY <2>1, <1>2 DEF Elements
<1> QED BY <1>1, <1>3, <1>4 DEF Init, SlotOwnership

(* The overflow protection moves one slot from the index to the stack.     *)
LEMMA EvictionKeepsPool ==
  ASSUME PoolInv
  PROVE  /\ Injective(AfterEviction.sorted) /\ Injective(AfterEviction.free)
         /\ Elements(AfterEviction.sorted) \cap Elements(AfterEviction.free) = {}
         /\ Elements(AfterEviction.sorted) \cup Elements(AfterEviction.free)
              = Elements(sorted) \cup Elements(free_stack)
         /\ Elements(AfterEviction.sorted) \subseteq Elements(sorted)
<1> USE DEF PoolInv, TypeInv, TypeOK, SlotOwnership
<1>1. CASE Evicting
  <2>1. sorted # <<>>
    BY <1>1 DEF Evicting
  <2>2. Head(sorted) \in Slots
    BY <2>1
  <2>3. /\ Elements(sorted) = Elements(Tail(sorted)) \cup {Head(sorted)}
        /\ Injective(Tail(sorted)) /\ Head(sorted) \notin Elements(Tail(sorted))
    BY <2>1, TailElements
  <2>4. /\ Elements(Append(free_stack, Head(sorted)))
             = Elements(free_stack) \cup {Head(sorted)}
        /\ Injective(Append(free_stack, Head(sorted)))
    <3>1. Head(sorted) \notin Elements(free_stack)
      BY <2>3
    <3> QED BY <2>2, <3>1, AppendElements
  <2>5. /\ AfterEviction.sorted = Tail(sorted)
        /\ AfterEviction.free = Append(free_stack, Head(sorted))
    BY <1>1 DEF AfterEviction
  <2> QED BY <2>3, <2>4, <2>5
<1>2. CASE ~Evicting
  BY <1>2 DEF AfterEviction
<1> QED BY <1>1, <1>2

LEMMA PoolStep == PoolInv /\ [Next]_vars => SlotOwnership'
<1> SUFFICES ASSUME PoolInv, [Next]_vars PROVE SlotOwnership'
  OBVIOUS
<1> USE DEF PoolInv
<1>1. ASSUME NEW p \in Producers, StoreChunk(p) PROVE SlotOwnership'
  <2> DEFINE f == AfterEviction.free
             q == AfterEviction.sorted
             slot == f[Len(f)]
  <2>1. /\ f # <<>> /\ f \in Seq(Slots) /\ q \in Seq(Slots)
        /\ free_stack' = Front(f)
        /\ held' = held
    BY <1>1, EvictionTyped DEF StoreChunk, Front, TypeInv
  <2>2. PICK g \in InsertGaps(q, packet[p].ts) :
          sorted' = InsertAfter(q, g, slot)
    BY <1>1 DEF StoreChunk
  <2>3. /\ Injective(q) /\ Injective(f) /\ Elements(q) \cap Elements(f) = {}
        /\ Elements(q) \cup Elements(f) = Elements(sorted) \cup Elements(free_stack)
    BY EvictionKeepsPool
  <2> HIDE DEF f, q
  <2>4. /\ Elements(f) = Elements(Front(f)) \cup {slot} /\ slot \in Slots
        /\ slot \in Elements(f) /\ Injective(Front(f))
        /\ slot \notin Elements(Front(f))
    BY <2>1, <2>3, FrontElements
  <2>5. g \in 0 .. Len(q) /\ slot \notin Elements(q)
    BY <2>3, <2>4 DEF InsertGaps
  <2> HIDE DEF slot
  <2>6. /\ Elements(sorted') = Elements(q) \cup {slot}
        /\ Injective(sorted')
    BY <2>1, <2>2, <2>3, <2>4, <2>5, InsertElements
  <2>7. /\ Elements(sorted') \cap Elements(free_stack') = {}
        /\ Elements(sorted') \cup Elements(free_stack')
             = Elements(sorted) \cup Elements(free_stack)
        /\ Injective(free_stack')
    BY <2>1, <2>3, <2>4, <2>6
  <2> QED BY <2>1, <2>6, <2>7 DEF SlotOwnership, Injective, Elements
<1>2. ASSUME NEW c \in Consumers, TakeFrame(c) PROVE SlotOwnership'
  <2> DEFINE x == Head(sorted)
  <2>1. /\ sorted # <<>> /\ sorted \in Seq(Slots) /\ sorted' = Tail(sorted)
        /\ free_stack' = free_stack /\ held' = [held EXCEPT ![c] = x]
        /\ held \in [Consumers -> Slots \cup {NoSlot}]
    BY <1>2 DEF TakeFrame, TypeInv, TypeOK
  <2>2. held[c] = NoSlot
    BY <1>2 DEF TakeFrame, Goto, TypeInv, HoldsWhileHeld
  <2>3. /\ Elements(sorted) = Elements(sorted') \cup {x}
        /\ Injective(sorted') /\ x \notin Elements(sorted')
    BY <2>1, TailElements DEF SlotOwnership
  <2> HIDE DEF x
  <2>4. x \notin Elements(free_stack) /\ \A d \in Consumers : held[d] # x
    <3>1. x \in Elements(sorted)  BY <2>3
    <3>2. x \in Slots  BY <2>1 DEF x
    <3> QED BY <3>1, <3>2 DEF SlotOwnership, Slots
  <2>5. \A d \in Consumers : held'[d] = IF d = c THEN x ELSE held[d]
    BY <2>1
  <2>6. Injective(free_stack') /\ Elements(sorted') \cap Elements(free_stack') = {}
    BY <2>1, <2>3 DEF SlotOwnership
  <2>7. \A d \in Consumers : held'[d] # NoSlot =>
          /\ held'[d] \notin Elements(sorted') \cup Elements(free_stack')
          /\ \A e \in Consumers : held'[e] = held'[d] => e = d
    BY <2>1, <2>3, <2>4, <2>5 DEF SlotOwnership
  <2>8. \A s \in Slots : \/ s \in Elements(sorted') \cup Elements(free_stack')
                          \/ \E d \in Consumers : held'[d] = s
    <3> SUFFICES ASSUME NEW s \in Slots,
                        s \notin Elements(sorted') \cup Elements(free_stack')
                 PROVE  \E d \in Consumers : held'[d] = s
      OBVIOUS
    <3>1. CASE s = x  BY <3>1, <2>5
    <3>2. CASE s # x
      <4>1. PICK d \in Consumers : held[d] = s
        BY <3>2, <2>1, <2>3 DEF SlotOwnership
      <4>2. d # c
        BY <4>1, <2>2
      <4> QED BY <4>1, <4>2, <2>5
    <3> QED BY <3>1, <3>2
  <2> QED BY <2>3, <2>6, <2>7, <2>8 DEF SlotOwnership, Injective, Elements
<1>3. ASSUME NEW c \in Consumers, ReturnFrame(c) PROVE SlotOwnership'
  <2> DEFINE x == held[c]
  <2>1. /\ sorted' = sorted /\ free_stack' = Append(free_stack, x)
        /\ held' = [held EXCEPT ![c] = NoSlot]
        /\ free_stack \in Seq(Slots)
        /\ held \in [Consumers -> Slots \cup {NoSlot}]
    BY <1>3 DEF ReturnFrame, TypeInv, TypeOK
  <2>2. x \in Slots /\ x # NoSlot
    BY <1>3, <2>1 DEF ReturnFrame, Goto, TypeInv, HoldsWhileHeld
  <2>3. x \notin Elements(sorted) \cup Elements(free_stack)
    BY <2>2 DEF SlotOwnership
  <2>4. \A d \in Consumers : d # c => held[d] # x
    BY <2>2 DEF SlotOwnership
  <2>5. \A d \in Consumers : held'[d] = IF d = c THEN NoSlot ELSE held[d]
    BY <2>1
  <2> HIDE DEF x
  <2>6. /\ Elements(free_stack') = Elements(free_stack) \cup {x}
        /\ Injective(free_stack')
    BY <2>1, <2>2, <2>3, AppendElements DEF SlotOwnership
  <2>7. \A d \in Consumers : held'[d] # NoSlot =>
          /\ held'[d] \notin Elements(sorted') \cup Elements(free_stack')
          /\ \A e \in Consumers : held'[e] = held'[d] => e = d
    BY <2>1, <2>4, <2>5, <2>6 DEF SlotOwnership
  <2>8. \A s \in Slots : \/ s \in Elements(sorted') \cup Elements(free_stack')
                          \/ \E d \in Consumers : held'[d] = s
    BY <2>1, <2>5, <2>6 DEF SlotOwnership, x
  <2>9. /\ Injective(sorted')
        /\ Elements(sorted') \cap Elements(free_stack') = {}
    BY <2>1, <2>3, <2>6 DEF SlotOwnership
  <2> QED BY <2>6, <2>7, <2>8, <2>9 DEF SlotOwnership
<1>4. ASSUME NEW f \in Flushers, FlushIndex(f) PROVE SlotOwnership'
  <2>1. /\ sorted' = <<>> /\ free_stack' = free_stack \o sorted /\ held' = held
        /\ free_stack \in Seq(Slots) /\ sorted \in Seq(Slots)
    BY <1>4 DEF FlushIndex, TypeInv, TypeOK
  <2>2. Elements(sorted') = {} /\ Injective(sorted')
    BY <2>1 DEF Elements, Injective
  <2>3. /\ Elements(free_stack') = Elements(free_stack) \cup Elements(sorted)
        /\ Injective(free_stack')
    BY <2>1, ConcatElements DEF SlotOwnership
  <2> QED BY <2>1, <2>2, <2>3 DEF SlotOwnership, Injective, Elements
<1>5. CASE UNCHANGED <<sorted, free_stack, held>>
  BY <1>5 DEF SlotOwnership, Injective, Elements
<1>6. ASSUME NEW p \in Producers, ReceivePacket(p) \/ RefuseChunk(p) \/ GiveToken(p)
      PROVE  SlotOwnership'
  BY <1>5, <1>6 DEF ReceivePacket, RefuseChunk, GiveToken
<1>7. ASSUME NEW c \in Consumers, TakeToken(c) \/ TakeTimesOut(c) \/ TakeNothing(c)
      PROVE  SlotOwnership'
  BY <1>5, <1>7 DEF TakeToken, TakeTimesOut, TakeNothing, vars
<1>8. ASSUME NEW f \in Flushers, DrainToken(f) \/ DrainDone(f)
      PROVE  SlotOwnership'
  BY <1>5, <1>8 DEF DrainToken, DrainDone
<1>9. CASE UNCHANGED vars
  BY <1>5, <1>9 DEF vars
<1> QED BY <1>1, <1>2, <1>3, <1>4, <1>6, <1>7, <1>8, <1>9
        DEF Next, Produce, Consume, Flush

(* No slot is ever in two places, and none is lost: producers, the         *)
(* consumer and flushes hand the pool's slots around without a double free *)
(* or a leak, whatever the interleaving.                                   *)
THEOREM SlotsOwnedOnce == Spec => []SlotOwnership
<1>1. Init => PoolInv
  BY TypeInit, PoolInit DEF PoolInv
<1>2. PoolInv /\ [Next]_vars => PoolInv'
  BY TypeStep, PoolStep DEF PoolInv
<1>3. Spec => []PoolInv
  BY <1>1, <1>2, PTL DEF Spec
<1>4. PoolInv => SlotOwnership
  BY DEF PoolInv
<1> QED BY <1>3, <1>4, PTL

-----------------------------------------------------------------------------
(* RTP order.  The comparison of timestamps is an order only on stamps of  *)
(* one half-range window, so the invariant says that everything queued or  *)
(* about to be queued lies in one.                                         *)
OneProducer == \A p, q \in Producers : p = q

Pending(p) == {(packet[p].ts + k) % RtpModulus : k \in 0 .. packet[p].left - 1}
InPlay     == {rtp[s] : s \in Elements(sorted)} \cup UNION {Pending(p) : p \in Producers}
InWindow(U, base) == \A u \in U : (u - base) % RtpModulus < RtpModulus \div 2
OneWindow  == \E base \in Stamps : InWindow(InPlay, base)

Ascending(s, r) == \A i, j \in 1 .. Len(s) : i < j => ~Before(r[s[j]], r[s[i]])

OrderInv == PoolInv /\ OneWindow /\ Ascending(sorted, rtp)

LEMMA AscendingIsSorted ==
  ASSUME TypeOK, Ascending(sorted, rtp) PROVE SortedByRtp
<1> SUFFICES ASSUME NEW i \in 1 .. Len(sorted) - 1
             PROVE  ~Before(rtp[sorted[i + 1]], rtp[sorted[i]])
  BY DEF SortedByRtp
<1>1. i \in 1 .. Len(sorted) /\ i + 1 \in 1 .. Len(sorted) /\ i < i + 1
  BY DEF TypeOK
<1> QED BY <1>1 DEF Ascending

LEMMA BeforeIsOrder ==
  ASSUME NEW base \in Stamps, NEW u \in Stamps, NEW v \in Stamps,
         (u - base) % RtpModulus < RtpModulus \div 2,
         (v - base) % RtpModulus < RtpModulus \div 2
  PROVE  /\ Before(u, v) <=> (u - base) % RtpModulus < (v - base) % RtpModulus
         /\ (u - base) % RtpModulus \in Int /\ (v - base) % RtpModulus \in Int
<1>1. /\ (u - base) % RtpModulus \in Int /\ (v - base) % RtpModulus \in Int
  BY DivMod DEF Stamps
<1> QED BY <1>1, WindowIsOrder DEF Before, Stamps

(* The search looks at the neighbours of a gap only; in an ascending index *)
(* that is enough to know everything below and everything above it.        *)
LEMMA GapSplits ==
  ASSUME TypeOK, NEW q \in Seq(Slots), Ascending(q, rtp), NEW t \in Stamps,
         NEW base \in Stamps, InWindow({rtp[s] : s \in Elements(q)} \cup {t}, base),
         NEW g \in InsertGaps(q, t)
  PROVE  /\ \A i \in 1 .. g : Before(rtp[q[i]], t)
         /\ \A i \in g + 1 .. Len(q) : ~Before(rtp[q[i]], t)
<1> DEFINE far(u) == (u - base) % RtpModulus
<1>1. /\ g \in 0 .. Len(q)
      /\ g > 0 => Before(rtp[q[g]], t)
      /\ g < Len(q) => ~Before(rtp[q[g + 1]], t)
  BY DEF InsertGaps
<1>2. /\ \A i \in 1 .. Len(q) : /\ rtp[q[i]] \in Stamps
                                /\ far(rtp[q[i]]) < RtpModulus \div 2
      /\ far(t) < RtpModulus \div 2
  BY DEF InWindow, Elements, TypeOK
<1>3. /\ \A i \in 1 .. Len(q) :
           /\ Before(rtp[q[i]], t) <=> far(rtp[q[i]]) < far(t)
           /\ far(rtp[q[i]]) \in Int /\ far(t) \in Int
      /\ \A i, j \in 1 .. Len(q) :
           Before(rtp[q[j]], rtp[q[i]]) <=> far(rtp[q[j]]) < far(rtp[q[i]])
  BY <1>2, BeforeIsOrder
<1>4. \A i, j \in 1 .. Len(q) : i < j => ~(far(rtp[q[j]]) < far(rtp[q[i]]))
  BY <1>3 DEF Ascending
<1> HIDE DEF far
<1>5. ASSUME NEW i \in 1 .. g PROVE Before(rtp[q[i]], t)
  <2>1. i \in 1 .. Len(q) /\ g \in 1 .. Len(q) /\ (i = g \/ i < g)
    BY <1>1
  <2>2. far(rtp[q[g]]) < far(t)
    BY <1>1, <1>3, <2>1
  <2>3. far(rtp[q[i]]) < far(t)
    BY <1>3, <1>4, <2>1, <2>2
  <2> QED BY <1>3, <2>1, <2>3
<1>6. ASSUME NEW i \in g + 1 .. Len(q) PROVE ~Before(rtp[q[i]], t)
  <2>1. i \in 1 .. Len(q) /\ g + 1 \in 1 .. Len(q) /\ (i = g + 1 \/ g + 1 < i)
    BY <1>1
  <2>2. ~(far(rtp[q[g + 1]]) < far(t))
    BY <1>1, <1>3, <2>1
  <2>3. ~(far(rtp[q[i]]) < far(t))
    BY <1>3, <1>4, <2>1, <2>2
  <2> QED BY <1>3, <2>1, <2>3
<1> QED BY <1>5, <1>6

(* Putting a slot into a gap the search may return keeps the order.        *)
LEMMA InsertAscending ==
  ASSUME NEW S, NEW q \in Seq(S), NEW x \in S, NEW r, NEW r2,
         NEW g \in 0 .. Len(q),
         Ascending(q, r),
         x \notin Elements(q),
         \A s \in S : s # x => r2[s] = r[s],
         \A i \in 1 .. g : ~Before(r2[x], r[q[i]]),
         \A i \in g + 1 .. Len(q) : ~Before(r[q[i]], r2[x])
  PROVE  Ascending(InsertAfter(q, g, x), r2)
<1> DEFINE n == InsertAfter(q, g, x)
<1>a. Len(n) = Len(q) + 1
  BY InsertIsSeq
<1>b. \A i \in 1 .. Len(q) + 1 :
        n[i] = IF i <= g THEN q[i] ELSE IF i = g + 1 THEN x ELSE q[i - 1]
  BY InsertIsSeq
<1> HIDE DEF n
<1>1. Len(q) \in Nat
  OBVIOUS
<1>2. \A i \in 1 .. Len(q) : q[i] \in S /\ q[i] # x /\ r2[q[i]] = r[q[i]]
  BY DEF Elements
<1> SUFFICES ASSUME NEW i \in 1 .. Len(q) + 1, NEW j \in 1 .. Len(q) + 1, i < j
             PROVE  ~Before(r2[n[j]], r2[n[i]])
  BY <1>a DEF Ascending, n
<1>3. CASE j <= g
  <2>1. i \in 1 .. Len(q) /\ j \in 1 .. Len(q) /\ n[i] = q[i] /\ n[j] = q[j]
    BY <1>b, <1>1, <1>3
  <2> QED BY <2>1, <1>2 DEF Ascending
<1>4. CASE j = g + 1
  <2>1. i \in 1 .. g /\ i \in 1 .. Len(q) /\ n[i] = q[i] /\ n[j] = x
    BY <1>b, <1>1, <1>4
  <2> QED BY <2>1, <1>2
<1>5. CASE j > g + 1 /\ i <= g
  <2>1. /\ i \in 1 .. Len(q) /\ j - 1 \in 1 .. Len(q) /\ i < j - 1
        /\ n[i] = q[i] /\ n[j] = q[j - 1]
    BY <1>b, <1>1, <1>5
  <2> QED BY <2>1, <1>2 DEF Ascending
<1>6. CASE j > g + 1 /\ i = g + 1
  <2>1. /\ j - 1 \in g + 1 .. Len(q) /\ j - 1 \in 1 .. Len(q)
        /\ n[i] = x /\ n[j] = q[j - 1]
    BY <1>b, <1>1, <1>6
  <2> QED BY <2>1, <1>2
<1>7. CASE j > g + 1 /\ i > g + 1
  <2>1. /\ i - 1 \in 1 .. Len(q) /\ j - 1 \in 1 .. Len(q) /\ i - 1 < j - 1
        /\ n[i] = q[i - 1] /\ n[j] = q[j - 1]
    BY <1>b, <1>1, <1>7
  <2> QED BY <2>1, <1>2 DEF Ascending
<1> QED BY <1>3, <1>4, <1>5, <1>6, <1>7

LEMMA TailAscending ==
  ASSUME NEW S, NEW q \in Seq(S), q # <<>>, NEW r, Ascending(q, r)
  PROVE  Ascending(Tail(q), r)
<1>1. /\ Len(Tail(q)) = Len(q) - 1 /\ Len(q) \in Nat
      /\ \A i \in 1 .. Len(q) - 1 : Tail(q)[i] = q[i + 1]
  OBVIOUS
<1> SUFFICES ASSUME NEW i \in 1 .. Len(q) - 1, NEW j \in 1 .. Len(q) - 1, i < j
             PROVE  ~Before(r[Tail(q)[j]], r[Tail(q)[i]])
  BY <1>1 DEF Ascending
<1>2. i + 1 \in 1 .. Len(q) /\ j + 1 \in 1 .. Len(q) /\ i + 1 < j + 1
  BY <1>1
<1>3. ~Before(r[q[j + 1]], r[q[i + 1]])
  BY <1>2 DEF Ascending
<1> QED BY <1>1, <1>3

(* Steps that queue nothing new leave everything inside the window.        *)
LEMMA WindowShrinks ==
  ASSUME OneWindow, InPlay' \subseteq InPlay
  PROVE  OneWindow'
BY DEF OneWindow, InWindow, Stamps

LEMMA OrderInit == Init => OneWindow /\ Ascending(sorted, rtp)
<1> SUFFICES ASSUME Init PROVE OneWindow /\ Ascending(sorted, rtp)
  OBVIOUS
<1>1. sorted = <<>> /\ Elements(sorted) = {} /\ \A p \in Producers : Pending(p) = {}
  BY DEF Init, Elements, Pending
<1>2. InPlay = {} /\ 0 \in Stamps
  BY <1>1 DEF InPlay, Stamps
<1> QED BY <1>1, <1>2 DEF OneWindow, InWindow, Ascending

(* What one overflow eviction leaves is still in order.                    *)
LEMMA EvictionAscending ==
  ASSUME TypeOK, Ascending(sorted, rtp)
  PROVE  Ascending(AfterEviction.sorted, rtp)
<1>1. CASE Evicting
  <2>1. sorted # <<>> /\ sorted \in Seq(Slots)
    BY <1>1 DEF Evicting, TypeOK
  <2>2. AfterEviction.sorted = Tail(sorted)
    BY <1>1 DEF AfterEviction
  <2>3. Ascending(Tail(sorted), rtp)
    BY <2>1, TailAscending
  <2> QED BY <2>2, <2>3
<1>2. CASE ~Evicting
  BY <1>2 DEF AfterEviction
<1> QED BY <1>1, <1>2

LEMMA HeadIsPending ==
  ASSUME TypeInv, NEW p \in Producers, packet[p].left > 0
  PROVE  packet[p].ts \in Stamps /\ packet[p].ts \in Pending(p)
<1> DEFINE t == packet[p].ts
<1>1. t \in Stamps /\ packet[p].left \in Nat
  BY DEF TypeInv, TypeOK
<1>2. t \in Int /\ t >= 0 /\ -RtpModulus < t /\ t < RtpModulus /\ t + 0 = t
  BY <1>1 DEF Stamps
<1>3. t % RtpModulus = t
  BY <1>2, ModSmall
<1>4. (t + 0) % RtpModulus = t /\ 0 \in 0 .. packet[p].left - 1
  BY <1>1, <1>2, <1>3
<1> QED BY <1>1, <1>4 DEF Pending

(* Where StoreChunk puts its frame: in a slot that nobody has, behind the  *)
(* frames that are earlier and in front of those that are not.             *)
LEMMA StoredInOrder ==
  ASSUME OrderInv, NEW p \in Producers, StoreChunk(p)
  PROVE  \E g \in 0 .. Len(AfterEviction.sorted), slot \in Slots :
           /\ sorted' = InsertAfter(AfterEviction.sorted, g, slot)
           /\ slot \notin Elements(AfterEviction.sorted)
           /\ \A c \in Consumers : held[c] # slot
           /\ rtp'[slot] = packet[p].ts
           /\ \A s \in Slots : s # slot => rtp'[s] = rtp[s]
           /\ \A i \in 1 .. g :
                Before(rtp[AfterEviction.sorted[i]], packet[p].ts)
           /\ \A i \in g + 1 .. Len(AfterEviction.sorted) :
                ~Before(rtp[AfterEviction.sorted[i]], packet[p].ts)
<1> USE DEF OrderInv, PoolInv, TypeInv
<1> DEFINE f == AfterEviction.free
           q == AfterEviction.sorted
           slot == f[Len(f)]
           t == packet[p].ts
<1>1. /\ f # <<>> /\ f \in Seq(Slots) /\ q \in Seq(Slots)
      /\ rtp' = [rtp EXCEPT ![slot] = t]
      /\ packet[p].left > 0
  BY EvictionTyped DEF StoreChunk, Goto, QueueingHasChunk
<1>2. PICK g \in InsertGaps(q, t) : sorted' = InsertAfter(q, g, slot)
  BY DEF StoreChunk
<1>3. /\ Elements(q) \cap Elements(f) = {} /\ Injective(f)
      /\ Elements(q) \subseteq Elements(sorted)
      /\ Elements(f) \subseteq Elements(sorted) \cup Elements(free_stack)
  BY EvictionKeepsPool
<1>4. Ascending(q, rtp)
  BY EvictionAscending
<1>5. g \in 0 .. Len(q)
  BY DEF InsertGaps
<1>6. t \in Stamps /\ t \in Pending(p)
  BY <1>1, HeadIsPending
<1>7. PICK base \in Stamps : InWindow({rtp[s] : s \in Elements(q)} \cup {t}, base)
  BY <1>3, <1>6 DEF OneWindow, InWindow, InPlay
<1>8. /\ \A i \in 1 .. g : Before(rtp[q[i]], t)
      /\ \A i \in g + 1 .. Len(q) : ~Before(rtp[q[i]], t)
  BY <1>1, <1>4, <1>6, <1>7, GapSplits
<1> HIDE DEF f, q, t
<1>9. slot \in Slots /\ slot \in Elements(f)
  BY <1>1, <1>3, FrontElements
<1> HIDE DEF slot
<1>10. slot \notin Elements(q) /\ \A c \in Consumers : held[c] # slot
  BY <1>3, <1>9, NoSlotAssumption DEF SlotOwnership
<1>11. rtp'[slot] = t /\ \A s \in Slots : s # slot => rtp'[s] = rtp[s]
  BY <1>1, <1>9 DEF TypeOK
<1> QED BY <1>2, <1>5, <1>8, <1>9, <1>10, <1>11 DEF q, t

LEMMA OrderStep ==
  ASSUME OneProducer, OrderInv, [Next]_vars
  PROVE  OneWindow' /\ Ascending(sorted, rtp)'
<1> USE DEF OrderInv, PoolInv, TypeInv
<1>1. ASSUME NEW p \in Producers, ReceivePacket(p)
      PROVE  OneWindow' /\ Ascending(sorted, rtp)'
  <2>1. PICK t \in Stamps, n \in 1 .. PacketChunks :
          /\ SenderWindow(t, n)
          /\ packet' = [packet EXCEPT ![p] = [ts |-> t, left |-> n]]
    BY <1>1 DEF ReceivePacket
  <2>2. sorted' = sorted /\ rtp' = rtp
    BY <1>1 DEF ReceivePacket
  <2>3. packet'[p] = [ts |-> t, left |-> n]
    BY <2>1 DEF TypeOK
  <2> DEFINE U == {rtp[s] : s \in Elements(sorted)}
                    \cup {(t + k) % RtpModulus : k \in 0 .. n - 1}
  <2>4. InPlay' \subseteq U
    BY <2>2, <2>3 DEF InPlay, Pending, OneProducer
  <2>5. PICK base \in Stamps : InWindow(U, base)
    BY <2>1 DEF SenderWindow, InWindow
  <2> HIDE DEF U
  <2>6. OneWindow'
    BY <2>4, <2>5 DEF OneWindow, InWindow, Stamps
  <2> QED BY <2>2, <2>6 DEF Ascending, Before
<1>2. ASSUME NEW p \in Producers, StoreChunk(p)
      PROVE  OneWindow' /\ Ascending(sorted, rtp)'
  <2> DEFINE q == AfterEviction.sorted
             t == packet[p].ts
  <2>1. PICK g \in 0 .. Len(q), slot \in Slots :
          /\ sorted' = InsertAfter(q, g, slot)
          /\ slot \notin Elements(q)
          /\ rtp'[slot] = t
          /\ \A s \in Slots : s # slot => rtp'[s] = rtp[s]
          /\ \A i \in 1 .. g : Before(rtp[q[i]], t)
          /\ \A i \in g + 1 .. Len(q) : ~Before(rtp[q[i]], t)
    BY <1>2, StoredInOrder
  <2>2. /\ q \in Seq(Slots) /\ Elements(q) \subseteq Elements(sorted)
        /\ Ascending(q, rtp) /\ packet' = packet /\ packet[p].left > 0
    BY <1>2, EvictionTyped, EvictionKeepsPool, EvictionAscending
    DEF StoreChunk, Goto, QueueingHasChunk
  <2>3. t \in Stamps /\ t \in Pending(p)
    BY <2>2, HeadIsPending
  <2> HIDE DEF q, t
  <2>4. \A i \in 1 .. g : ~Before(t, rtp[q[i]])
    <3> SUFFICES ASSUME NEW i \in 1 .. g PROVE ~Before(t, rtp[q[i]])
      OBVIOUS
    <3>1. q[i] \in Elements(sorted) /\ q[i] \in Slots
      BY <2>2 DEF Elements
    <3>2. rtp[q[i]] \in Stamps /\ rtp[q[i]] \in InPlay /\ t \in InPlay
      BY <3>1, <2>3 DEF InPlay, TypeOK
    <3>3. PICK base \in Stamps : InWindow(InPlay, base)
      BY DEF OneWindow
    <3> DEFINE far(u) == (u - base) % RtpModulus
    <3>4. /\ far(rtp[q[i]]) \in Int /\ far(t) \in Int
          /\ Before(rtp[q[i]], t) <=> far(rtp[q[i]]) < far(t)
          /\ Before(t, rtp[q[i]]) <=> far(t) < far(rtp[q[i]])
      BY <2>3, <3>2, <3>3, BeforeIsOrder DEF InWindow
    <3>5. Before(rtp[q[i]], t)
      BY <2>1
    <3> HIDE DEF far
    <3> QED BY <3>4, <3>5
  <2>5. Ascending(sorted', rtp')
    <3>1. /\ q \in Seq(Slots) /\ slot \in Slots /\ g \in 0 .. Len(q)
          /\ Ascending(q, rtp) /\ slot \notin Elements(q)
          /\ \A s \in Slots : s # slot => rtp'[s] = rtp[s]
          /\ \A i \in 1 .. g : ~Before(rtp'[slot], rtp[q[i]])
          /\ \A i \in g + 1 .. Len(q) : ~Before(rtp[q[i]], rtp'[slot])
      BY <2>1, <2>2, <2>4
    <3>2. Ascending(InsertAfter(q, g, slot), rtp')
      BY <3>1, InsertAscending
    <3> QED BY <3>2, <2>1
  <2>6. InPlay' \subseteq InPlay
    <3>1. Elements(sorted') = Elements(q) \cup {slot}
      BY <2>1, <2>2, InsertElements
    <3>2. \A s \in Elements(q) : s \in Slots /\ s # slot
      BY <2>1, <2>2 DEF Elements
    <3>3. \A s \in Elements(sorted') : rtp'[s] = t \/ rtp'[s] \in {rtp[x] : x \in Elements(sorted)}
      BY <3>1, <3>2, <2>1, <2>2
    <3> QED BY <3>3, <2>2, <2>3 DEF InPlay, Pending
  <2> QED BY <2>5, <2>6, WindowShrinks DEF Ascending, Before
<1>3. ASSUME NEW p \in Producers, RefuseChunk(p)
      PROVE  OneWindow' /\ Ascending(sorted, rtp)'
  <2>1. /\ sorted' = sorted /\ rtp' = rtp
        /\ packet' = [packet EXCEPT ![p].left = 0]
    BY <1>3 DEF RefuseChunk
  <2>2. \A d \in Producers : Pending(d)' \subseteq Pending(d)
    BY <2>1 DEF Pending, TypeOK
  <2>3. InPlay' \subseteq InPlay
    BY <2>1, <2>2 DEF InPlay
  <2> QED BY <2>1, <2>3, WindowShrinks DEF Ascending, Before
<1>4. ASSUME NEW p \in Producers, GiveToken(p)
      PROVE  OneWindow' /\ Ascending(sorted, rtp)'
  <2>1. /\ sorted' = sorted /\ rtp' = rtp
        /\ packet' = [packet EXCEPT
                        ![p] = [ts   |-> (packet[p].ts + 1) % RtpModulus,
                                left |-> packet[p].left - 1]]
        /\ packet[p].ts \in Stamps /\ packet[p].left \in Nat \ {0}
    BY <1>4 DEF GiveToken, Goto, TypeOK, QueueingHasChunk
  <2>2. Pending(p)' \subseteq Pending(p)
    <3> DEFINE t == packet[p].ts
               n == packet[p].left
    <3>1. packet'[p].ts = (t + 1) % RtpModulus /\ packet'[p].left = n - 1
      BY <2>1 DEF TypeOK
    <3>2. t \in 0 .. RtpModulus - 1 /\ n \in Nat \ {0}
      BY <2>1 DEF Stamps
    <3> HIDE DEF t, n
    <3>3. ASSUME NEW k \in 0 .. n - 2
          PROVE  (((t + 1) % RtpModulus) + k) % RtpModulus = (t + (k + 1)) % RtpModulus
      <4>1. CASE t + 1 < RtpModulus
        <5>0. t + 1 \in Int /\ t + 1 >= 0 /\ -RtpModulus < t + 1
          BY <3>2
        <5>1. (t + 1) % RtpModulus = t + 1
          BY <4>1, <5>0, ModSmall
        <5>2. (t + 1) + k = t + (k + 1)
          BY <3>2
        <5> QED BY <5>1, <5>2
      <4>2. CASE t + 1 = RtpModulus
        <5>1. (t + 1) % RtpModulus = 0
          BY <4>2
        <5>2. t + (k + 1) = k + RtpModulus /\ 0 + k = k /\ k \in Int
          BY <4>2, <3>2
        <5>3. (k + RtpModulus) % RtpModulus = k % RtpModulus
          BY <5>2, ModShift
        <5> QED BY <5>1, <5>2, <5>3
      <4> QED BY <4>1, <4>2, <3>2
    <3>4. \A k \in 0 .. n - 2 : k + 1 \in 0 .. n - 1
      BY <3>2
    <3>5. Pending(p)' = {(((t + 1) % RtpModulus) + k) % RtpModulus : k \in 0 .. n - 2}
      <4>1. (n - 1) - 1 = n - 2
        BY <3>2
      <4> QED BY <3>1, <4>1 DEF Pending
    <3>6. Pending(p) = {(t + k) % RtpModulus : k \in 0 .. n - 1}
      BY DEF Pending, t, n
    <3> QED BY <3>3, <3>4, <3>5, <3>6
  <2>3. \A d \in Producers : Pending(d)' \subseteq Pending(d)
    BY <2>2 DEF OneProducer
  <2>4. InPlay' \subseteq InPlay
    BY <2>1, <2>3 DEF InPlay
  <2> QED BY <2>1, <2>4, WindowShrinks DEF Ascending, Before
<1>5. ASSUME NEW c \in Consumers, TakeFrame(c)
      PROVE  OneWindow' /\ Ascending(sorted, rtp)'
  <2>1. /\ sorted # <<>> /\ sorted \in Seq(Slots) /\ sorted' = Tail(sorted)
        /\ rtp' = rtp /\ packet' = packet
    BY <1>5 DEF TakeFrame, TypeOK
  <2>2. Ascending(sorted', rtp')
    BY <2>1, TailAscending
  <2>3. Elements(sorted') \subseteq Elements(sorted)
    BY <2>1, TailElements
  <2>4. InPlay' \subseteq InPlay
    BY <2>1, <2>3 DEF InPlay, Pending, Elements
  <2> QED BY <2>2, <2>4, WindowShrinks DEF Ascending, Before
<1>6. ASSUME NEW f \in Flushers, FlushIndex(f)
      PROVE  OneWindow' /\ Ascending(sorted, rtp)'
  <2>1. sorted' = <<>> /\ rtp' = rtp /\ packet' = packet
    BY <1>6 DEF FlushIndex
  <2>2. Elements(sorted') = {}
    BY <2>1 DEF Elements
  <2>3. InPlay' \subseteq InPlay
    BY <2>1, <2>2 DEF InPlay, Pending, Elements
  <2> QED BY <2>1, <2>3, WindowShrinks DEF Ascending
<1>7. CASE UNCHANGED <<sorted, rtp, packet>>
  <2>1. InPlay' = InPlay
    BY <1>7 DEF InPlay, Pending, Elements
  <2> QED BY <1>7, <2>1, WindowShrinks DEF Ascending, Before
<1>8. ASSUME NEW c \in Consumers,
             TakeToken(c) \/ TakeTimesOut(c) \/ TakeNothing(c) \/ ReturnFrame(c)
      PROVE  OneWindow' /\ Ascending(sorted, rtp)'
  BY <1>7, <1>8 DEF TakeToken, TakeTimesOut, TakeNothing, ReturnFrame, vars
<1>9. ASSUME NEW f \in Flushers, DrainToken(f) \/ DrainDone(f)
      PROVE  OneWindow' /\ Ascending(sorted, rtp)'
  BY <1>7, <1>9 DEF DrainToken, DrainDone
<1>10. CASE UNCHANGED vars
  BY <1>7, <1>10 DEF vars
<1> QED BY <1>1, <1>2, <1>3, <1>4, <1>5, <1>6, <1>8, <1>9, <1>10
        DEF Next, Produce, Consume, Flush

LEMMA AlwaysOrdered ==
  ASSUME OneProducer PROVE Spec => []OrderInv
<1>1. Init => OrderInv
  BY TypeInit, PoolInit, OrderInit DEF OrderInv, PoolInv
<1>2. OrderInv /\ [Next]_vars => OrderInv'
  BY TypeStep, PoolStep, OrderStep DEF OrderInv, PoolInv
<1> QED BY <1>1, <1>2, PTL DEF Spec

(* With one receive task, whose sender keeps within half the RTP range,    *)
(* the index stays in RTP order across the wrap of the clock, whatever is  *)
(* reordered, evicted, taken or flushed.                                   *)
THEOREM StaysSorted ==
  ASSUME OneProducer
  PROVE  Spec => []SortedByRtp
<1>1. OrderInv => SortedByRtp
  BY AscendingIsSorted DEF OrderInv, PoolInv, TypeInv
<1> QED BY <1>1, AlwaysOrdered, PTL

-----------------------------------------------------------------------------
(* The buffer implements FrameQueue.  What the tasks see of the pool:      *)
StampsOf(s, r) == [i \in 1 .. Len(s) |-> r[s[i]]]
Queue   == StampsOf(sorted, rtp)
Reading == [c \in Consumers |-> IF held[c] = NoSlot THEN NoSlot ELSE rtp[held[c]]]

LEMMA StampsAreSeq ==
  ASSUME NEW s \in Seq(Slots), NEW r \in [Slots -> Stamps]
  PROVE  /\ StampsOf(s, r) \in Seq(Stamps)
         /\ Len(StampsOf(s, r)) = Len(s)
         /\ \A i \in 1 .. Len(s) : StampsOf(s, r)[i] = r[s[i]]
<1> DEFINE n == Len(s)
           v(i) == r[s[i]]
<1>1. n \in Nat /\ \A i \in 1 .. n : v(i) \in Stamps
  OBVIOUS
<1>2. StampsOf(s, r) = [i \in 1 .. n |-> v(i)]
  BY DEF StampsOf
<1> HIDE DEF v, n
<1>3. StampsOf(s, r) \in Seq(Stamps) /\ Len(StampsOf(s, r)) = n
  BY <1>1, <1>2
<1>4. \A i \in 1 .. n : StampsOf(s, r)[i] = v(i)
  BY <1>2
<1> QED BY <1>3, <1>4 DEF v, n

LEMMA StampsOfTail ==
  ASSUME NEW s \in Seq(Slots), s # <<>>, NEW r \in [Slots -> Stamps]
  PROVE  /\ StampsOf(s, r) # <<>>
         /\ Head(StampsOf(s, r)) = r[Head(s)]
         /\ Tail(StampsOf(s, r)) = StampsOf(Tail(s), r)
<1> DEFINE a == StampsOf(s, r)
           b == StampsOf(Tail(s), r)
<1>1. /\ Len(s) \in Nat \ {0} /\ Head(s) = s[1]
      /\ Tail(s) \in Seq(Slots) /\ Len(Tail(s)) = Len(s) - 1
      /\ \A i \in 1 .. Len(s) - 1 : Tail(s)[i] = s[i + 1]
  OBVIOUS
<1>2. /\ a \in Seq(Stamps) /\ Len(a) = Len(s)
      /\ \A i \in 1 .. Len(s) : a[i] = r[s[i]]
  BY StampsAreSeq
<1>3. b \in Seq(Stamps) /\ Len(b) = Len(Tail(s))
      /\ \A i \in 1 .. Len(Tail(s)) : b[i] = r[Tail(s)[i]]
  <2> DEFINE u == Tail(s)
  <2>1. u \in Seq(Slots)
    BY <1>1
  <2> HIDE DEF u
  <2>2. /\ StampsOf(u, r) \in Seq(Stamps) /\ Len(StampsOf(u, r)) = Len(u)
        /\ \A i \in 1 .. Len(u) : StampsOf(u, r)[i] = r[u[i]]
    BY <2>1, StampsAreSeq
  <2> QED BY <2>2 DEF u
<1> HIDE DEF a, b
<1>4. a # <<>> /\ Head(a) = a[1] /\ 1 \in 1 .. Len(s)
  BY <1>1, <1>2
<1>5. /\ Tail(a) \in Seq(Stamps) /\ Len(Tail(a)) = Len(s) - 1
      /\ \A i \in 1 .. Len(s) - 1 : Tail(a)[i] = a[i + 1]
  BY <1>1, <1>2, <1>4
<1>6. \A i \in 1 .. Len(s) - 1 : i + 1 \in 1 .. Len(s)
  BY <1>1
<1>7. \A i \in 1 .. Len(s) - 1 : Tail(a)[i] = b[i]
  BY <1>1, <1>2, <1>3, <1>5, <1>6
<1>8. Tail(a) = b
  BY <1>1, <1>3, <1>5, <1>7, SeqEqual
<1> QED BY <1>1, <1>2, <1>4, <1>8 DEF a, b

(* FrameQueue's insertion, element by element.                             *)
LEMMA PutElements ==
  ASSUME NEW S, NEW s \in Seq(S), NEW g \in 0 .. Len(s), NEW x \in S
  PROVE  Promise!InsertAt(s, g + 1, x) = InsertAfter(s, g, x)
<1> DEFINE front == SubSeq(s, 1, g)
           back  == SubSeq(s, g + 1, Len(s))
           put   == front \o <<x>>
           all   == put \o back
<1>1. /\ (g + 1) - 1 = g /\ g \in Nat /\ g + 1 \in Int /\ Len(s) \in Nat
      /\ \A i \in 1 .. g : s[i] \in S
      /\ \A i \in g + 1 .. Len(s) : s[i] \in S
      /\ <<x>> \in Seq(S) /\ Len(<<x>>) = 1 /\ <<x>>[1] = x
  OBVIOUS
<1>2. front \in Seq(S) /\ Len(front) = g /\ \A i \in 1 .. g : front[i] = s[i]
  BY <1>1, SubSeqProperties
<1>3. /\ back \in Seq(S) /\ Len(back) = Len(s) - g
      /\ \A i \in 1 .. Len(s) - g : back[i] = s[g + i]
  BY <1>1, SubSeqProperties
<1>4. Promise!InsertAt(s, g + 1, x) = all
  BY <1>1, Zenon DEF Promise!InsertAt
<1> HIDE DEF front, back
<1>5. /\ put \in Seq(S) /\ Len(put) = g + 1
      /\ \A i \in 1 .. g + 1 : put[i] = IF i <= g THEN front[i] ELSE <<x>>[i - g]
  BY <1>1, <1>2, ConcatProperties
<1> HIDE DEF put
<1>6. /\ all \in Seq(S) /\ Len(all) = Len(s) + 1
      /\ \A i \in 1 .. Len(s) + 1 :
           all[i] = IF i <= g + 1 THEN put[i] ELSE back[i - (g + 1)]
  BY <1>1, <1>3, <1>5, ConcatProperties
<1> HIDE DEF all
<1>7. \A i \in 1 .. Len(s) + 1 :
        all[i] = IF i <= g THEN s[i] ELSE IF i = g + 1 THEN x ELSE s[i - 1]
  <2> SUFFICES ASSUME NEW i \in 1 .. Len(s) + 1
               PROVE  all[i] = IF i <= g THEN s[i] ELSE IF i = g + 1 THEN x ELSE s[i - 1]
    OBVIOUS
  <2>1. CASE i <= g
    <3>1. i \in 1 .. g /\ i \in 1 .. g + 1 /\ i <= g + 1
      BY <2>1, <1>1
    <3> QED BY <3>1, <2>1, <1>2, <1>5, <1>6
  <2>2. CASE i = g + 1
    <3>1. i \in 1 .. g + 1 /\ ~(i <= g) /\ i - g = 1 /\ i <= g + 1
      BY <2>2, <1>1
    <3> QED BY <3>1, <2>2, <1>1, <1>5, <1>6
  <2>3. CASE i > g + 1
    <3>1. /\ i - (g + 1) \in 1 .. Len(s) - g /\ ~(i <= g + 1) /\ ~(i <= g) /\ i # g + 1
          /\ g + (i - (g + 1)) = i - 1
      BY <2>3, <1>1
    <3> QED BY <3>1, <1>3, <1>6
  <2> QED BY <2>1, <2>2, <2>3, <1>1
<1>8. all = [i \in 1 .. Len(s) + 1 |->
               IF i <= g THEN s[i] ELSE IF i = g + 1 THEN x ELSE s[i - 1]]
  BY <1>1, <1>6, <1>7
<1> QED BY <1>4, <1>8 DEF InsertAfter

(* Storing a frame in a slot that nothing else uses enters its stamp.      *)
LEMMA StampsOfInsert ==
  ASSUME NEW s \in Seq(Slots), NEW g \in 0 .. Len(s), NEW x \in Slots,
         x \notin Elements(s),
         NEW r \in [Slots -> Stamps], NEW r2 \in [Slots -> Stamps],
         \A e \in Slots : e # x => r2[e] = r[e]
  PROVE  StampsOf(InsertAfter(s, g, x), r2) = InsertAfter(StampsOf(s, r), g, r2[x])
<1> DEFINE n == InsertAfter(s, g, x)
           a == StampsOf(n, r2)
           q == StampsOf(s, r)
           b == InsertAfter(q, g, r2[x])
<1>1. /\ n \in Seq(Slots) /\ Len(n) = Len(s) + 1 /\ Len(s) \in Nat
      /\ \A i \in 1 .. Len(s) + 1 :
           n[i] = IF i <= g THEN s[i] ELSE IF i = g + 1 THEN x ELSE s[i - 1]
  <2>1. n \in Seq(Slots) /\ Len(n) = Len(s) + 1
    BY InsertIsSeq
  <2>2. \A i \in 1 .. Len(s) + 1 :
          n[i] = IF i <= g THEN s[i] ELSE IF i = g + 1 THEN x ELSE s[i - 1]
    BY DEF InsertAfter
  <2> QED BY <2>1, <2>2
<1>2. q \in Seq(Stamps) /\ Len(q) = Len(s) /\ \A i \in 1 .. Len(s) : q[i] = r[s[i]]
  BY StampsAreSeq
<1> HIDE DEF n, q
<1>3. a \in Seq(Stamps) /\ Len(a) = Len(s) + 1 /\ \A i \in 1 .. Len(s) + 1 : a[i] = r2[n[i]]
  BY <1>1, StampsAreSeq
<1>4. /\ b \in Seq(Stamps) /\ Len(b) = Len(s) + 1
      /\ \A i \in 1 .. Len(s) + 1 :
           b[i] = IF i <= g THEN q[i] ELSE IF i = g + 1 THEN r2[x] ELSE q[i - 1]
  BY <1>2, InsertIsSeq
<1>5. \A i \in 1 .. Len(s) : r2[s[i]] = r[s[i]]
  BY DEF Elements
<1> HIDE DEF a, b
<1>6. ASSUME NEW i \in 1 .. Len(s) + 1 PROVE a[i] = b[i]
  <2>1. CASE i <= g
    <3>1. i \in 1 .. Len(s)
      BY <2>1, <1>1
    <3> QED BY <3>1, <2>1, <1>1, <1>2, <1>3, <1>4, <1>5
  <2>2. CASE i = g + 1
    <3>1. ~(i <= g)
      BY <2>2
    <3> QED BY <3>1, <2>2, <1>1, <1>3, <1>4
  <2>3. CASE i > g + 1
    <3>1. i - 1 \in 1 .. Len(s) /\ ~(i <= g) /\ i # g + 1
      BY <2>3, <1>1
    <3>2. n[i] = s[i - 1] /\ b[i] = q[i - 1]
      BY <3>1, <1>1, <1>4
    <3> QED BY <3>1, <3>2, <1>2, <1>3, <1>5
  <2> QED BY <2>1, <2>2, <2>3, <1>1
<1>7. a = b
  BY <1>3, <1>4, <1>6, SeqEqual
<1> QED BY <1>7 DEF a, b, n, q

LEMMA StoreImplements ==
  ASSUME OrderInv, OrderInv', NEW p \in Producers, StoreChunk(p),
         NEW t \in Stamps, t = packet[p].ts
  PROVE  Promise!Put(t)
<1> USE DEF OrderInv, PoolInv, TypeInv
<1> DEFINE q == AfterEviction.sorted
           k == StampsOf(q, rtp)
<1>1. PICK g \in 0 .. Len(q), slot \in Slots :
        /\ sorted' = InsertAfter(q, g, slot)
        /\ slot \notin Elements(q)
        /\ \A c \in Consumers : held[c] # slot
        /\ rtp'[slot] = t
        /\ \A s \in Slots : s # slot => rtp'[s] = rtp[s]
        /\ \A i \in 1 .. g : Before(rtp[q[i]], t)
        /\ \A i \in g + 1 .. Len(q) : ~Before(rtp[q[i]], t)
  BY StoredInOrder
<1>2. /\ q \in Seq(Slots) /\ rtp \in [Slots -> Stamps] /\ rtp' \in [Slots -> Stamps]
      /\ t \in Stamps /\ held' = held /\ sorted \in Seq(Slots) /\ Capacity \in Nat \ {0}
      /\ held \in [Consumers -> Slots \cup {NoSlot}]
  BY EvictionTyped DEF StoreChunk, TypeOK
<1>3. /\ k \in Seq(Stamps) /\ Len(k) = Len(q) /\ \A i \in 1 .. Len(q) : k[i] = rtp[q[i]]
  BY <1>2, StampsAreSeq
<1>4. Promise!Kept = k
  <2>1. /\ Queue \in Seq(Stamps) /\ Len(Queue) = Len(sorted)
        /\ sorted # <<>> => Tail(Queue) = StampsOf(Tail(sorted), rtp)
    BY <1>2, StampsAreSeq, StampsOfTail DEF Queue
  <2>2. Promise!Kept = IF Len(Queue) >= Capacity THEN Tail(Queue) ELSE Queue
    BY DEF Promise!Kept, Queue, StampsOf
  <2>3. CASE Evicting
    <3>1. Len(Queue) >= Capacity /\ sorted # <<>> /\ q = Tail(sorted)
      BY <1>2, <2>1, <2>3 DEF Evicting, AfterEviction
    <3> QED BY <2>1, <2>2, <3>1
  <2>4. CASE ~Evicting
    <3>1. ~(Len(Queue) >= Capacity) /\ q = sorted
      BY <2>1, <2>4 DEF Evicting, AfterEviction
    <3> QED BY <2>2, <3>1 DEF Queue
  <2> QED BY <2>3, <2>4
<1> HIDE DEF q, k
<1>5. StampsOf(sorted', rtp') = Promise!InsertAt(k, g + 1, t)
  <2>1. StampsOf(InsertAfter(q, g, slot), rtp') = InsertAfter(k, g, rtp'[slot])
    BY <1>1, <1>2, StampsOfInsert DEF k
  <2>2. Promise!InsertAt(k, g + 1, t) = InsertAfter(k, g, t)
    BY <1>2, <1>3, PutElements
  <2> QED BY <1>1, <2>1, <2>2
<1>6. /\ \A i \in 1 .. g : <<k[i], t>> \in {e \in Stamps \X Stamps : Before(e[1], e[2])}
      /\ \A i \in g + 1 .. Len(k) :
           <<k[i], t>> \notin {e \in Stamps \X Stamps : Before(e[1], e[2])}
  <2>1. \A i \in 1 .. g : i \in 1 .. Len(q) /\ k[i] \in Stamps
    BY <1>2, <1>3
  <2>2. \A i \in g + 1 .. Len(q) : i \in 1 .. Len(q)
    BY <1>2
  <2> QED BY <1>1, <1>2, <1>3, <2>1, <2>2
<1>7. Reading' = Reading
  BY <1>1, <1>2 DEF Reading
<1>8. g \in 0 .. Len(k)
  BY <1>3
<1> QED BY <1>4, <1>5, <1>6, <1>7, <1>8 DEF Promise!Put, Reading, StampsOf

LEMMA TakeImplements ==
  ASSUME OrderInv, NEW c \in Consumers, TakeFrame(c)
  PROVE  Promise!TakeFirst(c)
<1> USE DEF OrderInv, PoolInv, TypeInv
<1>1. /\ sorted # <<>> /\ sorted \in Seq(Slots) /\ rtp \in [Slots -> Stamps]
      /\ held \in [Consumers -> Slots \cup {NoSlot}] /\ Head(sorted) \in Slots
      /\ held' = [held EXCEPT ![c] = Head(sorted)]
      /\ sorted' = Tail(sorted) /\ rtp' = rtp /\ held[c] = NoSlot
  BY DEF TakeFrame, TypeOK, Goto, HoldsWhileHeld
<1>2. Queue # <<>> /\ Head(Queue) = rtp[Head(sorted)] /\ Tail(Queue) = Queue'
  <2>1. Queue # <<>> /\ Head(Queue) = rtp[Head(sorted)]
        /\ Tail(Queue) = StampsOf(Tail(sorted), rtp)
    BY <1>1, StampsOfTail DEF Queue
  <2> QED BY <1>1, <2>1 DEF Queue
<1>3. Reading[c] = NoSlot /\ Reading' = [Reading EXCEPT ![c] = rtp[Head(sorted)]]
  BY <1>1 DEF Reading
<1> QED BY <1>2, <1>3 DEF Promise!TakeFirst, Queue, Reading, StampsOf

LEMMA ReturnImplements ==
  ASSUME OrderInv, NEW c \in Consumers, ReturnFrame(c)
  PROVE  Promise!GiveBack(c)
<1>1. /\ held \in [Consumers -> Slots \cup {NoSlot}]
      /\ held' = [held EXCEPT ![c] = NoSlot] /\ sorted' = sorted /\ rtp' = rtp
  BY DEF ReturnFrame, OrderInv, PoolInv, TypeInv, TypeOK
<1>2. Reading' = [Reading EXCEPT ![c] = NoSlot] /\ Queue' = Queue
  BY <1>1 DEF Reading, Queue, StampsOf
<1> QED BY <1>2 DEF Promise!GiveBack, Queue, Reading, StampsOf

LEMMA FlushImplements ==
  ASSUME NEW f \in Flushers, FlushIndex(f)
  PROVE  Promise!Flush
<1>1. sorted' = <<>> /\ rtp' = rtp /\ held' = held
  BY DEF FlushIndex
<1>2. Queue' = <<>> /\ Reading' = Reading
  BY <1>1 DEF Reading, Queue, StampsOf
<1> QED BY <1>2 DEF Promise!Flush, Queue, Reading, StampsOf

(* The pool of slots plays the queue of FrameQueue: a frame goes behind    *)
(* all earlier ones and before all later ones, it displaces the earliest   *)
(* one when there is no room, and nobody changes a frame that is being     *)
(* read, whatever is reordered, reused or flushed meanwhile                *)
(* (audio_buffer_queue_chunk, _take, _return and _flush).                  *)
THEOREM QueueImplemented ==
  ASSUME OneProducer
  PROVE  Spec => ImplementsQueue
<1>1. Init => Promise!Init
  BY DEF Init, Promise!Init
<1>2. ASSUME OrderInv, OrderInv', [Next]_vars PROVE [Promise!Next]_(Promise!vars)
  <2>1. CASE UNCHANGED <<sorted, rtp, held>>
    BY <2>1 DEF Promise!vars
  <2>2. ASSUME NEW p \in Producers, StoreChunk(p) PROVE Promise!Next
    <3>1. PICK t \in Stamps : t = packet[p].ts
      BY <1>2 DEF OrderInv, PoolInv, TypeInv, TypeOK
    <3>2. Promise!Put(t)
      BY <1>2, <2>2, <3>1, StoreImplements
    <3> QED BY <3>2 DEF Promise!Next
  <2>3. ASSUME NEW p \in Producers, Produce(p) PROVE [Promise!Next]_(Promise!vars)
    BY <2>1, <2>2, <2>3 DEF Produce, ReceivePacket, RefuseChunk, GiveToken
  <2>4. ASSUME NEW c \in Consumers, Consume(c) PROVE [Promise!Next]_(Promise!vars)
    <3>1. CASE TakeFrame(c) \/ ReturnFrame(c)
      BY <1>2, <3>1, TakeImplements, ReturnImplements DEF Promise!Next
    <3>2. CASE TakeToken(c) \/ TakeTimesOut(c) \/ TakeNothing(c)
      BY <2>1, <3>2 DEF TakeToken, TakeTimesOut, TakeNothing, vars
    <3> QED BY <2>4, <3>1, <3>2 DEF Consume
  <2>5. ASSUME NEW f \in Flushers, Flush(f) PROVE [Promise!Next]_(Promise!vars)
    <3>1. CASE FlushIndex(f)
      BY <3>1, FlushImplements DEF Promise!Next
    <3>2. CASE DrainToken(f) \/ DrainDone(f)
      BY <2>1, <3>2 DEF DrainToken, DrainDone
    <3> QED BY <2>5, <3>1, <3>2 DEF Flush
  <2>6. CASE UNCHANGED vars
    BY <2>1, <2>6 DEF vars
  <2> QED BY <1>2, <2>3, <2>4, <2>5, <2>6 DEF Next
<1> QED BY <1>1, <1>2, AlwaysOrdered, PTL DEF Spec, ImplementsQueue, Promise!Spec

-----------------------------------------------------------------------------
(* Back-pressure.  Slots are conserved, and a throttled producer starts a  *)
(* packet with room for all of its chunks.                                 *)
Lent == {c \in Consumers : held[c] # NoSlot}
Room == /\ IsFiniteSet(Consumers)
        /\ PacketChunks + Cardinality(Consumers)
             <= Capacity - ((Capacity * 9) \div 10)

SlotsConserved == Len(sorted) + Len(free_stack) + Cardinality(Lent) = Capacity
PacketFits ==
  \A p \in Throttled :
    /\ pc[p] = "queue" => Len(sorted) + packet[p].left
                            <= ((Capacity * 9) \div 10) + PacketChunks
    /\ pc[p] = "give"  => Len(sorted) + packet[p].left - 1
                            <= ((Capacity * 9) \div 10) + PacketChunks
RoomInv == TypeInv /\ SlotsConserved /\ PacketFits

LEMMA NinetyPercent == (Capacity * 9) \div 10 \in Nat
BY SMT

LEMMA LentFinite ==
  ASSUME IsFiniteSet(Consumers)
  PROVE  /\ IsFiniteSet(Lent)
         /\ Cardinality(Lent) \in Nat
         /\ Cardinality(Consumers) \in Nat
         /\ Cardinality(Lent) <= Cardinality(Consumers)
BY FS_Subset, FS_CardinalityType DEF Lent

LEMMA RoomInit ==
  ASSUME Room, Init
  PROVE  SlotsConserved /\ PacketFits
<1>1. Lent = {}
  BY DEF Init, Lent
<1>2. Cardinality(Lent) = 0
  BY <1>1, FS_EmptySet
<1>3. Len(sorted) = 0 /\ Len(free_stack) = Capacity
  BY DEF Init
<1> QED BY <1>2, <1>3 DEF Init, SlotsConserved, PacketFits, Tasks

(* With a packet that fits, a throttled producer finds a slot.             *)
LEMMA FitsMeansRoom ==
  ASSUME Room, RoomInv
  PROVE  ThrottledNeverLoses
<1> SUFFICES ASSUME NEW p \in Throttled, pc[p] = "queue"
             PROVE  ~Evicting /\ free_stack # <<>>
  BY DEF ThrottledNeverLoses
<1> DEFINE most == (Capacity * 9) \div 10
           n == packet[p].left
           a == Len(sorted)
           b == Len(free_stack)
           k == Cardinality(Lent)
           m == Cardinality(Consumers)
<1>1. n \in Nat \ {0} /\ a \in Nat /\ b \in Nat
  BY DEF RoomInv, TypeInv, TypeOK, QueueingHasChunk
<1>2. a + n <= most + PacketChunks
  BY DEF RoomInv, PacketFits
<1>3. k \in Nat /\ m \in Nat /\ k <= m
  BY LentFinite DEF Room
<1>4. most \in Nat
  BY NinetyPercent
<1>5. PacketChunks + m <= Capacity - most
  BY DEF Room
<1>6. a + b + k = Capacity
  BY DEF RoomInv, SlotsConserved
<1>7. Evicting <=> a >= Capacity
  BY DEF Evicting
<1>8. b > 0 => free_stack # <<>>
  OBVIOUS
<1> HIDE DEF most, n, a, b, k, m
<1>9. a < Capacity /\ b > 0
  BY <1>1, <1>2, <1>3, <1>4, <1>5, <1>6
<1> QED BY <1>1, <1>7, <1>8, <1>9

LEMMA RoomStep ==
  ASSUME OneProducer, Room, RoomInv, [Next]_vars
  PROVE  SlotsConserved' /\ PacketFits'
<1> USE DEF RoomInv, TypeInv
<1> DEFINE most == ((Capacity * 9) \div 10) + PacketChunks
<1>0. /\ most \in Nat /\ (Capacity * 9) \div 10 \in Nat
      /\ Len(sorted) \in Nat /\ Len(free_stack) \in Nat
      /\ IsFiniteSet(Lent) /\ Cardinality(Lent) \in Nat
  BY NinetyPercent, LentFinite DEF Room, TypeOK
<1> HIDE DEF most
<1>1. ASSUME NEW p \in Producers, ReceivePacket(p)
      PROVE  SlotsConserved' /\ PacketFits'
  <2>1. PICK t \in Stamps, n \in 1 .. PacketChunks :
          packet' = [packet EXCEPT ![p] = [ts |-> t, left |-> n]]
    BY <1>1 DEF ReceivePacket
  <2>2. /\ UNCHANGED <<sorted, free_stack, held>> /\ pc' = [pc EXCEPT ![p] = "queue"]
        /\ p \in Throttled => Len(sorted) <= (Capacity * 9) \div 10
    BY <1>1, <1>0 DEF ReceivePacket, Goto, NearlyFull
  <2>3. packet'[p].left = n /\ pc'[p] = "queue"
    BY <2>1, <2>2 DEF TypeOK, Tasks
  <2>4. PacketFits'
    BY <2>2, <2>3, <1>0 DEF PacketFits, OneProducer, most
  <2> QED BY <2>2, <2>4 DEF SlotsConserved, Lent
<1>2. ASSUME NEW p \in Producers, StoreChunk(p)
      PROVE  SlotsConserved' /\ PacketFits'
  <2> DEFINE f == AfterEviction.free
             q == AfterEviction.sorted
             slot == f[Len(f)]
  <2>1. /\ f # <<>> /\ f \in Seq(Slots) /\ q \in Seq(Slots)
        /\ free_stack' = Front(f)
        /\ pc' = [pc EXCEPT ![p] = "give"] /\ pc[p] = "queue"
        /\ UNCHANGED <<held, packet>>
    BY <1>2, EvictionTyped DEF StoreChunk, Front, Goto
  <2>2. PICK g \in InsertGaps(q, packet[p].ts) :
          sorted' = InsertAfter(q, g, slot)
    BY <1>2 DEF StoreChunk
  <2>3. /\ Len(q) \in Nat /\ Len(f) \in Nat
        /\ Len(q) + Len(f) = Len(sorted) + Len(free_stack)
        /\ ~Evicting => Len(q) = Len(sorted)
    <3>1. CASE Evicting
      <4>1. sorted # <<>> /\ Head(sorted) \in Slots
        BY <3>1 DEF Evicting, TypeOK
      <4>2. q = Tail(sorted) /\ f = Append(free_stack, Head(sorted))
        BY <3>1 DEF AfterEviction
      <4> QED BY <3>1, <4>1, <4>2 DEF TypeOK
    <3>2. CASE ~Evicting
      BY <3>2, <1>0 DEF AfterEviction
    <3> QED BY <3>1, <3>2
  <2>4. g \in 0 .. Len(q)
    BY DEF InsertGaps
  <2> HIDE DEF f, q
  <2>5. Len(free_stack') = Len(f) - 1 /\ slot \in Slots
    BY <2>1, FrontElements
  <2> HIDE DEF slot
  <2>6. Len(sorted') = Len(q) + 1
    BY <2>1, <2>2, <2>4, <2>5, InsertIsSeq
  <2>7. SlotsConserved'
    BY <1>0, <2>1, <2>3, <2>5, <2>6 DEF SlotsConserved, Lent
  <2>8. ASSUME NEW d \in Throttled
        PROVE  /\ pc'[d] = "give" /\ pc'[d] # "queue"
               /\ Len(sorted') + packet'[d].left - 1 <= most
    <3>1. d = p
      BY DEF OneProducer
    <3>2. ~Evicting
      BY <2>1, <3>1, FitsMeansRoom DEF ThrottledNeverLoses
    <3>3. Len(sorted) + packet[p].left <= most
      BY <2>1, <3>1 DEF PacketFits, most
    <3>4. pc'[d] = "give" /\ packet'[d].left = packet[p].left /\ packet[p].left \in Nat
      BY <2>1, <3>1 DEF TypeOK, Tasks
    <3> QED BY <1>0, <2>3, <2>6, <3>2, <3>3, <3>4
  <2>9. PacketFits'
    BY <2>8 DEF PacketFits, most
  <2> QED BY <2>7, <2>9
<1>3. ASSUME NEW p \in Producers, RefuseChunk(p)
      PROVE  SlotsConserved' /\ PacketFits'
  <2>1. /\ UNCHANGED <<sorted, free_stack, held>> /\ pc' = [pc EXCEPT ![p] = "idle"]
    BY <1>3 DEF RefuseChunk, Goto
  <2>2. \A d \in Throttled : pc'[d] = "idle"
    BY <2>1 DEF OneProducer, TypeOK, Tasks
  <2> QED BY <2>1, <2>2 DEF SlotsConserved, PacketFits, Lent
<1>4. ASSUME NEW p \in Producers, GiveToken(p)
      PROVE  SlotsConserved' /\ PacketFits'
  <2>1. /\ UNCHANGED <<sorted, free_stack, held>>
        /\ pc[p] = "give" /\ pc'[p] \in {"queue", "idle"}
        /\ packet' = [packet EXCEPT
                        ![p] = [ts   |-> (packet[p].ts + 1) % RtpModulus,
                                left |-> packet[p].left - 1]]
    BY <1>4 DEF GiveToken, Goto, TypeOK, Tasks
  <2>2. packet'[p].left = packet[p].left - 1 /\ packet[p].left \in Nat
    BY <2>1 DEF TypeOK
  <2>3. PacketFits'
    BY <1>0, <2>1, <2>2 DEF PacketFits, OneProducer
  <2> QED BY <2>1, <2>3 DEF SlotsConserved, Lent
<1>5. ASSUME NEW c \in Consumers, TakeFrame(c)
      PROVE  SlotsConserved' /\ PacketFits'
  <2>1. /\ sorted # <<>> /\ sorted' = Tail(sorted) /\ free_stack' = free_stack
        /\ held' = [held EXCEPT ![c] = Head(sorted)] /\ held[c] = NoSlot
        /\ Head(sorted) \in Slots /\ packet' = packet
        /\ pc' = [pc EXCEPT ![c] = "held"]
    BY <1>5 DEF TakeFrame, Goto, TypeOK, HoldsWhileHeld
  <2>2. Len(sorted') = Len(sorted) - 1 /\ Len(sorted) > 0
    BY <2>1 DEF TypeOK
  <2>3. Lent' = Lent \cup {c} /\ c \notin Lent
    BY <2>1 DEF Lent, TypeOK
  <2>4. Cardinality(Lent') = Cardinality(Lent) + 1
    BY <1>0, <2>3, FS_AddElement
  <2>5. SlotsConserved'
    BY <1>0, <2>1, <2>2, <2>4 DEF SlotsConserved
  <2>6. Len(sorted') < Len(sorted) /\ Len(sorted') \in Nat
    BY <1>0, <2>2
  <2>7. \A d \in Throttled : pc'[d] = pc[d] /\ packet[d].left \in Nat
    BY <2>1 DEF TypeOK
  <2>8. PacketFits'
    <3> SUFFICES ASSUME NEW d \in Throttled
                 PROVE  /\ pc'[d] = "queue" => Len(sorted') + packet'[d].left <= most
                        /\ pc'[d] = "give" => Len(sorted') + packet'[d].left - 1 <= most
      BY DEF PacketFits, most
    <3>1. /\ pc[d] = "queue" => Len(sorted) + packet[d].left <= most
          /\ pc[d] = "give" => Len(sorted) + packet[d].left - 1 <= most
      BY DEF PacketFits, most
    <3>2. pc'[d] = pc[d] /\ packet'[d] = packet[d] /\ packet[d].left \in Nat
      BY <2>1, <2>7
    <3> QED BY <1>0, <2>6, <3>1, <3>2
  <2> QED BY <2>5, <2>8
<1>6. ASSUME NEW c \in Consumers, ReturnFrame(c)
      PROVE  SlotsConserved' /\ PacketFits'
  <2>1. /\ sorted' = sorted /\ free_stack' = Append(free_stack, held[c])
        /\ held' = [held EXCEPT ![c] = NoSlot] /\ held[c] # NoSlot
        /\ held[c] \in Slots /\ packet' = packet
        /\ pc' = [pc EXCEPT ![c] = "idle"]
    BY <1>6 DEF ReturnFrame, Goto, TypeOK, HoldsWhileHeld
  <2>2. Len(free_stack') = Len(free_stack) + 1
    BY <2>1 DEF TypeOK
  <2>3. Lent' = Lent \ {c} /\ c \in Lent
    BY <2>1 DEF Lent, TypeOK
  <2>4. Cardinality(Lent') = Cardinality(Lent) - 1
    BY <1>0, <2>3, FS_RemoveElement
  <2>5. SlotsConserved'
    BY <1>0, <2>1, <2>2, <2>4 DEF SlotsConserved
  <2>6. \A d \in Throttled : pc'[d] = pc[d]
    BY <2>1 DEF TypeOK
  <2> QED BY <2>1, <2>5, <2>6 DEF PacketFits
<1>7. ASSUME NEW f \in Flushers, FlushIndex(f)
      PROVE  SlotsConserved' /\ PacketFits'
  <2>1. /\ sorted' = <<>> /\ free_stack' = free_stack \o sorted
        /\ UNCHANGED <<held, packet>> /\ pc' = [pc EXCEPT ![f] = "drain"]
    BY <1>7 DEF FlushIndex, Goto
  <2>2. Len(sorted') = 0 /\ Len(free_stack') = Len(free_stack) + Len(sorted)
    BY <2>1 DEF TypeOK
  <2>3. SlotsConserved'
    BY <1>0, <2>1, <2>2 DEF SlotsConserved, Lent
  <2>4. \A d \in Throttled : pc'[d] = pc[d] /\ packet[d].left \in Nat
    BY <2>1 DEF TypeOK
  <2>5. PacketFits'
    <3> SUFFICES ASSUME NEW d \in Throttled
                 PROVE  /\ pc'[d] = "queue" => Len(sorted') + packet'[d].left <= most
                        /\ pc'[d] = "give" => Len(sorted') + packet'[d].left - 1 <= most
      BY DEF PacketFits, most
    <3>1. /\ pc[d] = "queue" => Len(sorted) + packet[d].left <= most
          /\ pc[d] = "give" => Len(sorted) + packet[d].left - 1 <= most
      BY DEF PacketFits, most
    <3>2. pc'[d] = pc[d] /\ packet'[d] = packet[d] /\ packet[d].left \in Nat
      BY <2>1, <2>4
    <3> QED BY <1>0, <2>2, <3>1, <3>2
  <2> QED BY <2>3, <2>5
<1>8. ASSUME UNCHANGED <<sorted, free_stack, held, packet>>,
             \A d \in Throttled : pc'[d] = pc[d]
      PROVE  SlotsConserved' /\ PacketFits'
  BY <1>8 DEF SlotsConserved, PacketFits, Lent
<1>9. ASSUME NEW c \in Consumers, TakeToken(c) \/ TakeTimesOut(c) \/ TakeNothing(c)
      PROVE  SlotsConserved' /\ PacketFits'
  <2>1. UNCHANGED <<sorted, free_stack, held, packet>>
    BY <1>9 DEF TakeToken, TakeTimesOut, TakeNothing, vars
  <2>2. \A d \in Throttled : pc'[d] = pc[d]
    <3> SUFFICES ASSUME NEW d \in Throttled PROVE pc'[d] = pc[d]
      OBVIOUS
    <3>1. d # c /\ d \in Tasks
      BY DEF Tasks
    <3>2. CASE TakeToken(c)  BY <3>1, <3>2 DEF TakeToken, Goto, TypeOK
    <3>3. CASE TakeTimesOut(c)  BY <3>3 DEF TakeTimesOut, vars
    <3>4. CASE TakeNothing(c)  BY <3>1, <3>4 DEF TakeNothing, Goto, TypeOK
    <3> QED BY <1>9, <3>2, <3>3, <3>4
  <2> QED BY <1>8, <2>1, <2>2
<1>10. ASSUME NEW f \in Flushers, DrainToken(f) \/ DrainDone(f)
       PROVE  SlotsConserved' /\ PacketFits'
  <2>1. UNCHANGED <<sorted, free_stack, held, packet>>
    BY <1>10 DEF DrainToken, DrainDone
  <2>2. \A d \in Throttled : pc'[d] = pc[d]
    <3> SUFFICES ASSUME NEW d \in Throttled PROVE pc'[d] = pc[d]
      OBVIOUS
    <3>1. d # f /\ d \in Tasks
      BY DEF Tasks
    <3>2. CASE DrainToken(f)  BY <3>1, <3>2 DEF DrainToken, Goto, TypeOK
    <3>3. CASE DrainDone(f)  BY <3>1, <3>3 DEF DrainDone, Goto, TypeOK
    <3> QED BY <1>10, <3>2, <3>3
  <2> QED BY <1>8, <2>1, <2>2
<1>11. CASE UNCHANGED vars
  BY <1>8, <1>11 DEF vars
<1> QED BY <1>1, <1>2, <1>3, <1>4, <1>5, <1>6, <1>7, <1>9, <1>10, <1>11
        DEF Next, Produce, Consume, Flush

(* Waiting once per packet while the buffer is more than nine tenths full  *)
(* is enough: the receive task that does so never evicts a frame and never *)
(* drops one for want of a slot, as long as the last tenth of the buffer   *)
(* holds one packet and the frames in the hands of consumers.              *)
THEOREM ThrottlingIsEnough ==
  ASSUME OneProducer, Room
  PROVE  Spec => []ThrottledNeverLoses
<1>1. Init => RoomInv
  BY TypeInit, RoomInit DEF RoomInv
<1>2. RoomInv /\ [Next]_vars => RoomInv'
  BY TypeStep, RoomStep DEF RoomInv
<1>3. Spec => []RoomInv
  BY <1>1, <1>2, PTL DEF Spec
<1>4. RoomInv => ThrottledNeverLoses
  BY FitsMeansRoom
<1> QED BY <1>3, <1>4, PTL
=============================================================================
