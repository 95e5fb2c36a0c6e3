-------------------------- MODULE ResendWindowProofs --------------------------
(***************************************************************************)
(* Proofs about ResendWindow, for every size of the window and of the      *)
(* sequence numbers: the mask stands for missing packets, no packet is     *)
(* played twice, the latest gap stays wanted.  The network may do          *)
(* anything that Lifetime and History allow.                               *)
(***************************************************************************)
EXTENDS ResendWindow, TLAPS

(***************************************************************************)
(* Facts about arithmetic modulo m, for sequence numbers (2^16), which     *)
(* wrap.                                                                   *)
(***************************************************************************)
LEMMA ModSmall ==
  ASSUME NEW m \in Nat \ {0}, NEW d \in Int, -m < d, d < m
  PROVE  d % m = IF d >= 0 THEN d ELSE d + m
BY SMT

LEMMA DivMod ==
  ASSUME NEW m \in Nat \ {0}, NEW d \in Int
  PROVE  /\ d = m * (d \div m) + (d % m)
         /\ d % m \in 0 .. m - 1
         /\ d \div m \in Int
BY SMT

LEMMA NoSmallMultiple ==
  ASSUME NEW m \in Nat \ {0}, NEW k \in Int, -m < m * k, m * k < m
  PROVE  k = 0
<1>1. CASE k >= 1
  <2>1. m * k >= m  BY <1>1
  <2> QED BY <2>1
<1>2. CASE k <= -1
  <2>1. m * k <= -m  BY <1>2
  <2> QED BY <2>1
<1> QED BY <1>1, <1>2

(* Numbers that differ by a multiple of m have one remainder, ...          *)
LEMMA SameRemainder ==
  ASSUME NEW m \in Nat \ {0}, NEW x \in Int, NEW y \in Int, NEW k \in Int,
         x - y = m * k
  PROVE  x % m = y % m
<1> DEFINE a == x \div m
           b == y \div m
           r == x % m
           s == y % m
<1>1. x = m * a + r /\ r \in 0 .. m - 1 /\ a \in Int
  BY DivMod
<1>2. y = m * b + s /\ s \in 0 .. m - 1 /\ b \in Int
  BY DivMod
<1> HIDE DEF a, b, r, s
<1>3. m * a + r - (m * b + s) = m * k
  BY <1>1, <1>2
<1>4. m * (k - a + b) = r - s
  BY <1>1, <1>2, <1>3
<1>5. k - a + b = 0
  BY <1>1, <1>2, <1>4, NoSmallMultiple
<1>6. m * (k - a + b) = 0
  BY <1>5
<1>7. r = s
  BY <1>1, <1>2, <1>4, <1>6
<1> QED BY <1>7 DEF r, s

(* ... and within less than a turn of each other no two numbers do.        *)
LEMMA RemainderIsUnique ==
  ASSUME NEW m \in Nat \ {0}, NEW x \in Int, NEW y \in Int,
         x % m = y % m, x - y < m, y - x < m
  PROVE  x = y
<1> DEFINE a == x \div m
           b == y \div m
           r == x % m
<1>1. x = m * a + r /\ r \in 0 .. m - 1 /\ a \in Int
  BY DivMod
<1>2. y = m * b + r /\ b \in Int
  BY DivMod
<1> HIDE DEF a, b, r
<1>3. m * (a - b) = x - y
  BY <1>1, <1>2
<1>4. a - b = 0
  BY <1>1, <1>2, <1>3, NoSmallMultiple
<1>5. m * (a - b) = 0
  BY <1>4
<1> QED BY <1>3, <1>5

(* A remainder that is not near the top of the range is no more than the   *)
(* number, if the number is at most a little below zero.                   *)
LEMMA SmallRemainder ==
  ASSUME NEW m \in Nat \ {0}, NEW x \in Int, NEW l \in Nat,
         l < m, x >= -l, x % m < m - l
  PROVE  x >= x % m
<1> DEFINE q == x \div m
           r == x % m
<1>1. x = m * q + r /\ r \in 0 .. m - 1 /\ q \in Int
  BY DivMod
<1>2. x < 0 => r = x + m
  <2>1. SUFFICES ASSUME x < 0 PROVE r = x + m
    OBVIOUS
  <2>2. -m < x /\ x < m
    BY <2>1
  <2>3. x % m = IF x >= 0 THEN x ELSE x + m
    BY <2>2, ModSmall
  <2> QED BY <2>1, <2>3
<1>3. r < m - l
  OBVIOUS
<1> HIDE DEF q, r
<1>4. x >= 0
  BY <1>1, <1>2, <1>3
<1>5. q >= 0
  <2>1. SUFFICES ASSUME q <= -1 PROVE FALSE
    BY <1>1
  <2>2. m * q <= -m
    BY <1>1, <2>1
  <2> QED BY <1>1, <1>4, <2>2
<1>6. m * q >= 0
  BY <1>1, <1>5
<1>7. x >= r
  BY <1>1, <1>6
<1> QED BY <1>7 DEF r

(* Reducing a term of a sum or a difference first changes nothing.         *)
LEMMA RemainderOfSum ==
  ASSUME NEW m \in Nat \ {0}, NEW x \in Int, NEW y \in Int
  PROVE  ((x % m) + y) % m = (x + y) % m
<1> DEFINE q == x \div m
           r == x % m
<1>1. x = m * q + r /\ q \in Int /\ r \in Int
  BY DivMod
<1> HIDE DEF q, r
<1>2. (x + y) - (r + y) = m * q /\ x + y \in Int /\ r + y \in Int
  BY <1>1
<1>3. (r + y) % m = (x + y) % m
  BY <1>1, <1>2, SameRemainder
<1> QED BY <1>3 DEF r

LEMMA RemainderOfDifference ==
  ASSUME NEW m \in Nat \ {0}, NEW x \in Int, NEW y \in Int
  PROVE  (x - (y % m)) % m = (x - y) % m
<1> DEFINE q == y \div m
           r == y % m
<1>1. y = m * q + r /\ q \in Int /\ r \in Int
  BY DivMod
<1> HIDE DEF q, r
<1>2. (x - r) - (x - y) = m * q /\ x - y \in Int /\ x - r \in Int
  BY <1>1
<1>3. (x - r) % m = (x - y) % m
  BY <1>1, <1>2, SameRemainder
<1> QED BY <1>3 DEF r

-----------------------------------------------------------------------------

(***************************************************************************)
(* The inductive invariant.  While the window can be trusted the 16-bit    *)
(* variables are the remainders of the absolute numbers, wanted packets    *)
(* lie between the sender's oldest and the newest played, and the packet   *)
(* in hand is neither wanted nor played.  After an untrusted step nothing  *)
(* but the types remains, until the next reset.                            *)
(***************************************************************************)
Newer == pc \in {"track", "mask", "ask"}

Numbered ==
  /\ asked \subseteq {n \in FirstSent .. sent : n > sent - History}
  /\ IF rtp_sequence_valid THEN top \in Nat /\ top <= sent /\ last_seq = Seq16(top)
                           ELSE top = -1
  /\ \A n \in delivered : n <= top

InHand ==
  /\ pc = "recv" => packet = NONE
  /\ Newer => /\ rtp_sequence_valid
              /\ packet \in Nat /\ packet <= sent
              /\ gap \in 1 .. WindowBits /\ packet - gap > top
  /\ pc = "ask" => Gap \subseteq Wanted
  /\ pc = "retry" /\ packet # NONE =>
       packet <= top /\ packet \notin delivered /\ packet \notin Wanted

Windowed ==
  /\ mask # {} /\ pc # "mask" => 0 \in mask
  /\ mask # {} \/ pc = "mask" => first = Seq16(base)
  /\ pc = "mask" => base = packet - gap
  /\ \A n \in Wanted :
       /\ n \in Nat /\ n \notin delivered
       /\ IF pc \in {"mask", "ask"} THEN n < packet ELSE n < top

InReset == ~rtp_sequence_valid /\ delivered = {} /\ latest = {}

Trust ==
  /\ Clean /\ Numbered /\ InHand
  /\ IF rpc = "idle"
     THEN Windowed /\ latest \subseteq Wanted \union delivered \union {packet}
     ELSE InReset

Inv == TypeOK /\ (sound => Trust)
-----------------------------------------------------------------------------
(***************************************************************************)
(* Sequence numbers.                                                       *)
(***************************************************************************)
LEMMA Sizes ==
  /\ SeqModulus \in Nat \ {0} /\ Half \in Nat /\ SeqModulus = 2 * Half
  /\ WindowBits \in Nat \ {0} /\ Lifetime \in Nat \ {0}
  /\ Lifetime + WindowBits < Half
  /\ History \in 1 .. SeqModulus /\ FirstSent \in Nat /\ MaxSent \in Nat
  /\ NONE \notin Nat
<1>1. Half \in Int
  BY ModulusAssumption, DivMod DEF Half
<1> QED BY <1>1, ModulusAssumption, WindowAssumption, LifetimeAssumption, SenderAssumption

LEMMA SeqTyped == \A n \in Int : Seq16(n) \in Seqs
  BY Sizes, DivMod DEF Seq16, Seqs

(* The distance of two sequence numbers is that of their packets.          *)
LEMMA SeqDistance ==
  ASSUME NEW x \in Int, NEW y \in Int
  PROVE  Seq16(Seq16(x) - Seq16(y)) = Seq16(x - y)
<1> DEFINE r == x % SeqModulus
           z == 0 - y
<1>1. r \in Int /\ z \in Int /\ SeqModulus \in Nat \ {0}
  BY Sizes, DivMod
<1>2. (r - (y % SeqModulus)) % SeqModulus = (r - y) % SeqModulus
  BY <1>1, RemainderOfDifference
<1>3. (r + z) % SeqModulus = (x + z) % SeqModulus
  BY <1>1, RemainderOfSum
<1>4. r + z = r - y /\ x + z = x - y
  BY <1>1
<1> QED BY <1>2, <1>3, <1>4 DEF Seq16

LEMMA SeqSum ==
  ASSUME NEW x \in Int, NEW y \in Int
  PROVE  Seq16(Seq16(x) + y) = Seq16(x + y)
  BY Sizes, RemainderOfSum DEF Seq16

LEMMA DeltaTyped ==
  ASSUME NEW n \in Int, top \in Int, last_seq = Seq16(top)
  PROVE  Delta(n) \in Int
<1>1. Seq16(n) - (last_seq + 1) \in Int
  BY SeqTyped DEF Seqs
<1>2. \A x \in Int : Signed(x) \in Int
  BY Sizes, DivMod DEF Signed
<1> QED BY <1>1, <1>2 DEF Delta

(* A packet that is not negative in 16 bits is newer, by at least as much. *)
LEMMA NotLateIsNewer ==
  ASSUME NEW n \in Int, n <= sent, n > sent - Lifetime,
         sent \in Nat, top \in Nat, top <= sent, last_seq = Seq16(top),
         Delta(n) >= 0
  PROVE  Delta(n) \in Nat /\ n - Delta(n) > top
<1> DEFINE x == n - (top + 1)
           d == x % SeqModulus
<1>1. x \in Int /\ Seq16(top) \in Int /\ Seq16(n) \in Int /\ SeqModulus \in Nat \ {0}
  BY Sizes, SeqTyped DEF Seqs
<1>2. Seq16(Seq16(n) - (last_seq + 1)) = Seq16(x)
  <2>1. Seq16(Seq16(top) + 1) = Seq16(top + 1)
    BY SeqSum
  <2>2. Seq16(Seq16(n) - Seq16(top + 1)) = Seq16(x)
    BY SeqDistance
  <2>3. ASSUME NEW a \in Int, NEW b \in Int PROVE Seq16(a - Seq16(b)) = Seq16(a - b)
    BY <1>1, RemainderOfDifference DEF Seq16
  <2>4. Seq16(n) \in Int /\ Seq16(top) + 1 \in Int
    BY <1>1
  <2>5. Seq16(Seq16(n) - Seq16(Seq16(top) + 1)) = Seq16(Seq16(n) - (Seq16(top) + 1))
    BY <2>3, <2>4, Zenon
  <2> QED BY <2>1, <2>2, <2>5
<1>3. Delta(n) = IF d < Half THEN d ELSE d - SeqModulus
  BY <1>2 DEF Delta, Signed, Seq16
<1>4. d \in 0 .. SeqModulus - 1 /\ x = SeqModulus * (x \div SeqModulus) + d /\ x \div SeqModulus \in Int
  BY <1>1, DivMod
<1>5. d < Half /\ Delta(n) = d
  BY <1>3, <1>4, Sizes
<1>6. x >= d
  <2>1. x >= -Lifetime /\ d < SeqModulus - Lifetime
    BY <1>4, <1>5, Sizes
  <2> HIDE DEF x
  <2> QED BY <1>1, <2>1, Sizes, SmallRemainder
<1> QED BY <1>1, <1>4, <1>5, <1>6


(***************************************************************************)
(* The window while nothing resets it.                                     *)
(***************************************************************************)
LEMMA WantedWhenReceiving ==
  ASSUME TypeOK, Trust, rpc = "idle", pc # "mask"
  PROVE  /\ Wanted = {base + o : o \in mask}
         /\ mask # {} => /\ 0 \in mask /\ first = Seq16(base)
                         /\ base \in Wanted /\ sent - base < SeqModulus
<1>1. base \in Int
  BY DEF TypeOK
<1>2. Wanted = {base + o : o \in mask}
  BY DEF Wanted
<1>3. mask # {} => 0 \in mask /\ first = Seq16(base) /\ sent - base < SeqModulus
  BY DEF Trust, Windowed, Clean
<1>4. 0 \in mask => base + 0 \in Wanted /\ base + 0 = base
  BY <1>1, <1>2
<1> QED BY <1>2, <1>3, <1>4

(* Of the packets in reach only the wanted one has its sequence number.    *)
LEMMA WantedIsUnique ==
  ASSUME TypeOK, Trust, rpc = "idle", pc # "mask", NEW w \in Wanted,
         NEW n \in Int, n <= sent, n > sent - SeqModulus, Seq16(n) = Seq16(w)
  PROVE  n = w
<1>1. /\ base \in Int /\ sent \in Nat /\ mask \subseteq 0 .. WindowBits - 1
      /\ Wanted = {base + b : b \in mask}
      /\ sent - base < SeqModulus
  BY WantedWhenReceiving DEF TypeOK
<1>2. w \in Int /\ w >= base
  BY <1>1, Sizes
<1>3. w <= sent
  <2>1. CASE pc = "ask"
    <3>1. w < packet /\ packet \in Nat /\ packet <= sent
      BY <2>1 DEF Trust, Windowed, InHand, Newer
    <3> QED BY <1>1, <1>2, <3>1
  <2>2. CASE pc # "ask"
    <3>1. w \in Nat /\ w < top
      BY <2>2 DEF Trust, Windowed
    <3>2. top \in Nat /\ top <= sent
      BY <3>1 DEF Trust, Numbered
    <3> QED BY <1>1, <1>2, <3>1, <3>2
  <2> QED BY <2>1, <2>2
<1>4. n - w < SeqModulus /\ w - n < SeqModulus
  BY <1>1, <1>2, <1>3, Sizes
<1> QED BY <1>2, <1>4, Sizes, RemainderIsUnique DEF Seq16

(* A packet whose bit is set is the one the bit stands for.                *)
LEMMA FoundIsWanted ==
  ASSUME TypeOK, Trust, rpc = "idle", pc = "recv",
         NEW n \in Int, n <= sent, n > sent - SeqModulus,
         Seq16(Seq16(n) - first) \in mask
  PROVE  n = base + Seq16(Seq16(n) - first)
<1> DEFINE o == Seq16(Seq16(n) - first)
<1>1. /\ base \in Int /\ mask \subseteq 0 .. WindowBits - 1
      /\ Wanted = {base + b : b \in mask} /\ first = Seq16(base)
  BY WantedWhenReceiving DEF TypeOK
<1>2. o = Seq16(n - base)
  BY <1>1, SeqDistance
<1> HIDE DEF o
<1>3. o \in 0 .. WindowBits - 1 /\ base + o \in Wanted
  BY <1>1 DEF o
<1>4. Seq16(o + base) = Seq16((n - base) + base)
  BY <1>1, <1>2, SeqSum
<1>5. o + base = base + o /\ (n - base) + base = n
  BY <1>1, <1>3
<1>6. n = base + o
  BY <1>3, <1>4, <1>5, WantedIsUnique
<1> QED BY <1>6 DEF o

(* Taking a packet out of the window leaves the others in it.              *)
LEMMA MarkTakesOut ==
  ASSUME TypeOK, Trust, rpc = "idle", pc = "recv", pc' # "mask",
         NEW n \in Int, n <= sent, n > sent - SeqModulus, MarkReceived(n)
  PROVE  /\ n \in Wanted /\ Wanted' = Wanted \ {n}
         /\ mask' # {} => 0 \in mask' /\ first' = Seq16(base')
<1> DEFINE o == Seq16(Seq16(n) - first)
           left == mask \ {o}
<1>1. o \in mask /\ SlideWindow(o)
  BY DEF MarkReceived
<1>2. n = base + o
  BY <1>1, FoundIsWanted
<1>3. /\ base \in Int /\ mask \subseteq 0 .. WindowBits - 1
      /\ Wanted = {base + b : b \in mask}
      /\ Wanted' = {base' + b : b \in mask'}
      /\ first = Seq16(base)
  BY <1>1, WantedWhenReceiving DEF TypeOK, Wanted
<1> HIDE DEF o
<1>4. Wanted \ {n} = {base + b : b \in left}
  BY <1>1, <1>2, <1>3
<1>5. CASE left = {} /\ mask' = {} /\ UNCHANGED <<first, base>>
  BY <1>1, <1>2, <1>3, <1>4, <1>5
<1>6. ASSUME NEW low \in left, \A b \in left : low <= b,
             mask' = {b - low : b \in left},
             first' = Seq16(first + low), base' = base + low
      PROVE  /\ Wanted' = {base + b : b \in left}
             /\ 0 \in mask' /\ first' = Seq16(base')
  <2>1. left \subseteq mask /\ low \in mask /\ mask \subseteq 0 .. WindowBits - 1
    BY <1>3, <1>6
  <2> HIDE DEF left
  <2>2. left \subseteq 0 .. WindowBits - 1 /\ low \in Nat
    BY <2>1, Sizes
  <2>3. \A b \in left : base' + (b - low) = base + b
    BY <1>3, <1>6, <2>2
  <2>4. low - low = 0
    BY <2>2
  <2>5. 0 \in mask'
    BY <1>6, <2>4
  <2>6. Wanted' = {base + b : b \in left}
    BY <1>3, <1>6, <2>3
  <2>7. first' = Seq16(base')
    BY <1>3, <1>6, <2>2, SeqSum
  <2> QED BY <2>5, <2>6, <2>7
<1>7. \/ left = {} /\ mask' = {} /\ UNCHANGED <<first, base>>
      \/ \E low \in left :
           /\ \A b \in left : low <= b
           /\ mask' = {b - low : b \in left}
           /\ first' = Seq16(first + low)
           /\ base' = base + low
  BY <1>1 DEF SlideWindow
<1>8. n \in Wanted
  BY <1>1, <1>2, <1>3
<1> QED BY <1>4, <1>5, <1>6, <1>7, <1>8

(***************************************************************************)
(* Each action preserves the invariant.                                    *)
(***************************************************************************)
LEMMA TakenIsNewer ==
  ASSUME TypeOK, Trust, NEW n \in Packets, TakeNewer(n)
  PROVE  n > top
<1>1. /\ n \in Nat /\ n <= sent /\ n > sent - Lifetime /\ pc = "recv" /\ packet = NONE
      /\ sent \in Nat
  BY Sizes DEF TakeNewer, Arrives, Packets, Trust, InHand, TypeOK
<1>2. CASE ~rtp_sequence_valid
  BY <1>1, <1>2 DEF Trust, Numbered
<1>3. CASE rtp_sequence_valid
  <2>1. top \in Nat /\ top <= sent /\ last_seq = Seq16(top)
    BY <1>3 DEF Trust, Numbered
  <2>2. Delta(n) = 0 \/ Delta(n) > WindowBits
    BY <1>3 DEF TakeNewer
  <2>3. Delta(n) \in Int
    BY <1>1, <2>1, DeltaTyped
  <2>4. Delta(n) >= 0
    BY <2>2, <2>3, Sizes
  <2>5. Delta(n) \in Nat /\ n - Delta(n) > top
    BY <1>1, <2>1, <2>4, NotLateIsNewer
  <2> QED BY <1>1, <2>1, <2>5
<1> QED BY <1>2, <1>3

LEMMA TakeNewerSafe ==
  ASSUME TypeOK, Trust, NEW n \in Packets, TakeNewer(n), sound' = Clean'
  PROVE  Inv'
<1>1. /\ n \in Nat /\ n <= sent /\ n > sent - Lifetime /\ pc = "recv" /\ packet = NONE
      /\ sent \in Nat
  BY Sizes DEF TakeNewer, Arrives, Packets, Trust, InHand, TypeOK
<1>2. n > top
  BY TakenIsNewer
<1>3. TypeOK'
  BY <1>1, SeqTyped DEF TypeOK, TakeNewer, Clean, window, nackVars
<1>4. SUFFICES ASSUME Clean' PROVE Trust'
  BY <1>3 DEF Inv
<1>5. rpc = "idle" /\ rpc' = "idle"
  BY <1>4 DEF Clean, TakeNewer
<1>6. Wanted' = Wanted
  BY <1>1 DEF Wanted, TakeNewer, window
<1>7. \A w \in Wanted : w \in Nat /\ w \notin delivered /\ w < top
  BY <1>1, <1>5 DEF Trust, Windowed
<1>8. Numbered'
  BY <1>1, <1>2 DEF Trust, Numbered, TakeNewer, nackVars, TypeOK
<1>9. InHand'
  <2>1. \A d \in delivered : d <= top
    BY DEF Trust, Numbered
  <2>2. n \notin delivered /\ n \notin Wanted
    BY <1>1, <1>2, <1>7, <2>1 DEF TypeOK
  <2> QED BY <1>1, <1>6, <2>2 DEF InHand, Newer, TakeNewer
<1>10. Windowed'
  BY <1>1, <1>2, <1>5, <1>6, <1>7 DEF Trust, Windowed, TakeNewer, window, TypeOK
<1>11. (latest \subseteq Wanted \union delivered \union {packet})'
  BY <1>1, <1>5, <1>6, Sizes DEF Trust, TakeNewer, TypeOK
<1> QED BY <1>4, <1>5, <1>8, <1>9, <1>10, <1>11 DEF Trust

LEMMA FindGapSafe ==
  ASSUME TypeOK, Trust, NEW n \in Packets, FindGap(n), sound' = Clean'
  PROVE  Inv'
<1>1. /\ n \in Nat /\ n <= sent /\ n > sent - Lifetime /\ pc = "recv" /\ packet = NONE
      /\ sent \in Nat /\ top \in Nat /\ top <= sent /\ last_seq = Seq16(top)
  BY Sizes DEF FindGap, Arrives, Packets, Trust, InHand, Numbered, TypeOK
<1>2. gap' \in 1 .. WindowBits /\ n - gap' > top
  <2>1. Delta(n) \in 1 .. WindowBits /\ gap' = Delta(n)
    BY DEF FindGap
  <2>2. Delta(n) >= 0
    BY <2>1
  <2> QED BY <1>1, <2>1, <2>2, NotLateIsNewer
<1>3. TypeOK'
  BY <1>1, <1>2, Sizes DEF TypeOK, FindGap, Clean, rtpVars, window, nackVars, ghosts
<1>4. SUFFICES ASSUME Clean' PROVE Trust'
  BY <1>3 DEF Inv
<1>5. rpc = "idle" /\ rpc' = "idle"
  BY <1>4 DEF Clean, FindGap
<1>6. Wanted' = Wanted
  BY <1>1 DEF Wanted, FindGap, window, ghosts
<1>7. Numbered'
  BY DEF Trust, Numbered, FindGap, nackVars, rtpVars, ghosts
<1>8. InHand'
  BY <1>1, <1>2 DEF InHand, Newer, FindGap, rtpVars, ghosts
<1>9. Windowed'
  BY <1>1, <1>5, <1>6 DEF Trust, Windowed, FindGap, window, ghosts
<1>10. (latest \subseteq Wanted \union delivered \union {packet})'
  BY <1>1, <1>5, <1>6, Sizes DEF Trust, FindGap, TypeOK, ghosts
<1> QED BY <1>4, <1>5, <1>7, <1>8, <1>9, <1>10 DEF Trust

LEMMA SlideTyped ==
  ASSUME TypeOK, NEW o, SlideWindow(o)
  PROVE  /\ mask' \subseteq 0 .. WindowBits - 1 /\ first' \in Seqs /\ base' \in Int
         /\ requested' \in BOOLEAN
<1>1. /\ mask \subseteq 0 .. WindowBits - 1 /\ first \in Seqs /\ base \in Int
      /\ requested \in BOOLEAN
  BY DEF TypeOK
<1>2. requested' \in BOOLEAN
  BY <1>1 DEF SlideWindow
<1>3. ASSUME NEW low \in mask \ {o}, \A b \in mask \ {o} : low <= b,
             mask' = {b - low : b \in mask \ {o}},
             first' = Seq16(first + low), base' = base + low
      PROVE  mask' \subseteq 0 .. WindowBits - 1 /\ first' \in Seqs /\ base' \in Int
  <2>1. low \in Nat /\ \A b \in mask \ {o} : b - low \in 0 .. WindowBits - 1
    BY <1>1, <1>3, Sizes
  <2>2. mask' \subseteq 0 .. WindowBits - 1
    BY <1>3, <2>1
  <2>3. first + low \in Int /\ base' \in Int
    BY <1>1, <1>3, <2>1 DEF Seqs
  <2> QED BY <1>3, <2>2, <2>3, SeqTyped
<1>4. mask' = {} /\ UNCHANGED <<first, base>> =>
        mask' \subseteq 0 .. WindowBits - 1 /\ first' \in Seqs /\ base' \in Int
  BY <1>1
<1>5. \/ mask' = {} /\ UNCHANGED <<first, base>>
      \/ \E low \in mask \ {o} :
           /\ \A b \in mask \ {o} : low <= b
           /\ mask' = {b - low : b \in mask \ {o}}
           /\ first' = Seq16(first + low)
           /\ base' = base + low
  BY DEF SlideWindow
<1> QED BY <1>2, <1>3, <1>4, <1>5

(* A late packet and an answer differ only in where they come from.        *)
LEMMA MarkedSafe ==
  ASSUME TypeOK, Trust, NEW n \in Nat, n <= sent, n > sent - SeqModulus,
         pc = "recv", MarkReceived(n), packet' = n, pc' = "retry",
         UNCHANGED <<rtpVars, failed, asked, gap, sent, rpc, top, delivered, latest>>,
         sound' = Clean'
  PROVE  Inv'
<1>1. packet = NONE /\ n # NONE
  BY Sizes DEF Trust, InHand
<1>2. TypeOK'
  <2>1. /\ mask' \subseteq 0 .. WindowBits - 1 /\ first' \in Seqs /\ base' \in Int
        /\ requested' \in BOOLEAN
    BY SlideTyped DEF MarkReceived
  <2> QED BY <2>1 DEF TypeOK, rtpVars, Clean
<1>3. SUFFICES ASSUME Clean' PROVE Trust'
  BY <1>2 DEF Inv
<1>4. rpc = "idle" /\ rpc' = "idle"
  BY <1>3 DEF Clean
<1>5. n \in Wanted /\ Wanted' = Wanted \ {n}
  BY <1>4, MarkTakesOut
<1>6. mask' # {} => 0 \in mask' /\ first' = Seq16(base')
  BY <1>4, MarkTakesOut
<1>7. \A w \in Wanted : w \in Nat /\ w \notin delivered /\ w < top
  BY <1>4 DEF Trust, Windowed
<1>8. Numbered'
  BY DEF Trust, Numbered, rtpVars
<1>9. InHand'
  <2>1. n <= top /\ n \notin delivered
    BY <1>5, <1>7 DEF TypeOK
  <2> QED BY <1>5, <2>1 DEF InHand, Newer
<1>10. Windowed'
  BY <1>5, <1>6, <1>7 DEF Windowed
<1>11. (latest \subseteq Wanted \union delivered \union {packet})'
  <2>1. latest \subseteq Wanted \union delivered \union {packet} /\ latest \subseteq Nat
    BY <1>4 DEF Trust, TypeOK
  <2>2. latest' = latest /\ delivered' = delivered /\ packet' = n
    OBVIOUS
  <2> QED BY <1>1, <1>5, <2>1, <2>2, Sizes
<1> QED BY <1>3, <1>4, <1>8, <1>9, <1>10, <1>11 DEF Trust

LEMMA TakeLateSafe ==
  ASSUME TypeOK, Trust, NEW n \in Packets, TakeLate(n), sound' = Clean'
  PROVE  Inv'
<1>1. n \in Nat /\ sent \in Nat /\ n <= sent /\ n > sent - Lifetime /\ pc = "recv"
  BY Sizes DEF TakeLate, Arrives, Packets, TypeOK
<1>2. n > sent - SeqModulus
  BY <1>1, Sizes
<1> QED BY <1>1, <1>2, MarkedSafe DEF TakeLate

LEMMA TakeResentSafe ==
  ASSUME TypeOK, Trust, NEW n \in Packets, TakeResent(n), sound' = Clean'
  PROVE  Inv'
<1>1. n \in Nat /\ sent \in Nat /\ n <= sent /\ n > sent - History /\ pc = "recv"
  BY Sizes DEF TakeResent, Packets, TypeOK, Trust, Numbered
<1>2. n > sent - SeqModulus
  BY <1>1, Sizes
<1> QED BY <1>1, <1>2, MarkedSafe DEF TakeResent

(* A gap that fits joins the wanted packets, with no bit lost.             *)
LEMMA GapJoins ==
  ASSUME TypeOK, Trust, TrackMissing, JoinWindow
  PROVE  /\ Wanted' = Wanted \union Gap /\ Gap' = Gap
         /\ 0 \in mask' /\ first' = Seq16(base') /\ mask' \subseteq 0 .. WindowBits - 1
<1> DEFINE o == Seq16(Seq16(packet - gap) - first)
<1>1. /\ rpc = "idle" /\ rpc' = "idle" /\ pc = "track" /\ rtp_sequence_valid
      /\ packet \in Nat /\ packet <= sent /\ gap \in 1 .. WindowBits /\ packet - gap > top
      /\ packet - gap \in Int
  BY Sizes DEF TrackMissing, Trust, Clean, InHand, Newer
<1>2. /\ base \in Int /\ sent \in Nat /\ top \in Nat /\ top <= sent
      /\ mask \subseteq 0 .. WindowBits - 1
  BY <1>1 DEF Trust, Numbered, TypeOK
<1>3. /\ mask # {} /\ o + gap <= WindowBits
      /\ Wanted = {base + b : b \in mask} /\ base \in Wanted
      /\ 0 \in mask /\ first = Seq16(base) /\ sent - base < SeqModulus
  BY <1>1, WantedWhenReceiving DEF JoinWindow, Fits
<1>4. \A w \in Wanted : w \in Nat /\ w \notin delivered /\ w < top
  BY <1>1 DEF Trust, Windowed
<1>5. o = packet - gap - base
  <2> DEFINE x == packet - gap - base
  <2>1. o = x % SeqModulus
    BY <1>1, <1>2, <1>3, SeqDistance DEF Seq16
  <2>2. x \in Int /\ 0 <= x /\ x < SeqModulus /\ -SeqModulus < x
    BY <1>1, <1>2, <1>3, <1>4, Sizes
  <2> HIDE DEF x, o
  <2>3. o = x
    BY <2>1, <2>2, Sizes, ModSmall
  <2> QED BY <2>3 DEF x
<1> HIDE DEF o
<1>6. {b + o : b \in MaskForCount(gap)} = o .. (o + gap - 1)
  <2>1. MaskForCount(gap) = 0 .. gap - 1 /\ o \in Int /\ gap \in Nat
    BY <1>1, <1>2, <1>5, Sizes DEF MaskForCount
  <2>2. \A b \in o .. (o + gap - 1) : b - o \in 0 .. gap - 1 /\ (b - o) + o = b
    BY <2>1
  <2>3. \A b \in 0 .. gap - 1 : b + o \in o .. (o + gap - 1)
    BY <2>1
  <2> QED BY <2>1, <2>2, <2>3
<1>7. mask' = mask \union (o .. (o + gap - 1))
  <2>1. o .. (o + gap - 1) \subseteq 0 .. WindowBits - 1
    BY <1>1, <1>2, <1>3, <1>4, <1>5, Sizes
  <2>2. mask' = mask \union ((o .. (o + gap - 1)) \intersect 0 .. WindowBits - 1)
    BY <1>6 DEF JoinWindow, o
  <2> QED BY <2>1, <2>2
<1>8. Wanted' = Wanted \union Gap
  <2>1. Wanted' = {base + b : b \in mask'}
    BY DEF Wanted, JoinWindow
  <2>2. \A p \in Gap : p - base \in o .. (o + gap - 1) /\ base + (p - base) = p
    BY <1>1, <1>2, <1>5 DEF Gap
  <2>3. \A b \in o .. (o + gap - 1) : base + b \in Gap
    BY <1>1, <1>2, <1>5 DEF Gap
  <2> QED BY <1>3, <1>7, <2>1, <2>2, <2>3
<1>9. Gap' = Gap
  BY DEF Gap, TrackMissing
<1>10. 0 \in mask' /\ first' = Seq16(base') /\ mask' \subseteq 0 .. WindowBits - 1
  BY <1>2, <1>3, <1>7 DEF JoinWindow
<1> QED BY <1>8, <1>9, <1>10

LEMMA JoinWindowSafe ==
  ASSUME TypeOK, Trust, TrackMissing, JoinWindow, sound' = Clean'
  PROVE  Inv'
<1>1. /\ rpc = "idle" /\ rpc' = "idle" /\ pc = "track" /\ rtp_sequence_valid
      /\ packet \in Nat /\ packet <= sent /\ gap \in 1 .. WindowBits /\ packet - gap > top
  BY DEF TrackMissing, Trust, Clean, InHand, Newer
<1>2. top \in Nat
  BY <1>1 DEF Trust, Numbered
<1>3. /\ Wanted' = Wanted \union Gap /\ Gap' = Gap
      /\ 0 \in mask' /\ first' = Seq16(base') /\ mask' \subseteq 0 .. WindowBits - 1
  BY GapJoins
<1>4. \A w \in Wanted : w \in Nat /\ w \notin delivered /\ w < top
  BY <1>1 DEF Trust, Windowed
<1>5. \A p \in Gap : p \in Nat /\ p > top /\ p < packet
  BY <1>1, <1>2 DEF Gap
<1>6. TypeOK'
  <2>1. latest' \subseteq Nat
    BY <1>5 DEF JoinWindow
  <2> QED BY <1>3, <2>1 DEF TypeOK, TrackMissing, JoinWindow, Clean, rtpVars, nackVars
<1>7. SUFFICES ASSUME Clean' PROVE Trust'
  BY <1>6 DEF Inv
<1>8. Numbered'
  BY DEF Trust, Numbered, TrackMissing, rtpVars, nackVars
<1>9. InHand'
  BY <1>1, <1>3 DEF InHand, Newer, TrackMissing, JoinWindow, rtpVars
<1>10. Windowed'
  <2>1. \A p \in Gap : p \notin delivered
    <3>1. \A d \in delivered : d <= top /\ d \in Nat
      BY DEF Trust, Numbered, TypeOK
    <3> QED BY <1>2, <1>5, <3>1
  <2>2. \A w \in Wanted' : w \in Nat /\ w \notin delivered /\ w < packet
    BY <1>1, <1>2, <1>3, <1>4, <1>5, <2>1
  <2> QED BY <1>3, <2>2 DEF Windowed, TrackMissing, JoinWindow
<1>11. (latest \subseteq Wanted \union delivered \union {packet})'
  BY <1>3 DEF JoinWindow
<1> QED BY <1>1, <1>7, <1>8, <1>9, <1>10, <1>11 DEF Trust

LEMMA StartWindowSafe ==
  ASSUME TypeOK, Trust, TrackMissing, StartWindow, sound' = Clean'
  PROVE  Inv'
<1>1. /\ rpc = "idle" /\ rpc' = "idle" /\ pc = "track" /\ rtp_sequence_valid
      /\ packet \in Nat /\ packet <= sent /\ gap \in 1 .. WindowBits /\ packet - gap > top
      /\ packet - gap \in Int
  BY Sizes DEF TrackMissing, Trust, Clean, InHand, Newer
<1>2. top \in Nat
  BY <1>1 DEF Trust, Numbered
<1>3. Wanted' = Gap
  BY DEF Wanted, Gap, StartWindow, TrackMissing
<1>4. \A p \in Gap : p \in Nat /\ p > top /\ p < packet
  BY <1>1, <1>2 DEF Gap
<1>5. TypeOK'
  <2>1. latest' \subseteq Nat /\ first' \in Seqs /\ base' \in Int
    BY <1>1, <1>4, SeqTyped DEF StartWindow
  <2> QED BY <2>1 DEF TypeOK, TrackMissing, StartWindow, Clean, rtpVars, nackVars
<1>6. SUFFICES ASSUME Clean' PROVE Trust'
  BY <1>5 DEF Inv
<1>7. Numbered'
  BY DEF Trust, Numbered, TrackMissing, rtpVars, nackVars
<1>8. InHand'
  BY <1>1 DEF InHand, Newer, TrackMissing, StartWindow, rtpVars
<1>9. Windowed'
  <2>1. \A d \in delivered : d <= top /\ d \in Nat
    BY DEF Trust, Numbered, TypeOK
  <2>2. \A p \in Gap : p \notin delivered
    BY <1>2, <1>4, <2>1
  <2>3. \A w \in Wanted' : w \in Nat /\ w \notin delivered' /\ w < packet'
    BY <1>3, <1>4, <2>2 DEF TrackMissing
  <2>4. pc' = "mask" /\ first' = Seq16(base') /\ base' = packet' - gap'
    BY DEF TrackMissing, StartWindow
  <2> QED BY <2>3, <2>4 DEF Windowed
<1>10. (latest \subseteq Wanted \union delivered \union {packet})'
  BY <1>3 DEF StartWindow
<1> QED BY <1>1, <1>6, <1>7, <1>8, <1>9, <1>10 DEF Trust

LEMMA MaskStored ==
  ASSUME TypeOK, Trust, StoreMask
  PROVE  /\ Wanted = Gap /\ Wanted' = Gap /\ Gap' = Gap /\ 0 \in mask'
         /\ mask' \subseteq 0 .. WindowBits - 1
<1>1. /\ rpc = "idle" /\ pc = "mask" /\ rtp_sequence_valid
      /\ packet \in Nat /\ packet <= sent /\ gap \in 1 .. WindowBits /\ packet - gap > top
  BY DEF StoreMask, Trust, Clean, InHand, Newer
<1>2. base = packet - gap /\ first = Seq16(base) /\ Wanted = Gap
  BY <1>1 DEF Trust, Windowed, Wanted
<1>3. mask' = 0 .. gap - 1
  BY <1>1, Sizes DEF StoreMask, MaskForCount
<1>4. Wanted' = Gap
  <2>1. Wanted' = {(packet - gap) + b : b \in 0 .. gap - 1}
    BY <1>2, <1>3 DEF Wanted, StoreMask, ghosts
  <2>2. \A b \in 0 .. gap - 1 : (packet - gap) + b \in Gap
    BY <1>1, Sizes DEF Gap
  <2>3. \A p \in Gap : p - (packet - gap) \in 0 .. gap - 1
                       /\ (packet - gap) + (p - (packet - gap)) = p
    BY <1>1, Sizes DEF Gap
  <2> QED BY <2>1, <2>2, <2>3
<1>5. Gap' = Gap
  BY DEF Gap, StoreMask
<1>6. 0 \in mask' /\ mask' \subseteq 0 .. WindowBits - 1
  BY <1>1, <1>3, Sizes
<1> QED BY <1>2, <1>4, <1>5, <1>6

LEMMA StoreMaskSafe ==
  ASSUME TypeOK, Trust, StoreMask, sound' = Clean'
  PROVE  Inv'
<1>1. /\ rpc = "idle" /\ rpc' = "idle" /\ pc = "mask" /\ rtp_sequence_valid
      /\ packet \in Nat /\ packet <= sent /\ gap \in 1 .. WindowBits /\ packet - gap > top
  BY DEF StoreMask, Trust, Clean, InHand, Newer
<1>2. /\ Wanted = Gap /\ Wanted' = Gap /\ Gap' = Gap /\ 0 \in mask'
      /\ mask' \subseteq 0 .. WindowBits - 1 /\ first = Seq16(base)
  BY <1>1, MaskStored DEF Trust, Windowed
<1>3. TypeOK'
  BY <1>1, <1>2 DEF TypeOK, StoreMask, Clean, rtpVars, nackVars, ghosts
<1>4. SUFFICES ASSUME Clean' PROVE Trust'
  BY <1>3 DEF Inv
<1>5. Numbered'
  BY DEF Trust, Numbered, StoreMask, rtpVars, nackVars, ghosts
<1>6. InHand'
  BY <1>1, <1>2 DEF InHand, Newer, StoreMask, rtpVars, ghosts
<1>7. Windowed'
  <2>1. \A w \in Wanted : w \in Nat /\ w \notin delivered /\ w < packet
    BY <1>1 DEF Trust, Windowed
  <2>2. \A w \in Wanted' : w \in Nat /\ w \notin delivered' /\ w < packet'
    BY <1>2, <2>1 DEF StoreMask, ghosts
  <2>3. pc' = "ask" /\ first' = Seq16(base')
    BY <1>2 DEF StoreMask, ghosts
  <2> QED BY <1>2, <2>2, <2>3 DEF Windowed
<1>8. (latest \subseteq Wanted \union delivered \union {packet})'
  BY <1>1, <1>2 DEF Trust, StoreMask, ghosts
<1> QED BY <1>1, <1>4, <1>5, <1>6, <1>7, <1>8 DEF Trust

(* A request adds packets that the sender has, or none.                    *)
LEMMA RequestSafe ==
  ASSUME TypeOK, Trust, NEW seqs, Request(seqs)
  PROVE  /\ requested' \in BOOLEAN /\ failed' \in BOOLEAN /\ asked' \subseteq Nat
         /\ asked' \subseteq {n \in FirstSent .. sent : n > sent - History}
<1>1. Understood(seqs) \subseteq {n \in FirstSent .. sent : n > sent - History}
  BY DEF Understood
<1>2. FirstSent .. sent \subseteq Nat
  BY Sizes DEF TypeOK
<1>3. asked' = asked \/ asked' = asked \union Understood(seqs)
  BY DEF Request, nackVars
<1>4. asked \subseteq {n \in FirstSent .. sent : n > sent - History}
  BY DEF Trust, Numbered
<1>5. asked' \subseteq {n \in FirstSent .. sent : n > sent - History}
  BY <1>1, <1>3, <1>4
<1>6. requested' \in BOOLEAN /\ failed' \in BOOLEAN
  BY DEF Request, nackVars, TypeOK
<1> QED BY <1>2, <1>5, <1>6

LEMMA AskForGapSafe ==
  ASSUME TypeOK, Trust, AskForGap, sound' = Clean'
  PROVE  Inv'
<1>1. /\ rpc = "idle" /\ rpc' = "idle" /\ pc = "ask" /\ rtp_sequence_valid
      /\ packet \in Nat /\ packet <= sent /\ gap \in 1 .. WindowBits /\ packet - gap > top
  BY DEF AskForGap, Trust, Clean, InHand, Newer
<1>2. /\ requested' \in BOOLEAN /\ failed' \in BOOLEAN /\ asked' \subseteq Nat
      /\ asked' \subseteq {n \in FirstSent .. sent : n > sent - History}
  BY RequestSafe DEF AskForGap
<1>3. top \in Nat /\ top < packet
  BY <1>1, Sizes DEF Trust, Numbered
<1>4. Wanted' = Wanted
  BY <1>1 DEF Wanted, AskForGap, window
<1>5. \A w \in Wanted : w \in Nat /\ w \notin delivered /\ w < packet
  BY <1>1 DEF Trust, Windowed
<1>6. \A d \in delivered : d <= top /\ d \in Nat
  BY DEF Trust, Numbered, TypeOK
<1>7. TypeOK'
  BY <1>1, <1>2, SeqTyped DEF TypeOK, AskForGap, Clean, window
<1>8. SUFFICES ASSUME Clean' PROVE Trust'
  BY <1>7 DEF Inv
<1>9. Numbered'
  <2>1. \A d \in delivered : d <= packet
    BY <1>1, <1>3, <1>6
  <2> QED BY <1>1, <1>2, <2>1 DEF Numbered, AskForGap
<1>10. InHand'
  <2>1. packet \notin delivered /\ packet \notin Wanted
    BY <1>1, <1>3, <1>5, <1>6
  <2> QED BY <1>1, <1>4, <2>1 DEF InHand, Newer, AskForGap
<1>11. Windowed'
  BY <1>1, <1>4, <1>5 DEF Trust, Windowed, AskForGap, window
<1>12. (latest \subseteq Wanted \union delivered \union {packet})'
  BY <1>1, <1>4 DEF Trust, AskForGap
<1> QED BY <1>1, <1>8, <1>9, <1>10, <1>11, <1>12 DEF Trust

LEMMA FinishSafe ==
  ASSUME TypeOK, Trust, Finish, sound' = Clean'
  PROVE  Inv'
<1>1. rpc = "idle" /\ rpc' = "idle" /\ pc = "retry"
  BY DEF Finish, Trust, Clean
<1>2. /\ requested' \in BOOLEAN /\ failed' \in BOOLEAN /\ asked' \subseteq Nat
      /\ asked' \subseteq {n \in FirstSent .. sent : n > sent - History}
  <2>1. CASE UNCHANGED nackVars
    BY <2>1 DEF nackVars, TypeOK, Trust, Numbered
  <2>2. CASE Request({Seq16(first + o) : o \in NextRange})
    BY <2>2, RequestSafe
  <2> QED BY <2>1, <2>2 DEF Finish, RetryIfDue
<1>3. Wanted' = Wanted
  BY <1>1 DEF Wanted, Finish, window
<1>4. packet # NONE => packet \in Nat /\ packet <= top /\ packet \notin Wanted
  BY <1>1 DEF Trust, InHand, TypeOK
<1>5. delivered' = delivered \union ({packet} \ {NONE})
  BY DEF Finish
<1>6. TypeOK'
  <2>1. delivered' \subseteq Nat
    BY <1>4, <1>5 DEF TypeOK
  <2> QED BY <1>1, <1>2, <2>1, Sizes DEF TypeOK, Finish, Clean, rtpVars, window
<1>7. SUFFICES ASSUME Clean' PROVE Trust'
  BY <1>6 DEF Inv
<1>8. Numbered'
  BY <1>2, <1>4, <1>5 DEF Trust, Numbered, Finish, rtpVars
<1>9. InHand'
  BY DEF InHand, Newer, Finish
<1>10. Windowed'
  <2>1. \A w \in Wanted : w \in Nat /\ w \notin delivered /\ w < top
    BY <1>1 DEF Trust, Windowed
  <2>2. \A w \in Wanted : w \notin delivered'
    BY <1>4, <1>5, <2>1
  <2> QED BY <1>1, <1>3, <2>1, <2>2 DEF Trust, Windowed, Finish, window
<1>11. (latest \subseteq Wanted \union delivered \union {packet})'
  <2>1. latest \subseteq Wanted \union delivered \union {packet} /\ latest \subseteq Nat
    BY <1>1 DEF Trust, TypeOK
  <2>2. latest' = latest
    BY DEF Finish
  <2> QED BY <1>3, <1>5, <2>1, <2>2, Sizes
<1> QED BY <1>1, <1>7, <1>8, <1>9, <1>10, <1>11 DEF Trust

LEMMA ReceiveTimeoutSafe ==
  ASSUME TypeOK, Trust, ReceiveTimeout, sound' = Clean'
  PROVE  Inv'
<1>1. pc = "recv" /\ packet = NONE
  BY DEF ReceiveTimeout, Trust, InHand
<1>2. TypeOK'
  BY DEF TypeOK, ReceiveTimeout, Clean, rtpVars, window, nackVars, ghosts
<1>3. SUFFICES ASSUME Clean' PROVE Trust'
  BY <1>2 DEF Inv
<1>4. rpc = "idle" /\ rpc' = "idle"
  BY <1>3 DEF Clean, ReceiveTimeout
<1>5. Wanted' = Wanted
  BY <1>1 DEF Wanted, ReceiveTimeout, window, ghosts
<1>6. Numbered'
  BY DEF Trust, Numbered, ReceiveTimeout, rtpVars, nackVars, ghosts
<1>7. InHand'
  BY <1>1 DEF InHand, Newer, ReceiveTimeout
<1>8. Windowed'
  BY <1>1, <1>4, <1>5 DEF Trust, Windowed, ReceiveTimeout, window, ghosts
<1>9. (latest \subseteq Wanted \union delivered \union {packet})'
  BY <1>4, <1>5 DEF Trust, ReceiveTimeout, ghosts
<1> QED BY <1>3, <1>4, <1>6, <1>7, <1>8, <1>9 DEF Trust

(* A reset clears what it protects before it tears the window.             *)
LEMMA ResetSafe ==
  ASSUME TypeOK, Trust, Reset, sound' = Clean'
  PROVE  Inv'
<1>1. TypeOK'
  <2>1. 0 \in Seqs
    BY Sizes DEF Seqs
  <2> QED BY <2>1 DEF TypeOK, Reset, ResetValid, ResetFirst, ResetMask, Clean,
                      rtpVars, window, nackVars, taskVars, ghosts
<1>2. SUFFICES ASSUME Clean' PROVE Trust'
  BY <1>1 DEF Inv
<1>3. CASE ResetValid
  <2>1. pc = "recv" /\ packet = NONE /\ pc' = "recv" /\ packet' = NONE /\ rpc' = "first"
    BY <1>2, <1>3 DEF ResetValid, Clean, taskVars, Trust, InHand
  <2>2. Numbered' /\ InReset'
    BY <1>3 DEF ResetValid, Trust, Numbered, InReset, nackVars
  <2>3. InHand'
    BY <2>1 DEF InHand, Newer
  <2> QED BY <1>2, <2>1, <2>2, <2>3 DEF Trust
<1>4. CASE ResetFirst
  <2>1. pc = "recv" /\ packet = NONE /\ pc' = "recv" /\ packet' = NONE /\ rpc' = "mask"
    BY <1>4 DEF ResetFirst, taskVars, Trust, Clean, InHand
  <2>2. Numbered' /\ InReset'
    BY <1>4 DEF ResetFirst, Trust, Numbered, InReset, nackVars, rtpVars, ghosts
  <2>3. InHand'
    BY <2>1 DEF InHand, Newer
  <2> QED BY <1>2, <2>1, <2>2, <2>3 DEF Trust
<1>5. CASE ResetMask
  <2>1. pc = "recv" /\ packet = NONE /\ pc' = "recv" /\ packet' = NONE /\ rpc' = "idle"
    BY <1>5 DEF ResetMask, taskVars, Trust, Clean, InHand
  <2>2. Numbered' /\ latest' = {}
    BY <1>5 DEF ResetMask, Trust, Numbered, InReset, nackVars, rtpVars, ghosts
  <2>3. InHand'
    BY <2>1 DEF InHand, Newer
  <2>4. Wanted' = {} /\ mask' = {}
    BY <1>5, <2>1 DEF ResetMask, Wanted
  <2>5. Windowed'
    BY <2>1, <2>4 DEF Windowed
  <2> QED BY <1>2, <2>1, <2>2, <2>3, <2>5 DEF Trust
<1> QED BY <1>3, <1>4, <1>5 DEF Reset

(* Time, the sender and the network do not touch the window.               *)
LEMMA QuietSafe ==
  ASSUME TypeOK, Trust, UNCHANGED <<rtpVars, window, taskVars, rpc, ghosts>>,
         requested' \in BOOLEAN, failed' \in BOOLEAN, sent' \in Nat, sent <= sent',
         asked' \subseteq {n \in FirstSent .. sent' : n > sent' - History},
         sound' = Clean'
  PROVE  Inv'
<1>1. TypeOK'
  <2>1. FirstSent .. sent' \subseteq Nat
    BY Sizes
  <2>2. asked' \subseteq Nat
    BY <2>1
  <2> QED BY <2>2 DEF TypeOK, Clean, rtpVars, window, taskVars, ghosts
<1>2. SUFFICES ASSUME Clean' PROVE Trust'
  BY <1>1 DEF Inv
<1>3. Wanted' = Wanted
  BY DEF Wanted, Gap, window, taskVars, ghosts
<1>4. sent \in Nat
  BY DEF TypeOK
<1>5. Numbered'
  BY <1>4 DEF Trust, Numbered, rtpVars, ghosts
<1>6. InHand'
  <2>1. Newer => packet <= sent'
    BY <1>4 DEF Trust, InHand
  <2> QED BY <1>3, <2>1 DEF Trust, InHand, Newer, Gap, rtpVars, taskVars, ghosts
<1>7. Windowed' <=> Windowed
  BY <1>3 DEF Windowed, window, taskVars, ghosts
<1>8. (latest \subseteq Wanted \union delivered \union {packet})' <=>
        latest \subseteq Wanted \union delivered \union {packet}
  BY <1>3 DEF taskVars, ghosts
<1>9. InReset' <=> InReset
  BY DEF InReset, rtpVars, ghosts
<1>10. rpc' = rpc
  OBVIOUS
<1> QED BY <1>2, <1>5, <1>6, <1>7, <1>8, <1>9, <1>10 DEF Trust

LEMMA EnvironmentSafe ==
  ASSUME TypeOK, Trust,
         RetryFallsDue \/ BackoffEnds \/ Send \/ \E n \in asked : Forget(n),
         sound' = Clean'
  PROVE  Inv'
<1>1. /\ sent \in Nat /\ requested \in BOOLEAN /\ failed \in BOOLEAN
      /\ asked \subseteq {n \in FirstSent .. sent : n > sent - History}
  BY DEF TypeOK, Trust, Numbered
<1>2. CASE RetryFallsDue \/ BackoffEnds
  <2>1. /\ requested' \in BOOLEAN /\ failed' \in BOOLEAN /\ sent' = sent /\ asked' = asked
        /\ UNCHANGED <<rtpVars, window, taskVars, rpc, ghosts>>
    BY <1>1, <1>2 DEF RetryFallsDue, BackoffEnds
  <2>2. sent' \in Nat /\ sent <= sent'
    BY <1>1, <2>1
  <2>3. asked' \subseteq {n \in FirstSent .. sent' : n > sent' - History}
    BY <1>1, <2>1
  <2> QED BY <2>1, <2>2, <2>3, QuietSafe
<1>3. CASE Send
  <2>1. sent' \in Nat /\ sent <= sent'
    BY <1>1, <1>3 DEF Send
  <2>2. ASSUME NEW n \in asked' PROVE n \in FirstSent .. sent' /\ n > sent' - History
    <3>1. n \in asked /\ n > sent' - History
      BY <1>3 DEF Send
    <3>2. n \in FirstSent .. sent /\ sent \in Nat /\ FirstSent \in Nat
      BY <1>1, <3>1, Sizes
    <3> QED BY <2>1, <3>1, <3>2
  <2>3. asked' \subseteq {n \in FirstSent .. sent' : n > sent' - History}
    BY <2>2
  <2>4. /\ UNCHANGED <<rtpVars, window, taskVars, rpc, ghosts>>
        /\ requested' = requested /\ failed' = failed
    BY <1>3 DEF Send
  <2> QED BY <1>1, <2>1, <2>3, <2>4, QuietSafe
<1>4. ASSUME NEW n \in asked, Forget(n) PROVE Inv'
  <2>1. /\ asked' \subseteq asked /\ sent' = sent
        /\ UNCHANGED <<rtpVars, window, taskVars, rpc, ghosts>>
        /\ requested' = requested /\ failed' = failed
    BY <1>4 DEF Forget
  <2>2. sent' \in Nat /\ sent <= sent'
    BY <1>1, <2>1
  <2>3. asked' \subseteq {m \in FirstSent .. sent' : m > sent' - History}
    BY <1>1, <2>1
  <2> QED BY <1>1, <2>1, <2>2, <2>3, QuietSafe
<1> QED BY <1>2, <1>3, <1>4

LEMMA StartOverSafe ==
  ASSUME TypeOK, StartOver, sound' = TRUE
  PROVE  Inv'
<1>1. sent' \in Nat /\ sent \in Nat
  BY Sizes DEF StartOver, TypeOK
<1>2. asked' \subseteq {n \in FirstSent .. sent' : n > sent' - History} /\ asked' \subseteq Nat
  <2>1. FirstSent .. sent' \subseteq Nat
    BY <1>1, Sizes
  <2>2. asked' \subseteq {n \in FirstSent .. sent' : n > sent' - History}
    BY DEF StartOver
  <2> QED BY <2>1, <2>2
<1>3. TypeOK'
  <2>1. 0 \in Seqs /\ 0 \in 0 .. WindowBits
    BY Sizes DEF Seqs
  <2> QED BY <1>1, <1>2, <2>1 DEF TypeOK, StartOver
<1>4. Wanted' = {}
  BY DEF Wanted, StartOver
<1>5. Clean' /\ Numbered' /\ InHand' /\ Windowed'
  BY <1>2, <1>4 DEF StartOver, Clean, Numbered, InHand, Newer, Windowed
<1> QED BY <1>3, <1>5 DEF Inv, Trust, StartOver

-----------------------------------------------------------------------------
LEMMA InitSafe ==
  ASSUME Init
  PROVE  Inv
<1>1. 0 \in Seqs /\ 0 \in 0 .. WindowBits
  BY Sizes DEF Seqs
<1>2. TypeOK
  <2>1. sent \in Nat /\ 0 \in Int
    BY Sizes DEF Init
  <2> QED BY <1>1, <2>1 DEF Init, TypeOK
<1>3. Wanted = {}
  BY DEF Wanted, Init
<1>4. Clean /\ Numbered /\ InHand /\ Windowed
  BY <1>3 DEF Init, Clean, Numbered, InHand, Newer, Windowed
<1> QED BY <1>2, <1>4 DEF Inv, Trust, Init

LEMMA NextSafe ==
  ASSUME Inv, [Next]_vars
  PROVE  Inv'
<1>1. TypeOK /\ (sound => Trust)
  BY DEF Inv
<1>2. CASE UNCHANGED vars
  <2>1. Wanted' = Wanted /\ Newer' = Newer /\ Gap' = Gap
    BY <1>2 DEF vars, Wanted, Gap, Newer, window, taskVars, ghosts
  <2>2. TypeOK'
    BY <1>1, <1>2 DEF vars, TypeOK, rtpVars, window, nackVars, taskVars, ghosts
  <2>3. sound' => Trust'
    BY <1>1, <1>2, <2>1 DEF vars, Trust, Clean, Numbered, InHand, Windowed, InReset,
                            rtpVars, window, nackVars, taskVars, ghosts
  <2> QED BY <2>2, <2>3 DEF Inv
<1>3. CASE Watched(Handle)
  <2>1. sound /\ sound' = Clean' /\ Handle
    BY <1>3 DEF Watched
  <2> QED BY <1>1, <2>1, JoinWindowSafe, StartWindowSafe, StoreMaskSafe, AskForGapSafe,
             FinishSafe DEF Handle, TrackMissing
<1>4. CASE Watched(Receive)
  <2>1. sound /\ sound' = Clean' /\ Receive
    BY <1>4 DEF Watched
  <2> QED BY <1>1, <2>1, TakeNewerSafe, FindGapSafe, TakeLateSafe, TakeResentSafe DEF Receive
<1>5. CASE Watched(ReceiveTimeout)
  BY <1>1, <1>5, ReceiveTimeoutSafe DEF Watched
<1>6. CASE Watched(Reset)
  BY <1>1, <1>6, ResetSafe DEF Watched
<1>7. CASE \/ Watched(RetryFallsDue) \/ Watched(BackoffEnds) \/ Watched(Send)
           \/ Watched(\E n \in asked : Forget(n))
  BY <1>1, <1>7, EnvironmentSafe DEF Watched
<1>8. CASE ~sound /\ sound' = TRUE /\ StartOver
  BY <1>1, <1>8, StartOverSafe
<1> QED BY <1>2, <1>3, <1>4, <1>5, <1>6, <1>7, <1>8 DEF Next

LEMMA InvImplies ==
  ASSUME Inv
  PROVE  TypeOK /\ WindowIsMissing /\ PlayedOnce /\ LatestGapKept
<1>1. TypeOK
  BY DEF Inv
<1>2. SUFFICES ASSUME sound PROVE WindowIsMissing /\ PlayedOnce /\ LatestGapKept
  BY <1>1 DEF WindowIsMissing, PlayedOnce, LatestGapKept
<1>3. Trust
  BY <1>2 DEF Inv
<1>4. LatestGapKept
  BY <1>3 DEF Trust, LatestGapKept
<1>5. PlayedOnce
  BY <1>1, <1>3, Sizes DEF Trust, InHand, PlayedOnce, TypeOK
<1>6. WindowIsMissing
  <2>1. SUFFICES ASSUME rpc = "idle"
                 PROVE  /\ mask # {} \/ pc = "mask" => first = Seq16(base)
                        /\ \A n \in Wanted : n < sent /\ n # packet /\ n \notin delivered
    BY DEF WindowIsMissing
  <2>2. Windowed /\ InHand /\ Numbered /\ sent \in Nat
    BY <1>1, <1>3, <2>1 DEF Trust, TypeOK
  <2>3. ASSUME NEW n \in Wanted PROVE n < sent /\ n # packet /\ n \notin delivered
    <3>1. n \in Nat /\ n \notin delivered
      BY <2>2 DEF Windowed
    <3>2. CASE pc \in {"mask", "ask"}
      <4>1. packet \in Nat /\ packet <= sent /\ n < packet
        BY <2>2, <3>2 DEF Windowed, InHand, Newer
      <4> QED BY <2>2, <3>1, <4>1
    <3>3. CASE pc \notin {"mask", "ask"}
      <4>1. n < top /\ top \in Nat /\ top <= sent
        BY <2>2, <3>1, <3>3 DEF Windowed, Numbered
      <4>2. n # packet
        <5>1. CASE pc = "track"
          BY <2>2, <3>1, <4>1, <5>1, Sizes DEF InHand, Newer
        <5>2. CASE pc \in {"recv", "retry"}
          BY <2>2, <3>1, <5>2, Sizes DEF InHand
        <5> QED BY <1>1, <3>3, <5>1, <5>2 DEF TypeOK
      <4> QED BY <2>2, <3>1, <4>1, <4>2
    <3> QED BY <3>2, <3>3
  <2> QED BY <2>2, <2>3 DEF Windowed
<1> QED BY <1>1, <1>4, <1>5, <1>6

THEOREM Invariance == Spec => []Inv
<1>1. Init => Inv
  BY InitSafe
<1>2. Inv /\ [Next]_vars => Inv'
  BY NextSafe
<1> QED BY <1>1, <1>2, PTL DEF Spec

(* The variables keep their types, also while the window is torn.          *)
THEOREM TypeCorrect == Spec => []TypeOK
<1>1. Inv => TypeOK
  BY InvImplies
<1> QED BY <1>1, Invariance, PTL

(* Every bit stands for a packet that was skipped and not played, for any  *)
(* loss, repetition and order and across the wrap, unless a reset met the  *)
(* task at work or a hole is a turn old (audio_stream_realtime.c:90-143).  *)
THEOREM MaskIsMissing == Spec => []WindowIsMissing
<1>1. Inv => WindowIsMissing
  BY InvImplies
<1> QED BY <1>1, Invariance, PTL

(* No packet is played twice between two flushes                           *)
(* (audio_stream_realtime.c:299-312).                                      *)
THEOREM NoPacketTwice == Spec => []PlayedOnce
<1>1. Inv => PlayedOnce
  BY InvImplies
<1> QED BY <1>1, Invariance, PTL

(* The gap noticed last stays in the window until it is played             *)
(* (audio_stream_realtime.c:122-143).                                      *)
THEOREM GapStaysWanted == Spec => []LatestGapKept
<1>1. Inv => LatestGapKept
  BY InvImplies
<1> QED BY <1>1, Invariance, PTL

(* The mask says what is missing, and forgets nothing too early.           *)
THEOREM WindowStaysRight == Spec => []WindowIsRight
BY MaskIsMissing, GapStaysWanted, PTL DEF WindowIsRight

-----------------------------------------------------------------------------
(***************************************************************************)
(* What is asked for.                                                      *)
(***************************************************************************)
LEMMA UnderstoodIsWanted ==
  ASSUME TypeOK, Trust, rpc = "idle", pc # "mask", NEW seqs,
         \A q \in seqs : \E w \in Wanted : q = Seq16(w)
  PROVE  Understood(seqs) \subseteq Wanted
<1>1. SUFFICES ASSUME NEW n \in Understood(seqs) PROVE n \in Wanted
  OBVIOUS
<1>2. n \in Int /\ n <= sent /\ sent \in Nat /\ n > sent - History /\ Seq16(n) \in seqs
  BY <1>1, Sizes DEF Understood, TypeOK
<1>3. n > sent - SeqModulus
  BY <1>2, Sizes
<1>4. PICK w \in Wanted : Seq16(n) = Seq16(w)
  BY <1>2
<1> QED BY <1>2, <1>3, <1>4, WantedIsUnique

LEMMA StepAsksForHoles ==
  ASSUME Inv, [Next]_vars, sound, sound'
  PROVE  asked' \ asked \subseteq Wanted
<1>1. TypeOK /\ Trust
  BY DEF Inv
<1>2. CASE AskForGap
  <2>1. rpc = "idle" /\ pc = "ask" /\ Gap \subseteq Wanted
    BY <1>1, <1>2 DEF AskForGap, Trust, Clean, InHand
  <2>2. Understood({Seq16(n) : n \in Gap}) \subseteq Wanted
    <3>1. \A q \in {Seq16(n) : n \in Gap} : \E w \in Wanted : q = Seq16(w)
      BY <2>1
    <3> QED BY <1>1, <2>1, <3>1, UnderstoodIsWanted
  <2> QED BY <1>2, <2>2 DEF AskForGap, Request, nackVars
<1>3. CASE Finish
  <2>1. rpc = "idle" /\ pc = "retry"
    BY <1>1, <1>3 DEF Finish, Trust, Clean
  <2>2. CASE UNCHANGED nackVars
    BY <2>2 DEF nackVars
  <2>3. CASE mask # {} /\ Request({Seq16(first + o) : o \in NextRange})
    <3>1. /\ Wanted = {base + o : o \in mask} /\ first = Seq16(base) /\ base \in Int
          /\ mask \subseteq 0 .. WindowBits - 1
      BY <1>1, <2>1, <2>3, WantedWhenReceiving DEF TypeOK
    <3>2. ASSUME NEW o \in NextRange
          PROVE  \E w \in Wanted : Seq16(first + o) = Seq16(w)
      <4>1. o \in mask
        BY DEF NextRange
      <4>2. o \in Int /\ base + o \in Wanted
        BY <3>1, <4>1
      <4>3. Seq16(first + o) = Seq16(base + o)
        BY <3>1, <4>2, SeqSum
      <4> QED BY <4>2, <4>3
    <3>3. \A q \in {Seq16(first + o) : o \in NextRange} : \E w \in Wanted : q = Seq16(w)
      BY <3>2
    <3>4. Understood({Seq16(first + o) : o \in NextRange}) \subseteq Wanted
      BY <1>1, <2>1, <3>3, UnderstoodIsWanted
    <3> QED BY <2>3, <3>4 DEF Request, nackVars
  <2> QED BY <1>3, <2>2, <2>3 DEF Finish, RetryIfDue
<1>4. CASE asked' \subseteq asked
  BY <1>4
<1>5. AskForGap \/ Finish \/ asked' \subseteq asked
  <2>1. TrackMissing \/ StoreMask \/ Receive \/ ReceiveTimeout \/ Reset => asked' = asked
    BY DEF TrackMissing, StoreMask, Receive, TakeNewer, FindGap, TakeLate, TakeResent,
           ReceiveTimeout, Reset, ResetValid, ResetFirst, ResetMask, nackVars
  <2>2. RetryFallsDue \/ BackoffEnds \/ Send \/ (\E n \in asked : Forget(n)) => asked' \subseteq asked
    BY DEF RetryFallsDue, BackoffEnds, Send, Forget
  <2>3. UNCHANGED vars => asked' = asked
    BY DEF vars, nackVars
  <2> QED BY <2>1, <2>2, <2>3 DEF Next, Watched, Handle
<1> QED BY <1>2, <1>3, <1>4, <1>5

(* The sender is asked for wanted packets only                             *)
(* (audio_stream_realtime.c:145-229).                                      *)
THEOREM OnlyHolesAsked == Spec => AsksForHoles
<1>1. Inv /\ [Next]_vars => [sound /\ sound' => asked' \ asked \subseteq Wanted]_vars
  BY StepAsksForHoles
<1> QED BY <1>1, Invariance, PTL DEF Spec, AsksForHoles

-----------------------------------------------------------------------------
(***************************************************************************)
(* The code plays what MissingPackets plays: Held are its missing packets  *)
(* and Played its delivered ones.                                          *)
(***************************************************************************)
Held   == IF rpc = "idle" THEN Wanted ELSE {}
Played == delivered \union (IF pc = "retry" THEN {packet} \ {NONE} ELSE {})

Known == packet \in Packets \union {NONE} /\ top \in Packets \union {-1}

LEMMA KnownKept == Spec => []Known
<1>1. Init => Known
  BY DEF Init, Known
<1>2. Inv /\ Known /\ [Next]_vars => Known'
  <2>1. Known /\ (TrackMissing \/ StoreMask \/ ReceiveTimeout \/ Reset \/ StartOver
                  \/ RetryFallsDue \/ BackoffEnds \/ Send \/ (\E n \in asked : Forget(n))
                  \/ UNCHANGED vars) => Known'
    BY DEF Known, TrackMissing, JoinWindow, StartWindow, StoreMask, ReceiveTimeout, Reset,
           ResetValid, ResetFirst, ResetMask, StartOver, RetryFallsDue, BackoffEnds, Send,
           Forget, vars, taskVars, ghosts
  <2>2. Inv /\ sound /\ Known /\ AskForGap => Known'
    BY Sizes DEF Inv, Trust, InHand, Newer, Known, AskForGap
  <2>3. Known /\ Finish => Known'
    BY DEF Known, Finish
  <2>4. Known /\ Receive => Known'
    BY DEF Known, Receive, TakeNewer, FindGap, TakeLate, TakeResent, ghosts
  <2> QED BY <2>1, <2>2, <2>3, <2>4 DEF Next, Watched, Handle
<1> QED BY <1>1, <1>2, Invariance, PTL DEF Spec

(* The steps of the abstract specification.                                *)
LEMMA AbstractRestart ==
  ASSUME top' = -1, Held' = {}, Played' = {}
  PROVE  Abstract!Next
  BY DEF Abstract!Next, Abstract!Restart, Held, Played

LEMMA AbstractTake ==
  ASSUME NEW n \in Packets, n > top, top' = n, Held' = Held, Played' = Played \union {n}
  PROVE  Abstract!Next
  BY DEF Abstract!Next, Abstract!Take, Held, Played

LEMMA AbstractFill ==
  ASSUME NEW n \in Packets, n \in Held, Held' = Held \ {n}, Played' = Played \union {n},
         top' = top
  PROVE  Abstract!Next
  BY DEF Abstract!Next, Abstract!Fill, Held, Played

LEMMA AbstractSkip ==
  ASSUME NEW n \in Packets, NEW m \in Packets, top < n,
         Held' = n .. m \/ Held' = Held \union (n .. m), Played' = Played, top' = top
  PROVE  Abstract!Next
  BY DEF Abstract!Next, Abstract!Skip, Held, Played

LEMMA AbstractStutter ==
  ASSUME top' = top, Held' = Held, Played' = Played
  PROVE  UNCHANGED Abstract!vars
  BY DEF Abstract!vars, Held, Played

(* A packet out of order fills a hole.                                     *)
LEMMA MarkedFills ==
  ASSUME TypeOK, Trust, NEW n \in Packets, n <= sent, n > sent - SeqModulus,
         pc = "recv", MarkReceived(n), packet' = n, pc' = "retry", Clean',
         UNCHANGED <<rpc, top, delivered>>
  PROVE  Abstract!Next
<1>1. n \in Int /\ n # NONE
  BY Sizes DEF Packets
<1>2. rpc = "idle" /\ rpc' = "idle"
  BY DEF Clean
<1>3. n \in Wanted /\ Wanted' = Wanted \ {n}
  BY <1>1, <1>2, MarkTakesOut
<1>4. n \in Held /\ Held' = Held \ {n}
  BY <1>2, <1>3 DEF Held
<1>5. Played' = Played \union {n}
  BY <1>1 DEF Played
<1> QED BY <1>4, <1>5, AbstractFill

(* A short gap is skipped.                                                 *)
LEMMA TrackSkips ==
  ASSUME TypeOK, Trust, Known, TrackMissing
  PROVE  Abstract!Next
<1>1. /\ rpc = "idle" /\ rpc' = "idle" /\ pc = "track" /\ rtp_sequence_valid
      /\ packet \in Nat /\ gap \in 1 .. WindowBits /\ packet - gap > top
  BY DEF TrackMissing, Trust, Clean, InHand, Newer
<1>2. top \in Packets /\ packet \in Packets
  <2>1. top \in Nat /\ packet # NONE
    BY <1>1, Sizes DEF Trust, Numbered
  <2> QED BY <2>1 DEF Known
<1>3. packet - gap \in Packets /\ packet - 1 \in Packets
  BY <1>1, <1>2, Sizes DEF Packets
<1>4. Played' = Played /\ top' = top
  BY <1>1 DEF Played, TrackMissing, JoinWindow, StartWindow
<1>5. Held' = Gap \/ Held' = Held \union Gap
  <2>1. CASE JoinWindow
    BY <1>1, <2>1, GapJoins DEF Held
  <2>2. CASE StartWindow
    <3>1. Wanted' = Gap
      BY <2>2 DEF Wanted, Gap, StartWindow, TrackMissing
    <3> QED BY <1>1, <3>1 DEF Held
  <2> QED BY <2>1, <2>2 DEF TrackMissing
<1> QED BY <1>1, <1>3, <1>4, <1>5, AbstractSkip DEF Gap

LEMMA StepImplements ==
  ASSUME Inv, Known, [Next]_vars, sound'
  PROVE  [Abstract!Next]_(Abstract!vars)
<1>1. TypeOK /\ (sound => Trust)
  BY DEF Inv
<1>2. CASE UNCHANGED vars
  <2>1. top' = top /\ Held' = Held /\ Played' = Played
    BY <1>2 DEF vars, Held, Played, Wanted, Gap, window, taskVars, ghosts
  <2> QED BY <2>1, AbstractStutter
<1>3. CASE ~sound /\ sound' = TRUE /\ StartOver
  <2>1. top' = -1 /\ Held' = {} /\ Played' = {}
    BY <1>3 DEF StartOver, Held, Played, Wanted
  <2> QED BY <2>1, AbstractRestart
<1>4. SUFFICES ASSUME sound, Trust, Clean', ~UNCHANGED vars
               PROVE  [Abstract!Next]_(Abstract!vars)
  BY <1>1, <1>2, <1>3 DEF Next, Watched
<1>5. CASE TrackMissing
  BY <1>1, <1>4, <1>5, TrackSkips
<1>6. CASE StoreMask
  <2>1. rpc = "idle" /\ rpc' = "idle" /\ Wanted' = Wanted
    BY <1>1, <1>4, <1>6, MaskStored DEF StoreMask, Trust, Clean
  <2>2. top' = top /\ Held' = Held /\ Played' = Played
    BY <1>6, <2>1 DEF Held, Played, StoreMask, ghosts
  <2> QED BY <2>2, AbstractStutter
<1>7. CASE AskForGap
  <2>1. /\ rpc = "idle" /\ rpc' = "idle" /\ pc = "ask" /\ pc' = "retry" /\ rtp_sequence_valid
        /\ packet \in Nat /\ gap \in 1 .. WindowBits /\ packet - gap > top /\ packet # NONE
        /\ packet' = packet /\ top' = packet /\ delivered' = delivered
    BY <1>4, <1>7, Sizes DEF AskForGap, Trust, Clean, InHand, Newer
  <2>2. packet \in Packets /\ packet > top
    <3>1. top \in Nat
      BY <1>4, <2>1 DEF Trust, Numbered
    <3> QED BY <2>1, <3>1 DEF Known
  <2>3. Held' = Held
    BY <1>7, <2>1 DEF Held, Wanted, AskForGap, window
  <2>4. Played' = Played \union {packet}
    BY <2>1 DEF Played
  <2> QED BY <2>1, <2>2, <2>3, <2>4, AbstractTake
<1>8. CASE Finish
  <2>1. rpc' = rpc /\ pc = "retry" /\ pc' = "recv" /\ top' = top
    BY <1>8 DEF Finish
  <2>2. Held' = Held
    BY <1>8, <2>1 DEF Held, Wanted, Finish, window
  <2>3. Played' = Played
    BY <1>8, <2>1 DEF Played, Finish
  <2> QED BY <2>1, <2>2, <2>3, AbstractStutter
<1>9. CASE Receive
  <2>1. ASSUME NEW n \in Packets, TakeNewer(n) PROVE Abstract!Next
    <3>1. n > top
      BY <1>1, <1>4, <2>1, TakenIsNewer
    <3>2. n # NONE /\ pc = "recv" /\ pc' = "retry" /\ packet' = n /\ top' = n /\ rpc' = rpc
      BY <2>1, Sizes DEF TakeNewer, Arrives, Packets
    <3>3. Held' = Held
      BY <2>1, <3>2 DEF Held, Wanted, TakeNewer, window
    <3>4. Played' = Played \union {n}
      BY <2>1, <3>2 DEF Played, TakeNewer
    <3> QED BY <2>1, <3>1, <3>2, <3>3, <3>4, AbstractTake
  <2>2. ASSUME NEW n \in Packets, FindGap(n) PROVE UNCHANGED Abstract!vars
    <3>1. top' = top /\ Held' = Held /\ Played' = Played
      BY <2>2 DEF FindGap, Arrives, Held, Played, Wanted, window, ghosts
    <3> QED BY <3>1, AbstractStutter
  <2>3. ASSUME NEW n \in Packets, TakeLate(n) PROVE Abstract!Next
    <3>1. /\ n \in Nat /\ sent \in Nat /\ n <= sent /\ n > sent - Lifetime
      BY <1>1, <2>3, Sizes DEF TakeLate, Arrives, Packets, TypeOK
    <3>2. n > sent - SeqModulus
      BY <3>1, Sizes
    <3> QED BY <1>1, <1>4, <2>3, <3>1, <3>2, MarkedFills DEF TakeLate, Arrives
  <2>4. ASSUME NEW n \in Packets, TakeResent(n) PROVE Abstract!Next
    <3>1. n \in Nat /\ sent \in Nat /\ n <= sent /\ n > sent - History
      BY <1>1, <1>4, <2>4, Sizes DEF TakeResent, Packets, TypeOK, Trust, Numbered
    <3>2. n > sent - SeqModulus
      BY <3>1, Sizes
    <3> QED BY <1>1, <1>4, <2>4, <3>1, <3>2, MarkedFills DEF TakeResent
  <2> QED BY <1>9, <2>1, <2>2, <2>3, <2>4 DEF Receive
<1>10. CASE ReceiveTimeout
  <2>1. pc = "recv" /\ pc' = "retry" /\ packet = NONE /\ packet' = NONE
    BY <1>4, <1>10 DEF ReceiveTimeout, Trust, InHand
  <2>2. top' = top /\ Held' = Held /\ Played' = Played
    BY <1>10, <2>1 DEF Held, Played, Wanted, ReceiveTimeout, window, ghosts
  <2> QED BY <2>2, AbstractStutter
<1>11. CASE ResetValid
  <2>1. top' = -1 /\ Held' = {} /\ Played' = {}
    BY <1>4, <1>11 DEF ResetValid, Clean, Held, Played
  <2> QED BY <2>1, AbstractRestart
<1>12. CASE ResetFirst \/ ResetMask
  <2>1. pc = "recv" /\ rpc # "idle" /\ pc' = "recv" /\ top' = top /\ Played' = Played
    BY <1>4, <1>12 DEF ResetFirst, ResetMask, Trust, Clean, Played, taskVars, ghosts
  <2>2. Held' = {}
    BY <1>12, <2>1 DEF ResetFirst, ResetMask, Held, Wanted
  <2> QED BY <2>1, <2>2, AbstractStutter DEF Held
<1>13. CASE RetryFallsDue \/ BackoffEnds \/ Send \/ \E n \in asked : Forget(n)
  <2>1. UNCHANGED <<window, taskVars, rpc, ghosts>>
    BY <1>13 DEF RetryFallsDue, BackoffEnds, Send, Forget
  <2>2. top' = top /\ Held' = Held /\ Played' = Played
    BY <2>1 DEF Held, Played, Wanted, Gap, window, taskVars, ghosts
  <2> QED BY <2>2, AbstractStutter
<1> QED BY <1>4, <1>5, <1>6, <1>7, <1>8, <1>9, <1>10, <1>11, <1>12, <1>13
       DEF Next, Watched, Handle, Reset

(* While the window can be trusted the code plays what MissingPackets      *)
(* plays: each packet once, as the newest or as one that was skipped       *)
(* (audio_stream_realtime.c:231-353).                                      *)
THEOREM Refinement == Spec => ImplementsMissing
<1>1. Init => Abstract!Init
  BY DEF Init, Abstract!Init, Wanted
<1>2. Inv /\ Known /\ [Next]_vars => [sound' => [Abstract!Next]_(Abstract!vars)]_vars
  BY StepImplements
<1> QED BY <1>1, <1>2, Invariance, KnownKept, PTL DEF Spec, ImplementsMissing
=============================================================================
