---------------------------- MODULE DmaDriverProofs ----------------------------
(***************************************************************************)
(* Proofs about the transfers, for every length and all buffers.            *)
(***************************************************************************)
EXTENDS MCDma, TLAPS, SequenceTheorems

-----------------------------------------------------------------------------
(***************************************************************************)
(* Words and their fields.                                                  *)
(***************************************************************************)
LEMMA Powers ==
    /\ 2^0 = 1 /\ 2^1 = 2 /\ 2^2 = 4 /\ 2^3 = 8 /\ 2^4 = 16 /\ 2^5 = 32 /\ 2^6 = 64 /\ 2^7 = 128
    /\ 2^8 = 256 /\ 2^9 = 512 /\ 2^10 = 1024 /\ 2^11 = 2048 /\ 2^12 = 4096 /\ 2^13 = 8192
    /\ 2^14 = 16384 /\ 2^15 = 32768 /\ 2^16 = 65536
OBVIOUS

LEMMA PowerOf ==
    ASSUME NEW i
    PROVE  /\ i = 0 => 2^i = 1
           /\ i = 1 => 2^i = 2
           /\ i = 2 => 2^i = 4
           /\ i = 3 => 2^i = 8
           /\ i = 4 => 2^i = 16
           /\ i = 5 => 2^i = 32
           /\ i = 6 => 2^i = 64
           /\ i = 7 => 2^i = 128
           /\ i = 8 => 2^i = 256
           /\ i = 9 => 2^i = 512
           /\ i = 10 => 2^i = 1024
           /\ i = 11 => 2^i = 2048
           /\ i = 12 => 2^i = 4096
           /\ i = 13 => 2^i = 8192
           /\ i = 14 => 2^i = 16384
           /\ i = 15 => 2^i = 32768
<1>1. /\ i = 0 => 2^i = 2^0
      /\ i = 1 => 2^i = 2^1
      /\ i = 2 => 2^i = 2^2
      /\ i = 3 => 2^i = 2^3
      /\ i = 4 => 2^i = 2^4
      /\ i = 5 => 2^i = 2^5
      /\ i = 6 => 2^i = 2^6
      /\ i = 7 => 2^i = 2^7
      /\ i = 8 => 2^i = 2^8
      /\ i = 9 => 2^i = 2^9
      /\ i = 10 => 2^i = 2^10
      /\ i = 11 => 2^i = 2^11
      /\ i = 12 => 2^i = 2^12
      /\ i = 13 => 2^i = 2^13
      /\ i = 14 => 2^i = 2^14
      /\ i = 15 => 2^i = 2^15
      BY Zenon
<1> QED BY <1>1, Powers

LEMMA PowerOfFourMore ==
    ASSUME NEW i
    PROVE  /\ i = 0 => 2^(i + 4) = 16
           /\ i = 1 => 2^(i + 4) = 32
           /\ i = 2 => 2^(i + 4) = 64
           /\ i = 3 => 2^(i + 4) = 128
           /\ i = 4 => 2^(i + 4) = 256
           /\ i = 5 => 2^(i + 4) = 512
           /\ i = 6 => 2^(i + 4) = 1024
           /\ i = 7 => 2^(i + 4) = 2048
           /\ i = 8 => 2^(i + 4) = 4096
           /\ i = 9 => 2^(i + 4) = 8192
           /\ i = 10 => 2^(i + 4) = 16384
           /\ i = 11 => 2^(i + 4) = 32768
<1>1. /\ i = 0 => 2^(i + 4) = 2^(0 + 4)
      /\ i = 1 => 2^(i + 4) = 2^(1 + 4)
      /\ i = 2 => 2^(i + 4) = 2^(2 + 4)
      /\ i = 3 => 2^(i + 4) = 2^(3 + 4)
      /\ i = 4 => 2^(i + 4) = 2^(4 + 4)
      /\ i = 5 => 2^(i + 4) = 2^(5 + 4)
      /\ i = 6 => 2^(i + 4) = 2^(6 + 4)
      /\ i = 7 => 2^(i + 4) = 2^(7 + 4)
      /\ i = 8 => 2^(i + 4) = 2^(8 + 4)
      /\ i = 9 => 2^(i + 4) = 2^(9 + 4)
      /\ i = 10 => 2^(i + 4) = 2^(10 + 4)
      /\ i = 11 => 2^(i + 4) = 2^(11 + 4)
      BY Zenon
<1> QED BY <1>1, SMT

LEMMA Halves ==
    ASSUME NEW v \in Nat
    PROVE  /\ v \div 1 = v
           /\ v \div 4 = (v \div 2) \div 2
           /\ v \div 8 = (v \div 4) \div 2
           /\ v \div 16 = (v \div 8) \div 2
           /\ v \div 32 = (v \div 16) \div 2
           /\ v \div 64 = (v \div 32) \div 2
           /\ v \div 128 = (v \div 64) \div 2
           /\ v \div 256 = (v \div 128) \div 2
           /\ v \div 512 = (v \div 256) \div 2
           /\ v \div 1024 = (v \div 512) \div 2
           /\ v \div 2048 = (v \div 1024) \div 2
           /\ v \div 4096 = (v \div 2048) \div 2
           /\ v \div 8192 = (v \div 4096) \div 2
           /\ v \div 16384 = (v \div 8192) \div 2
           /\ v \div 32768 = (v \div 16384) \div 2
           /\ v \div 65536 = (v \div 32768) \div 2
BY SMT

LEMMA Halved ==
    ASSUME NEW v \in Nat
    PROVE  v = 2 * (v \div 2) + (v % 2) /\ v \div 2 \in Nat /\ v % 2 \in {0, 1}
BY SMT

Short(v) == v \in Nat /\ v < 65536

\* A number is the value of the set of its bits.
LEMMA ValueOfBits ==
    ASSUME NEW v, Short(v), NEW bits,
           \A i \in 0 .. 15 : i \in bits <=> (v \div 2^i) % 2 = 1
    PROVE  D!ValueOf(bits) = v
<1>0. v \in Nat /\ v < 65536
      BY DEF Short
<1> DEFINE q(n) == v \div n
           b(n) == q(n) % 2
<1>1. \A n \in {1, 2, 4, 8, 16, 32, 64, 128, 256, 512, 1024, 2048, 4096, 8192, 16384, 32768, 65536} : q(n) \in Nat /\ b(n) \in {0, 1}
      BY <1>0, SMT
<1>2. /\ q(1) = 2 * q(2) + b(1)
      /\ q(2) = 2 * q(4) + b(2)
      /\ q(4) = 2 * q(8) + b(4)
      /\ q(8) = 2 * q(16) + b(8)
      /\ q(16) = 2 * q(32) + b(16)
      /\ q(32) = 2 * q(64) + b(32)
      /\ q(64) = 2 * q(128) + b(64)
      /\ q(128) = 2 * q(256) + b(128)
      /\ q(256) = 2 * q(512) + b(256)
      /\ q(512) = 2 * q(1024) + b(512)
      /\ q(1024) = 2 * q(2048) + b(1024)
      /\ q(2048) = 2 * q(4096) + b(2048)
      /\ q(4096) = 2 * q(8192) + b(4096)
      /\ q(8192) = 2 * q(16384) + b(8192)
      /\ q(16384) = 2 * q(32768) + b(16384)
      /\ q(32768) = 2 * q(65536) + b(32768)
      BY <1>0, <1>1, Halves, Halved
<1>3. q(1) = v /\ q(65536) = 0
  <2>1. v \div 1 = v
        BY <1>0, SMT
  <2>2. v \div 65536 = 0
        BY <1>0, SMT
  <2> QED BY <2>1, <2>2
<1> HIDE DEF q, b
<1>4. q(1) = 1 * b(1) + 2 * b(2) + 4 * b(4) + 8 * b(8) + 16 * b(16) + 32 * b(32) + 64 * b(64) + 128 * b(128) + 256 * q(256)
  <2>1. q(1) = 1 * b(1) + 2 * b(2) + 4 * b(4) + 8 * b(8) + 16 * q(16)
        BY <1>1, <1>2
  <2>2. q(16) = 1 * b(16) + 2 * b(32) + 4 * b(64) + 8 * b(128) + 16 * q(256)
        BY <1>1, <1>2
  <2> QED BY <1>1, <2>1, <2>2
<1>5. q(256) = 1 * b(256) + 2 * b(512) + 4 * b(1024) + 8 * b(2048) + 16 * b(4096) + 32 * b(8192) + 64 * b(16384) + 128 * b(32768) + 256 * q(65536)
  <2>1. q(256) = 1 * b(256) + 2 * b(512) + 4 * b(1024) + 8 * b(2048) + 16 * q(4096)
        BY <1>1, <1>2
  <2>2. q(4096) = 1 * b(4096) + 2 * b(8192) + 4 * b(16384) + 8 * b(32768) + 16 * q(65536)
        BY <1>1, <1>2
  <2> QED BY <1>1, <2>1, <2>2
<1>6. 256 * q(256) = 256 * b(256) + 512 * b(512) + 1024 * b(1024) + 2048 * b(2048) + 4096 * b(4096) + 8192 * b(8192) + 16384 * b(16384) + 32768 * b(32768)
      BY <1>1, <1>3, <1>5
<1> DEFINE x0 == 1 * b(1)
           x1 == 2 * b(2)
           x2 == 4 * b(4)
           x3 == 8 * b(8)
           x4 == 16 * b(16)
           x5 == 32 * b(32)
           x6 == 64 * b(64)
           x7 == 128 * b(128)
           x8 == 256 * b(256)
           x9 == 512 * b(512)
           x10 == 1024 * b(1024)
           x11 == 2048 * b(2048)
           x12 == 4096 * b(4096)
           x13 == 8192 * b(8192)
           x14 == 16384 * b(16384)
           x15 == 32768 * b(32768)
<1>7. /\ D!Weight(bits, 0) = x0
      /\ D!Weight(bits, 1) = x1
      /\ D!Weight(bits, 2) = x2
      /\ D!Weight(bits, 3) = x3
      /\ D!Weight(bits, 4) = x4
      /\ D!Weight(bits, 5) = x5
      /\ D!Weight(bits, 6) = x6
      /\ D!Weight(bits, 7) = x7
      /\ D!Weight(bits, 8) = x8
      /\ D!Weight(bits, 9) = x9
      /\ D!Weight(bits, 10) = x10
      /\ D!Weight(bits, 11) = x11
      /\ D!Weight(bits, 12) = x12
      /\ D!Weight(bits, 13) = x13
      /\ D!Weight(bits, 14) = x14
      /\ D!Weight(bits, 15) = x15
      BY <1>0, <1>1, Powers DEF D!Weight, b, q
<1>8. /\ x0 \in Nat /\ x1 \in Nat /\ x2 \in Nat /\ x3 \in Nat /\ x4 \in Nat /\ x5 \in Nat /\ x6 \in Nat /\ x7 \in Nat
      /\ x8 \in Nat /\ x9 \in Nat /\ x10 \in Nat /\ x11 \in Nat /\ x12 \in Nat /\ x13 \in Nat /\ x14 \in Nat /\ x15 \in Nat
      BY <1>1
<1>9. /\ q(1) = x0 + x1 + x2 + x3 + x4 + x5 + x6 + x7 + 256 * q(256)
      /\ 256 * q(256) = x8 + x9 + x10 + x11 + x12 + x13 + x14 + x15
      BY <1>4, <1>6
<1> HIDE DEF x0, x1, x2, x3, x4, x5, x6, x7, x8, x9, x10, x11, x12, x13, x14, x15
<1> QED BY <1>3, <1>7, <1>8, <1>9 DEF D!ValueOf
\* The bits of a field, and of a word that is shifted.
LEMMA PartOf ==
    ASSUME NEW word, NEW low \in Nat, NEW n \in Nat
    PROVE  \A i \in Nat : i \in D!Part(word, low, n) <=> i < n /\ i + low \in word
<1> SUFFICES ASSUME NEW i \in Nat PROVE i \in D!Part(word, low, n) <=> i < n /\ i + low \in word
    OBVIOUS
<1>1. ASSUME i \in D!Part(word, low, n) PROVE i < n /\ i + low \in word
      BY <1>1 DEF D!Part
<1>2. ASSUME i < n, i + low \in word PROVE i \in D!Part(word, low, n)
  <2>1. i + low \in low .. (low + n - 1) /\ i = (i + low) - low
        BY <1>2
  <2> QED BY <1>2, <2>1 DEF D!Part
<1> QED BY <1>1, <1>2

LEMMA PartOfBits ==
    ASSUME NEW v, Short(v), NEW word, NEW low \in Nat,
           \A i \in 0 .. 15 : i + low \in word <=> i \in D!BitsOf(v, 16)
    PROVE  D!ValueOf(D!Part(word, low, 16)) = v
<1>1. \A i \in 0 .. 15 : i \in D!Part(word, low, 16) <=> i \in D!BitsOf(v, 16)
      BY PartOf
<1>2. \A i \in 0 .. 15 : i \in D!BitsOf(v, 16) <=> (v \div 2^i) % 2 = 1
      BY DEF D!BitsOf
<1> QED BY <1>1, <1>2, ValueOfBits

LEMMA ShiftBy ==
    ASSUME NEW bits \in SUBSET Nat, NEW n \in Nat
    PROVE  \A b \in Nat : b \in D!Shift(bits, n) <=> b < 32 /\ \E i \in bits : b = i + n
BY DEF D!Shift

\* The length in a word of a descriptor, counted in units of 16 bytes.
LEMMA Sixteenth ==
    ASSUME NEW w \in Nat, NEW i \in Nat, i < 12
    PROVE  w \div 2^(i + 4) = (w \div 16) \div 2^i
<1>1. /\ w \div 16 = (w \div 16) \div 1
      /\ w \div 32 = (w \div 16) \div 2
      /\ w \div 64 = (w \div 16) \div 4
      /\ w \div 128 = (w \div 16) \div 8
      /\ w \div 256 = (w \div 16) \div 16
      /\ w \div 512 = (w \div 16) \div 32
      /\ w \div 1024 = (w \div 16) \div 64
      /\ w \div 2048 = (w \div 16) \div 128
      /\ w \div 4096 = (w \div 16) \div 256
      /\ w \div 8192 = (w \div 16) \div 512
      /\ w \div 16384 = (w \div 16) \div 1024
      /\ w \div 32768 = (w \div 16) \div 2048
      BY SMT
<1>2. i = 0 \/ i = 1 \/ i = 2 \/ i = 3 \/ i = 4 \/ i = 5 \/ i = 6 \/ i = 7 \/ i = 8 \/ i = 9 \/ i = 10 \/ i = 11
      OBVIOUS
<1> QED BY <1>1, <1>2, PowerOf, PowerOfFourMore

LEMMA SixteenthOfBits ==
    ASSUME NEW w \in Nat, Short(w), NEW bits,
           \A i \in 0 .. 15 : i \in bits <=> i < 12 /\ (w \div 2^(i + 4)) % 2 = 1
    PROVE  D!ValueOf(bits) = w \div 16
<1> DEFINE u == w \div 16
<1>1. u \in Nat /\ u < 4096
      BY SMT DEF Short
<1>2. u \div 4096 = 0 /\ u \div 8192 = 0 /\ u \div 16384 = 0 /\ u \div 32768 = 0
  <2> HIDE DEF u
  <2> QED BY <1>1, SMT
<1>3. \A i \in Nat : i < 12 => w \div 2^(i + 4) = u \div 2^i
      BY Sixteenth, Zenon
<1> HIDE DEF u
<1>4. ASSUME NEW i \in 0 .. 15 PROVE i \in bits <=> (u \div 2^i) % 2 = 1
  <2>1. CASE i < 12
    <3>1. i \in Nat
          OBVIOUS
    <3>2. w \div 2^(i + 4) = u \div 2^i
          BY <1>3, <2>1, <3>1, Zenon
    <3>3. i \in bits <=> (w \div 2^(i + 4)) % 2 = 1
          BY <2>1, Zenon
    <3> QED BY <3>2, <3>3, Zenon
  <2>2. CASE i >= 12
    <3>1. i = 12 \/ i = 13 \/ i = 14 \/ i = 15
          BY <2>2
    <3>2. u \div 2^i = 0
          BY <1>2, <3>1, PowerOf
    <3>3. i \notin bits
          BY <2>2
    <3> QED BY <3>2, <3>3
  <2> QED BY <2>1, <2>2
<1>6. Short(u)
      BY <1>1 DEF Short
<1>5. D!ValueOf(bits) = u
      BY <1>1, <1>4, <1>6, ValueOfBits, SMTT(40)
<1> QED BY <1>5 DEF u

LEMMA NoBits == ASSUME NEW bits, \A i \in 0 .. 15 : i \notin bits PROVE D!ValueOf(bits) = 0
BY DEF D!ValueOf, D!Weight

LEMMA RoundedUp ==
    ASSUME NEW length \in Nat, length > 0, length <= 6144, NEW size,
           size \cap 4 .. 15 = D!Rounded(length)
    PROVE  /\ D!BufferOf(size) = size
           /\ 16 * D!ValueOf(D!Part(size, 4, 12)) \in Nat
           /\ 16 * D!ValueOf(D!Part(size, 4, 12)) >= length
           /\ 16 * D!ValueOf(D!Part(size, 4, 12)) <= length + 15
           /\ 16 * D!ValueOf(D!Part(size, 4, 12)) >= 16
           /\ 16 * D!ValueOf(D!Part(size, 4, 12)) <= 6144
<1> DEFINE w == length + 15
           bits == D!Part(size, 4, 12)
<1>1. w \in Nat /\ Short(w)
      BY SMT DEF Short
<1>2. ASSUME NEW i \in 0 .. 15 PROVE i \in bits <=> i < 12 /\ (w \div 2^(i + 4)) % 2 = 1
  <2>1. i \in bits <=> i < 12 /\ i + 4 \in size
        BY PartOf
  <2>2. i < 12 => (i + 4 \in size <=> i + 4 \in D!Rounded(length))
        BY SMT
  <2>3. i < 12 => (i + 4 \in D!Rounded(length) <=> i + 4 \in D!BitsOf(w, 17))
        BY DEF D!Rounded
  <2>4. i < 12 => (i + 4 \in D!BitsOf(w, 17) <=> (w \div 2^(i + 4)) % 2 = 1)
    <3> HIDE DEF w
    <3> QED BY DEF D!BitsOf
  <2> HIDE DEF bits, w
  <2> QED BY <2>1, <2>2, <2>3, <2>4
<1> HIDE DEF bits
<1>3. D!ValueOf(bits) = w \div 16
  <2> HIDE DEF w
  <2> QED BY <1>1, <1>2, SixteenthOfBits
<1>4. /\ w \div 16 \in Nat /\ w \div 16 >= 1 /\ w \div 16 <= 384
      /\ 16 * (w \div 16) >= length /\ 16 * (w \div 16) <= length + 15
      BY SMT
<1>5. D!BufferOf(size) = size
  <2>1. ASSUME size \cap 4 .. 15 = {} PROVE FALSE
    <3>1. \A i \in 0 .. 15 : i \in bits => i + 4 \in 4 .. 15 /\ i + 4 \in size
          BY PartOf DEF bits
    <3>2. D!ValueOf(bits) = 0
          BY <2>1, <3>1, NoBits
    <3> QED BY <1>3, <1>4, <3>2
  <2> QED BY <2>1 DEF D!BufferOf
<1> HIDE DEF w
<1> QED BY <1>3, <1>4, <1>5 DEF bits

LEMMA PartIs ==
    ASSUME NEW word, NEW low \in Nat, NEW n \in Nat, NEW set \in SUBSET Nat,
           \A i \in Nat : i \in set <=> i < n /\ i + low \in word
    PROVE  D!Part(word, low, n) = set
<1>1. \A i \in D!Part(word, low, n) : i \in Nat
      BY DEF D!Part
<1>2. \A i \in Nat : i \in D!Part(word, low, n) <=> i \in set
      BY PartOf
<1> HIDE DEF D!Part
<1> QED BY <1>1, <1>2

LEMMA InShift ==
    ASSUME NEW bits \in SUBSET Nat, NEW n \in Nat, NEW b
    PROVE  b \in D!Shift(bits, n) <=> b \in Nat /\ b < 32 /\ b >= n /\ b - n \in bits
<1>1. ASSUME b \in D!Shift(bits, n) PROVE b \in Nat /\ b < 32 /\ b >= n /\ b - n \in bits
  <2>1. PICK i \in bits : b = i + n
        BY <1>1 DEF D!Shift
  <2>2. b < 32
        BY <1>1 DEF D!Shift
  <2> QED BY <2>1, <2>2
<1>2. ASSUME b \in Nat, b < 32, b >= n, b - n \in bits PROVE b \in D!Shift(bits, n)
  <2>1. b = (b - n) + n
        BY <1>2
  <2> QED BY <1>2, <2>1 DEF D!Shift
<1> QED BY <1>1, <1>2

LEMMA InShiftDown ==
    ASSUME NEW bits \in SUBSET Nat, NEW n \in Nat, NEW b
    PROVE  b \in D!ShiftDown(bits, n) <=> b \in Nat /\ b + n \in bits
<1>1. ASSUME b \in D!ShiftDown(bits, n) PROVE b \in Nat /\ b + n \in bits
  <2>1. PICK i \in bits : i >= n /\ b = i - n
        BY <1>1 DEF D!ShiftDown
  <2> QED BY <2>1
<1>2. ASSUME b \in Nat, b + n \in bits PROVE b \in D!ShiftDown(bits, n)
  <2>1. b = (b + n) - n /\ b + n >= n
        BY <1>2
  <2> QED BY <1>2, <2>1 DEF D!ShiftDown
<1> QED BY <1>1, <1>2

\* A field of at most n bits.
Bits(set, n) == \A i \in set : i \in Nat /\ i < n

\* The fields of the two ends of a descriptor.
LEMMA PartsOfEnds ==
    ASSUME NEW prodIp, Bits(prodIp, 6), NEW prodSck, Bits(prodSck, 8),
           NEW consIp, Bits(consIp, 6), NEW consSck, Bits(consSck, 8)
    PROVE  LET sync == D!Ends(prodIp, prodSck, consIp, consSck)
           IN  /\ D!Part(sync, 24, 6) = prodIp /\ D!Part(sync, 16, 8) = prodSck
               /\ D!Part(sync, 8, 6) = consIp /\ D!Part(sync, 0, 8) = consSck
<1> DEFINE sync == D!Ends(prodIp, prodSck, consIp, consSck)
<1>1. /\ prodIp \in SUBSET Nat /\ prodSck \in SUBSET Nat
      /\ consIp \in SUBSET Nat /\ consSck \in SUBSET Nat
      BY DEF Bits
<1>2. ASSUME NEW b \in Nat
      PROVE  b \in sync <=> \/ b = 31 \/ b = 30 \/ b = 15 \/ b = 14
                            \/ b < 32 /\ b >= 24 /\ b - 24 \in prodIp
                            \/ b < 32 /\ b >= 16 /\ b - 16 \in prodSck
                            \/ b < 32 /\ b >= 8 /\ b - 8 \in consIp
                            \/ b \in consSck
  <2>1. b \in sync <=> \/ b = 31 \/ b = 30 \/ b = 15 \/ b = 14
                       \/ b \in D!Shift(prodIp, 24) \/ b \in D!Shift(prodSck, 16)
                       \/ b \in D!Shift(consIp, 8) \/ b \in consSck
        BY DEF D!Ends, D!Interrupts
  <2> QED BY <1>1, <2>1, InShift
<1> HIDE DEF sync
<1>3. ASSUME NEW i \in Nat PROVE i \in prodIp <=> i < 6 /\ i + 24 \in sync
  <2>1. i + 24 \in Nat /\ (i + 24) - 24 = i
        OBVIOUS
  <2> QED BY <1>2, <2>1 DEF Bits
<1>4. ASSUME NEW i \in Nat PROVE i \in prodSck <=> i < 8 /\ i + 16 \in sync
  <2>1. i + 16 \in Nat /\ (i + 16) - 16 = i
        OBVIOUS
  <2> QED BY <1>2, <2>1 DEF Bits
<1>5. ASSUME NEW i \in Nat PROVE i \in consIp <=> i < 6 /\ i + 8 \in sync
  <2>1. i + 8 \in Nat /\ (i + 8) - 8 = i
        OBVIOUS
  <2> QED BY <1>2, <2>1 DEF Bits
<1>6. ASSUME NEW i \in Nat PROVE i \in consSck <=> i < 8 /\ i + 0 \in sync
  <2>1. i + 0 = i
        OBVIOUS
  <2> QED BY <1>2, <2>1 DEF Bits
<1>7. D!Part(sync, 24, 6) = prodIp /\ D!Part(sync, 16, 8) = prodSck
      BY <1>1, <1>3, <1>4, PartIs
<1>8. D!Part(sync, 8, 6) = consIp /\ D!Part(sync, 0, 8) = consSck
      BY <1>1, <1>5, <1>6, PartIs
<1> QED BY <1>7, <1>8 DEF sync

\* The fields of the address of a socket.
IpOf(word) == D!ShiftDown(word, 16) \cap 0 .. 5
SckOf(word) == D!ShiftDown(word, 7) \cap 0 .. 7

AreBitsOf(bits, n, width) ==
    \A i \in Nat : i < width => (i \in bits <=> (n \div 2^i) % 2 = 1)

LEMMA AddressOf ==
    ASSUME NEW base \in Nat, NEW n \in Nat, NEW ip, Bits(ip, 6), NEW sck, Bits(sck, 8),
           AreBitsOf(ip, base, 6), AreBitsOf(sck, n, 8)
    PROVE  IpOf(D!SocketAt(base, n)) = ip /\ SckOf(D!SocketAt(base, n)) = sck
<1> DEFINE high == D!BitsOf(base, 16)
           low == D!BitsOf(n, 8)
           word == D!SocketAt(base, n)
<1>1. ASSUME NEW i \in Nat, i < 6 PROVE i \in ip <=> i \in high
  <2>1. i \in 0 .. (16 - 1)
        BY <1>1
  <2>2. i \in high <=> (base \div 2^i) % 2 = 1
        BY <2>1, Zenon DEF D!BitsOf
  <2> QED BY <1>1, <2>2, Zenon DEF AreBitsOf
<1>2. ASSUME NEW i \in Nat, i < 8 PROVE i \in sck <=> i \in low
  <2>1. i \in 0 .. (8 - 1)
        BY <1>2
  <2>2. i \in low <=> (n \div 2^i) % 2 = 1
        BY <2>1, Zenon DEF D!BitsOf
  <2> QED BY <1>2, <2>2, Zenon DEF AreBitsOf
<1>3. /\ high \in SUBSET Nat /\ \A i \in high : i < 16
      /\ low \in SUBSET Nat /\ \A i \in low : i < 8
      BY DEF D!BitsOf
<1> HIDE DEF high, low
<1>4. \A b : b \in word <=> \/ b \in D!Shift(high, 16) \/ b = 15 \/ b \in D!Shift(low, 7)
      BY DEF D!SocketAt, high, low
<1> HIDE DEF word
<1>5. \A b : b \in word <=> \/ b \in Nat /\ b < 32 /\ b >= 16 /\ b - 16 \in high
                            \/ b = 15
                            \/ b \in Nat /\ b < 32 /\ b >= 7 /\ b - 7 \in low
      BY <1>3, <1>4, InShift
<1>6. word \in SUBSET Nat
      BY <1>5
<1>7. ASSUME NEW b PROVE b \in D!ShiftDown(word, 16) \cap 0 .. 5 <=> b \in ip
  <2>1. b \in D!ShiftDown(word, 16) <=> b \in Nat /\ b + 16 \in word
        BY <1>6, InShiftDown
  <2>2. b \in Nat /\ b < 6 => (b + 16 \in word <=> b \in high)
    <3>1. b \in Nat => (b + 16) - 16 = b
          OBVIOUS
    <3>2. b \in Nat => b + 16 # 15 /\ (b + 16) - 7 = b + 9 /\ ~(b + 9 < 8)
          OBVIOUS
    <3> QED BY <1>3, <1>5, <3>1, <3>2
  <2>3. b \in 0 .. 5 <=> b \in Nat /\ b < 6
        BY SMT
  <2> QED BY <1>1, <2>1, <2>2, <2>3 DEF Bits
<1>8. ASSUME NEW b PROVE b \in D!ShiftDown(word, 7) \cap 0 .. 7 <=> b \in sck
  <2>1. b \in D!ShiftDown(word, 7) <=> b \in Nat /\ b + 7 \in word
        BY <1>6, InShiftDown
  <2>2. b \in Nat /\ b < 8 => (b + 7 \in word <=> b \in low)
    <3>1. b \in Nat => (b + 7) - 7 = b
          OBVIOUS
    <3>2. b \in Nat /\ b < 8 => b + 7 # 15 /\ ~(b + 7 >= 16)
          OBVIOUS
    <3> QED BY <1>3, <1>5, <3>1, <3>2
  <2>3. b \in 0 .. 7 <=> b \in Nat /\ b < 8
        BY SMT
  <2> QED BY <1>2, <2>1, <2>2, <2>3 DEF Bits
<1> QED BY <1>7, <1>8 DEF word, IpOf, SckOf

\* The upper halves of the addresses of the sockets, by their block.
PibBase == 57345
UibBase == 57347
UibInBase == 57348

LEMMA Sockets ==
    /\ D!FX3_DMA_SOCKET_IP("PIB0") = {0} /\ D!FX3_DMA_SOCKET_SCK("PIB0") = {}
    /\ D!FX3_DMA_SOCKET_IP("UIB0") = {0, 1} /\ D!FX3_DMA_SOCKET_SCK("UIB0") = {}
    /\ D!FX3_DMA_SOCKET_IP("UIB2") = {0, 1} /\ D!FX3_DMA_SOCKET_SCK("UIB2") = {1}
    /\ D!FX3_DMA_SOCKET_IP("UIBIN0") = {2} /\ D!FX3_DMA_SOCKET_SCK("UIBIN0") = {}
<1>1. ASSUME NEW i \in Nat, i < 6 PROVE i \in {0} <=> (PibBase \div 2^i) % 2 = 1
  <2>1. /\ (PibBase \div 1) % 2 = 1
        /\ (PibBase \div 2) % 2 = 0
        /\ (PibBase \div 4) % 2 = 0
        /\ (PibBase \div 8) % 2 = 0
        /\ (PibBase \div 16) % 2 = 0
        /\ (PibBase \div 32) % 2 = 0
        BY SMT DEF PibBase
  <2>2. i = 0 \/ i = 1 \/ i = 2 \/ i = 3 \/ i = 4 \/ i = 5
        BY <1>1
  <2> QED BY <2>1, <2>2, PowerOf
<1>2. ASSUME NEW i \in Nat, i < 6 PROVE i \in {0, 1} <=> (UibBase \div 2^i) % 2 = 1
  <2>1. /\ (UibBase \div 1) % 2 = 1
        /\ (UibBase \div 2) % 2 = 1
        /\ (UibBase \div 4) % 2 = 0
        /\ (UibBase \div 8) % 2 = 0
        /\ (UibBase \div 16) % 2 = 0
        /\ (UibBase \div 32) % 2 = 0
        BY SMT DEF UibBase
  <2>2. i = 0 \/ i = 1 \/ i = 2 \/ i = 3 \/ i = 4 \/ i = 5
        BY <1>2
  <2> QED BY <2>1, <2>2, PowerOf
<1>3. ASSUME NEW i \in Nat, i < 6 PROVE i \in {2} <=> (UibInBase \div 2^i) % 2 = 1
  <2>1. /\ (UibInBase \div 1) % 2 = 0
        /\ (UibInBase \div 2) % 2 = 0
        /\ (UibInBase \div 4) % 2 = 1
        /\ (UibInBase \div 8) % 2 = 0
        /\ (UibInBase \div 16) % 2 = 0
        /\ (UibInBase \div 32) % 2 = 0
        BY SMT DEF UibInBase
  <2>2. i = 0 \/ i = 1 \/ i = 2 \/ i = 3 \/ i = 4 \/ i = 5
        BY <1>3
  <2> QED BY <2>1, <2>2, PowerOf
<1>4. ASSUME NEW i \in Nat, i < 8 PROVE i \in {} <=> (0 \div 2^i) % 2 = 1
  <2>1. /\ (0 \div 1) % 2 = 0
        /\ (0 \div 2) % 2 = 0
        /\ (0 \div 4) % 2 = 0
        /\ (0 \div 8) % 2 = 0
        /\ (0 \div 16) % 2 = 0
        /\ (0 \div 32) % 2 = 0
        /\ (0 \div 64) % 2 = 0
        /\ (0 \div 128) % 2 = 0
        BY SMT
  <2>2. i = 0 \/ i = 1 \/ i = 2 \/ i = 3 \/ i = 4 \/ i = 5 \/ i = 6 \/ i = 7
        BY <1>4
  <2> QED BY <2>1, <2>2, PowerOf
<1>5. ASSUME NEW i \in Nat, i < 8 PROVE i \in {1} <=> (2 \div 2^i) % 2 = 1
  <2>1. /\ (2 \div 1) % 2 = 0
        /\ (2 \div 2) % 2 = 1
        /\ (2 \div 4) % 2 = 0
        /\ (2 \div 8) % 2 = 0
        /\ (2 \div 16) % 2 = 0
        /\ (2 \div 32) % 2 = 0
        /\ (2 \div 64) % 2 = 0
        /\ (2 \div 128) % 2 = 0
        BY SMT
  <2>2. i = 0 \/ i = 1 \/ i = 2 \/ i = 3 \/ i = 4 \/ i = 5 \/ i = 6 \/ i = 7
        BY <1>5
  <2> QED BY <2>1, <2>2, PowerOf
<1>6. Bits({0}, 6) /\ Bits({0, 1}, 6) /\ Bits({2}, 6) /\ Bits({}, 8) /\ Bits({1}, 8)
      BY DEF Bits
<1>11. PibBase \in Nat /\ UibBase \in Nat /\ UibInBase \in Nat
      BY DEF PibBase, UibBase, UibInBase
<1>7. D!FX3_DMA_SOCKET_IP("PIB0") = {0} /\ D!FX3_DMA_SOCKET_SCK("PIB0") = {}
  <2> DEFINE n == 0
             ip == {0}
             sck == {}
  <2>1. D!Address("PIB0") = D!SocketAt(PibBase, n)
        BY DEF D!Address, PibBase, UibBase, UibInBase
  <2>2. n \in Nat /\ Bits(ip, 6) /\ Bits(sck, 8)
        BY <1>6
  <2>3. AreBitsOf(ip, PibBase, 6)
        BY <1>1 DEF AreBitsOf
  <2>4. AreBitsOf(sck, n, 8)
        BY <1>4 DEF AreBitsOf
  <2> HIDE DEF n, ip, sck
  <2>5. IpOf(D!SocketAt(PibBase, n)) = ip /\ SckOf(D!SocketAt(PibBase, n)) = sck
        BY <1>11, <2>2, <2>3, <2>4, AddressOf
  <2>6. /\ D!FX3_DMA_SOCKET_IP("PIB0") = IpOf(D!Address("PIB0"))
        /\ D!FX3_DMA_SOCKET_SCK("PIB0") = SckOf(D!Address("PIB0"))
        BY DEF D!FX3_DMA_SOCKET_IP, D!FX3_DMA_SOCKET_SCK, IpOf, SckOf
  <2> QED BY <2>1, <2>5, <2>6 DEF ip, sck
<1>8. D!FX3_DMA_SOCKET_IP("UIB0") = {0, 1} /\ D!FX3_DMA_SOCKET_SCK("UIB0") = {}
  <2> DEFINE n == 0
             ip == {0, 1}
             sck == {}
  <2>1. D!Address("UIB0") = D!SocketAt(UibBase, n)
        BY DEF D!Address, PibBase, UibBase, UibInBase
  <2>2. n \in Nat /\ Bits(ip, 6) /\ Bits(sck, 8)
        BY <1>6
  <2>3. AreBitsOf(ip, UibBase, 6)
        BY <1>2 DEF AreBitsOf
  <2>4. AreBitsOf(sck, n, 8)
        BY <1>4 DEF AreBitsOf
  <2> HIDE DEF n, ip, sck
  <2>5. IpOf(D!SocketAt(UibBase, n)) = ip /\ SckOf(D!SocketAt(UibBase, n)) = sck
        BY <1>11, <2>2, <2>3, <2>4, AddressOf
  <2>6. /\ D!FX3_DMA_SOCKET_IP("UIB0") = IpOf(D!Address("UIB0"))
        /\ D!FX3_DMA_SOCKET_SCK("UIB0") = SckOf(D!Address("UIB0"))
        BY DEF D!FX3_DMA_SOCKET_IP, D!FX3_DMA_SOCKET_SCK, IpOf, SckOf
  <2> QED BY <2>1, <2>5, <2>6 DEF ip, sck
<1>9. D!FX3_DMA_SOCKET_IP("UIB2") = {0, 1} /\ D!FX3_DMA_SOCKET_SCK("UIB2") = {1}
  <2> DEFINE n == 2
             ip == {0, 1}
             sck == {1}
  <2>1. D!Address("UIB2") = D!SocketAt(UibBase, n)
        BY DEF D!Address, PibBase, UibBase, UibInBase
  <2>2. n \in Nat /\ Bits(ip, 6) /\ Bits(sck, 8)
        BY <1>6
  <2>3. AreBitsOf(ip, UibBase, 6)
        BY <1>2 DEF AreBitsOf
  <2>4. AreBitsOf(sck, n, 8)
        BY <1>5 DEF AreBitsOf
  <2> HIDE DEF n, ip, sck
  <2>5. IpOf(D!SocketAt(UibBase, n)) = ip /\ SckOf(D!SocketAt(UibBase, n)) = sck
        BY <1>11, <2>2, <2>3, <2>4, AddressOf
  <2>6. /\ D!FX3_DMA_SOCKET_IP("UIB2") = IpOf(D!Address("UIB2"))
        /\ D!FX3_DMA_SOCKET_SCK("UIB2") = SckOf(D!Address("UIB2"))
        BY DEF D!FX3_DMA_SOCKET_IP, D!FX3_DMA_SOCKET_SCK, IpOf, SckOf
  <2> QED BY <2>1, <2>5, <2>6 DEF ip, sck
<1>10. D!FX3_DMA_SOCKET_IP("UIBIN0") = {2} /\ D!FX3_DMA_SOCKET_SCK("UIBIN0") = {}
  <2> DEFINE n == 0
             ip == {2}
             sck == {}
  <2>1. D!Address("UIBIN0") = D!SocketAt(UibInBase, n)
        BY DEF D!Address, PibBase, UibBase, UibInBase
  <2>2. n \in Nat /\ Bits(ip, 6) /\ Bits(sck, 8)
        BY <1>6
  <2>3. AreBitsOf(ip, UibInBase, 6)
        BY <1>3 DEF AreBitsOf
  <2>4. AreBitsOf(sck, n, 8)
        BY <1>4 DEF AreBitsOf
  <2> HIDE DEF n, ip, sck
  <2>5. IpOf(D!SocketAt(UibInBase, n)) = ip /\ SckOf(D!SocketAt(UibInBase, n)) = sck
        BY <1>11, <2>2, <2>3, <2>4, AddressOf
  <2>6. /\ D!FX3_DMA_SOCKET_IP("UIBIN0") = IpOf(D!Address("UIBIN0"))
        /\ D!FX3_DMA_SOCKET_SCK("UIBIN0") = SckOf(D!Address("UIBIN0"))
        BY DEF D!FX3_DMA_SOCKET_IP, D!FX3_DMA_SOCKET_SCK, IpOf, SckOf
  <2> QED BY <2>1, <2>5, <2>6 DEF ip, sck
<1> QED BY <1>7, <1>8, <1>9, <1>10

-----------------------------------------------------------------------------
(***************************************************************************)
(* What a socket loads, for each kind of call.                              *)
(***************************************************************************)
\* The room in a buffer for a length.
RoomFor(room, length) ==
    /\ room \in Nat /\ room >= length /\ room <= length + 15
    /\ room >= 16 /\ room <= 6144

\* The fields of a descriptor as the callers of the three kinds ask for them.
AsRead(d, buffer, length) ==
    /\ d.own = TRUE /\ d.left = TRUE /\ d.buffer = buffer
    /\ d.cons = <<{0, 1}, {}>> /\ d.prod = <<D!Cpu, {}>>
    /\ d.count = length /\ RoomFor(d.room, length)

AsWrite(d, buffer, length) ==
    /\ d.own = TRUE /\ d.left = TRUE /\ d.buffer = buffer
    /\ d.prod = <<{2}, {}>> /\ d.cons = <<D!Cpu, {}>>
    /\ d.count = 0 /\ RoomFor(d.room, length)

AsProduce(d, buffer, length) ==
    /\ d.own = TRUE /\ d.left = TRUE /\ d.buffer = buffer
    /\ d.prod = <<{0}, {}>> /\ d.cons = <<{0, 1}, {1}>>
    /\ d.count = 0 /\ RoomFor(d.room, length) /\ d.next = <<3, 2>>

LEMMA InBits ==
    ASSUME NEW v, NEW i \in 0 .. 15, NEW rest,
           i + 16 \notin rest
    PROVE  i + 16 \in D!Shift(D!BitsOf(v, 16), 16) \cup rest <=> i \in D!BitsOf(v, 16)
<1>1. D!BitsOf(v, 16) \in SUBSET Nat
      BY DEF D!BitsOf
<1>2. i + 16 \in Nat /\ i + 16 < 32 /\ i + 16 >= 16 /\ (i + 16) - 16 = i
      OBVIOUS
<1>3. i + 16 \in D!Shift(D!BitsOf(v, 16), 16) <=> i \in D!BitsOf(v, 16)
      BY <1>1, <1>2, InShift
<1> QED BY <1>3

LEMMA ReadLoads ==
    ASSUME NEW buffer, NEW length \in Nat, length > 0, length <= 512
    PROVE  AsRead(D!Decoded(TRUE, D!FillRead("UIB0", buffer, length)), buffer, length)
<1> DEFINE w == D!FillRead("UIB0", buffer, length)
           high == D!Shift(D!BitsOf(length, 16), 16)
           size == high \cup D!Rounded(length) \cup {3}
           sync == D!Ends(D!Cpu, {}, {0, 1}, {})
<1>1. D!BufferOf(size) = size /\ RoomFor(16 * D!ValueOf(D!Part(size, 4, 12)), length)
  <2>1. \A b : b \in high => b >= 16 /\ b \in Nat
    <3>1. D!BitsOf(length, 16) \in SUBSET Nat
          BY DEF D!BitsOf
    <3> QED BY <3>1, InShift
  <2>2. size \cap 4 .. 15 = D!Rounded(length)
    <3> HIDE DEF high
    <3> QED BY <2>1 DEF D!Rounded
  <2> QED BY <2>2, RoundedUp DEF RoomFor
<1>2. D!ValueOf(D!Part(size, 16, 16)) = length
  <2>1. Short(length)
        BY DEF Short
  <2>2. ASSUME NEW i \in 0 .. 15 PROVE i + 16 \in size <=> i \in D!BitsOf(length, 16)
    <3>1. i + 16 \notin D!Rounded(length) \cup {3}
          BY DEF D!Rounded
    <3> QED BY <3>1, InBits
  <2> QED BY <2>1, <2>2, PartOfBits
<1>3. w.buffer = buffer /\ w.sync = sync /\ w.size = size
      BY <1>1, Sockets, SMTT(40) DEF D!FillRead, D!Words
<1>4. /\ D!Part(sync, 24, 6) = D!Cpu /\ D!Part(sync, 16, 8) = {}
      /\ D!Part(sync, 8, 6) = {0, 1} /\ D!Part(sync, 0, 8) = {}
  <2>1. Bits(D!Cpu, 6) /\ Bits({}, 8) /\ Bits({0, 1}, 6)
        BY DEF D!Cpu, Bits
  <2> QED BY <2>1, PartsOfEnds
<1>5. 3 \in size
      OBVIOUS
<1> HIDE DEF w, size, sync
<1> QED BY <1>1, <1>2, <1>3, <1>4, <1>5 DEF D!Decoded, w, AsRead

LEMMA NotBusy ==
    ASSUME NEW length
    PROVE  3 \notin D!Rounded(length) /\ D!Rounded(length) \cap 4 .. 15 = D!Rounded(length)
BY DEF D!Rounded

LEMMA WriteLoads ==
    ASSUME NEW buffer, NEW length \in Nat, length > 0, length <= 512
    PROVE  AsWrite(D!Decoded(TRUE, D!FillWrite("UIBIN0", buffer, length)), buffer, length)
<1> DEFINE w == D!FillWrite("UIBIN0", buffer, length)
           size == D!Rounded(length)
           sync == D!Ends({2}, {}, D!Cpu, {})
<1>1. D!BufferOf(size) = size /\ RoomFor(16 * D!ValueOf(D!Part(size, 4, 12)), length)
      BY NotBusy, RoundedUp DEF RoomFor
<1>2. w.buffer = buffer /\ w.sync = sync /\ w.size = size
      BY <1>1, Sockets DEF D!FillWrite, D!Words
<1>3. /\ D!Part(sync, 24, 6) = {2} /\ D!Part(sync, 16, 8) = {}
      /\ D!Part(sync, 8, 6) = D!Cpu /\ D!Part(sync, 0, 8) = {}
  <2>1. Bits(D!Cpu, 6) /\ Bits({}, 8) /\ Bits({2}, 6)
        BY DEF D!Cpu, Bits
  <2> QED BY <2>1, PartsOfEnds
<1>4. 3 \notin size
      BY NotBusy
<1> HIDE DEF w, size, sync
<1> QED BY <1>1, <1>2, <1>3, <1>4 DEF D!Decoded, w, AsWrite

LEMMA RingLoads ==
    ASSUME NEW buffer, NEW length, length = D!DMA_BUFFER_SIZE
    PROVE  AsProduce(D!Decoded(TRUE, D!FillThrough("PIB0", "UIB2", buffer, length, 3, 2)), buffer, length)
<1> DEFINE w == D!FillThrough("PIB0", "UIB2", buffer, length, 3, 2)
           size == D!Rounded(length)
           sync == D!Ends({0}, {}, {0, 1}, {1})
           chain == D!Shift(D!BitsOf(3, 16), 16) \cup D!BitsOf(2, 16)
<1>1. D!BufferOf(size) = size /\ RoomFor(16 * D!ValueOf(D!Part(size, 4, 12)), length)
      BY NotBusy, RoundedUp DEF RoomFor, D!DMA_BUFFER_SIZE
<1>2. w.buffer = buffer /\ w.sync = sync /\ w.size = size /\ w.chain = chain
      BY <1>1, Sockets DEF D!FillThrough, D!Words
<1>3. /\ D!Part(sync, 24, 6) = {0} /\ D!Part(sync, 16, 8) = {}
      /\ D!Part(sync, 8, 6) = {0, 1} /\ D!Part(sync, 0, 8) = {1}
  <2>1. Bits({0}, 6) /\ Bits({}, 8) /\ Bits({0, 1}, 6) /\ Bits({1}, 8)
        BY DEF Bits
  <2> QED BY <2>1, PartsOfEnds
<1>4. 3 \notin size
      BY NotBusy
<1>5. D!BitsOf(3, 16) \in SUBSET Nat /\ D!BitsOf(2, 16) \in SUBSET Nat /\ Short(2) /\ Short(3)
      BY DEF D!BitsOf, Short
<1>6. D!ValueOf(D!Part(chain, 16, 16)) = 3
  <2>1. ASSUME NEW i \in 0 .. 15 PROVE i + 16 \in chain <=> i \in D!BitsOf(3, 16)
    <3>1. i + 16 \notin D!BitsOf(2, 16)
          BY DEF D!BitsOf
    <3> QED BY <3>1, InBits
  <2> QED BY <1>5, <2>1, PartOfBits
<1>7. D!ValueOf(D!Part(chain, 0, 16)) = 2
  <2>1. ASSUME NEW i \in 0 .. 15 PROVE i + 0 \in chain <=> i \in D!BitsOf(2, 16)
    <3>1. i + 0 = i /\ ~(i >= 16)
          OBVIOUS
    <3>2. i \notin D!Shift(D!BitsOf(3, 16), 16)
          BY <1>5, <3>1, InShift
    <3> QED BY <3>1, <3>2
  <2> QED BY <1>5, <2>1, PartOfBits
<1> HIDE DEF w, size, sync, chain
<1> QED BY <1>1, <1>2, <1>3, <1>4, <1>6, <1>7 DEF D!Decoded, w, AsProduce

-----------------------------------------------------------------------------
(***************************************************************************)
(* The calls, as lists of accesses.                                         *)
(***************************************************************************)
\* The words that a call writes.
WordsOf(call) ==
    IF call.op = "read" THEN D!FillRead("UIB0", call.buffer, call.length)
    ELSE IF call.op = "write" THEN D!FillWrite("UIBIN0", call.buffer, call.length)
    ELSE D!FillThrough("PIB0", "UIB2", call.buffer, call.length, 3, 2)

EventOf(call) == IF call.op = "read" THEN "CONSUME_EVENT" ELSE "PRODUCE_EVENT"

transferOps(call) ==
    D!fill(WordsOf(call)) \o D!transferStart(D!Simple, 1) \o << <<"wait", EventOf(call)>> >>

produceOps(call) ==
    D!abortSocket \o D!fill(WordsOf(call)) \o D!transferStart(D!Producer, 0)

Ops(call) == IF call.op \in {"read", "write"} THEN transferOps(call)
             ELSE IF call.op = "produce" THEN produceOps(call)
             ELSE IF call.op = "abort" THEN D!abortSocket ELSE <<>>

Rest(ops, n) == SubSeq(ops, n + 1, Len(ops))

LEMMA TransferOps ==
    ASSUME NEW call, NEW ops, ops = transferOps(call)
    PROVE  /\ ops \in Seq({ops[i] : i \in 1 .. 9}) /\ Len(ops) = 9
           /\ ops[1] = <<"fill", WordsOf(call)>> /\ ops[2] = <<"clean">>
           /\ ops[3] = <<"status", D!Default>> /\ ops[4] = <<"awaitDisabled">>
           /\ ops[5] = <<"status", D!Simple>> /\ ops[6] = <<"clearIntr">>
           /\ ops[7] = <<"size", 1>> /\ ops[8] = <<"go">> /\ ops[9] = <<"wait", EventOf(call)>>
BY DEF transferOps, D!fill, D!transferStart

LEMMA ProduceOps ==
    ASSUME NEW call, NEW ops, ops = produceOps(call)
    PROVE  /\ ops \in Seq({ops[i] : i \in 1 .. 11}) /\ Len(ops) = 11
           /\ ops[1] = <<"clearGo">> /\ ops[2] = <<"clearIntr">> /\ ops[3] = <<"awaitDisabled">>
           /\ ops[4] = <<"fill", WordsOf(call)>> /\ ops[5] = <<"clean">>
           /\ ops[6] = <<"status", D!Default>> /\ ops[7] = <<"awaitDisabled">>
           /\ ops[8] = <<"status", D!Producer>> /\ ops[9] = <<"clearIntr">>
           /\ ops[10] = <<"size", 0>> /\ ops[11] = <<"go">>
BY DEF produceOps, D!fill, D!transferStart, D!abortSocket

LEMMA AbortOps ==
    ASSUME NEW ops, ops = D!abortSocket
    PROVE  /\ ops \in Seq({ops[i] : i \in 1 .. 3}) /\ Len(ops) = 3
           /\ ops[1] = <<"clearGo">> /\ ops[2] = <<"clearIntr">> /\ ops[3] = <<"awaitDisabled">>
BY DEF D!abortSocket

LEMMA RestOfSeq ==
    ASSUME NEW S, NEW ops \in Seq(S), NEW n \in 0 .. Len(ops)
    PROVE  /\ Rest(ops, n) \in Seq(S) /\ Len(Rest(ops, n)) = Len(ops) - n
           /\ \A i \in 1 .. (Len(ops) - n) : Rest(ops, n)[i] = ops[n + i]
<1>1. Len(ops) \in Nat
      OBVIOUS
<1> QED BY <1>1, SubSeqProperties DEF Rest

LEMMA TakeOne ==
    ASSUME NEW S, NEW ops \in Seq(S), NEW n \in 0 .. Len(ops), Rest(ops, n) # <<>>
    PROVE  /\ n + 1 \in 1 .. Len(ops)
           /\ Head(Rest(ops, n)) = ops[n + 1]
           /\ Tail(Rest(ops, n)) = Rest(ops, n + 1)
<1>1. Len(ops) \in Nat
      OBVIOUS
<1>2. ASSUME n = Len(ops) PROVE FALSE
      BY <1>1, <1>2, SubSeqEmpty DEF Rest
<1>3. n + 1 \in 1 .. Len(ops)
      BY <1>1, <1>2
<1> DEFINE k == n + 1
<1>4. k \in 1 .. Len(ops) /\ Len(ops) \in k .. Len(ops) /\ Rest(ops, n) = SubSeq(ops, k, Len(ops))
      BY <1>1, <1>3 DEF Rest
<1>5. Rest(ops, n + 1) = SubSeq(ops, k + 1, Len(ops))
      BY DEF Rest
<1> HIDE DEF k
<1>6. Head(Rest(ops, n)) = ops[k] /\ Tail(Rest(ops, n)) = SubSeq(ops, k + 1, Len(ops))
      BY <1>4, HeadTailOfSubSeq
<1> QED BY <1>3, <1>5, <1>6 DEF k

LEMMA WholeIsRest ==
    ASSUME NEW S, NEW ops \in Seq(S)
    PROVE  ops = Rest(ops, 0)
BY SubSeqFull DEF Rest

-----------------------------------------------------------------------------
(***************************************************************************)
(* The inductive invariant: what holds when a call has made n accesses.     *)
(***************************************************************************)
Flag == D!Default \cup {"UNIT", "GO_ENABLE", "ENABLED"}
Raised == D!Events \cup {"ERROR"}

Types ==
    /\ dirty \in BOOLEAN
    /\ STATUS \in [D!Socket -> SUBSET Flag]
    /\ INTR \in [D!Socket -> SUBSET Raised]
    /\ SIZE \in [D!Socket -> {0, 1}]
    /\ job = [s \in D!Socket |-> job[s]]
    /\ \A s \in D!Socket : s # now.socket => ~job[s].own
    /\ \A s \in D!Socket : job[s].own \in BOOLEAN
    /\ \/ now.op \in {"none", "abort", "produce"} /\ now.socket = "PIB0"
       \/ now.op = "read" /\ now.socket = "UIB0"
       \/ now.op = "write" /\ now.socket = "UIBIN0"
    /\ now.op \in {"read", "write"} => now.length \in Nat /\ now.length > 0 /\ now.length <= 512
    /\ now.op = "produce" => now.length = D!DMA_BUFFER_SIZE

\* The descriptor of the call in the socket, with work left or done.
JobOf(call, left) ==
    LET d == D!Decoded(TRUE, WordsOf(call))
    IN  [own |-> TRUE, left |-> left, buffer |-> d.buffer, prod |-> d.prod, cons |-> d.cons,
         room |-> d.room, count |-> d.count, next |-> d.next]

\* How far the transfer is on the bus: not begun, begun, done or failed.
Waiting == ~job[now.socket].own /\ "ENABLED" \notin STATUS[now.socket]
           /\ INTR[now.socket] = {} /\ moved = D!NotYet
Loaded(left) == job[now.socket] = JobOf(now, left) /\ "ENABLED" \in STATUS[now.socket]
Busy == Loaded(TRUE) /\ INTR[now.socket] = {} /\ moved = D!NotYet
Complete == Loaded(FALSE) /\ INTR[now.socket] = {EventOf(now)} /\ moved = now.length
Broken == Loaded(FALSE) /\ INTR[now.socket] = {"ERROR"} /\ moved = D!Failed

TransferAt(n) ==
    /\ n = 1 => cache = WordsOf(now) /\ (dirty \/ memory = WordsOf(now))
    /\ n >= 2 => memory = WordsOf(now) /\ ~dirty
    /\ n \in 3 .. 7 => "GO_ENABLE" \notin STATUS[now.socket]
    /\ n \in 4 .. 7 => "ENABLED" \notin STATUS[now.socket]
    /\ n \in 5 .. 7 => STATUS[now.socket] = D!Simple
    /\ n \in 6 .. 7 => INTR[now.socket] = {}
    /\ n >= 7 => SIZE[now.socket] = 1
    /\ n <= 7 => ~job[now.socket].own /\ moved = D!NotYet
    /\ n <= 8 => outcome = "none"
    /\ n >= 8 => /\ "GO_ENABLE" \in STATUS[now.socket]
                 /\ D!Simple \subseteq STATUS[now.socket]
                 /\ Waiting \/ Busy \/ Complete \/ Broken
    /\ n = 9 => \/ outcome = "event" /\ Complete
                \/ outcome = "error" /\ Broken

OfTheCall(d, call) == d = JobOf(call, TRUE) \/ d = JobOf(call, FALSE)

ProduceAt(n) ==
    /\ n = 4 => cache = WordsOf(now) /\ (dirty \/ memory = WordsOf(now))
    /\ n >= 5 => memory = WordsOf(now) /\ ~dirty
    /\ n <= 10 => ~job["PIB0"].own
    /\ job["PIB0"].own => OfTheCall(job["PIB0"], now)
    /\ outcome = "none" /\ moved \in {D!NotYet, D!Failed}

\* Nothing runs before the first call either, on the socket of the PIB.
QuietAt(n) ==
    /\ ~job["PIB0"].own /\ outcome = "none" /\ moved = D!NotYet
    /\ now.op = "none" \/ n >= 1 => "GO_ENABLE" \notin STATUS["PIB0"]
    /\ now.op = "abort" /\ n = 3 => "ENABLED" \notin STATUS["PIB0"]

At(n) ==
    /\ todo = Rest(Ops(now), n)
    /\ now.op \in {"read", "write"} => TransferAt(n)
    /\ now.op = "produce" => ProduceAt(n)
    /\ now.op \in {"none", "abort"} => QuietAt(n)

CallInv == \E n \in 0 .. Len(Ops(now)) : At(n)

DriverInv == Types /\ CallInv

-----------------------------------------------------------------------------
LEMMA JobLoaded ==
    ASSUME NEW call
    PROVE  D!Decoded(TRUE, WordsOf(call)) = JobOf(call, TRUE)
BY DEF JobOf, D!Decoded

LEMMA JobFields ==
    ASSUME Types, now.op \in {"read", "write", "produce"}
    PROVE  \A a, b : /\ [JobOf(now, a) EXCEPT !.left = b] = JobOf(now, b)
                     /\ JobOf(now, a).own = TRUE /\ JobOf(now, a).left = a
                     /\ JobOf(now, a).buffer = now.buffer /\ RoomFor(JobOf(now, a).room, now.length)
                     /\ now.op = "read" => JobOf(now, a).cons = <<D!Ip(now.socket), {}>>
                     /\ now.op # "read" => JobOf(now, a).prod = <<D!Ip(now.socket), {}>>
                     /\ now.op = "read" => /\ JobOf(now, a).count = now.length
                                           /\ JobOf(now, a).prod = <<D!Cpu, {}>>
                     /\ now.op = "write" => /\ JobOf(now, a).count = 0
                                            /\ JobOf(now, a).cons = <<D!Cpu, {}>>
                     /\ now.op = "produce" => /\ JobOf(now, a).cons = <<{0, 1}, {1}>>
                                              /\ JobOf(now, a).count = 0
                                              /\ JobOf(now, a).next = <<3, 2>>
<1> DEFINE d == D!Decoded(TRUE, WordsOf(now))
<1>1. /\ d.own = TRUE /\ d.left = TRUE /\ d.buffer = now.buffer /\ RoomFor(d.room, now.length)
      /\ now.op = "read" => d.cons = <<D!Ip(now.socket), {}>>
      /\ now.op # "read" => d.prod = <<D!Ip(now.socket), {}>>
      /\ now.op = "read" => d.count = now.length /\ d.prod = <<D!Cpu, {}>>
      /\ now.op = "write" => d.count = 0 /\ d.cons = <<D!Cpu, {}>>
      /\ now.op = "produce" => d.cons = <<{0, 1}, {1}>> /\ d.count = 0 /\ d.next = <<3, 2>>
  <2>1. CASE now.op = "read"
    <3>1. now.length \in Nat /\ now.length > 0 /\ now.length <= 512 /\ now.socket = "UIB0"
          BY <2>1 DEF Types
    <3>2. d = D!Decoded(TRUE, D!FillRead("UIB0", now.buffer, now.length))
          BY <2>1 DEF WordsOf
    <3>3. AsRead(d, now.buffer, now.length)
          BY <3>1, <3>2, ReadLoads
    <3>4. D!Ip(now.socket) = {0, 1}
          BY <3>1 DEF D!Ip
    <3> HIDE DEF d
    <3> QED BY <2>1, <3>3, <3>4 DEF AsRead
  <2>2. CASE now.op = "write"
    <3>1. now.length \in Nat /\ now.length > 0 /\ now.length <= 512 /\ now.socket = "UIBIN0"
          BY <2>2 DEF Types
    <3>2. d = D!Decoded(TRUE, D!FillWrite("UIBIN0", now.buffer, now.length))
          BY <2>2 DEF WordsOf
    <3>3. AsWrite(d, now.buffer, now.length)
          BY <3>1, <3>2, WriteLoads
    <3>4. D!Ip(now.socket) = {2}
          BY <3>1 DEF D!Ip
    <3> HIDE DEF d
    <3> QED BY <2>2, <3>3, <3>4 DEF AsWrite
  <2>3. CASE now.op = "produce"
    <3>1. now.length = D!DMA_BUFFER_SIZE /\ now.socket = "PIB0"
          BY <2>3 DEF Types
    <3>2. d = D!Decoded(TRUE, D!FillThrough("PIB0", "UIB2", now.buffer, now.length, 3, 2))
          BY <2>3 DEF WordsOf
    <3>3. AsProduce(d, now.buffer, now.length)
          BY <3>1, <3>2, RingLoads
    <3>4. D!Ip(now.socket) = {0}
          BY <3>1 DEF D!Ip
    <3> HIDE DEF d
    <3> QED BY <2>3, <3>3, <3>4 DEF AsProduce
  <2> QED BY <2>1, <2>2, <2>3
<1>2. d = JobOf(now, TRUE)
      BY DEF JobOf, D!Decoded
<1>3. \A a : JobOf(now, a) = [own |-> TRUE, left |-> a, buffer |-> d.buffer, prod |-> d.prod,
                       cons |-> d.cons, room |-> d.room, count |-> d.count, next |-> d.next]
      BY DEF JobOf
<1> HIDE DEF d
<1> DEFINE yes == TRUE
<1>4. ASSUME NEW a, NEW b PROVE [JobOf(now, a) EXCEPT !.left = b] = JobOf(now, b)
  <2>1. /\ JobOf(now, a) = [own |-> yes, left |-> a, buffer |-> d.buffer, prod |-> d.prod,
                       cons |-> d.cons, room |-> d.room, count |-> d.count, next |-> d.next]
        /\ JobOf(now, b) = [own |-> yes, left |-> b, buffer |-> d.buffer, prod |-> d.prod,
                       cons |-> d.cons, room |-> d.room, count |-> d.count, next |-> d.next]
        BY <1>3
  <2> HIDE DEF yes
  <2> QED BY <2>1
<1>5. \A a : /\ JobOf(now, a).own = TRUE /\ JobOf(now, a).left = a /\ JobOf(now, a).buffer = d.buffer
             /\ JobOf(now, a).room = d.room /\ JobOf(now, a).count = d.count /\ JobOf(now, a).prod = d.prod
             /\ JobOf(now, a).cons = d.cons /\ JobOf(now, a).next = d.next
      BY <1>3
<1>6. ASSUME NEW a, NEW b
      PROVE  /\ [JobOf(now, a) EXCEPT !.left = b] = JobOf(now, b)
             /\ JobOf(now, a).own = TRUE /\ JobOf(now, a).left = a
             /\ JobOf(now, a).buffer = now.buffer /\ RoomFor(JobOf(now, a).room, now.length)
             /\ now.op = "read" => JobOf(now, a).cons = <<D!Ip(now.socket), {}>>
             /\ now.op # "read" => JobOf(now, a).prod = <<D!Ip(now.socket), {}>>
             /\ now.op = "read" => /\ JobOf(now, a).count = now.length
                                   /\ JobOf(now, a).prod = <<D!Cpu, {}>>
             /\ now.op = "write" => JobOf(now, a).count = 0 /\ JobOf(now, a).cons = <<D!Cpu, {}>>
             /\ now.op = "produce" => /\ JobOf(now, a).cons = <<{0, 1}, {1}>>
                                      /\ JobOf(now, a).count = 0
                                      /\ JobOf(now, a).next = <<3, 2>>
  <2>1. [JobOf(now, a) EXCEPT !.left = b] = JobOf(now, b)
        BY <1>4
  <2>2. /\ JobOf(now, a).own = TRUE /\ JobOf(now, a).left = a /\ JobOf(now, a).buffer = d.buffer
        /\ JobOf(now, a).room = d.room /\ JobOf(now, a).count = d.count /\ JobOf(now, a).prod = d.prod
        /\ JobOf(now, a).cons = d.cons /\ JobOf(now, a).next = d.next
        BY <1>5
  <2> QED BY <1>1, <2>1, <2>2
<1> QED BY <1>6

\* Work that is done leaves the rest of the descriptor as it is.
LEMMA JobLeft ==
    ASSUME Types, now.op \in {"read", "write", "produce"}, NEW left
    PROVE  /\ [JobOf(now, TRUE) EXCEPT !.left = left] = JobOf(now, left)
           /\ JobOf(now, left).own = TRUE /\ JobOf(now, FALSE).left = FALSE
<1> DEFINE yes == TRUE
           no == FALSE
<1>1. /\ [JobOf(now, yes) EXCEPT !.left = left] = JobOf(now, left)
      /\ JobOf(now, left).own = TRUE /\ JobOf(now, no).left = no
  <2>1. ASSUME NEW a, NEW b
        PROVE  /\ [JobOf(now, a) EXCEPT !.left = b] = JobOf(now, b)
               /\ JobOf(now, a).own = TRUE /\ JobOf(now, a).left = a
        BY JobFields, ZenonT(60)
  <2> HIDE DEF yes, no
  <2> QED BY <2>1
<1> QED BY <1>1

\* A socket loads the descriptor of the call only when the call has enabled it.
LEMMA StartedWhen ==
    ASSUME NEW S, NEW ops \in Seq(S), NEW n \in 0 .. Len(ops), todo = Rest(ops, n)
    PROVE  /\ \A k \in 1 .. Len(ops) : k > n /\ ops[k][1] \in {"go", "clearGo"} =>
                  \A s : ~D!Started(s)
           /\ (\A k \in 1 .. Len(ops) : k > n => ops[k][1] \notin {"go", "clearGo"}) =>
                  D!Started(now.socket)
<1>1. Len(ops) \in Nat /\ todo \in Seq(S) /\ Len(todo) = Len(ops) - n
      BY RestOfSeq
<1>2. \A i \in 1 .. (Len(ops) - n) : todo[i] = ops[n + i]
      BY RestOfSeq
<1>3. DOMAIN todo = 1 .. (Len(ops) - n)
      BY <1>1
<1>4. ASSUME NEW k \in 1 .. Len(ops), k > n, ops[k][1] \in {"go", "clearGo"}, NEW s
      PROVE  ~D!Started(s)
  <2>1. k - n \in 1 .. (Len(ops) - n) /\ n + (k - n) = k
        BY <1>1, <1>4
  <2>2. todo[k - n] = ops[k]
        BY <1>2, <2>1
  <2> QED BY <1>3, <1>4, <2>1, <2>2 DEF D!Started
<1>5. ASSUME \A k \in 1 .. Len(ops) : k > n => ops[k][1] \notin {"go", "clearGo"}
      PROVE  D!Started(now.socket)
  <2>1. \A i \in 1 .. (Len(ops) - n) : n + i \in 1 .. Len(ops) /\ n + i > n
        BY <1>1
  <2> QED BY <1>2, <1>3, <1>5, <2>1 DEF D!Started
<1> QED BY <1>4, <1>5

\* An access takes the first of those that are left.
LEMMA AccessTakesOne ==
    ASSUME NEW S, NEW ops \in Seq(S), NEW n \in 0 .. Len(ops), todo = Rest(ops, n), D!Access
    PROVE  /\ n + 1 \in 1 .. Len(ops) /\ D!Op = ops[n + 1]
           /\ todo' = Rest(ops, n + 1) /\ now' = now
<1>1. todo # <<>> /\ todo' = Tail(todo) /\ now' = now
      BY DEF D!Access, D!Fill, D!Clean, D!WriteStatus, D!ClearIntr, D!WriteSize,
             D!AwaitDisabled, D!WaitForEvent, D!Is
<1> QED BY <1>1, TakeOne DEF D!Op

\* The access that comes next decides which it is.
LEMMA AccessIs ==
    ASSUME D!Access
    PROVE  /\ D!Op[1] = "fill" => D!Fill
           /\ D!Op[1] = "clean" => D!Clean
           /\ D!Op[1] = "status" => D!SetStatus(D!Op[2])
           /\ D!Op[1] = "clearGo" => D!SetStatus(STATUS[now.socket] \ {"GO_ENABLE", "ENABLED"})
           /\ D!Op[1] = "go" => D!SetStatus((STATUS[now.socket] \ {"ENABLED"}) \cup {"GO_ENABLE"})
           /\ D!Op[1] = "clearIntr" => D!ClearIntr
           /\ D!Op[1] = "size" => D!WriteSize
           /\ D!Op[1] = "awaitDisabled" => D!AwaitDisabled
           /\ D!Op[1] = "wait" => D!WaitForEvent
BY DEF D!Access, D!Fill, D!Clean, D!WriteStatus, D!ClearIntr, D!WriteSize,
       D!AwaitDisabled, D!WaitForEvent, D!Is

LEMMA SocketOfCall == Types => now.socket \in D!Socket
BY DEF Types, D!Socket

LEMMA StatusWritten ==
    ASSUME Types, NEW flags \in SUBSET Flag, D!SetStatus(flags)
    PROVE  /\ STATUS' \in [D!Socket -> SUBSET Flag]
           /\ STATUS'[now.socket] = flags \cup (STATUS[now.socket] \cap {"ENABLED"})
           /\ UNCHANGED <<outcome, cache, dirty, memory, INTR, SIZE, job, moved>>
<1>1. now.socket \in D!Socket /\ STATUS \in [D!Socket -> SUBSET Flag]
      BY SocketOfCall DEF Types
<1>2. STATUS' = [STATUS EXCEPT ![now.socket] = flags \cup (STATUS[now.socket] \cap {"ENABLED"})]
      BY DEF D!SetStatus
<1>3. UNCHANGED <<outcome, cache, dirty, memory, INTR, SIZE, job, moved>>
      BY DEF D!SetStatus, D!wordVars
<1> QED BY <1>1, <1>2, <1>3

LEMMA TransferAccess ==
    ASSUME Types, now.op \in {"read", "write"}, NEW n \in 0 .. 9, todo = Rest(Ops(now), n),
           TransferAt(n), D!Access
    PROVE  /\ n <= 8 /\ now' = now /\ todo' = Rest(Ops(now), n + 1)
           /\ Types' /\ TransferAt(n + 1)'
<1> DEFINE ops == transferOps(now)
           s == now.socket
<1>1. /\ ops \in Seq({ops[i] : i \in 1 .. 9}) /\ Len(ops) = 9
      /\ ops[1] = <<"fill", WordsOf(now)>> /\ ops[2] = <<"clean">>
      /\ ops[3] = <<"status", D!Default>> /\ ops[4] = <<"awaitDisabled">>
      /\ ops[5] = <<"status", D!Simple>> /\ ops[6] = <<"clearIntr">>
      /\ ops[7] = <<"size", 1>> /\ ops[8] = <<"go">> /\ ops[9] = <<"wait", EventOf(now)>>
      BY TransferOps
<1>2. Ops(now) = ops
      BY DEF Ops
<1> HIDE DEF ops
<1>3. n + 1 \in 1 .. 9 /\ D!Op = ops[n + 1] /\ todo' = Rest(ops, n + 1) /\ now' = now
      BY <1>1, <1>2, AccessTakesOne
<1>4. s \in D!Socket
      BY SocketOfCall
<1>5. CASE n = 0
  <2>1. D!Op = <<"fill", WordsOf(now)>>
        BY <1>1, <1>3, <1>5
  <2>2. cache' = WordsOf(now) /\ dirty' = TRUE /\ UNCHANGED <<outcome, memory, STATUS, INTR, SIZE, job, moved>>
        BY <2>1, AccessIs DEF D!Fill
  <2>3. Types'
        BY <1>3, <2>2 DEF Types
  <2> QED BY <1>2, <1>3, <1>5, <2>2, <2>3 DEF TransferAt
<1>6. CASE n = 1
  <2>1. D!Op = <<"clean">>
        BY <1>1, <1>3, <1>6
  <2>2. dirty' = FALSE /\ memory' = (IF dirty THEN cache ELSE memory)
        /\ UNCHANGED <<outcome, STATUS, INTR, SIZE, job, moved>>
        BY <2>1, AccessIs DEF D!Clean
  <2>3. Types'
        BY <1>3, <2>2, ZenonT(60) DEF Types
  <2>4. memory' = WordsOf(now)
        BY <1>6, <2>2 DEF TransferAt
  <2> QED BY <1>2, <1>3, <1>6, <2>2, <2>3, <2>4 DEF TransferAt
<1>7. CASE n = 2
  <2>1. D!Op = <<"status", D!Default>>
        BY <1>1, <1>3, <1>7
  <2>2. D!Default \in SUBSET Flag /\ "GO_ENABLE" \notin D!Default
        BY DEF Flag, D!Default
  <2>3. /\ STATUS' \in [D!Socket -> SUBSET Flag]
        /\ STATUS'[s] = D!Default \cup (STATUS[s] \cap {"ENABLED"})
        /\ UNCHANGED <<outcome, cache, dirty, memory, INTR, SIZE, job, moved>>
        BY <2>1, <2>2, AccessIs, StatusWritten
  <2>4. Types'
        BY <1>3, <2>3 DEF Types
  <2> QED BY <1>2, <1>3, <1>7, <2>2, <2>3, <2>4 DEF TransferAt
<1>8. CASE n \in {3}
  <2>1. D!Op = <<"awaitDisabled">>
        BY <1>1, <1>3, <1>8
  <2>2. /\ "ENABLED" \notin STATUS[s]
        /\ UNCHANGED <<outcome, cache, dirty, memory, STATUS, INTR, SIZE, job, moved>>
        BY <2>1, AccessIs DEF D!AwaitDisabled, D!wordVars
  <2>3. Types'
        BY <1>3, <2>2 DEF Types
  <2> QED BY <1>2, <1>3, <1>8, <2>2, <2>3 DEF TransferAt
<1>9. CASE n = 4
  <2>1. D!Op = <<"status", D!Simple>>
        BY <1>1, <1>3, <1>9
  <2>2. D!Simple \in SUBSET Flag /\ "GO_ENABLE" \notin D!Simple /\ "ENABLED" \notin D!Simple
        BY DEF Flag, D!Simple, D!Default
  <2>3. /\ STATUS' \in [D!Socket -> SUBSET Flag]
        /\ STATUS'[s] = D!Simple \cup (STATUS[s] \cap {"ENABLED"})
        /\ UNCHANGED <<outcome, cache, dirty, memory, INTR, SIZE, job, moved>>
        BY <2>1, <2>2, AccessIs, StatusWritten
  <2>4. STATUS'[s] = D!Simple
        BY <1>9, <2>3 DEF TransferAt
  <2>5. Types'
        BY <1>3, <2>3 DEF Types
  <2> QED BY <1>2, <1>3, <1>9, <2>2, <2>3, <2>4, <2>5 DEF TransferAt
<1>10. CASE n = 5
  <2>1. D!Op = <<"clearIntr">>
        BY <1>1, <1>3, <1>10
  <2>2. /\ INTR' = [INTR EXCEPT ![s] = {}]
        /\ UNCHANGED <<outcome, cache, dirty, memory, STATUS, SIZE, job, moved>>
        BY <2>1, AccessIs DEF D!ClearIntr, D!wordVars
  <2>3. INTR' \in [D!Socket -> SUBSET Raised] /\ INTR'[s] = {}
        BY <1>4, <2>2 DEF Types
  <2>4. Types'
        BY <1>3, <2>2, <2>3 DEF Types
  <2> QED BY <1>2, <1>3, <1>10, <2>2, <2>3, <2>4 DEF TransferAt
<1>11. CASE n = 6
  <2>1. D!Op = <<"size", 1>>
        BY <1>1, <1>3, <1>11
  <2>2. /\ SIZE' = [SIZE EXCEPT ![s] = 1]
        /\ UNCHANGED <<outcome, cache, dirty, memory, STATUS, INTR, job, moved>>
        BY <2>1, AccessIs DEF D!WriteSize, D!wordVars
  <2>3. SIZE' \in [D!Socket -> {0, 1}] /\ SIZE'[s] = 1
        BY <1>4, <2>2 DEF Types
  <2>4. Types'
        BY <1>3, <2>2, <2>3 DEF Types
  <2> QED BY <1>2, <1>3, <1>11, <2>2, <2>3, <2>4 DEF TransferAt
<1>12. CASE n = 7
  <2>1. D!Op = <<"go">>
        BY <1>1, <1>3, <1>12
  <2> DEFINE flags == (STATUS[s] \ {"ENABLED"}) \cup {"GO_ENABLE"}
  <2>2. flags \in SUBSET Flag
        BY <1>4 DEF Types, Flag
  <2>3. /\ STATUS' \in [D!Socket -> SUBSET Flag]
        /\ STATUS'[s] = flags \cup (STATUS[s] \cap {"ENABLED"})
        /\ UNCHANGED <<outcome, cache, dirty, memory, INTR, SIZE, job, moved>>
        BY <2>1, <2>2, AccessIs, StatusWritten
  <2>4. "GO_ENABLE" \in STATUS'[s] /\ D!Simple \subseteq STATUS'[s] /\ "ENABLED" \notin STATUS'[s]
        BY <1>12, <2>3 DEF TransferAt
  <2>5. Types'
        BY <1>3, <2>3 DEF Types
  <2>6. Waiting'
        BY <1>3, <1>12, <2>3, <2>4 DEF TransferAt, Waiting
  <2> QED BY <1>2, <1>3, <1>12, <2>3, <2>4, <2>5, <2>6 DEF TransferAt
<1>13. CASE n = 8
  <2>1. D!Op = <<"wait", EventOf(now)>>
        BY <1>1, <1>3, <1>13
  <2>2. /\ \/ "ERROR" \in INTR[s] /\ outcome' = "error"
           \/ "ERROR" \notin INTR[s] /\ EventOf(now) \in INTR[s] /\ outcome' = "event"
        /\ UNCHANGED <<cache, dirty, memory, STATUS, INTR, SIZE, job, moved>>
        BY <2>1, AccessIs DEF D!WaitForEvent, D!wordVars
  <2>3. Types'
        BY <1>3, <2>2 DEF Types
  <2>4. EventOf(now) # "ERROR"
        BY DEF EventOf
  <2>5. Waiting \/ Busy \/ Complete \/ Broken
        BY <1>13 DEF TransferAt
  <2>6. INTR[s] # {}
        BY <2>2
  <2>7. ASSUME Complete
        PROVE  outcome' = "event" /\ Complete'
    <3>1. INTR[s] = {EventOf(now)}
          BY <2>7 DEF Complete
    <3>2. outcome' = "event"
          BY <2>2, <2>4, <3>1
    <3>3. Complete'
          BY <1>3, <2>2, <2>7 DEF Complete, Loaded
    <3> QED BY <3>2, <3>3
  <2>8. ASSUME Broken
        PROVE  outcome' = "error" /\ Broken'
    <3>1. INTR[s] = {"ERROR"}
          BY <2>8 DEF Broken, Loaded
    <3>2. outcome' = "error"
          BY <2>2, <3>1
    <3>3. Broken'
          BY <1>3, <2>2, <2>8 DEF Broken, Loaded
    <3> QED BY <3>2, <3>3
  <2>9. (outcome' = "error" /\ Broken') \/ (outcome' = "event" /\ Complete')
        BY <2>5, <2>6, <2>7, <2>8 DEF Waiting, Busy
  <2> QED BY <1>2, <1>3, <1>13, <2>2, <2>3, <2>9 DEF TransferAt
<1>14. n \in {0, 1, 2, 3, 4, 5, 6, 7, 8}
      BY <1>3
<1> QED BY <1>5, <1>6, <1>7, <1>8, <1>9, <1>10, <1>11, <1>12, <1>13, <1>14

\* What an access other than the wait leaves alone.
LEMMA AccessFrame ==
    ASSUME Types, D!Access, now' = now,
           D!Op[1] \in {"fill", "clean", "status", "clearGo", "go", "clearIntr", "size", "awaitDisabled"},
           D!Op[1] = "status" => D!Op[2] \in SUBSET Flag,
           D!Op[1] = "size" => D!Op[2] \in {0, 1}
    PROVE  /\ Types' /\ UNCHANGED <<outcome, job, moved>>
           /\ D!Op[1] \notin {"fill", "clean"} => UNCHANGED <<cache, dirty, memory>>
           /\ D!Op[1] = "fill" => cache' = D!Op[2] /\ dirty' = TRUE
           /\ D!Op[1] = "clean" => dirty' = FALSE /\ memory' = IF dirty THEN cache ELSE memory
<1>1. now.socket \in D!Socket
      BY SocketOfCall
<1>2. CASE D!Op[1] = "fill"
  <2>1. cache' = D!Op[2] /\ dirty' = TRUE /\ UNCHANGED <<outcome, memory, STATUS, INTR, SIZE, job, moved>>
        BY <1>2, AccessIs DEF D!Fill
  <2>2. Types'
        BY <2>1 DEF Types
  <2> QED BY <1>2, <2>1, <2>2
<1>3. CASE D!Op[1] = "clean"
  <2>1. /\ dirty' = FALSE /\ memory' = (IF dirty THEN cache ELSE memory)
        /\ UNCHANGED <<outcome, STATUS, INTR, SIZE, job, moved>>
        BY <1>3, AccessIs DEF D!Clean
  <2>2. Types'
        BY <2>1, ZenonT(60) DEF Types
  <2> QED BY <1>3, <2>1, <2>2
<1>4. CASE D!Op[1] \in {"status", "clearGo", "go"}
  <2>1. \E flags \in SUBSET Flag : D!SetStatus(flags)
    <3>1. STATUS[now.socket] \in SUBSET Flag /\ "GO_ENABLE" \in Flag
          BY <1>1 DEF Types, Flag
    <3>2. CASE D!Op[1] = "status"
          BY <3>2, AccessIs
    <3>3. CASE D!Op[1] = "clearGo"
      <4>1. STATUS[now.socket] \ {"GO_ENABLE", "ENABLED"} \in SUBSET Flag
            BY <3>1
      <4> QED BY <3>3, <4>1, AccessIs
    <3>4. CASE D!Op[1] = "go"
      <4>1. (STATUS[now.socket] \ {"ENABLED"}) \cup {"GO_ENABLE"} \in SUBSET Flag
            BY <3>1
      <4> QED BY <3>4, <4>1, AccessIs
    <3> QED BY <1>4, <3>2, <3>3, <3>4
  <2>2. /\ STATUS' \in [D!Socket -> SUBSET Flag]
        /\ UNCHANGED <<outcome, cache, dirty, memory, INTR, SIZE, job, moved>>
        BY <2>1, StatusWritten
  <2>3. Types'
        BY <2>2 DEF Types
  <2> QED BY <1>4, <2>2, <2>3
<1>5. CASE D!Op[1] = "clearIntr"
  <2>1. /\ INTR' = [INTR EXCEPT ![now.socket] = {}]
        /\ UNCHANGED <<outcome, cache, dirty, memory, STATUS, SIZE, job, moved>>
        BY <1>5, AccessIs DEF D!ClearIntr, D!wordVars
  <2>2. INTR' \in [D!Socket -> SUBSET Raised]
        BY <1>1, <2>1 DEF Types
  <2>3. Types'
        BY <2>1, <2>2 DEF Types
  <2> QED BY <1>5, <2>1, <2>3
<1>6. CASE D!Op[1] = "size"
  <2>1. /\ SIZE' = [SIZE EXCEPT ![now.socket] = D!Op[2]]
        /\ UNCHANGED <<outcome, cache, dirty, memory, STATUS, INTR, job, moved>>
        BY <1>6, AccessIs DEF D!WriteSize, D!wordVars
  <2>2. SIZE' \in [D!Socket -> {0, 1}]
        BY <1>1, <1>6, <2>1 DEF Types
  <2>3. Types'
        BY <2>1, <2>2 DEF Types
  <2> QED BY <1>6, <2>1, <2>3
<1>7. CASE D!Op[1] = "awaitDisabled"
  <2>1. UNCHANGED <<outcome, cache, dirty, memory, STATUS, INTR, SIZE, job, moved>>
        BY <1>7, AccessIs DEF D!AwaitDisabled, D!wordVars
  <2>2. Types'
        BY <2>1 DEF Types
  <2> QED BY <1>7, <2>1, <2>2
<1> QED BY <1>2, <1>3, <1>4, <1>5, <1>6, <1>7

LEMMA ProduceAccess ==
    ASSUME Types, now.op = "produce", NEW n \in 0 .. 11, todo = Rest(Ops(now), n),
           ProduceAt(n), D!Access
    PROVE  /\ n <= 10 /\ now' = now /\ todo' = Rest(Ops(now), n + 1)
           /\ Types' /\ ProduceAt(n + 1)'
<1> DEFINE ops == produceOps(now)
<1>1. /\ ops \in Seq({ops[i] : i \in 1 .. 11}) /\ Len(ops) = 11
      /\ ops[1] = <<"clearGo">> /\ ops[2] = <<"clearIntr">> /\ ops[3] = <<"awaitDisabled">>
      /\ ops[4] = <<"fill", WordsOf(now)>> /\ ops[5] = <<"clean">>
      /\ ops[6] = <<"status", D!Default>> /\ ops[7] = <<"awaitDisabled">>
      /\ ops[8] = <<"status", D!Producer>> /\ ops[9] = <<"clearIntr">>
      /\ ops[10] = <<"size", 0>> /\ ops[11] = <<"go">>
      BY ProduceOps
<1>2. Ops(now) = ops
      BY DEF Ops
<1> HIDE DEF ops
<1>3. n + 1 \in 1 .. 11 /\ D!Op = ops[n + 1] /\ todo' = Rest(ops, n + 1) /\ now' = now
      BY <1>1, <1>2, AccessTakesOne
<1>4. D!Default \in SUBSET Flag /\ D!Producer \in SUBSET Flag
      BY DEF Flag, D!Default, D!Producer
<1>5. CASE n = 3
  <2>1. D!Op = <<"fill", WordsOf(now)>>
        BY <1>1, <1>3, <1>5
  <2>2. Types' /\ UNCHANGED <<outcome, job, moved>> /\ cache' = WordsOf(now) /\ dirty' = TRUE
        BY <1>3, <2>1, AccessFrame
  <2> QED BY <1>2, <1>3, <1>5, <2>2 DEF ProduceAt
<1>6. CASE n = 4
  <2>1. D!Op = <<"clean">>
        BY <1>1, <1>3, <1>6
  <2>2. /\ Types' /\ UNCHANGED <<outcome, job, moved>>
        /\ dirty' = FALSE /\ memory' = IF dirty THEN cache ELSE memory
        BY <1>3, <2>1, AccessFrame
  <2>3. memory' = WordsOf(now)
        BY <1>6, <2>2 DEF ProduceAt
  <2> QED BY <1>2, <1>3, <1>6, <2>2, <2>3 DEF ProduceAt
<1>7. CASE n \in {0, 1, 2, 5, 6, 7, 8, 9, 10}
  <2>1. /\ \A k \in {1, 2, 3, 6, 7, 8, 9, 10, 11} :
              ops[k][1] \in {"status", "clearGo", "go", "clearIntr", "size", "awaitDisabled"}
        /\ \A k \in {1, 2, 3, 6, 7, 8, 9, 10, 11} :
              ops[k][1] = "status" => ops[k][2] = D!Default \/ ops[k][2] = D!Producer
        /\ \A k \in {1, 2, 3, 6, 7, 8, 9, 10, 11} : ops[k][1] = "size" => ops[k][2] = 0
        BY <1>1
  <2>2. /\ D!Op[1] \in {"status", "clearGo", "go", "clearIntr", "size", "awaitDisabled"}
        /\ D!Op[1] = "status" => D!Op[2] \in SUBSET Flag
        /\ D!Op[1] = "size" => D!Op[2] \in {0, 1}
    <3>1. n + 1 \in {1, 2, 3, 6, 7, 8, 9, 10, 11}
          BY <1>7
    <3> QED BY <1>3, <1>4, <2>1, <3>1
  <2>3. Types' /\ UNCHANGED <<outcome, job, moved, cache, dirty, memory>>
        BY <1>3, <2>2, AccessFrame
  <2> QED BY <1>2, <1>3, <1>7, <2>3 DEF ProduceAt
<1>8. n \in {0, 1, 2, 3, 4, 5, 6, 7, 8, 9, 10}
      BY <1>3
<1> QED BY <1>5, <1>6, <1>7, <1>8

LEMMA QuietAccess ==
    ASSUME Types, now.op \in {"none", "abort"}, NEW n \in 0 .. Len(Ops(now)),
           todo = Rest(Ops(now), n), QuietAt(n), D!Access
    PROVE  /\ n + 1 \in 0 .. Len(Ops(now)) /\ now' = now /\ todo' = Rest(Ops(now), n + 1)
           /\ Types' /\ QuietAt(n + 1)'
<1> DEFINE ops == D!abortSocket
<1>1. CASE now.op = "none"
  <2>1. Ops(now) = <<>> /\ Len(Ops(now)) = 0
        BY <1>1 DEF Ops
  <2>2. Ops(now) \in Seq({})
        BY <2>1
  <2>3. n + 1 \in 1 .. Len(Ops(now))
        BY <2>2, AccessTakesOne
  <2> QED BY <2>1, <2>3
<1>2. CASE now.op = "abort"
  <2>1. /\ ops \in Seq({ops[i] : i \in 1 .. 3}) /\ Len(ops) = 3
        /\ ops[1] = <<"clearGo">> /\ ops[2] = <<"clearIntr">> /\ ops[3] = <<"awaitDisabled">>
        BY AbortOps
  <2>2. Ops(now) = ops /\ now.socket = "PIB0" /\ "PIB0" \in D!Socket
        BY <1>2 DEF Ops, Types, D!Socket
  <2> HIDE DEF ops
  <2>3. n + 1 \in 1 .. 3 /\ D!Op = ops[n + 1] /\ todo' = Rest(ops, n + 1) /\ now' = now
        BY <2>1, <2>2, AccessTakesOne
  <2>4. D!Op[1] \in {"clearGo", "clearIntr", "awaitDisabled"}
        BY <2>1, <2>3
  <2>5. Types' /\ UNCHANGED <<outcome, job, moved>>
        BY <2>3, <2>4, AccessFrame
  <2>6. CASE n = 0
    <3>1. D!Op = <<"clearGo">>
          BY <2>1, <2>3, <2>6
    <3>2. STATUS["PIB0"] \ {"GO_ENABLE", "ENABLED"} \in SUBSET Flag
          BY <2>2 DEF Types
    <3>3. STATUS'["PIB0"] = (STATUS["PIB0"] \ {"GO_ENABLE", "ENABLED"})
                            \cup (STATUS["PIB0"] \cap {"ENABLED"})
          BY <2>2, <3>1, <3>2, AccessIs, StatusWritten
    <3> QED BY <1>2, <2>1, <2>2, <2>3, <2>5, <2>6, <3>3 DEF QuietAt
  <2>7. CASE n = 1
    <3>1. D!Op = <<"clearIntr">>
          BY <2>1, <2>3, <2>7
    <3>2. STATUS' = STATUS
          BY <3>1, AccessIs DEF D!ClearIntr
    <3> QED BY <1>2, <2>1, <2>2, <2>3, <2>5, <2>7, <3>2 DEF QuietAt
  <2>8. CASE n = 2
    <3>1. D!Op = <<"awaitDisabled">>
          BY <2>1, <2>3, <2>8
    <3>2. STATUS' = STATUS /\ "ENABLED" \notin STATUS["PIB0"]
          BY <2>2, <3>1, AccessIs DEF D!AwaitDisabled
    <3> QED BY <1>2, <2>1, <2>2, <2>3, <2>5, <2>8, <3>2 DEF QuietAt
  <2>9. n \in {0, 1, 2}
        BY <2>3
  <2> QED BY <2>6, <2>7, <2>8, <2>9
<1> QED BY <1>1, <1>2

LEMMA AccessKeeps == DriverInv /\ D!Access => DriverInv'
<1> SUFFICES ASSUME DriverInv, D!Access
             PROVE  DriverInv'
    OBVIOUS
<1>1. PICK n \in 0 .. Len(Ops(now)) : At(n)
      BY DEF DriverInv, CallInv
<1>2. Types /\ todo = Rest(Ops(now), n)
      BY <1>1 DEF DriverInv, At
<1>3. ASSUME n + 1 \in 0 .. Len(Ops(now)), now' = now, Types', At(n + 1)'
      PROVE  DriverInv'
  <2>1. n + 1 \in 0 .. Len(Ops(now'))
        BY <1>3
  <2> QED BY <1>3, <2>1 DEF DriverInv, CallInv
<1>4. CASE now.op \in {"read", "write"}
  <2>1. Len(Ops(now)) = 9
        BY <1>4, TransferOps DEF Ops
  <2>2. TransferAt(n)
        BY <1>1, <1>4 DEF At
  <2>3. n <= 8 /\ now' = now /\ todo' = Rest(Ops(now), n + 1) /\ Types' /\ TransferAt(n + 1)'
        BY <1>2, <1>4, <2>1, <2>2, TransferAccess
  <2>4. At(n + 1)'
        BY <1>4, <2>3 DEF At
  <2> QED BY <1>3, <2>1, <2>3, <2>4
<1>5. CASE now.op = "produce"
  <2>1. Len(Ops(now)) = 11
        BY <1>5, ProduceOps DEF Ops
  <2>2. ProduceAt(n)
        BY <1>1, <1>5 DEF At
  <2>3. n <= 10 /\ now' = now /\ todo' = Rest(Ops(now), n + 1) /\ Types' /\ ProduceAt(n + 1)'
        BY <1>2, <1>5, <2>1, <2>2, ProduceAccess
  <2>4. At(n + 1)'
        BY <1>5, <2>3 DEF At
  <2> QED BY <1>3, <2>1, <2>3, <2>4
<1>6. CASE now.op \in {"none", "abort"}
  <2>1. QuietAt(n)
        BY <1>1, <1>6 DEF At
  <2>2. /\ n + 1 \in 0 .. Len(Ops(now)) /\ now' = now /\ todo' = Rest(Ops(now), n + 1)
        /\ Types' /\ QuietAt(n + 1)'
        BY <1>2, <1>6, <2>1, QuietAccess
  <2>3. At(n + 1)'
        BY <1>6, <2>2 DEF At
  <2> QED BY <1>3, <2>2, <2>3
<1> QED BY <1>2, <1>4, <1>5, <1>6 DEF Types

\* A call begins with all of its accesses left, and no descriptor of its own in a socket.
LEMMA CallStarts ==
    ASSUME DriverInv, NEW op \in {"read", "write", "produce", "abort"}, NEW s, NEW buffer, NEW length,
           NEW ops, D!Call(op, s, buffer, length, ops),
           s = IF op = "read" THEN "UIB0" ELSE IF op = "write" THEN "UIBIN0" ELSE "PIB0",
           op \in {"read", "write"} => length \in Nat /\ length > 0 /\ length <= 512,
           op = "produce" => length = D!DMA_BUFFER_SIZE,
           ops = Ops([op |-> op, socket |-> s, buffer |-> buffer, length |-> length])
    PROVE  DriverInv'
<1> DEFINE call == [op |-> op, socket |-> s, buffer |-> buffer, length |-> length]
<1>1. /\ now' = call /\ todo' = ops /\ outcome' = "none" /\ moved' = D!NotYet
      /\ job' = [old \in D!Socket |-> D!OldJob]
      /\ UNCHANGED <<cache, dirty, memory, STATUS, INTR, SIZE>>
      BY DEF D!Call, D!wordVars
<1>2. D!OldJob.own = FALSE
      BY DEF D!OldJob, D!Decoded
<1>3. call.op = op /\ call.socket = s /\ call.length = length /\ s \in D!Socket
      BY DEF D!Socket
<1>4. \E S : ops \in Seq(S)
  <2>1. CASE op \in {"read", "write"}
        BY <1>3, <2>1, TransferOps, ZenonT(60) DEF Ops
  <2>2. CASE op = "produce"
        BY <1>3, <2>2, ProduceOps, ZenonT(60) DEF Ops
  <2>3. CASE op = "abort"
        BY <1>3, <2>3, AbortOps DEF Ops
  <2> QED BY <2>1, <2>2, <2>3
<1>5. 0 \in 0 .. Len(ops) /\ ops = Rest(ops, 0)
      BY <1>4, WholeIsRest
<1>6. ops = Ops(call)
      OBVIOUS
<1> HIDE DEF call
<1>7. \A r \in D!Socket : job'[r].own = FALSE
      BY <1>1, <1>2
<1>8. Types'
      BY <1>1, <1>3, <1>7, ZenonT(60) DEF Types, DriverInv
<1>9. At(0)'
  <2>1. op \in {"read", "write"} => TransferAt(0)'
        BY <1>1, <1>3, <1>7 DEF TransferAt
  <2>2. op = "produce" => ProduceAt(0)'
        BY <1>1, <1>3, <1>7 DEF ProduceAt
  <2>3. op = "abort" => QuietAt(0)'
        BY <1>1, <1>3, <1>7 DEF QuietAt
  <2> QED BY <1>1, <1>3, <1>5, <1>6, <2>1, <2>2, <2>3 DEF At
<1> QED BY <1>1, <1>5, <1>6, <1>8, <1>9 DEF DriverInv, CallInv

LEMMA CallKeeps ==
    ASSUME DriverInv
    PROVE  /\ \A buffer \in Buffers, length \in Lengths :
                 D!SimpleTransferRead(buffer, length) \/ D!SimpleTransferWrite(buffer, length) => DriverInv'
           /\ \A buffer \in Buffers : D!StartProducer(buffer) => DriverInv'
           /\ D!AbortSocket => DriverInv'
<1>1. ASSUME NEW buffer \in Buffers, NEW length \in Lengths, D!SimpleTransferRead(buffer, length)
      PROVE  DriverInv'
  <2> DEFINE call == [op |-> "read", socket |-> "UIB0", buffer |-> buffer, length |-> length]
  <2>1. length \in Nat /\ length > 0 /\ length <= 512
        BY LengthsAssumption
  <2>2. Ops(call) = transferOps(call) /\ WordsOf(call) = D!FillRead("UIB0", buffer, length)
        /\ EventOf(call) = "CONSUME_EVENT"
        BY DEF Ops, WordsOf, EventOf
  <2>3. D!Call("read", "UIB0", buffer, length, Ops(call))
        BY <1>1, <2>2 DEF D!SimpleTransferRead, transferOps
  <2> QED BY <2>1, <2>3, CallStarts
<1>2. ASSUME NEW buffer \in Buffers, NEW length \in Lengths, D!SimpleTransferWrite(buffer, length)
      PROVE  DriverInv'
  <2> DEFINE call == [op |-> "write", socket |-> "UIBIN0", buffer |-> buffer, length |-> length]
  <2>1. length \in Nat /\ length > 0 /\ length <= 512
        BY LengthsAssumption
  <2>2. Ops(call) = transferOps(call) /\ WordsOf(call) = D!FillWrite("UIBIN0", buffer, length)
        /\ EventOf(call) = "PRODUCE_EVENT"
        BY DEF Ops, WordsOf, EventOf
  <2>3. D!Call("write", "UIBIN0", buffer, length, Ops(call))
        BY <1>2, <2>2 DEF D!SimpleTransferWrite, transferOps
  <2> QED BY <2>1, <2>3, CallStarts
<1>3. ASSUME NEW buffer \in Buffers, D!StartProducer(buffer)
      PROVE  DriverInv'
  <2> DEFINE length == D!DMA_BUFFER_SIZE
             call == [op |-> "produce", socket |-> "PIB0", buffer |-> buffer, length |-> length]
  <2>1. D!Call("produce", "PIB0", buffer, length,
               D!abortSocket \o D!fill(D!FillThrough("PIB0", "UIB2", buffer, length, 3, 2))
               \o D!transferStart(D!Producer, 0))
        BY <1>3 DEF D!StartProducer
  <2> HIDE DEF length
  <2>2. Ops(call) = produceOps(call)
        /\ WordsOf(call) = D!FillThrough("PIB0", "UIB2", buffer, length, 3, 2)
        BY DEF Ops, WordsOf
  <2>3. D!Call("produce", "PIB0", buffer, length, Ops(call))
        BY <2>1, <2>2 DEF produceOps
  <2>4. length = D!DMA_BUFFER_SIZE
        BY DEF length
  <2> QED BY <2>3, <2>4, CallStarts
<1>4. ASSUME D!AbortSocket
      PROVE  DriverInv'
  <2> DEFINE call == [op |-> "abort", socket |-> "PIB0", buffer |-> "none", length |-> 0]
  <2>1. Ops(call) = D!abortSocket
        BY DEF Ops
  <2>2. D!Call("abort", "PIB0", "none", 0, Ops(call))
        BY <1>4, <2>1 DEF D!AbortSocket
  <2> QED BY <2>2, CallStarts
<1> QED BY <1>1, <1>2, <1>3, <1>4

-----------------------------------------------------------------------------
(***************************************************************************)
(* The hardware: a step that takes no access of the call.                   *)
(***************************************************************************)
LEMMA BesideTheCall ==
    ASSUME DriverInv, now' = now, todo' = todo, Types',
           \A n \in 0 .. 9 : now.op \in {"read", "write"} /\ todo = Rest(Ops(now), n) /\ TransferAt(n)
                                => TransferAt(n)',
           \A n \in 0 .. 11 : now.op = "produce" /\ todo = Rest(Ops(now), n) /\ ProduceAt(n)
                                => ProduceAt(n)',
           \A n \in 0 .. 3 : now.op \in {"none", "abort"} /\ todo = Rest(Ops(now), n)
                                /\ n <= Len(Ops(now)) /\ QuietAt(n) => QuietAt(n)'
    PROVE  DriverInv'
<1>1. PICK n \in 0 .. Len(Ops(now)) : At(n)
      BY DEF DriverInv, CallInv
<1>2. todo = Rest(Ops(now), n)
      BY <1>1 DEF At
<1>3. At(n)' => DriverInv'
      BY <1>1 DEF DriverInv, CallInv
<1>4. CASE now.op \in {"read", "write"}
  <2>1. Len(Ops(now)) = 9
        BY <1>4, TransferOps DEF Ops
  <2>2. TransferAt(n)'
        BY <1>1, <1>2, <1>4, <2>1 DEF At
  <2> QED BY <1>2, <1>3, <1>4, <2>2 DEF At
<1>5. CASE now.op = "produce"
  <2>1. Len(Ops(now)) = 11
        BY <1>5, ProduceOps DEF Ops
  <2>2. ProduceAt(n)'
        BY <1>1, <1>2, <1>5, <2>1 DEF At
  <2> QED BY <1>2, <1>3, <1>5, <2>2 DEF At
<1>6. CASE now.op \in {"none", "abort"}
  <2>1. n \in 0 .. 3 /\ n <= Len(Ops(now))
    <3>1. CASE now.op = "none"
      <4>1. Len(Ops(now)) = 0
            BY <3>1 DEF Ops
      <4> QED BY <1>1, <4>1
    <3>2. CASE now.op = "abort"
      <4>1. Len(Ops(now)) = 3
            BY <3>2, AbortOps DEF Ops
      <4> QED BY <1>1, <4>1
    <3> QED BY <1>6, <3>1, <3>2
  <2>2. QuietAt(n)'
        BY <1>1, <1>2, <1>6, <2>1 DEF At
  <2> QED BY <1>2, <1>3, <1>6, <2>2 DEF At
<1> QED BY <1>4, <1>5, <1>6 DEF DriverInv, Types

\* What happens on another socket than that of the call is nothing to it.
LEMMA OnAnotherSocket ==
    ASSUME DriverInv, Types',
           UNCHANGED <<now, todo, outcome, cache, dirty, memory, SIZE, moved>>,
           STATUS'[now.socket] = STATUS[now.socket],
           INTR'[now.socket] = INTR[now.socket], job'[now.socket] = job[now.socket]
    PROVE  DriverInv'
<1>1. ASSUME NEW n \in 0 .. 9, TransferAt(n)
      PROVE  TransferAt(n)'
  <2>1. /\ Waiting => Waiting'
        /\ Busy => Busy'
        /\ Complete => Complete'
        /\ Broken => Broken'
        BY DEF Waiting, Busy, Complete, Broken, Loaded
  <2> QED BY <1>1, <2>1 DEF TransferAt
<1>2. now.op \in {"none", "abort", "produce"} => now.socket = "PIB0"
      BY DEF DriverInv, Types
<1>3. ASSUME NEW n \in 0 .. 11, now.op = "produce", ProduceAt(n)
      PROVE  ProduceAt(n)'
      BY <1>2, <1>3 DEF ProduceAt
<1>4. ASSUME NEW n \in 0 .. 3, now.op \in {"none", "abort"}, QuietAt(n)
      PROVE  QuietAt(n)'
      BY <1>2, <1>4 DEF QuietAt
<1> QED BY <1>1, <1>3, <1>4, BesideTheCall

LEMMA EnableKeeps ==
    ASSUME DriverInv, NEW s \in D!Socket, D!Enable(s)
    PROVE  DriverInv'
<1> DEFINE started == D!Started(s)
<1>1. /\ "GO_ENABLE" \in STATUS[s] /\ "ENABLED" \notin STATUS[s]
      /\ STATUS' = [STATUS EXCEPT ![s] = @ \cup {"ENABLED"}]
      /\ job' = [job EXCEPT ![s] = D!Decoded(started, memory)]
      /\ UNCHANGED <<now, todo, outcome, cache, dirty, memory, INTR, SIZE, moved>>
      BY DEF D!Enable, D!callVars, D!wordVars
<1>2. started \in BOOLEAN /\ (started => s = now.socket)
      BY DEF D!Started
<1> HIDE DEF started
<1>3. Types
      BY DEF DriverInv
<1>4. D!Decoded(started, memory).own = started
      BY DEF D!Decoded
<1>5. /\ STATUS'[s] = STATUS[s] \cup {"ENABLED"} /\ \A r \in D!Socket : r # s => STATUS'[r] = STATUS[r]
      /\ STATUS' \in [D!Socket -> SUBSET Flag]
  <2>1. "ENABLED" \in Flag
        BY DEF Flag
  <2> QED BY <1>1, <1>3, <2>1 DEF Types
<1>6. /\ job'[s] = D!Decoded(started, memory) /\ \A r \in D!Socket : r # s => job'[r] = job[r]
      /\ job' = [r \in D!Socket |-> job'[r]]
      BY <1>1, <1>3 DEF Types
<1>7. Types'
      BY <1>1, <1>2, <1>3, <1>4, <1>5, <1>6 DEF Types
<1>8. now.socket \in D!Socket
      BY <1>3, SocketOfCall
<1>9. CASE s # now.socket
      BY <1>1, <1>5, <1>6, <1>7, <1>8, <1>9, OnAnotherSocket
<1>10. CASE s = now.socket
  <2>1. ASSUME NEW n \in 0 .. 9, now.op \in {"read", "write"}, todo = Rest(Ops(now), n), TransferAt(n)
        PROVE  TransferAt(n)'
    <3> DEFINE ops == transferOps(now)
    <3>1. /\ ops \in Seq({ops[i] : i \in 1 .. 9}) /\ Len(ops) = 9
          /\ ops[8] = <<"go">> /\ ops[9] = <<"wait", EventOf(now)>>
          BY TransferOps, ZenonT(60)
    <3>2. todo = Rest(ops, n)
          BY <2>1 DEF Ops
    <3> HIDE DEF ops
    <3>3. n \notin 3 .. 7
          BY <1>1, <1>10, <2>1 DEF TransferAt
    <3>4. CASE n <= 2
      <4>1. ops[8][1] = "go" /\ 8 \in 1 .. Len(ops) /\ 8 > n
            BY <3>1, <3>4
      <4>2. ~started
            BY <3>1, <3>2, <4>1, StartedWhen DEF started
      <4>3. job'[s].own = FALSE
            BY <1>4, <1>6, <4>2
      <4> QED BY <1>1, <1>10, <2>1, <3>4, <4>3 DEF TransferAt
    <3>5. CASE n >= 8
      <4>1. \A k \in 1 .. Len(ops) : k > n => k = 9
            BY <3>1, <3>5
      <4>2. \A k \in 1 .. Len(ops) : k > n => ops[k][1] \notin {"go", "clearGo"}
            BY <3>1, <4>1
      <4>3. started
            BY <1>10, <3>1, <3>2, <4>2, StartedWhen DEF started
      <4>4. memory = WordsOf(now)
            BY <2>1, <3>5 DEF TransferAt
      <4>5. job'[s] = JobOf(now, TRUE)
            BY <1>3, <1>6, <2>1, <4>3, <4>4, JobLoaded
      <4>6. Waiting /\ n # 9
            BY <1>1, <1>10, <2>1, <3>5 DEF TransferAt, Busy, Complete, Broken, Loaded
      <4>7. Busy'
            BY <1>1, <1>5, <1>10, <4>5, <4>6 DEF Busy, Waiting, Loaded
      <4>8. "GO_ENABLE" \in STATUS'[s] /\ D!Simple \subseteq STATUS'[s]
            BY <1>5, <1>10, <2>1, <3>5 DEF TransferAt
      <4> QED BY <1>1, <1>10, <2>1, <3>5, <4>6, <4>7, <4>8 DEF TransferAt
    <3> QED BY <3>3, <3>4, <3>5
  <2>2. ASSUME NEW n \in 0 .. 11, now.op = "produce", todo = Rest(Ops(now), n), ProduceAt(n)
        PROVE  ProduceAt(n)'
    <3> DEFINE ops == produceOps(now)
    <3>1. ops \in Seq({ops[i] : i \in 1 .. 11}) /\ Len(ops) = 11 /\ ops[11] = <<"go">>
          BY ProduceOps, ZenonT(60)
    <3>2. todo = Rest(ops, n)
          BY <2>2 DEF Ops
    <3> HIDE DEF ops
    <3>3. s = "PIB0"
          BY <1>3, <1>10, <2>2 DEF Types
    <3>4. CASE n <= 10
      <4>1. ops[11][1] = "go" /\ 11 \in 1 .. Len(ops) /\ 11 > n
            BY <3>1, <3>4
      <4>2. ~started
            BY <3>1, <3>2, <4>1, StartedWhen DEF started
      <4>3. job'["PIB0"].own = FALSE
            BY <1>4, <1>6, <3>3, <4>2
      <4> QED BY <1>1, <2>2, <3>4, <4>3 DEF ProduceAt
    <3>5. CASE n = 11
      <4>1. \A k \in 1 .. Len(ops) : k > n => ops[k][1] \notin {"go", "clearGo"}
            BY <3>1, <3>5
      <4>2. started
            BY <1>10, <3>1, <3>2, <4>1, StartedWhen DEF started
      <4>3. memory = WordsOf(now)
            BY <2>2, <3>5 DEF ProduceAt
      <4>4. job'["PIB0"] = JobOf(now, TRUE)
            BY <1>3, <1>6, <2>2, <3>3, <4>2, <4>3, JobLoaded
      <4>5. OfTheCall(job'["PIB0"], now)
            BY <4>4 DEF OfTheCall
      <4> QED BY <1>1, <2>2, <3>5, <4>5 DEF ProduceAt
    <3> QED BY <3>4, <3>5
  <2>3. ASSUME NEW n \in 0 .. 3, now.op \in {"none", "abort"}, todo = Rest(Ops(now), n),
               n <= Len(Ops(now)), QuietAt(n)
        PROVE  QuietAt(n)'
    <3> DEFINE ops == D!abortSocket
    <3>1. s = "PIB0"
          BY <1>3, <1>10, <2>3 DEF Types
    <3>2. now.op = "abort" /\ n = 0
          BY <1>1, <2>3, <3>1 DEF QuietAt
    <3>3. ops \in Seq({ops[i] : i \in 1 .. 3}) /\ Len(ops) = 3 /\ ops[1] = <<"clearGo">>
          BY AbortOps
    <3>4. todo = Rest(ops, n)
          BY <2>3, <3>2 DEF Ops
    <3> HIDE DEF ops
    <3>5. ops[1][1] = "clearGo" /\ 1 \in 1 .. Len(ops) /\ 1 > n /\ n \in 0 .. Len(ops)
          BY <3>2, <3>3
    <3>6. ~started
          BY <3>3, <3>4, <3>5, StartedWhen DEF started
    <3>7. job'["PIB0"].own = FALSE
          BY <1>4, <1>6, <3>1, <3>6
    <3> QED BY <1>1, <2>3, <3>2, <3>7 DEF QuietAt
  <2> QED BY <1>1, <1>7, <2>1, <2>2, <2>3, BesideTheCall
<1> QED BY <1>9, <1>10

LEMMA DisableKeeps ==
    ASSUME DriverInv, NEW s \in D!Socket, D!Disable(s)
    PROVE  DriverInv'
<1>1. /\ "GO_ENABLE" \notin STATUS[s] /\ "ENABLED" \in STATUS[s]
      /\ STATUS' = [STATUS EXCEPT ![s] = @ \ {"ENABLED"}]
      /\ job' = [job EXCEPT ![s] = D!OldJob]
      /\ UNCHANGED <<now, todo, outcome, cache, dirty, memory, INTR, SIZE, moved>>
      BY DEF D!Disable, D!callVars, D!wordVars
<1>2. Types
      BY DEF DriverInv
<1>3. D!OldJob.own = FALSE
      BY DEF D!OldJob, D!Decoded
<1>4. /\ STATUS'[s] = STATUS[s] \ {"ENABLED"} /\ \A r \in D!Socket : r # s => STATUS'[r] = STATUS[r]
      /\ STATUS' \in [D!Socket -> SUBSET Flag]
      BY <1>1, <1>2 DEF Types
<1>5. /\ job'[s].own = FALSE /\ \A r \in D!Socket : r # s => job'[r] = job[r]
      /\ job' = [r \in D!Socket |-> job'[r]]
      BY <1>1, <1>2, <1>3 DEF Types
<1>6. Types'
      BY <1>1, <1>2, <1>4, <1>5, ZenonT(60) DEF Types
<1>7. now.socket \in D!Socket
      BY <1>2, SocketOfCall
<1>8. CASE s # now.socket
      BY <1>1, <1>4, <1>5, <1>6, <1>7, <1>8, OnAnotherSocket
<1>9. CASE s = now.socket
  <2>1. ASSUME NEW n \in 0 .. 9, now.op \in {"read", "write"}, TransferAt(n)
        PROVE  TransferAt(n)'
    <3>1. n <= 3
          BY <1>1, <1>9, <2>1 DEF TransferAt
    <3> QED BY <1>1, <1>4, <1>5, <1>9, <2>1, <3>1 DEF TransferAt
  <2>2. ASSUME NEW n \in 0 .. 11, now.op = "produce", ProduceAt(n)
        PROVE  ProduceAt(n)'
    <3>1. s = "PIB0"
          BY <1>2, <1>9, <2>2 DEF Types
    <3> QED BY <1>1, <1>5, <2>2, <3>1 DEF ProduceAt
  <2>3. ASSUME NEW n \in 0 .. 3, now.op \in {"none", "abort"}, QuietAt(n)
        PROVE  QuietAt(n)'
    <3>1. s = "PIB0"
          BY <1>2, <1>9, <2>3 DEF Types
    <3> QED BY <1>1, <1>4, <1>5, <2>3, <3>1 DEF QuietAt
  <2> QED BY <1>1, <1>6, <2>1, <2>2, <2>3, BesideTheCall
<1> QED BY <1>8, <1>9

\* A socket that works has the descriptor of the call, of which work is left.
LEMMA WorkingOnTheCall ==
    ASSUME DriverInv, NEW s \in D!Socket, D!Working(s)
    PROVE  /\ s = now.socket /\ now.op \in {"read", "write", "produce"}
           /\ job[s] = JobOf(now, TRUE)
           /\ now.op \in {"read", "write"} =>
                 /\ SIZE[s] = 1 /\ Busy /\ D!Simple \subseteq STATUS[s]
                 /\ \A n \in 0 .. 9 : todo = Rest(Ops(now), n) /\ TransferAt(n) => n = 8
           /\ now.op = "produce" =>
                 \A n \in 0 .. 11 : todo = Rest(Ops(now), n) /\ ProduceAt(n) => n = 11
<1>1. Types /\ job[s].own /\ job[s].left /\ s = now.socket
      BY DEF DriverInv, Types, D!Working
<1>2. PICK m \in 0 .. Len(Ops(now)) : At(m)
      BY DEF DriverInv, CallInv
<1>3. CASE now.op \in {"read", "write"}
  <2>1. ASSUME NEW n \in 0 .. 9, TransferAt(n)
        PROVE  n = 8 /\ Busy /\ SIZE[s] = 1 /\ D!Simple \subseteq STATUS[s]
    <3>1. n >= 8
          BY <1>1, <2>1 DEF TransferAt
    <3>2. /\ Waiting \/ Busy \/ Complete \/ Broken
          /\ SIZE[s] = 1 /\ D!Simple \subseteq STATUS[s]
          BY <1>1, <2>1, <3>1 DEF TransferAt
    <3>3. JobOf(now, FALSE).left = FALSE
          BY <1>1, <1>3, JobLeft
    <3>4. ~Waiting /\ ~Complete /\ ~Broken
          BY <1>1, <3>3 DEF Waiting, Complete, Broken, Loaded
    <3>5. n # 9
          BY <2>1, <3>4 DEF TransferAt
    <3> QED BY <3>1, <3>2, <3>4, <3>5
  <2>2. Len(Ops(now)) = 9
        BY <1>3, TransferOps DEF Ops
  <2>3. m \in 0 .. 9 /\ TransferAt(m)
        BY <1>2, <1>3, <2>2 DEF At
  <2>4. Busy /\ SIZE[s] = 1 /\ D!Simple \subseteq STATUS[s]
        BY <2>1, <2>3
  <2>5. job[s] = JobOf(now, TRUE)
        BY <1>1, <2>4 DEF Busy, Loaded
  <2> QED BY <1>1, <1>3, <2>1, <2>4, <2>5
<1>4. CASE now.op = "produce"
  <2>1. s = "PIB0"
        BY <1>1, <1>4 DEF Types
  <2>2. ASSUME NEW n \in 0 .. 11, ProduceAt(n)
        PROVE  n = 11 /\ OfTheCall(job[s], now)
        BY <1>1, <2>1, <2>2 DEF ProduceAt
  <2>3. Len(Ops(now)) = 11
        BY <1>4, ProduceOps DEF Ops
  <2>4. m \in 0 .. 11 /\ ProduceAt(m)
        BY <1>2, <1>4, <2>3 DEF At
  <2>5. JobOf(now, FALSE).left = FALSE
        BY <1>1, <1>4, JobLeft
  <2>6. job[s] = JobOf(now, TRUE)
        BY <1>1, <2>2, <2>4, <2>5 DEF OfTheCall
  <2> QED BY <1>1, <1>4, <2>2, <2>6
<1>5. CASE now.op \in {"none", "abort"}
  <2>1. s = "PIB0"
        BY <1>1, <1>5 DEF Types
  <2>2. QuietAt(m)
        BY <1>2, <1>5 DEF At
  <2> QED BY <1>1, <2>1, <2>2 DEF QuietAt
<1> QED BY <1>1, <1>3, <1>4, <1>5, ZenonT(60) DEF Types

\* Its work may be done with the event of the data, or with an error.
LEMMA WorkDone ==
    ASSUME DriverInv, NEW s \in D!Socket, D!Working(s), NEW event \in Raised, NEW left \in BOOLEAN,
           INTR' = [INTR EXCEPT ![s] = @ \cup {event}],
           job' = [job EXCEPT ![s].left = left],
           UNCHANGED <<now, todo, outcome, cache, dirty, memory, STATUS, SIZE>>,
           now.op \in {"read", "write"} =>
              /\ left = FALSE
              /\ \/ event = EventOf(now) /\ moved' = now.length
                 \/ event = "ERROR" /\ moved' = D!Failed,
           now.op = "produce" => moved' \in {moved, D!Failed}
    PROVE  DriverInv'
<1>1. Types /\ s = now.socket /\ now.op \in {"read", "write", "produce"} /\ job[s] = JobOf(now, TRUE)
      BY WorkingOnTheCall DEF DriverInv
<1>2. /\ INTR'[s] = INTR[s] \cup {event} /\ INTR' \in [D!Socket -> SUBSET Raised]
      BY <1>1 DEF Types
<1>3. [JobOf(now, TRUE) EXCEPT !.left = left] = JobOf(now, left) /\ JobOf(now, left).own = TRUE
      BY <1>1, JobLeft
<1>4. /\ job'[s] = JobOf(now, left) /\ \A r \in D!Socket : r # s => job'[r] = job[r]
      /\ job' = [r \in D!Socket |-> job'[r]]
  <2>1. job'[s] = [job[s] EXCEPT !.left = left] /\ \A r \in D!Socket : r # s => job'[r] = job[r]
        BY <1>1 DEF Types
  <2>2. job' = [r \in D!Socket |-> job'[r]]
        BY <1>1 DEF Types
  <2> QED BY <1>1, <1>3, <2>1, <2>2
<1>5. Types'
      BY <1>1, <1>2, <1>3, <1>4 DEF Types
<1>6. ASSUME NEW n \in 0 .. 9, now.op \in {"read", "write"}, todo = Rest(Ops(now), n), TransferAt(n)
      PROVE  TransferAt(n)'
  <2>1. n = 8 /\ Busy
        BY <1>6, WorkingOnTheCall
  <2>2. "ENABLED" \in STATUS'[s] /\ INTR'[s] = {event}
        BY <1>1, <1>2, <2>1 DEF Busy, Loaded
  <2>3. Loaded(FALSE)'
        BY <1>1, <1>4, <1>6, <2>2 DEF Loaded
  <2>4. Complete' \/ Broken'
    <3>1. CASE event = EventOf(now) /\ moved' = now.length
          BY <1>1, <2>2, <2>3, <3>1 DEF Complete
    <3>2. CASE event = "ERROR" /\ moved' = D!Failed
          BY <1>1, <2>2, <2>3, <3>2 DEF Broken
    <3> QED BY <1>6, <3>1, <3>2
  <2> QED BY <1>6, <2>1, <2>4 DEF TransferAt
<1>7. ASSUME NEW n \in 0 .. 11, now.op = "produce", todo = Rest(Ops(now), n), ProduceAt(n)
      PROVE  ProduceAt(n)'
  <2>1. n = 11 /\ s = "PIB0"
        BY <1>1, <1>7, WorkingOnTheCall DEF Types
  <2>2. OfTheCall(job'["PIB0"], now)
    <3>1. CASE left = TRUE
          BY <1>4, <2>1, <3>1 DEF OfTheCall
    <3>2. CASE left = FALSE
          BY <1>4, <2>1, <3>2 DEF OfTheCall
    <3> QED BY <3>1, <3>2
  <2>3. moved' \in {D!NotYet, D!Failed}
        BY <1>7 DEF ProduceAt
  <2> QED BY <1>7, <2>1, <2>2, <2>3 DEF ProduceAt
<1> QED BY <1>1, <1>5, <1>6, <1>7, BesideTheCall

LEMMA MoveKeeps ==
    ASSUME DriverInv, NEW s \in D!Socket, D!Move(s) \/ D!Fail(s)
    PROVE  DriverInv'
<1>1. CASE D!Move(s)
  <2>1. D!Working(s) /\ UNCHANGED <<now, todo, outcome, cache, dirty, memory, STATUS, SIZE>>
        BY <1>1 DEF D!Move, D!callVars, D!wordVars
  <2>2. /\ now.op \in {"read", "write"}
        /\ now.op = "read" => D!Raise(s, "CONSUME_EVENT")
              /\ moved' = IF moved = D!NotYet THEN job[s].count ELSE moved + job[s].count
        /\ now.op = "write" => D!Raise(s, "PRODUCE_EVENT")
              /\ moved' = IF moved = D!NotYet THEN now.length ELSE moved + now.length
        /\ job' = [job EXCEPT ![s].left = SIZE[s] = 0]
    <3> DEFINE raises == D!Raise(s, "CONSUME_EVENT")
               writes == D!Raise(s, "PRODUCE_EVENT")
               more == IF moved = D!NotYet THEN job[s].count ELSE moved + job[s].count
               all == IF moved = D!NotYet THEN now.length ELSE moved + now.length
    <3>1. /\ \/ now.op = "read" /\ raises /\ moved' = more
             \/ now.op = "write" /\ writes /\ moved' = all
          /\ D!UnitDone(s)
          BY <1>1 DEF D!Move
    <3> HIDE DEF raises, writes, more, all
    <3>2. /\ now.op \in {"read", "write"} /\ D!UnitDone(s)
          /\ now.op = "read" => raises /\ moved' = more
          /\ now.op = "write" => writes /\ moved' = all
          BY <3>1
    <3> QED BY <3>2 DEF raises, writes, more, all, D!UnitDone
  <2>3. /\ SIZE[s] = 1 /\ moved = D!NotYet /\ Types /\ job[s] = JobOf(now, TRUE)
        BY <2>1, <2>2, WorkingOnTheCall DEF Busy, DriverInv
  <2>4. now.op = "read" => job[s].count = now.length
    <3> DEFINE a == TRUE
    <3>1. job[s] = JobOf(now, a)
          BY <2>3
    <3> HIDE DEF a
    <3>2. now.op = "read" => JobOf(now, a).count = now.length
          BY <2>2, <2>3, JobFields
    <3> QED BY <3>1, <3>2
  <2>5. (SIZE[s] = 0) = FALSE
        BY <2>3
  <2>6. job' = [job EXCEPT ![s].left = FALSE]
        BY <2>2, <2>5
  <2>7. moved' = now.length
        BY <2>2, <2>3, <2>4
  <2>8. INTR' = [INTR EXCEPT ![s] = @ \cup {EventOf(now)}]
        BY <2>2 DEF EventOf, D!Raise
  <2>9. EventOf(now) \in Raised
        BY DEF EventOf, Raised, D!Events
  <2> QED BY <2>1, <2>2, <2>6, <2>7, <2>8, <2>9, WorkDone
<1>2. CASE D!Fail(s)
  <2>1. /\ D!Working(s) /\ UNCHANGED <<now, todo, outcome, cache, dirty, memory, STATUS, SIZE>>
        /\ INTR' = [INTR EXCEPT ![s] = @ \cup {"ERROR"}]
        /\ job' = [job EXCEPT ![s].left = FALSE] /\ moved' = D!Failed
        BY <1>2 DEF D!Fail, D!Raise, D!callVars, D!wordVars
  <2>2. "ERROR" \in Raised
        BY DEF Raised
  <2> QED BY <2>1, <2>2, WorkDone
<1> QED BY <1>1, <1>2

LEMMA MoveInRingKeeps ==
    ASSUME DriverInv, D!MoveInRing
    PROVE  DriverInv'
<1>1. /\ D!Working("PIB0") /\ "PIB0" \in D!Socket
      /\ UNCHANGED <<now, todo, outcome, cache, dirty, memory, STATUS, SIZE, moved>>
      /\ INTR' = [INTR EXCEPT !["PIB0"] = @ \cup {"PRODUCE_EVENT"}]
      /\ job' = [job EXCEPT !["PIB0"].left = SIZE["PIB0"] = 0]
      BY DEF D!MoveInRing, D!Raise, D!UnitDone, D!callVars, D!wordVars, D!Socket
<1>2. now.socket = "PIB0" /\ now.op \in {"read", "write", "produce"} /\ Types
      BY <1>1, WorkingOnTheCall DEF DriverInv
<1>3. now.op = "produce"
      BY <1>2 DEF Types
<1>4. "PRODUCE_EVENT" \in Raised
      BY DEF Raised, D!Events
<1> DEFINE left == SIZE["PIB0"] = 0
<1>5. left \in BOOLEAN /\ job' = [job EXCEPT !["PIB0"].left = left]
      BY <1>1
<1> HIDE DEF left
<1> QED BY <1>1, <1>3, <1>4, <1>5, WorkDone

LEMMA MoveOldKeeps ==
    ASSUME DriverInv, NEW s \in D!Socket, D!MoveOld(s)
    PROVE  DriverInv'
<1>1. /\ "ENABLED" \in STATUS[s] /\ ~job[s].own
      /\ UNCHANGED <<now, todo, outcome, cache, dirty, memory, STATUS, SIZE, job, moved>>
      BY DEF D!MoveOld, D!callVars, D!wordVars
<1>2. PICK raised \in {D!Events, {"ERROR"}} : INTR' = [INTR EXCEPT ![s] = @ \cup raised]
      BY DEF D!MoveOld
<1>3. Types
      BY DEF DriverInv
<1>4. INTR' \in [D!Socket -> SUBSET Raised] /\ \A r \in D!Socket : r # s => INTR'[r] = INTR[r]
  <2>1. raised \in SUBSET Raised
        BY DEF Raised
  <2> QED BY <1>2, <1>3, <2>1 DEF Types
<1>5. Types'
      BY <1>1, <1>3, <1>4 DEF Types
<1>6. now.socket \in D!Socket
      BY <1>3, SocketOfCall
<1>7. CASE s # now.socket
      BY <1>1, <1>4, <1>5, <1>6, <1>7, OnAnotherSocket
<1>8. CASE s = now.socket
  <2>1. ASSUME NEW n \in 0 .. 9, now.op \in {"read", "write"}, TransferAt(n)
        PROVE  TransferAt(n)'
    <3>1. \A left : JobOf(now, left).own
          BY <1>3, <2>1, JobFields
    <3>2. ~(n >= 8)
          BY <1>1, <1>8, <2>1, <3>1, ZenonT(60) DEF TransferAt, Waiting, Busy, Complete, Broken, Loaded
    <3>3. n <= 5
          BY <1>1, <1>8, <2>1, <3>2 DEF TransferAt
    <3> QED BY <1>1, <2>1, <3>3 DEF TransferAt
  <2>2. ASSUME NEW n \in 0 .. 11, ProduceAt(n)
        PROVE  ProduceAt(n)'
        BY <1>1, <2>2 DEF ProduceAt
  <2>3. ASSUME NEW n \in 0 .. 3, QuietAt(n)
        PROVE  QuietAt(n)'
        BY <1>1, <2>3 DEF QuietAt
  <2> QED BY <1>1, <1>5, <2>1, <2>2, <2>3, BesideTheCall
<1> QED BY <1>7, <1>8

LEMMA WriteBackKeeps ==
    ASSUME DriverInv, D!WriteBack
    PROVE  DriverInv'
<1>1. /\ dirty /\ memory' = cache /\ dirty' = FALSE
      /\ UNCHANGED <<now, todo, outcome, cache, STATUS, INTR, SIZE, job, moved>>
      BY DEF D!WriteBack, D!callVars
<1>2. Types'
      BY <1>1, ZenonT(60) DEF DriverInv, Types
<1>3. ASSUME NEW n \in 0 .. 9, TransferAt(n)
      PROVE  TransferAt(n)'
  <2>1. /\ Waiting => Waiting'
        /\ Busy => Busy'
        /\ Complete => Complete'
        /\ Broken => Broken'
        BY <1>1 DEF Waiting, Busy, Complete, Broken, Loaded
  <2> QED BY <1>1, <1>3, <2>1 DEF TransferAt
<1>4. ASSUME NEW n \in 0 .. 11, ProduceAt(n)
      PROVE  ProduceAt(n)'
      BY <1>1, <1>4 DEF ProduceAt
<1>5. ASSUME NEW n \in 0 .. 3, QuietAt(n)
      PROVE  QuietAt(n)'
      BY <1>1, <1>5 DEF QuietAt
<1> QED BY <1>1, <1>2, <1>3, <1>4, <1>5, BesideTheCall

-----------------------------------------------------------------------------
LEMMA InitDriverInv == MCInit => DriverInv
<1> SUFFICES ASSUME MCInit
             PROVE  DriverInv
    OBVIOUS
<1>1. D!Init
      BY DEF MCInit
<1>2. /\ now = D!NoCall /\ todo = <<>> /\ outcome = "none" /\ dirty = FALSE
      /\ INTR = [s \in D!Socket |-> D!Events \cup {"ERROR"}]
      /\ SIZE = [s \in D!Socket |-> 0] /\ job = [s \in D!Socket |-> D!OldJob]
      /\ moved = D!NotYet
      BY <1>1 DEF D!Init
<1>3. PICK on \in SUBSET {"UIB0", "UIBIN0"} :
         STATUS = [s \in D!Socket |-> IF s \in on THEN D!Default \cup {"GO_ENABLE", "ENABLED"} ELSE {}]
      BY <1>1 DEF D!Init
<1>4. /\ STATUS \in [D!Socket -> SUBSET Flag] /\ "GO_ENABLE" \notin STATUS["PIB0"]
  <2>1. D!Default \cup {"GO_ENABLE", "ENABLED"} \in SUBSET Flag /\ "PIB0" \in D!Socket
        BY DEF Flag, D!Socket
  <2> QED BY <1>3, <2>1
<1>5. /\ now.op = "none" /\ now.socket = "PIB0" /\ Ops(now) = <<>> /\ Len(Ops(now)) = 0
      BY <1>2 DEF D!NoCall, Ops
<1>6. \A s \in D!Socket : job[s].own = FALSE
      BY <1>2 DEF D!OldJob, D!Decoded
<1>7. Types
      BY <1>2, <1>4, <1>5, <1>6 DEF Types, Raised
<1>8. QuietAt(0)
  <2>1. "PIB0" \in D!Socket
        BY DEF D!Socket
  <2> QED BY <1>2, <1>4, <1>5, <1>6, <2>1 DEF QuietAt
<1>9. todo = Rest(Ops(now), 0)
  <2>1. Ops(now) \in Seq({})
        BY <1>5
  <2> QED BY <1>2, <1>5, <2>1, WholeIsRest
<1>10. At(0)
      BY <1>5, <1>8, <1>9 DEF At
<1> QED BY <1>5, <1>7, <1>10 DEF DriverInv, CallInv

LEMMA DriverInvKept == DriverInv /\ [MCNext]_<<part, vars, driverVars>> => DriverInv'
<1> SUFFICES ASSUME DriverInv, [MCNext]_<<part, vars, driverVars>>
             PROVE  DriverInv'
    OBVIOUS
<1>1. CASE UNCHANGED driverVars
  <2>1. UNCHANGED <<now, todo, outcome, cache, dirty, memory, STATUS, INTR, SIZE, job, moved>>
        BY <1>1 DEF driverVars
  <2>2. Types'
        BY <2>1 DEF DriverInv, Types
  <2> QED BY <2>1, <2>2, OnAnotherSocket
<1>2. CASE D!Next
  <2>1. CASE \E buffer \in Buffers : \/ \E length \in Lengths : \/ D!SimpleTransferRead(buffer, length)
                                                               \/ D!SimpleTransferWrite(buffer, length)
                                     \/ D!StartProducer(buffer)
        BY <2>1, CallKeeps
  <2>2. CASE D!AbortSocket
        BY <2>2, CallKeeps
  <2>3. CASE D!Access
        BY <2>3, AccessKeeps
  <2>4. CASE \E s \in D!Socket : \/ D!Enable(s) \/ D!Disable(s)
                                 \/ D!Move(s) \/ D!Fail(s) \/ D!MoveOld(s)
    <3>1. PICK s \in D!Socket : D!Enable(s) \/ D!Disable(s) \/ D!Move(s) \/ D!Fail(s) \/ D!MoveOld(s)
          BY <2>4
    <3> QED BY <3>1, EnableKeeps, DisableKeeps, MoveKeeps, MoveOldKeeps
  <2>5. CASE D!MoveInRing
        BY <2>5, MoveInRingKeeps
  <2>6. CASE D!WriteBack
        BY <2>6, WriteBackKeeps
  <2> QED BY <1>2, <2>1, <2>2, <2>3, <2>4, <2>5, <2>6 DEF D!Next
<1> QED BY <1>1, <1>2 DEF MCNext

LEMMA Invariance == MCSpec => []DriverInv
<1>1. MCInit => DriverInv
      BY InitDriverInv
<1>2. DriverInv /\ [MCNext]_<<part, vars, driverVars>> => DriverInv'
      BY DriverInvKept
<1> QED BY <1>1, <1>2, PTL DEF MCSpec

-----------------------------------------------------------------------------
\* A descriptor of the driver's own in a socket is that of the call.
LEMMA OwnIsOfTheCall ==
    ASSUME DriverInv, NEW s \in D!Socket, job[s].own
    PROVE  /\ s = now.socket /\ now.op \in {"read", "write", "produce"}
           /\ OfTheCall(job[s], now)
<1>1. Types /\ s = now.socket
      BY DEF DriverInv, Types
<1>2. PICK n \in 0 .. Len(Ops(now)) : At(n)
      BY DEF DriverInv, CallInv
<1>3. CASE now.op \in {"read", "write"}
  <2>1. TransferAt(n) /\ Len(Ops(now)) = 9
        BY <1>2, <1>3, TransferOps DEF At, Ops
  <2>2. n >= 8
        BY <1>1, <1>2, <2>1 DEF TransferAt
  <2>3. Busy \/ Complete \/ Broken
        BY <1>1, <1>2, <2>1, <2>2 DEF TransferAt, Waiting
  <2>4. OfTheCall(job[s], now)
        BY <1>1, <2>3 DEF OfTheCall, Busy, Complete, Broken, Loaded
  <2> QED BY <1>1, <1>3, <2>4
<1>4. CASE now.op = "produce"
  <2>1. ProduceAt(n) /\ s = "PIB0"
        BY <1>1, <1>2, <1>4 DEF At, Types
  <2> QED BY <1>1, <1>4, <2>1 DEF ProduceAt
<1>5. CASE now.op \in {"none", "abort"}
  <2>1. QuietAt(n) /\ s = "PIB0"
        BY <1>1, <1>2, <1>5 DEF At, Types
  <2> QED BY <2>1 DEF QuietAt
<1> QED BY <1>1, <1>3, <1>4, <1>5 DEF Types

LEMMA FieldsAsAsked ==
    ASSUME DriverInv, NEW s \in D!Socket, job[s].own
    PROVE  /\ job[s].buffer = now.buffer /\ RoomFor(job[s].room, now.length)
           /\ now.op = "read" => job[s].cons = <<D!Ip(s), {}>>
           /\ now.op # "read" => job[s].prod = <<D!Ip(s), {}>>
           /\ now.op = "read" => job[s].count = now.length /\ job[s].prod = <<D!Cpu, {}>>
           /\ now.op = "write" => job[s].count = 0 /\ job[s].cons = <<D!Cpu, {}>>
           /\ now.op = "produce" => /\ job[s].cons = <<{0, 1}, {1}>>
                                    /\ job[s].count = 0 /\ job[s].next = <<3, 2>>
<1>1. s = now.socket /\ now.op \in {"read", "write", "produce"} /\ OfTheCall(job[s], now) /\ Types
      BY OwnIsOfTheCall DEF DriverInv
<1>2. PICK left : job[s] = JobOf(now, left)
      BY <1>1 DEF OfTheCall
<1>3. /\ JobOf(now, left).buffer = now.buffer /\ RoomFor(JobOf(now, left).room, now.length)
      /\ now.op = "read" => JobOf(now, left).cons = <<D!Ip(now.socket), {}>>
      /\ now.op # "read" => JobOf(now, left).prod = <<D!Ip(now.socket), {}>>
      /\ now.op = "read" => JobOf(now, left).count = now.length /\ JobOf(now, left).prod = <<D!Cpu, {}>>
      /\ now.op = "write" => JobOf(now, left).count = 0 /\ JobOf(now, left).cons = <<D!Cpu, {}>>
      /\ now.op = "produce" => /\ JobOf(now, left).cons = <<{0, 1}, {1}>>
                               /\ JobOf(now, left).count = 0 /\ JobOf(now, left).next = <<3, 2>>
      BY <1>1, JobFields
<1> QED BY <1>1, <1>2, <1>3

\* The length of a call, as far as a socket can tell.
LEMMA LengthOfCall == Types /\ now.op \in {"read", "write", "produce"} =>
                         now.length \in Nat /\ now.length <= 6144
BY DEF Types, D!DMA_BUFFER_SIZE

(***************************************************************************)
(* MCDma.LoadsAsAsked of every behaviour: whatever the length of a transfer *)
(* and the buffer, the fields that a socket reads of the words of its       *)
(* descriptor are those its caller asked for (dma.c:71-172).                *)
(***************************************************************************)
THEOREM SocketLoadsAsAsked == MCSpec => []LoadsAsAsked
<1>1. DriverInv => LoadsAsAsked
  <2> SUFFICES ASSUME DriverInv
               PROVE  LoadsAsAsked
      OBVIOUS
  <2>1. PICK n \in 0 .. Len(Ops(now)) : At(n)
        BY DEF DriverInv, CallInv
  <2>2. Types
        BY DEF DriverInv
  <2>3. outcome \in {"none", "event", "error"} /\ moved \in 0 .. D!Failed
    <3>1. D!NotYet \in 0 .. D!Failed /\ D!Failed \in 0 .. D!Failed
          BY DEF D!NotYet, D!Failed
    <3>2. CASE now.op \in {"read", "write"}
      <4>1. TransferAt(n) /\ Len(Ops(now)) = 9
            BY <2>1, <3>2, TransferOps DEF At, Ops
      <4>2. outcome \in {"none", "event", "error"}
            BY <2>1, <4>1 DEF TransferAt
      <4>3. moved = D!NotYet \/ moved = D!Failed \/ moved = now.length
        <5>1. n \in 0 .. 9
              BY <2>1, <4>1
        <5>2. n <= 7 \/ n >= 8
              BY <5>1
        <5> QED BY <4>1, <5>2 DEF TransferAt, Waiting, Busy, Complete, Broken
      <4>4. now.length \in 0 .. D!Failed
        <5>1. now.length \in Nat /\ D!Failed \in Nat /\ now.length <= D!Failed
              BY <2>2, <3>2, LengthOfCall DEF D!Failed
        <5> QED BY <5>1
      <4> QED BY <3>1, <4>2, <4>3, <4>4
    <3>3. CASE now.op = "produce"
      <4>1. ProduceAt(n)
            BY <2>1, <3>3 DEF At
      <4> QED BY <3>1, <4>1 DEF ProduceAt
    <3>4. CASE now.op \in {"none", "abort"}
      <4>1. QuietAt(n)
            BY <2>1, <3>4 DEF At
      <4> QED BY <3>1, <4>1 DEF QuietAt
    <3> QED BY <2>2, <3>2, <3>3, <3>4 DEF Types
  <2>4. ASSUME NEW s \in D!Socket
        PROVE  /\ STATUS[s] \subseteq D!Default \cup {"UNIT", "GO_ENABLE", "ENABLED"}
               /\ INTR[s] \subseteq D!Events \cup {"ERROR"}
               /\ job[s].own => job[s].room \in 16 .. D!DMA_BUFFER_SIZE
    <3>1. ASSUME job[s].own
          PROVE  job[s].room \in 16 .. D!DMA_BUFFER_SIZE
      <4>1. RoomFor(job[s].room, now.length)
            BY <3>1, FieldsAsAsked
      <4>2. /\ job[s].room \in Nat /\ job[s].room >= 16
            /\ job[s].room <= D!DMA_BUFFER_SIZE /\ D!DMA_BUFFER_SIZE \in Nat
            BY <4>1 DEF RoomFor, D!DMA_BUFFER_SIZE
      <4> QED BY <4>2
    <3>2. /\ STATUS[s] \subseteq D!Default \cup {"UNIT", "GO_ENABLE", "ENABLED"}
          /\ INTR[s] \subseteq D!Events \cup {"ERROR"}
          BY <2>2 DEF Types, Flag, Raised
    <3> QED BY <3>1, <3>2, Zenon
  <2>5. D!TypeOK
        BY <2>2, <2>3, <2>4 DEF D!TypeOK, Types
  <2>6. ASSUME NEW s \in D!Socket, D!Working(s)
        PROVE  /\ job[s].buffer = now.buffer
               /\ job[s].room \in now.length .. now.length + 15
               /\ <<D!Ip(s), {}>> = (IF now.op = "read" THEN job[s].cons ELSE job[s].prod)
               /\ now.op = "read" => job[s].count = now.length /\ job[s].prod = <<D!Cpu, {}>>
               /\ now.op = "write" => job[s].count = 0 /\ job[s].cons = <<D!Cpu, {}>>
               /\ now.op = "produce" => /\ job[s].cons = <<{0, 1}, {1}>>
                                        /\ job[s].count = 0 /\ job[s].next = <<3, 2>>
    <3>1. job[s].own
          BY <2>6 DEF D!Working
    <3>2. now.length \in Nat /\ RoomFor(job[s].room, now.length)
          BY <2>2, <3>1, OwnIsOfTheCall, LengthOfCall, FieldsAsAsked
    <3>3. job[s].room \in now.length .. now.length + 15
          BY <3>2 DEF RoomFor
    <3> QED BY <3>1, <3>3, FieldsAsAsked
  <2>7. D!LoadsAsAsked
        BY <2>6 DEF D!LoadsAsAsked
  <2> QED BY <2>5, <2>7 DEF LoadsAsAsked
<1> QED BY <1>1, Invariance, PTL

(***************************************************************************)
(* MCDma.EndsWithItsOwn of every behaviour: whatever the boot loader left   *)
(* in the sockets and whatever an old job raises, a transfer returns with   *)
(* the event of its own bytes or its own error, and an abort with a socket  *)
(* that has stopped (dma.c:61-69, 90-123).                                  *)
(***************************************************************************)
THEOREM TransferEndsWithItsOwn == MCSpec => []EndsWithItsOwn
<1>1. DriverInv => EndsWithItsOwn
  <2> SUFFICES ASSUME DriverInv, todo = <<>>
               PROVE  /\ outcome = "event" => moved = now.length
                      /\ outcome = "error" => moved = D!Failed
                      /\ now.op = "abort" => "ENABLED" \notin STATUS["PIB0"]
      BY DEF EndsWithItsOwn, D!EndsWithItsOwn, D!StopsWhenAborted
  <2>1. PICK n \in 0 .. Len(Ops(now)) : At(n)
        BY DEF DriverInv, CallInv
  <2>2. todo = Rest(Ops(now), n) /\ Types
        BY <2>1 DEF At, DriverInv
  <2>3. ASSUME NEW S, Ops(now) \in Seq(S)
        PROVE  n = Len(Ops(now))
    <3>1. Len(Rest(Ops(now), n)) = Len(Ops(now)) - n
          BY <2>1, <2>3, RestOfSeq
    <3>2. Len(Ops(now)) \in Nat
          BY <2>3
    <3> QED BY <2>1, <2>2, <3>1, <3>2
  <2>4. CASE now.op \in {"read", "write"}
    <3>1. TransferAt(n) /\ n = 9
          BY <2>1, <2>3, <2>4, TransferOps DEF At, Ops
    <3> QED BY <2>4, <3>1 DEF TransferAt, Complete, Broken
  <2>5. CASE now.op = "produce"
    <3>1. ProduceAt(n)
          BY <2>1, <2>5 DEF At
    <3> QED BY <2>5, <3>1 DEF ProduceAt
  <2>6. CASE now.op = "abort"
    <3>1. QuietAt(n) /\ n = 3
          BY <2>1, <2>3, <2>6, AbortOps DEF At, Ops
    <3> QED BY <2>6, <3>1 DEF QuietAt
  <2>7. CASE now.op = "none"
    <3>1. QuietAt(n)
          BY <2>1, <2>7 DEF At
    <3> QED BY <2>7, <3>1 DEF QuietAt
  <2> QED BY <2>2, <2>4, <2>5, <2>6, <2>7 DEF Types
<1> QED BY <1>1, Invariance, PTL

================================================================================
