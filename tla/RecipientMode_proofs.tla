------------------------ MODULE RecipientMode_proofs ------------------------
(***************************************************************************)
(* The key files and the mode without a shared password, for any people,   *)
(* keys, key files, messages and dimensions.                               *)
(*                                                                         *)
(* Part 1 is about the line of a key file: what encode writes decode reads *)
(* back, and what decode reads was written by encode, but for the bits     *)
(* behind the last byte.  Part 2 is the inductive invariant of the sender  *)
(* and the receiver, and what follows from the two parts.                  *)
(***************************************************************************)
EXTENDS RecipientMode, SequenceTheorems, WellFoundedInduction, TLAPS

(* Part 1: a group of 24 bits, as three bytes and as four symbols. *)

LEMMA FromSymbols ==
    ASSUME NEW s1, NEW s2, NEW s3, NEW s4,
           s1 \in 0 .. 63, s2 \in 0 .. 63, s3 \in 0 .. 63, s4 \in 0 .. 63
    PROVE  /\ SymbolOf(OfSymbols(s1, s2, s3, s4), 1) = s1
           /\ SymbolOf(OfSymbols(s1, s2, s3, s4), 2) = s2
           /\ SymbolOf(OfSymbols(s1, s2, s3, s4), 3) = s3
           /\ SymbolOf(OfSymbols(s1, s2, s3, s4), 4) = s4
<1>1. \A P : P = OfSymbols(s1, s2, s3, s4) =>
        /\ SymbolOf(P, 1) = s1 /\ SymbolOf(P, 2) = s2
        /\ SymbolOf(P, 3) = s3 /\ SymbolOf(P, 4) = s4
  BY SMT DEF OfSymbols, SymbolOf, SymbolWeight
<1> QED BY <1>1

LEMMA FromBytes ==
    ASSUME NEW b1, NEW b2, NEW b3, b1 \in 0 .. 255, b2 \in 0 .. 255, b3 \in 0 .. 255
    PROVE  /\ ByteOf(OfBytes(b1, b2, b3), 1) = b1
           /\ ByteOf(OfBytes(b1, b2, b3), 2) = b2
           /\ ByteOf(OfBytes(b1, b2, b3), 3) = b3
<1>1. \A P : P = OfBytes(b1, b2, b3) =>
        ByteOf(P, 1) = b1 /\ ByteOf(P, 2) = b2 /\ ByteOf(P, 3) = b3
  BY SMT DEF OfBytes, ByteOf, ByteWeight
<1> QED BY <1>1

IsBytes(packed) == \E b1, b2, b3 \in 0 .. 255 : packed = OfBytes(b1, b2, b3)
AsSymbols(b1, b2, b3) ==
    \E s1, s2, s3, s4 \in 0 .. 63 : /\ OfSymbols(s1, s2, s3, s4) = OfBytes(b1, b2, b3)
                                    /\ b3 = 0 => s4 = 0
                                    /\ b2 = 0 /\ b3 = 0 => s3 = 0

LEMMA ToBytes ==
    ASSUME NEW s1, NEW s2, NEW s3, NEW s4,
           s1 \in 0 .. 63, s2 \in 0 .. 63, s3 \in 0 .. 63, s4 \in 0 .. 63
    PROVE  IsBytes(OfSymbols(s1, s2, s3, s4))
<1> DEFINE b1 == s1 * 4 + (s2 \div 16)
           b2 == (s2 % 16) * 16 + (s3 \div 4)
           b3 == (s3 % 4) * 64 + s4
<1>1. /\ s2 = (s2 \div 16) * 16 + (s2 % 16) /\ s2 \div 16 \in 0 .. 3 /\ s2 % 16 \in 0 .. 15
      /\ s3 = (s3 \div 4) * 4 + (s3 % 4) /\ s3 \div 4 \in 0 .. 15 /\ s3 % 4 \in 0 .. 3
  BY SMT
<1>2. b1 \in 0 .. 255 /\ b2 \in 0 .. 255 /\ b3 \in 0 .. 255
  BY <1>1, SMT
<1>3. OfSymbols(s1, s2, s3, s4) = OfBytes(b1, b2, b3)
  BY <1>1, SMT DEF OfSymbols, OfBytes
<1> HIDE DEF b1, b2, b3
<1> QED BY <1>2, <1>3 DEF IsBytes

LEMMA ToSymbols ==
    ASSUME NEW b1, NEW b2, NEW b3, b1 \in 0 .. 255, b2 \in 0 .. 255, b3 \in 0 .. 255
    PROVE  AsSymbols(b1, b2, b3)
<1> DEFINE s1 == b1 \div 4
           s2 == (b1 % 4) * 16 + (b2 \div 16)
           s3 == (b2 % 16) * 4 + (b3 \div 64)
           s4 == b3 % 64
<1>1. /\ b1 = (b1 \div 4) * 4 + (b1 % 4) /\ b1 \div 4 \in 0 .. 63 /\ b1 % 4 \in 0 .. 3
      /\ b2 = (b2 \div 16) * 16 + (b2 % 16) /\ b2 \div 16 \in 0 .. 15 /\ b2 % 16 \in 0 .. 15
      /\ b3 = (b3 \div 64) * 64 + (b3 % 64) /\ b3 \div 64 \in 0 .. 3 /\ b3 % 64 \in 0 .. 63
  BY SMT
<1>2. s1 \in 0 .. 63 /\ s2 \in 0 .. 63 /\ s3 \in 0 .. 63 /\ s4 \in 0 .. 63
  BY <1>1, SMT
<1>3. OfSymbols(s1, s2, s3, s4) = OfBytes(b1, b2, b3)
  BY <1>1, SMT DEF OfSymbols, OfBytes
<1>4. (b3 = 0 => s4 = 0) /\ (b2 = 0 /\ b3 = 0 => s3 = 0)
  BY SMT
<1> HIDE DEF s1, s2, s3, s4
<1> QED BY <1>2, <1>3, <1>4 DEF AsSymbols

\* A short last group loses the bits of the bytes that are not there.
LEMMA OneShort ==
    ASSUME NEW s1, NEW s2, NEW s3, NEW t1, NEW t2, NEW t3, NEW t4, NEW b1, NEW b2, NEW b3,
           s1 \in 0 .. 63, s2 \in 0 .. 63, s3 \in 0 .. 63,
           t1 \in 0 .. 63, t2 \in 0 .. 63, t3 \in 0 .. 63, t4 \in 0 .. 63,
           b1 \in 0 .. 255, b2 \in 0 .. 255, b3 \in 0 .. 255,
           OfSymbols(s1, s2, s3, 0) = OfBytes(b1, b2, b3),
           OfSymbols(t1, t2, t3, t4) = OfBytes(b1, b2, 0)
    PROVE  t1 = s1 /\ t2 = s2 /\ t3 \div 4 = s3 \div 4
<1> DEFINE u == s3 \div 4
           r == s3 % 4
           v == t3 \div 4
           w == t3 % 4
<1>1. /\ s3 = 4 * u + r /\ u \in 0 .. 15 /\ r \in 0 .. 3
      /\ t3 = 4 * v + w /\ v \in 0 .. 15 /\ w \in 0 .. 3
  BY SMT
<1> HIDE DEF u, r, v, w
<1>2. (s1 * 64 + s2) * 16 + u = b1 * 256 + b2
  BY <1>1, SMT DEF OfSymbols, OfBytes
<1>3. (t1 * 64 + t2) * 16 + v = b1 * 256 + b2
  BY <1>1, SMT DEF OfSymbols, OfBytes
<1>4. u = v /\ t2 = s2 /\ t1 = s1
  BY <1>1, <1>2, <1>3, SMT
<1> QED BY <1>4 DEF u, v

LEMMA TwoShort ==
    ASSUME NEW s1, NEW s2, NEW t1, NEW t2, NEW t3, NEW t4, NEW b1, NEW b2, NEW b3,
           s1 \in 0 .. 63, s2 \in 0 .. 63,
           t1 \in 0 .. 63, t2 \in 0 .. 63, t3 \in 0 .. 63, t4 \in 0 .. 63,
           b1 \in 0 .. 255, b2 \in 0 .. 255, b3 \in 0 .. 255,
           OfSymbols(s1, s2, 0, 0) = OfBytes(b1, b2, b3),
           OfSymbols(t1, t2, t3, t4) = OfBytes(b1, 0, 0)
    PROVE  t1 = s1 /\ t2 \div 16 = s2 \div 16
BY SMT DEF OfSymbols, OfBytes

LEMMA Places ==
    /\ \A i \in Nat : i >= 1 => /\ Group(i, 4) \in Nat /\ Slot(i, 4) \in 1 .. 4
                                /\ i = 4 * Group(i, 4) + Slot(i, 4)
                                /\ Group(i, 3) \in Nat /\ Slot(i, 3) \in 1 .. 3
                                /\ i = 3 * Group(i, 3) + Slot(i, 3)
    /\ \A g \in Nat, s \in 1 .. 4 : Group(4 * g + s, 4) = g /\ Slot(4 * g + s, 4) = s
    /\ \A g \in Nat, s \in 1 .. 3 : Group(3 * g + s, 3) = g /\ Slot(3 * g + s, 3) = s
BY SMT DEF Group, Slot

\* How many groups there are of so many bytes.
LEMMA GroupsOf ==
    ASSUME NEW k \in Nat, NEW p \in 0 .. 2, 3 * k - p \in Nat
    PROVE  (3 * k - p + 3 - 1) \div 3 = k
BY SMT

LEMMA GroupsFor ==
    ASSUME NEW n \in Nat, n >= 1
    PROVE  LET k == (n + 3 - 1) \div 3 IN k \in Nat /\ k >= 1 /\ 3 * k - n \in 0 .. 2
BY SMT

LEMMA PaddingIs ==
    ASSUME NEW body, Len(body) \in Nat, NEW n \in 0 .. Len(body),
           \A i \in Len(body) - n + 1 .. Len(body) : body[i] = PAD,
           n < Len(body) => body[Len(body) - n] # PAD
    PROVE  Padding(body) = n
<1> DEFINE Is(m) == /\ \A i \in Len(body) - m + 1 .. Len(body) : body[i] = PAD
                    /\ m < Len(body) => body[Len(body) - m] # PAD
<1>1. Is(n)
  OBVIOUS
<1>2. ASSUME NEW m \in 0 .. Len(body), Is(m) PROVE m = n
  <2>1. CASE m < n
    <3>1. Len(body) - m \in Len(body) - n + 1 .. Len(body) /\ m < Len(body)
      BY <2>1
    <3> QED BY <1>2, <3>1
  <2>2. CASE n < m
    <3>1. Len(body) - n \in Len(body) - m + 1 .. Len(body) /\ n < Len(body)
      BY <2>2
    <3> QED BY <1>1, <1>2, <3>1
  <2> QED BY <2>1, <2>2
<1>3. Padding(body) = CHOOSE m \in 0 .. Len(body) : Is(m)
  BY DEF Padding
<1> HIDE DEF Is
<1> QED BY <1>1, <1>2, <1>3

\* A body of k groups whose last p characters, and no others, are padding.
WellFormed(body, k, p) ==
    /\ k \in Nat /\ k >= 1 /\ p \in 0 .. 2 /\ Len(body) = 4 * k
    /\ \A i \in 1 .. 4 * k - p : body[i] \in 0 .. 63
    /\ \A i \in 4 * k - p + 1 .. 4 * k : body[i] = PAD

Bodies == Seq(0 .. Foreign)
Material == Seq(0 .. 255) \ {<<>>}

LEMMA NatMin ==
    ASSUME NEW T, T \subseteq Nat, T # {}
    PROVE  \E x \in T : \A y \in T : x <= y
<1> DEFINE R == {ss \in Nat \X Nat : ss[1] < ss[2]}
<1>1. IsWellFoundedOn(R, Nat)
  BY NatLessThanWellFounded DEF OpToRel
<1>2. \E x \in T : \A y \in T : <<y, x>> \notin R
  <2> HIDE DEF R
  <2> QED BY <1>1, WFMin
<1>3. \A x, y \in Nat : <<y, x>> \notin R => x <= y
  <2> SUFFICES ASSUME NEW x \in Nat, NEW y \in Nat, ~(x <= y) PROVE <<y, x>> \in R
    OBVIOUS
  <2>1. y < x
    OBVIOUS
  <2> QED BY <2>1
<1> HIDE DEF R
<1> QED BY <1>2, <1>3

LEMMA PaddingHolds ==
    ASSUME NEW body \in Bodies
    PROVE  /\ Padding(body) \in 0 .. Len(body)
           /\ \A i \in Len(body) - Padding(body) + 1 .. Len(body) : body[i] = PAD
<1> DEFINE L == Len(body)
           T == {n \in 0 .. L : n < L => body[L - n] # PAD}
<1>1. L \in Nat
  BY DEF Bodies
<1>2. PICK n \in T : \A m \in T : n <= m
  <2>1. L \in T /\ T \subseteq Nat
    BY <1>1
  <2> HIDE DEF T
  <2> QED BY <2>1, NatMin
<1>3. \A i \in L - n + 1 .. L : body[i] = PAD
  <2> SUFFICES ASSUME NEW i \in L - n + 1 .. L, body[i] # PAD PROVE FALSE
    OBVIOUS
  <2>1. L - i \in 0 .. L /\ L - i < n /\ L - (L - i) = i
    BY <1>1, <1>2
  <2>2. L - i \in T
    BY <2>1
  <2> QED BY <1>1, <1>2, <2>1, <2>2
<1>4. Padding(body) = n
  BY <1>1, <1>2, <1>3, PaddingIs
<1> QED BY <1>2, <1>3, <1>4

LEMMA DecodeAccepts ==
    ASSUME NEW body \in Bodies, NEW k, NEW p, WellFormed(body, k, p)
    PROVE  Padding(body) = p /\ decode(body) = Decoded(body)
<1>1. Len(body) = 4 * k /\ k \in Nat /\ k >= 1 /\ p \in 0 .. 2
  BY DEF WellFormed
<1>2. Padding(body) = p
  <2>1. 4 * k - p \in 1 .. 4 * k - p
    BY <1>1
  <2>2. body[4 * k - p] \in 0 .. 63
    BY <2>1 DEF WellFormed
  <2>3. body[4 * k - p] # PAD
    BY <2>2 DEF PAD
  <2>4. \A i \in Len(body) - p + 1 .. Len(body) : body[i] = PAD
    BY <1>1 DEF WellFormed
  <2>5. p \in 0 .. Len(body) /\ Len(body) \in Nat /\ Len(body) - p = 4 * k - p
    BY <1>1
  <2> QED BY <2>3, <2>4, <2>5, PaddingIs
<1>3. body # <<>> /\ Len(body) % GROUP_SYMBOLS = 0
  BY <1>1 DEF GROUP_SYMBOLS
<1>4. \A i \in DOMAIN body : body[i] # Foreign
  <2> SUFFICES ASSUME NEW i \in 1 .. 4 * k PROVE body[i] # Foreign
    BY <1>1 DEF Bodies
  <2>1. CASE i \in 1 .. 4 * k - p
    <3>1. body[i] \in 0 .. 63
      BY <2>1 DEF WellFormed
    <3> QED BY <3>1 DEF Foreign
  <2>2. CASE i \in 4 * k - p + 1 .. 4 * k
    BY <2>2 DEF WellFormed, Foreign, PAD
  <2> QED BY <1>1, <2>1, <2>2
<1>5. \A i \in 1 .. Len(body) - Padding(body) : body[i] # PAD
  <2> SUFFICES ASSUME NEW i \in 1 .. 4 * k - p PROVE body[i] # PAD
    BY <1>1, <1>2
  <2>1. body[i] \in 0 .. 63
    BY DEF WellFormed
  <2> QED BY <2>1 DEF PAD
<1> QED BY <1>1, <1>2, <1>3, <1>4, <1>5 DEF decode

LEMMA DecodeOnly ==
    ASSUME NEW body \in Bodies, decode(body) # Malformed
    PROVE  /\ \E k, p : WellFormed(body, k, p)
           /\ decode(body) = Decoded(body)
<1> DEFINE p == Padding(body)
           k == Len(body) \div 4
<1>1. /\ body # <<>> /\ Len(body) % 4 = 0 /\ p <= 2
      /\ \A i \in 1 .. Len(body) - p : body[i] # PAD
      /\ \A i \in DOMAIN body : body[i] # Foreign
      /\ decode(body) = Decoded(body)
  <2>1. p \in Nat
    <3>1. Len(body) \in Nat
      BY DEF Bodies
    <3> QED BY <3>1, PaddingHolds
  <2> QED BY <2>1 DEF decode, GROUP_SYMBOLS
<1>2. Len(body) \in Nat /\ Len(body) # 0 /\ DOMAIN body = 1 .. Len(body)
  BY <1>1 DEF Bodies
<1>3. k \in Nat /\ k >= 1 /\ Len(body) = 4 * k
  <2>1. \A n \in Nat : n # 0 /\ n % 4 = 0 => n \div 4 \in Nat /\ n \div 4 >= 1 /\ n = 4 * (n \div 4)
    BY SMT
  <2> QED BY <1>1, <1>2, <2>1
<1>4. p \in 0 .. 2 /\ \A i \in Len(body) - p + 1 .. Len(body) : body[i] = PAD
  BY <1>1, <1>2, PaddingHolds
<1> HIDE DEF p, k
<1>5. \A i \in 1 .. 4 * k - p : body[i] \in 0 .. 63
  <2> SUFFICES ASSUME NEW i \in 1 .. 4 * k - p PROVE body[i] \in 0 .. 63
    OBVIOUS
  <2>1. i \in 1 .. Len(body)
    BY <1>3, <1>4
  <2>2. body[i] \in 0 .. 65
    BY <2>1, ElementOfSeq DEF Bodies, Foreign
  <2>3. body[i] # 65 /\ body[i] # 64
    BY <1>1, <1>2, <1>3, <2>1 DEF Foreign, PAD
  <2> QED BY <2>2, <2>3
<1>6. WellFormed(body, k, p)
  BY <1>3, <1>4, <1>5 DEF WellFormed
<1> QED BY <1>1, <1>6

LEMMA SymbolOfIs ==
    ASSUME NEW P \in Nat, NEW s \in 1 .. 4
    PROVE  SymbolOf(P, s) \in 0 .. 63
<1>1. SymbolWeight[s] \in Nat \ {0}
  BY DEF SymbolWeight
<1> QED BY <1>1, SMT DEF SymbolOf

\* What a group of bytes packs to, and the symbols it is written as.
ByteAt(bytes, i) == IF i <= Len(bytes) THEN bytes[i] ELSE 0
ValueAt(body, i) == IF body[i] = PAD THEN 0 ELSE body[i]

LEMMA OfBytesNat ==
    ASSUME NEW b1 \in 0 .. 255, NEW b2 \in 0 .. 255, NEW b3 \in 0 .. 255
    PROVE  OfBytes(b1, b2, b3) \in Nat
BY SMT DEF OfBytes

LEMMA EncodeShape ==
    ASSUME NEW bytes \in Material, NEW k \in Nat, NEW p \in 0 .. 2, k >= 1, Len(bytes) = 3 * k - p
    PROVE  /\ encode(bytes) \in Bodies
           /\ WellFormed(encode(bytes), k, p)
           /\ \A g \in 0 .. k - 1, s \in 1 .. 4 : 4 * g + s <= 4 * k - p =>
                encode(bytes)[4 * g + s] = SymbolOf(PackedBytes(bytes, g), s)
<1> DEFINE body == encode(bytes)
           packed(g) == PackedBytes(bytes, g)
<1>1. \A i \in Nat \ {0} : ByteAt(bytes, i) \in 0 .. 255
  <2>1. bytes \in Seq(0 .. 255) /\ Len(bytes) \in Nat
    BY DEF Material
  <2>2. \A i \in 1 .. Len(bytes) : bytes[i] \in 0 .. 255
    BY <2>1, ElementOfSeq
  <2> QED BY <2>1, <2>2 DEF ByteAt
<1>2. \A g \in Nat : packed(g) \in Nat
  <2> SUFFICES ASSUME NEW g \in Nat PROVE packed(g) \in Nat
    OBVIOUS
  <2>1. packed(g) = OfBytes(ByteAt(bytes, 3 * g + 1), ByteAt(bytes, 3 * g + 2), ByteAt(bytes, 3 * g + 3))
    BY DEF PackedBytes, ByteAt
  <2>2. /\ ByteAt(bytes, 3 * g + 1) \in 0 .. 255 /\ ByteAt(bytes, 3 * g + 2) \in 0 .. 255
        /\ ByteAt(bytes, 3 * g + 3) \in 0 .. 255
    <3>1. 3 * g + 1 \in Nat \ {0} /\ 3 * g + 2 \in Nat \ {0} /\ 3 * g + 3 \in Nat \ {0}
      OBVIOUS
    <3> QED BY <1>1, <3>1
  <2> HIDE DEF packed
  <2> QED BY <2>1, <2>2, OfBytesNat
<1>3. 3 * k - p \in Nat /\ (Len(bytes) + 3 - 1) \div 3 = k
  BY GroupsOf
<1>4. body = [i \in 1 .. 4 * k |->
                IF Slot(i, 4) <= 3 * k - p - 3 * Group(i, 4) + 1
                THEN SymbolOf(packed(Group(i, 4)), Slot(i, 4)) ELSE PAD]
  BY <1>3 DEF encode, GROUP_SYMBOLS, GROUP_BYTES
<1> HIDE DEF body, packed
<1>5. \A i \in 1 .. 4 * k : /\ Group(i, 4) \in 0 .. k - 1 /\ Slot(i, 4) \in 1 .. 4
                            /\ Slot(i, 4) <= 3 * k - p - 3 * Group(i, 4) + 1 <=> i <= 4 * k - p
  <2> SUFFICES ASSUME NEW i \in 1 .. 4 * k
               PROVE  /\ Group(i, 4) \in 0 .. k - 1 /\ Slot(i, 4) \in 1 .. 4
                      /\ (Slot(i, 4) <= 3 * k - p - 3 * Group(i, 4) + 1) <=> i <= 4 * k - p
    OBVIOUS
  <2> DEFINE g == Group(i, 4)
             s == Slot(i, 4)
  <2>1. g \in Nat /\ s \in 1 .. 4 /\ i = 4 * g + s
    <3>1. i \in Nat /\ i >= 1
      OBVIOUS
    <3> QED BY <3>1, Places
  <2> HIDE DEF g, s
  <2>2. g <= k - 1
    BY <2>1
  <2>3. s <= 3 * k - p - 3 * g + 1 <=> 4 * g + s <= 4 * k - p
    <3>1. CASE g = k - 1
      BY <2>1, <3>1
    <3>2. CASE g < k - 1
      BY <2>1, <2>2, <3>2
    <3> QED BY <2>1, <2>2, <3>1, <3>2
  <2>4. g \in 0 .. k - 1 /\ s \in 1 .. 4 /\ (s <= 3 * k - p - 3 * g + 1 <=> i <= 4 * k - p)
    BY <2>1, <2>2, <2>3
  <2> QED BY <2>4 DEF g, s
<1>8. \A i \in 1 .. 4 * k - p :
        body[i] = SymbolOf(packed(Group(i, 4)), Slot(i, 4)) /\ body[i] \in 0 .. 63
  <2> SUFFICES ASSUME NEW i \in 1 .. 4 * k - p
               PROVE  /\ body[i] = SymbolOf(packed(Group(i, 4)), Slot(i, 4))
                      /\ body[i] \in 0 .. 63
    OBVIOUS
  <2>1. i \in 1 .. 4 * k
    OBVIOUS
  <2>2. body[i] = SymbolOf(packed(Group(i, 4)), Slot(i, 4))
    BY <1>4, <1>5, <2>1
  <2>3. Group(i, 4) \in Nat /\ Slot(i, 4) \in 1 .. 4
    <3>1. i \in Nat /\ i >= 1
      OBVIOUS
    <3> QED BY <3>1, Places
  <2>4. packed(Group(i, 4)) \in Nat
    BY <1>2, <2>3
  <2> QED BY <2>2, <2>3, <2>4, SymbolOfIs
<1>9. \A i \in 4 * k - p + 1 .. 4 * k : body[i] = PAD
  <2> SUFFICES ASSUME NEW i \in 4 * k - p + 1 .. 4 * k PROVE body[i] = PAD
    OBVIOUS
  <2>1. i \in 1 .. 4 * k /\ ~(i <= 4 * k - p)
    OBVIOUS
  <2> QED BY <1>4, <1>5, <2>1
<1>10. body \in Bodies /\ Len(body) = 4 * k
  <2>1. DOMAIN body = 1 .. 4 * k /\ 4 * k \in Nat
    BY <1>4
  <2>2. \A i \in 1 .. 4 * k : body[i] \in 0 .. Foreign
    <3> SUFFICES ASSUME NEW i \in 1 .. 4 * k PROVE body[i] \in 0 .. Foreign
      OBVIOUS
    <3>1. i \in 1 .. 4 * k - p \/ i \in 4 * k - p + 1 .. 4 * k
      OBVIOUS
    <3>2. body[i] \in 0 .. 63 \/ body[i] = 64
      BY <1>8, <1>9, <3>1 DEF PAD
    <3> QED BY <3>2 DEF Foreign
  <2>3. body \in [1 .. 4 * k -> 0 .. Foreign]
    BY <1>4, <2>2
  <2>4. body \in Seq(0 .. Foreign)
    BY <2>1, <2>3, SeqDef
  <2> QED BY <2>1, <2>4 DEF Bodies
<1>11. WellFormed(body, k, p)
  BY <1>8, <1>9, <1>10 DEF WellFormed
<1>12. \A g \in 0 .. k - 1, s \in 1 .. 4 : 4 * g + s <= 4 * k - p =>
          body[4 * g + s] = SymbolOf(packed(g), s)
  <2> SUFFICES ASSUME NEW g \in 0 .. k - 1, NEW s \in 1 .. 4, 4 * g + s <= 4 * k - p
               PROVE  body[4 * g + s] = SymbolOf(packed(g), s)
    OBVIOUS
  <2>1. 4 * g + s \in 1 .. 4 * k - p /\ g \in Nat
    OBVIOUS
  <2>2. Group(4 * g + s, 4) = g /\ Slot(4 * g + s, 4) = s
    BY <2>1, Places
  <2> QED BY <1>8, <2>1, <2>2
<1> QED BY <1>10, <1>11, <1>12 DEF body, packed

LEMMA DecodedShape ==
    ASSUME NEW body \in Bodies, NEW k, NEW p, WellFormed(body, k, p)
    PROVE  /\ Decoded(body) = [i \in 1 .. 3 * k - p |->
                ByteOf(PackedSymbols(body, Group(i, 3)), Slot(i, 3))]
           /\ Len(Decoded(body)) = 3 * k - p
           /\ \A g \in 0 .. k - 1, s \in 1 .. 3 : 3 * g + s <= 3 * k - p =>
                Decoded(body)[3 * g + s] = ByteOf(PackedSymbols(body, g), s)
<1>1. Len(body) = 4 * k /\ k \in Nat /\ k >= 1 /\ p \in 0 .. 2 /\ Padding(body) = p
  BY DecodeAccepts DEF WellFormed
<1>2. Decoded(body) = [i \in 1 .. 3 * k - p |->
                ByteOf(PackedSymbols(body, Group(i, 3)), Slot(i, 3))]
  <2>1. Len(body) \div 4 = k
    BY <1>1
  <2> QED BY <1>1, <2>1 DEF Decoded, GROUP_BYTES, GROUP_SYMBOLS
<1>3. Len(Decoded(body)) = 3 * k - p
  <2>1. 3 * k - p \in Nat
    BY <1>1
  <2> QED BY <1>2, <2>1
<1>4. ASSUME NEW g \in 0 .. k - 1, NEW s \in 1 .. 3, 3 * g + s <= 3 * k - p
      PROVE  Decoded(body)[3 * g + s] = ByteOf(PackedSymbols(body, g), s)
  <2>1. 3 * g + s \in 1 .. 3 * k - p /\ g \in Nat
    BY <1>1, <1>4
  <2>2. Group(3 * g + s, 3) = g /\ Slot(3 * g + s, 3) = s
    BY <2>1, Places
  <2> QED BY <1>2, <2>1, <2>2
<1> QED BY <1>2, <1>3, <1>4

LEMMA PackedAre ==
    ASSUME NEW bytes, NEW body, NEW g \in Nat
    PROVE  /\ PackedBytes(bytes, g) =
                OfBytes(ByteAt(bytes, 3 * g + 1), ByteAt(bytes, 3 * g + 2), ByteAt(bytes, 3 * g + 3))
           /\ PackedSymbols(body, g) =
                OfSymbols(ValueAt(body, 4 * g + 1), ValueAt(body, 4 * g + 2),
                          ValueAt(body, 4 * g + 3), ValueAt(body, 4 * g + 4))
BY DEF PackedBytes, PackedSymbols, ByteAt, ValueAt

LEMMA ByteAtIs ==
    ASSUME NEW bytes \in Material, NEW i \in Nat \ {0}
    PROVE  ByteAt(bytes, i) \in 0 .. 255 /\ (i > Len(bytes) => ByteAt(bytes, i) = 0)
<1>1. bytes \in Seq(0 .. 255) /\ Len(bytes) \in Nat
  BY DEF Material
<1>2. \A j \in 1 .. Len(bytes) : bytes[j] \in 0 .. 255
  BY <1>1, ElementOfSeq
<1> QED BY <1>1, <1>2 DEF ByteAt

LEMMA ValueAtIs ==
    ASSUME NEW body, NEW k, NEW p, WellFormed(body, k, p), NEW i \in 1 .. 4 * k
    PROVE  /\ ValueAt(body, i) \in 0 .. 63
           /\ i <= 4 * k - p => ValueAt(body, i) = body[i]
           /\ i > 4 * k - p => ValueAt(body, i) = 0
<1>1. k \in Nat /\ p \in 0 .. 2
  BY DEF WellFormed
<1>2. CASE i <= 4 * k - p
  <2>1. i \in 1 .. 4 * k - p
    BY <1>1, <1>2
  <2>2. body[i] \in 0 .. 63
    BY <2>1 DEF WellFormed
  <2> QED BY <1>1, <1>2, <2>2 DEF ValueAt, PAD
<1>3. CASE i > 4 * k - p
  <2>1. i \in 4 * k - p + 1 .. 4 * k
    BY <1>1, <1>3
  <2>2. body[i] = PAD
    BY <2>1 DEF WellFormed
  <2> QED BY <1>1, <1>3, <2>2 DEF ValueAt
<1> QED BY <1>1, <1>2, <1>3

\* What is written is read back.
THEOREM ReadsBack ==
    ASSUME NEW bytes \in Material
    PROVE  encode(bytes) \in Bodies /\ decode(encode(bytes)) = bytes
<1> DEFINE n == Len(bytes)
           k == (n + 3 - 1) \div 3
           p == 3 * k - n
           body == encode(bytes)
<1>1. bytes \in Seq(0 .. 255) /\ n \in Nat /\ n >= 1 /\ DOMAIN bytes = 1 .. n
  BY DEF Material
<1>2. k \in Nat /\ k >= 1 /\ p \in 0 .. 2 /\ n = 3 * k - p
  <2> HIDE DEF n
  <2>1. k \in Nat /\ k >= 1 /\ p \in 0 .. 2
    BY <1>1, GroupsFor
  <2> HIDE DEF k
  <2> QED BY <1>1, <2>1
<1> HIDE DEF n, k, p, body
<1>3. /\ body \in Bodies /\ WellFormed(body, k, p)
      /\ \A g \in 0 .. k - 1, s \in 1 .. 4 : 4 * g + s <= 4 * k - p =>
            body[4 * g + s] = SymbolOf(PackedBytes(bytes, g), s)
  <2>1. Len(bytes) = 3 * k - p
    BY <1>2 DEF n
  <2> QED BY <1>2, <2>1, EncodeShape DEF body
<1>4. decode(body) = Decoded(body)
  BY <1>3, DecodeAccepts
<1>5. ASSUME NEW g \in 0 .. k - 1
      PROVE  PackedSymbols(body, g) = PackedBytes(bytes, g)
  <2> DEFINE b1 == ByteAt(bytes, 3 * g + 1)
             b2 == ByteAt(bytes, 3 * g + 2)
             b3 == ByteAt(bytes, 3 * g + 3)
             v1 == ValueAt(body, 4 * g + 1)
             v2 == ValueAt(body, 4 * g + 2)
             v3 == ValueAt(body, 4 * g + 3)
             v4 == ValueAt(body, 4 * g + 4)
  <2>1. /\ g \in Nat /\ g <= k - 1
        /\ 3 * g + 1 \in Nat \ {0} /\ 3 * g + 2 \in Nat \ {0} /\ 3 * g + 3 \in Nat \ {0}
        /\ 4 * g + 1 \in 1 .. 4 * k /\ 4 * g + 2 \in 1 .. 4 * k
        /\ 4 * g + 3 \in 1 .. 4 * k /\ 4 * g + 4 \in 1 .. 4 * k
    BY <1>2
  <2>2. PackedBytes(bytes, g) = OfBytes(b1, b2, b3) /\ PackedSymbols(body, g) = OfSymbols(v1, v2, v3, v4)
    BY <2>1, PackedAre
  <2>3. b1 \in 0 .. 255 /\ b2 \in 0 .. 255 /\ b3 \in 0 .. 255
    BY <2>1, ByteAtIs
  <2>4. PICK s1, s2, s3, s4 \in 0 .. 63 :
            /\ OfSymbols(s1, s2, s3, s4) = OfBytes(b1, b2, b3)
            /\ b3 = 0 => s4 = 0
            /\ b2 = 0 /\ b3 = 0 => s3 = 0
    <3> HIDE DEF b1, b2, b3
    <3>1. AsSymbols(b1, b2, b3)
      BY <2>3, ToSymbols
    <3> QED BY <3>1 DEF AsSymbols
  <2>5. /\ SymbolOf(PackedBytes(bytes, g), 1) = s1
        /\ SymbolOf(PackedBytes(bytes, g), 2) = s2
        /\ SymbolOf(PackedBytes(bytes, g), 3) = s3
        /\ SymbolOf(PackedBytes(bytes, g), 4) = s4
    <3> HIDE DEF b1, b2, b3
    <3>1. PackedBytes(bytes, g) = OfSymbols(s1, s2, s3, s4)
      BY <2>2, <2>4
    <3>2. /\ SymbolOf(OfSymbols(s1, s2, s3, s4), 1) = s1
          /\ SymbolOf(OfSymbols(s1, s2, s3, s4), 2) = s2
          /\ SymbolOf(OfSymbols(s1, s2, s3, s4), 3) = s3
          /\ SymbolOf(OfSymbols(s1, s2, s3, s4), 4) = s4
      BY <2>4, FromSymbols
    <3> QED BY <3>1, <3>2
  <2>6. v1 = s1 /\ v2 = s2
    <3>1. 4 * g + 1 <= 4 * k - p /\ 4 * g + 2 <= 4 * k - p
      BY <1>2, <2>1
    <3>2. body[4 * g + 1] = s1 /\ body[4 * g + 2] = s2
      BY <1>3, <2>5, <3>1
    <3> QED BY <1>3, <2>1, <3>1, <3>2, ValueAtIs
  <2>7. v3 = s3
    <3>1. CASE 4 * g + 3 <= 4 * k - p
      <4>1. body[4 * g + 3] = s3
        BY <1>3, <2>5, <3>1
      <4> QED BY <1>3, <2>1, <3>1, <4>1, ValueAtIs
    <3>2. CASE ~(4 * g + 3 <= 4 * k - p)
      <4>1. 4 * g + 3 > 4 * k - p /\ 3 * g + 2 > n /\ 3 * g + 3 > n
        BY <1>2, <2>1, <3>2
      <4>2. v3 = 0 /\ b2 = 0 /\ b3 = 0
        BY <1>3, <2>1, <4>1, ValueAtIs, ByteAtIs DEF n
      <4> QED BY <2>4, <4>2
    <3> QED BY <3>1, <3>2
  <2>8. v4 = s4
    <3>1. CASE 4 * g + 4 <= 4 * k - p
      <4>1. body[4 * g + 4] = s4
        BY <1>3, <2>5, <3>1
      <4> QED BY <1>3, <2>1, <3>1, <4>1, ValueAtIs
    <3>2. CASE ~(4 * g + 4 <= 4 * k - p)
      <4>1. 4 * g + 4 > 4 * k - p /\ 3 * g + 3 > n
        BY <1>2, <2>1, <3>2
      <4>2. v4 = 0 /\ b3 = 0
        BY <1>3, <2>1, <4>1, ValueAtIs, ByteAtIs DEF n
      <4> QED BY <2>4, <4>2
    <3> QED BY <3>1, <3>2
  <2> HIDE DEF v1, v2, v3, v4, b1, b2, b3
  <2> QED BY <2>2, <2>4, <2>6, <2>7, <2>8
<1>6. \A i \in 1 .. n : Decoded(body)[i] = bytes[i]
  <2> SUFFICES ASSUME NEW i \in 1 .. n PROVE Decoded(body)[i] = bytes[i]
    OBVIOUS
  <2> DEFINE g == Group(i, 3)
             s == Slot(i, 3)
  <2>1. g \in Nat /\ s \in 1 .. 3 /\ i = 3 * g + s
    <3>1. i \in Nat /\ i >= 1
      BY <1>1
    <3> QED BY <3>1, Places
  <2> HIDE DEF g, s
  <2>2. g \in 0 .. k - 1 /\ 3 * g + s <= 3 * k - p
    BY <1>2, <2>1
  <2>3. Decoded(body)[i] = ByteOf(PackedBytes(bytes, g), s)
    BY <1>3, <1>5, <2>1, <2>2, DecodedShape
  <2>4. PackedBytes(bytes, g) =
            OfBytes(ByteAt(bytes, 3 * g + 1), ByteAt(bytes, 3 * g + 2), ByteAt(bytes, 3 * g + 3))
    BY <2>1, PackedAre
  <2>5. /\ ByteAt(bytes, 3 * g + 1) \in 0 .. 255 /\ ByteAt(bytes, 3 * g + 2) \in 0 .. 255
        /\ ByteAt(bytes, 3 * g + 3) \in 0 .. 255
    <3>1. 3 * g + 1 \in Nat \ {0} /\ 3 * g + 2 \in Nat \ {0} /\ 3 * g + 3 \in Nat \ {0}
      BY <2>1
    <3> QED BY <3>1, ByteAtIs
  <2>6. ByteOf(PackedBytes(bytes, g), s) = ByteAt(bytes, 3 * g + s)
    <3> DEFINE b1 == ByteAt(bytes, 3 * g + 1)
               b2 == ByteAt(bytes, 3 * g + 2)
               b3 == ByteAt(bytes, 3 * g + 3)
               P == PackedBytes(bytes, g)
    <3>1. s = 1 \/ s = 2 \/ s = 3
      BY <2>1
    <3>2. P = OfBytes(b1, b2, b3) /\ b1 \in 0 .. 255 /\ b2 \in 0 .. 255 /\ b3 \in 0 .. 255
      BY <2>4, <2>5
    <3> HIDE DEF b1, b2, b3, P
    <3>3. ByteOf(P, 1) = b1 /\ ByteOf(P, 2) = b2 /\ ByteOf(P, 3) = b3
      <4>1. /\ ByteOf(OfBytes(b1, b2, b3), 1) = b1
            /\ ByteOf(OfBytes(b1, b2, b3), 2) = b2
            /\ ByteOf(OfBytes(b1, b2, b3), 3) = b3
        BY <3>2, FromBytes
      <4> QED BY <3>2, <4>1
    <3> QED BY <3>1, <3>3 DEF b1, b2, b3, P
  <2>7. ByteAt(bytes, i) = bytes[i]
    BY <1>1 DEF ByteAt, n
  <2> QED BY <2>1, <2>3, <2>6, <2>7
<1>7. Decoded(body) = bytes
  <2>1. DOMAIN Decoded(body) = 1 .. n
    BY <1>2, <1>3, DecodedShape
  <2>2. Decoded(body) = [i \in 1 .. n |-> Decoded(body)[i]]
    BY <1>2, <1>3, DecodedShape
  <2>3. bytes = [i \in 1 .. n |-> bytes[i]]
    BY <1>1
  <2> QED BY <1>6, <2>2, <2>3
<1> QED BY <1>3, <1>4, <1>7 DEF body

\* What the bits behind the last byte are worth in the last symbol.
Unused(p) == IF p = 2 THEN 16 ELSE IF p = 1 THEN 4 ELSE 1

\* What is read was written, but for those bits.
THEOREM ReadWasWritten ==
    ASSUME NEW body \in Bodies, NEW bytes \in Material, decode(body) = bytes
    PROVE  LET whole == encode(bytes)
               last == Len(whole) - Padding(whole)
           IN  /\ Len(body) = Len(whole) /\ DOMAIN whole = 1 .. Len(whole)
               /\ \A i \in 1 .. Len(whole) : i # last => body[i] = whole[i]
               /\ body[last] \in 0 .. 63
               /\ body[last] \div Unused(Padding(whole)) = whole[last] \div Unused(Padding(whole))
<1> DEFINE whole == encode(bytes)
<1>1. bytes \in Seq(0 .. 255) /\ Len(bytes) \in Nat /\ bytes # <<>>
  BY DEF Material
<1>2. PICK k, p : WellFormed(body, k, p) /\ bytes = Decoded(body)
  BY <1>1, DecodeOnly DEF Malformed
<1>3. k \in Nat /\ k >= 1 /\ p \in 0 .. 2 /\ Len(bytes) = 3 * k - p /\ Len(body) = 4 * k
  BY <1>2, DecodedShape DEF WellFormed
<1> HIDE DEF whole
<1>4. /\ whole \in Bodies /\ WellFormed(whole, k, p)
      /\ \A g \in 0 .. k - 1, s \in 1 .. 4 : 4 * g + s <= 4 * k - p =>
            whole[4 * g + s] = SymbolOf(PackedBytes(bytes, g), s)
  BY <1>3, EncodeShape DEF whole
<1>5. Len(whole) = 4 * k /\ Padding(whole) = p /\ DOMAIN whole = 1 .. 4 * k
  <2>1. Padding(whole) = p
    BY <1>4, DecodeAccepts
  <2>2. Len(whole) = 4 * k
    BY <1>4 DEF WellFormed
  <2>3. DOMAIN whole = 1 .. Len(whole)
    BY <1>4 DEF Bodies
  <2> QED BY <2>1, <2>2, <2>3
<1>6. ASSUME NEW g \in 0 .. k - 1
      PROVE  \A s \in 1 .. 4 : 4 * g + s <= 4 * k - p =>
                /\ 4 * g + s # 4 * k - p => body[4 * g + s] = whole[4 * g + s]
                /\ 4 * g + s = 4 * k - p =>
                      body[4 * g + s] \div Unused(p) = whole[4 * g + s] \div Unused(p)
  <2> DEFINE v1 == ValueAt(body, 4 * g + 1)
             v2 == ValueAt(body, 4 * g + 2)
             v3 == ValueAt(body, 4 * g + 3)
             v4 == ValueAt(body, 4 * g + 4)
             c1 == ByteAt(bytes, 3 * g + 1)
             c2 == ByteAt(bytes, 3 * g + 2)
             c3 == ByteAt(bytes, 3 * g + 3)
             w(s) == SymbolOf(PackedBytes(bytes, g), s)
  <2>1. /\ g \in Nat /\ g <= k - 1
        /\ 3 * g + 1 \in Nat \ {0} /\ 3 * g + 2 \in Nat \ {0} /\ 3 * g + 3 \in Nat \ {0}
        /\ 4 * g + 1 \in 1 .. 4 * k /\ 4 * g + 2 \in 1 .. 4 * k
        /\ 4 * g + 3 \in 1 .. 4 * k /\ 4 * g + 4 \in 1 .. 4 * k
    BY <1>3
  <2>2. PackedBytes(bytes, g) = OfBytes(c1, c2, c3) /\ PackedSymbols(body, g) = OfSymbols(v1, v2, v3, v4)
    BY <2>1, PackedAre
  <2>3. v1 \in 0 .. 63 /\ v2 \in 0 .. 63 /\ v3 \in 0 .. 63 /\ v4 \in 0 .. 63
    BY <1>2, <2>1, ValueAtIs
  <2>4. c1 \in 0 .. 255 /\ c2 \in 0 .. 255 /\ c3 \in 0 .. 255
    BY <2>1, ByteAtIs
  <2>5. PICK b1, b2, b3 \in 0 .. 255 : OfSymbols(v1, v2, v3, v4) = OfBytes(b1, b2, b3)
    <3> HIDE DEF v1, v2, v3, v4
    <3>1. IsBytes(OfSymbols(v1, v2, v3, v4))
      BY <2>3, ToBytes
    <3> QED BY <3>1 DEF IsBytes
  <2>6. PICK t1, t2, t3, t4 \in 0 .. 63 : OfSymbols(t1, t2, t3, t4) = OfBytes(c1, c2, c3)
    <3> HIDE DEF c1, c2, c3
    <3>1. AsSymbols(c1, c2, c3)
      BY <2>4, ToSymbols
    <3> QED BY <3>1 DEF AsSymbols
  <2>7. w(1) = t1 /\ w(2) = t2 /\ w(3) = t3 /\ w(4) = t4
    <3> HIDE DEF c1, c2, c3
    <3>1. PackedBytes(bytes, g) = OfSymbols(t1, t2, t3, t4)
      BY <2>2, <2>6
    <3>2. /\ SymbolOf(OfSymbols(t1, t2, t3, t4), 1) = t1
          /\ SymbolOf(OfSymbols(t1, t2, t3, t4), 2) = t2
          /\ SymbolOf(OfSymbols(t1, t2, t3, t4), 3) = t3
          /\ SymbolOf(OfSymbols(t1, t2, t3, t4), 4) = t4
      BY <2>6, FromSymbols
    <3> QED BY <3>1, <3>2
  <2>8. ASSUME NEW j \in 1 .. 3, 3 * g + j <= 3 * k - p
        PROVE  ByteAt(bytes, 3 * g + j) = ByteOf(PackedSymbols(body, g), j)
    <3>1. ByteAt(bytes, 3 * g + j) = bytes[3 * g + j]
      BY <1>3, <2>8 DEF ByteAt
    <3> QED BY <1>2, <2>8, <3>1, DecodedShape
  <2>9. /\ ByteOf(PackedSymbols(body, g), 1) = b1 /\ ByteOf(PackedSymbols(body, g), 2) = b2
        /\ ByteOf(PackedSymbols(body, g), 3) = b3
    <3> HIDE DEF v1, v2, v3, v4
    <3>1. PackedSymbols(body, g) = OfBytes(b1, b2, b3)
      BY <2>2, <2>5
    <3>2. /\ ByteOf(OfBytes(b1, b2, b3), 1) = b1 /\ ByteOf(OfBytes(b1, b2, b3), 2) = b2
          /\ ByteOf(OfBytes(b1, b2, b3), 3) = b3
      BY <2>5, FromBytes
    <3> QED BY <3>1, <3>2
  <2>10. \A j \in 1 .. 3 : 3 * g + j > 3 * k - p => ByteAt(bytes, 3 * g + j) = 0
    <3> SUFFICES ASSUME NEW j \in 1 .. 3, 3 * g + j > 3 * k - p PROVE ByteAt(bytes, 3 * g + j) = 0
      OBVIOUS
    <3>1. 3 * g + j \in Nat \ {0} /\ 3 * g + j > Len(bytes)
      BY <1>3, <2>1
    <3> QED BY <3>1, ByteAtIs
  <2>11. \A s \in 1 .. 4 : 4 * g + s <= 4 * k - p =>
            body[4 * g + s] = ValueAt(body, 4 * g + s) /\ whole[4 * g + s] = w(s)
    <3> SUFFICES ASSUME NEW s \in 1 .. 4, 4 * g + s <= 4 * k - p
                 PROVE  body[4 * g + s] = ValueAt(body, 4 * g + s) /\ whole[4 * g + s] = w(s)
      OBVIOUS
    <3>1. 4 * g + s \in 1 .. 4 * k
      BY <2>1
    <3> QED BY <1>2, <1>4, <3>1, ValueAtIs
  <2>12. CASE g < k - 1 \/ p = 0
    <3>1. 3 * g + 1 <= 3 * k - p /\ 3 * g + 2 <= 3 * k - p /\ 3 * g + 3 <= 3 * k - p
      BY <1>3, <2>1, <2>12
    <3>2. c1 = b1 /\ c2 = b2 /\ c3 = b3
      BY <2>8, <2>9, <3>1
    <3>3. t1 = v1 /\ t2 = v2 /\ t3 = v3 /\ t4 = v4
      <4> HIDE DEF c1, c2, c3, v1, v2, v3, v4
      <4>1. OfSymbols(t1, t2, t3, t4) = OfSymbols(v1, v2, v3, v4)
        BY <2>5, <2>6, <3>2
      <4>2. /\ SymbolOf(OfSymbols(t1, t2, t3, t4), 1) = t1
            /\ SymbolOf(OfSymbols(t1, t2, t3, t4), 2) = t2
            /\ SymbolOf(OfSymbols(t1, t2, t3, t4), 3) = t3
            /\ SymbolOf(OfSymbols(t1, t2, t3, t4), 4) = t4
        BY <2>6, FromSymbols
      <4>3. /\ SymbolOf(OfSymbols(v1, v2, v3, v4), 1) = v1
            /\ SymbolOf(OfSymbols(v1, v2, v3, v4), 2) = v2
            /\ SymbolOf(OfSymbols(v1, v2, v3, v4), 3) = v3
            /\ SymbolOf(OfSymbols(v1, v2, v3, v4), 4) = v4
        BY <2>3, FromSymbols
      <4> QED BY <4>1, <4>2, <4>3
    <3>4. \A s \in 1 .. 4 : ValueAt(body, 4 * g + s) = w(s)
      <4>1. ValueAt(body, 4 * g + 1) = w(1) /\ ValueAt(body, 4 * g + 2) = w(2)
            /\ ValueAt(body, 4 * g + 3) = w(3) /\ ValueAt(body, 4 * g + 4) = w(4)
        BY <2>7, <3>3
      <4> SUFFICES ASSUME NEW s \in 1 .. 4 PROVE ValueAt(body, 4 * g + s) = w(s)
        OBVIOUS
      <4>2. s = 1 \/ s = 2 \/ s = 3 \/ s = 4
        OBVIOUS
      <4> QED BY <4>1, <4>2
    <3> HIDE DEF w
    <3> QED BY <2>11, <3>4
  <2>13. CASE g = k - 1 /\ p = 1
    <3>1. 3 * g + 1 <= 3 * k - p /\ 3 * g + 2 <= 3 * k - p /\ 3 * g + 3 > 3 * k - p
      BY <1>3, <2>1, <2>13
    <3>2. c1 = b1 /\ c2 = b2 /\ c3 = 0
      BY <2>8, <2>9, <2>10, <3>1
    <3>3. v4 = 0
      <4>1. 4 * g + 4 > 4 * k - p
        BY <1>3, <2>1, <2>13
      <4> QED BY <1>2, <2>1, <4>1, ValueAtIs
    <3>4. t1 = v1 /\ t2 = v2 /\ t3 \div 4 = v3 \div 4
      <4> HIDE DEF c1, c2, c3, v1, v2, v3, v4
      <4>1. OfSymbols(v1, v2, v3, 0) = OfBytes(b1, b2, b3) /\ OfSymbols(t1, t2, t3, t4) = OfBytes(b1, b2, 0)
        BY <2>5, <2>6, <3>2, <3>3
      <4> QED BY <2>3, <2>5, <2>6, <4>1, OneShort
    <3>5. /\ body[4 * g + 1] = v1 /\ whole[4 * g + 1] = t1
          /\ body[4 * g + 2] = v2 /\ whole[4 * g + 2] = t2
          /\ body[4 * g + 3] = v3 /\ whole[4 * g + 3] = t3
      <4>1. 4 * g + 1 <= 4 * k - p /\ 4 * g + 2 <= 4 * k - p /\ 4 * g + 3 <= 4 * k - p
        BY <1>3, <2>1, <2>13
      <4> QED BY <2>7, <2>11, <4>1
    <3> SUFFICES ASSUME NEW s \in 1 .. 4, 4 * g + s <= 4 * k - p
                 PROVE  /\ 4 * g + s # 4 * k - p => body[4 * g + s] = whole[4 * g + s]
                        /\ 4 * g + s = 4 * k - p =>
                              body[4 * g + s] \div Unused(p) = whole[4 * g + s] \div Unused(p)
      OBVIOUS
    <3>6. /\ s = 1 \/ s = 2 \/ s = 3
          /\ 4 * g + s = 4 * k - p <=> s = 3
      BY <1>3, <2>1, <2>13
    <3>7. Unused(p) = 4
      BY <2>13 DEF Unused
    <3> HIDE DEF v1, v2, v3, v4
    <3> QED BY <3>4, <3>5, <3>6, <3>7
  <2>14. CASE g = k - 1 /\ p = 2
    <3>1. 3 * g + 1 <= 3 * k - p /\ 3 * g + 2 > 3 * k - p /\ 3 * g + 3 > 3 * k - p
      BY <1>3, <2>1, <2>14
    <3>2. c1 = b1 /\ c2 = 0 /\ c3 = 0
      BY <2>8, <2>9, <2>10, <3>1
    <3>3. v3 = 0 /\ v4 = 0
      <4>1. 4 * g + 3 > 4 * k - p /\ 4 * g + 4 > 4 * k - p
        BY <1>3, <2>1, <2>14
      <4> QED BY <1>2, <2>1, <4>1, ValueAtIs
    <3>4. t1 = v1 /\ t2 \div 16 = v2 \div 16
      <4> HIDE DEF c1, c2, c3, v1, v2, v3, v4
      <4>1. OfSymbols(v1, v2, 0, 0) = OfBytes(b1, b2, b3) /\ OfSymbols(t1, t2, t3, t4) = OfBytes(b1, 0, 0)
        BY <2>5, <2>6, <3>2, <3>3
      <4> QED BY <2>3, <2>5, <2>6, <4>1, TwoShort
    <3>5. /\ body[4 * g + 1] = v1 /\ whole[4 * g + 1] = t1
          /\ body[4 * g + 2] = v2 /\ whole[4 * g + 2] = t2
      <4>1. 4 * g + 1 <= 4 * k - p /\ 4 * g + 2 <= 4 * k - p
        BY <1>3, <2>1, <2>14
      <4> QED BY <2>7, <2>11, <4>1
    <3> SUFFICES ASSUME NEW s \in 1 .. 4, 4 * g + s <= 4 * k - p
                 PROVE  /\ 4 * g + s # 4 * k - p => body[4 * g + s] = whole[4 * g + s]
                        /\ 4 * g + s = 4 * k - p =>
                              body[4 * g + s] \div Unused(p) = whole[4 * g + s] \div Unused(p)
      OBVIOUS
    <3>6. /\ s = 1 \/ s = 2
          /\ 4 * g + s = 4 * k - p <=> s = 2
      BY <1>3, <2>1, <2>14
    <3>7. Unused(p) = 16
      BY <2>14 DEF Unused
    <3> HIDE DEF v1, v2, v3, v4
    <3> QED BY <3>4, <3>5, <3>6, <3>7
  <2>15. g < k - 1 \/ p = 0 \/ (g = k - 1 /\ p = 1) \/ (g = k - 1 /\ p = 2)
    BY <1>3, <2>1
  <2> QED BY <2>12, <2>13, <2>14, <2>15
<1>7. ASSUME NEW i \in 1 .. 4 * k - p
      PROVE  /\ i # 4 * k - p => body[i] = whole[i]
             /\ i = 4 * k - p => body[i] \div Unused(p) = whole[i] \div Unused(p)
  <2> DEFINE g == Group(i, 4)
             s == Slot(i, 4)
  <2>1. g \in Nat /\ s \in 1 .. 4 /\ i = 4 * g + s
    <3>1. i \in Nat /\ i >= 1
      BY <1>3
    <3> QED BY <3>1, Places
  <2> HIDE DEF g, s
  <2>2. g \in 0 .. k - 1 /\ 4 * g + s <= 4 * k - p
    BY <1>3, <2>1
  <2> QED BY <1>6, <2>1, <2>2
<1>8. \A i \in 1 .. 4 * k : i # 4 * k - p => body[i] = whole[i]
  <2> SUFFICES ASSUME NEW i \in 1 .. 4 * k, i # 4 * k - p PROVE body[i] = whole[i]
    OBVIOUS
  <2>1. CASE i \in 1 .. 4 * k - p
    BY <1>7, <2>1
  <2>2. CASE i \in 4 * k - p + 1 .. 4 * k
    BY <1>2, <1>4, <2>2 DEF WellFormed
  <2> QED BY <1>3, <2>1, <2>2
<1>9. 4 * k - p \in 1 .. 4 * k - p
  BY <1>3
<1>10. body[4 * k - p] \in 0 .. 63 /\ body[4 * k - p] \div Unused(p) = whole[4 * k - p] \div Unused(p)
  <2>1. body[4 * k - p] \in 0 .. 63
    BY <1>2, <1>9 DEF WellFormed
  <2> QED BY <1>7, <1>9, <2>1
<1>11. /\ Len(body) = Len(whole) /\ DOMAIN whole = 1 .. Len(whole)
       /\ \A i \in 1 .. Len(whole) : i # Len(whole) - Padding(whole) => body[i] = whole[i]
       /\ body[Len(whole) - Padding(whole)] \in 0 .. 63
       /\ body[Len(whole) - Padding(whole)] \div Unused(Padding(whole))
            = whole[Len(whole) - Padding(whole)] \div Unused(Padding(whole))
  BY <1>3, <1>5, <1>8, <1>10
<1> QED BY <1>11 DEF whole

-----------------------------------------------------------------------------
(* Part 2: the two sides. *)

LEMMA MaterialIs ==
    ASSUME NEW p \in People
    PROVE  /\ PublicKey(p) \in Material /\ SealedSeed(p) \in Material
           /\ Len(PublicKey(p)) = Bytes(PublicKey) /\ Len(SealedSeed(p)) = Bytes(SealedSeed)
           /\ Owners(PublicKey(p), PublicKey) = {p} /\ Owners(SealedSeed(p), SealedSeed) = {p}
<1>1. (CHOOSE q \in People : TRUE) \in People
  OBVIOUS
<1>2. /\ Len(PublicKey(p)) = Len(PublicKey(CHOOSE q \in People : TRUE))
      /\ Len(SealedSeed(p)) = Len(SealedSeed(CHOOSE q \in People : TRUE))
  BY <1>1, RecipientAssumption
<1>3. \A q \in People : q # p => PublicKey(q) # PublicKey(p) /\ SealedSeed(q) # SealedSeed(p)
  BY RecipientAssumption
<1> QED BY <1>2, <1>3, RecipientAssumption DEF Material, Bytes, Owners

ReadAs(label, line, material) ==
    LET read == decode_labelled(label, line) IN read.kind = "read" /\ read.material = material

\* A line that was written under a label is read under it.
LEMMA LabelledReads ==
    ASSUME NEW label, NEW material \in Material, NEW line, line = encode_labelled(label, material)
    PROVE  decode_labelled(label, line) = [kind |-> "read", material |-> material]
<1>1. line.label = label /\ line.body = encode(material)
  BY DEF encode_labelled, Line
<1>2. decode(line.body) = material /\ material # Malformed
  BY <1>1, ReadsBack DEF Malformed, Material
<1> QED BY <1>1, <1>2 DEF decode_labelled

\* A line that is read under a label was written under it.
LEMMA HeldWhole ==
    ASSUME NEW label, NEW material, NEW line,
           material \in Material, line.body \in Bodies, ReadAs(label, line, material)
    PROVE  Holds(line, label, material)
<1>1. line.label = label /\ decode(line.body) = material
  BY DEF decode_labelled, ReadAs
<1> DEFINE whole == encode(material)
           last == Len(whole) - Padding(whole)
<1>2. /\ Len(line.body) = Len(whole) /\ DOMAIN whole = 1 .. Len(whole)
      /\ \A i \in 1 .. Len(whole) : i # last => line.body[i] = whole[i]
      /\ line.body[last] \in 0 .. 63
      /\ line.body[last] \div Unused(Padding(whole)) = whole[last] \div Unused(Padding(whole))
  BY <1>1, ReadWasWritten
<1> QED BY <1>1, <1>2 DEF Holds, Unused

LEMMA LineIs ==
    ASSUME NEW f \in KeyFiles
    PROVE  f.line.body \in Bodies /\ f.locked # EmptyPassphrase
BY RecipientAssumption DEF Bodies

\* What comes of a public key file.
LEMMA PublicIs ==
    ASSUME NEW f \in KeyFiles
    PROVE  /\ PublicReadings(f) \subseteq People \cup {Nobody, "wrong_label", "damaged", "malformed"}
           /\ \A p \in People : p \in PublicReadings(f) => Holds(f.line, "recipient", PublicKey(p))
           /\ \A p \in People : f.line = encode_labelled("recipient", PublicKey(p)) =>
                PublicReadings(f) = {p}
<1> DEFINE read == decode_labelled("recipient", f.line)
<1>1. read.kind \in {"read", "wrong_label", "damaged"}
  BY DEF decode_labelled
<1>2. PublicReadings(f) \subseteq People \cup {Nobody, "wrong_label", "damaged", "malformed"}
  BY <1>1 DEF PublicReadings, Owners
<1>3. ASSUME NEW p \in People, p \in PublicReadings(f)
      PROVE  Holds(f.line, "recipient", PublicKey(p))
  <2>1. p \notin {Nobody, "wrong_label", "damaged", "malformed"}
    BY RecipientAssumption DEF SenderFailures
  <2>2. read.kind = "read" /\ PublicKey(p) = read.material
    BY <1>1, <1>3, <2>1 DEF PublicReadings, Owners
  <2>3. PublicKey(p) \in Material /\ f.line.body \in Bodies
    BY MaterialIs, LineIs
  <2>4. ReadAs("recipient", f.line, PublicKey(p))
    BY <2>2 DEF ReadAs
  <2> QED BY <2>3, <2>4, HeldWhole
<1>4. ASSUME NEW p \in People, f.line = encode_labelled("recipient", PublicKey(p))
      PROVE  PublicReadings(f) = {p}
  <2>1. read = [kind |-> "read", material |-> PublicKey(p)]
    BY <1>4, MaterialIs, LabelledReads
  <2> QED BY <2>1, MaterialIs DEF PublicReadings, Owners, Bytes
<1> QED BY <1>2, <1>3, <1>4

PrivateRefusals == {"wrong_label", "damaged", "malformed", "kdf", "wrong_passphrase"}

\* What comes of a private key file and a passphrase.
LEMMA PrivateIs ==
    ASSUME NEW f \in KeyFiles, NEW passphrase
    PROVE  LET reading == PrivateReading(f, passphrase)
           IN  /\ reading \in People \cup PrivateRefusals
               /\ reading \in People =>
                    passphrase = f.locked /\ Holds(f.line, "identity", SealedSeed(reading))
               /\ \A p \in People :
                    f.line = encode_labelled("identity", SealedSeed(p)) /\ passphrase = f.locked =>
                        reading = p
<1> DEFINE read == decode_labelled("identity", f.line)
           reading == PrivateReading(f, passphrase)
<1>1. read.kind \in {"read", "wrong_label", "damaged"}
  BY DEF decode_labelled
<1>2. \/ reading \in PrivateRefusals
      \/ /\ reading \in People /\ passphrase = f.locked
         /\ read.kind = "read" /\ SealedSeed(reading) = read.material
  BY <1>1 DEF PrivateReading, Owners, PrivateRefusals
<1>3. People \cap PrivateRefusals = {}
  BY RecipientAssumption DEF PrivateRefusals, ReceiverFailures
<1>4. ASSUME NEW p \in People, f.line = encode_labelled("identity", SealedSeed(p)),
             passphrase = f.locked
      PROVE  reading = p
  <2>1. read = [kind |-> "read", material |-> SealedSeed(p)]
    BY <1>4, MaterialIs, LabelledReads
  <2> DEFINE owners == {q \in People : SealedSeed(q) = SealedSeed(p)}
  <2>2. owners = {p}
    BY <1>4, RecipientAssumption
  <2>3. Len(SealedSeed(p)) = Len(SealedSeed(CHOOSE q \in People : TRUE))
    BY <1>4, RecipientAssumption
  <2>4. reading = CHOOSE q \in owners : TRUE
    BY <1>4, <2>1, <2>2, <2>3, LineIs DEF PrivateReading, Owners, Bytes
  <2> HIDE DEF owners, reading
  <2> QED BY <2>2, <2>4
<1>5. ASSUME reading \in People
      PROVE  passphrase = f.locked /\ Holds(f.line, "identity", SealedSeed(reading))
  <2>1. passphrase = f.locked /\ read.kind = "read" /\ SealedSeed(reading) = read.material
    BY <1>2, <1>3, <1>5
  <2>2. SealedSeed(reading) \in Material /\ f.line.body \in Bodies
    BY <1>5, MaterialIs, LineIs
  <2>3. ReadAs("identity", f.line, SealedSeed(reading))
    BY <2>1 DEF ReadAs
  <2> HIDE DEF reading
  <2> QED BY <2>1, <2>2, <2>3, HeldWhole
<1> HIDE DEF read
<1> QED BY <1>2, <1>4, <1>5

-----------------------------------------------------------------------------
\* The sender.  The key is the one that was read and is fresh once something
\* was sealed under it, and every texture drawn carries it.
Early == {"recipient", "fit", "encapsulate"}
Drawing == {"next", "draw", "write"}

SenderInv ==
    /\ pc = "recipient" => key = NoKey
    /\ key # NoKey \/ pc \in {"fit", "encapsulate"} => key.to \in PublicReadings(public)
    /\ pc \in Early => sealings = 0 /\ ~key.fresh
    /\ pc \in Drawing => key.fresh
    /\ sealings \in {0, 1}
    /\ image = Undecodable \/ (key.fresh /\ image = Drawn(image.gates))
    /\ pc = "write" \/ result = "ok" => image.gates
    /\ pc \notin {"done", "crashed"} => result = "pending"
    /\ pc = "crashed" => result # "ok"

\* The receiver.  A fresh key in its file is the key of the sender, before the
\* message of the sender, and what it was told is the outcome of its files and
\* of what it typed.
Unlocked == identity \in People /\ identity = PrivateReading(private, typed)
Outcome == IF ~file.gates THEN "validation"
           ELSE IF Opens(secret) /\ file.msg \notin Oversized THEN file.msg ELSE "rejected"

ReceiverInv ==
    /\ file.transport.fresh => file.transport = key /\ file.msg = msg
    /\ step # "done" => verdict = "pending"
    /\ step \in {"load", "decapsulate", "payload"} => Unlocked
    /\ step \in {"decapsulate", "payload"} => file.gates
    /\ step \in {"open", "unlock", "load"} => secret = NoKey
    /\ step = "payload" => secret = Decapsulated
    /\ step = "done" => \/ verdict \in PrivateRefusals /\ verdict = PrivateReading(private, typed)
                        \/ /\ Unlocked /\ verdict = Outcome
                           /\ file.gates => secret \in {Refused, Decapsulated}

IInv == TypeOK /\ SenderInv /\ ReceiverInv

\* The files of a run never change.
LEMMA ReceiverKept ==
    ASSUME ReceiverInv, UNCHANGED <<receiverVars, msg>>, file.transport.fresh => key' = key
    PROVE  ReceiverInv'
<1>1. UNCHANGED <<private, typed, step, identity, secret, file, verdict, msg>>
  BY DEF receiverVars
<1>2. Unlocked' = Unlocked /\ Outcome' = Outcome /\ Decapsulated' = Decapsulated
  BY <1>1 DEF Unlocked, Outcome, Opens, Decapsulated
<1>3. PrivateReading(private, typed)' = PrivateReading(private, typed)
  BY <1>1
<1> QED BY <1>1, <1>2, <1>3 DEF ReceiverInv

LEMMA SenderKept ==
    ASSUME SenderInv, UNCHANGED senderVars
    PROVE  SenderInv'
<1>1. UNCHANGED <<public, msg, room, pc, key, sealings, candidate, image, result>>
  BY DEF senderVars
<1>2. PublicReadings(public)' = PublicReadings(public)
  BY <1>1
<1> QED BY <1>1, <1>2 DEF SenderInv, Drawn

Keys == [to : People \cup {Nobody}, fresh : BOOLEAN]

LEMMA KeysAre ==
    ASSUME NEW to \in People \cup {Nobody}, NEW fresh \in BOOLEAN
    PROVE  [to |-> to, fresh |-> fresh] \in Keys
BY DEF Keys

LEMMA ImagesAre ==
    ASSUME NEW gates \in BOOLEAN, NEW to \in People \cup {Nobody}, NEW m \in Messages
    PROVE  /\ Bare(gates) \in Images
           /\ [gates |-> gates, transport |-> MessageKey(to), msg |-> m, damage |-> {}] \in Images
BY DEF Images, Bare

LEMMA Initially == Init => IInv
<1> SUFFICES ASSUME Init PROVE IInv
  OBVIOUS
<1>1. OutputType
  BY DEF Init, OutputInit, OutputType, DiskStates, WriterStates
<1>2. Undecodable = [gates |-> FALSE, transport |-> NoKey, msg |-> "none", damage |-> {}]
  BY DEF Undecodable, Bare
<1>3. TypeOK
  BY <1>1, <1>2, RecipientAssumption DEF Init, TypeOK, Images, NoKey
<1>4. SenderInv
  BY DEF Init, SenderInv, Early, Drawing, NoKey
<1>5. ReceiverInv
  BY <1>2 DEF Init, ReceiverInv, NoKey
<1> QED BY <1>3, <1>4, <1>5 DEF IInv

LEMMA ReadRecipientKeeps == ASSUME IInv, ReadRecipient PROVE IInv'
<1>1. PICK reading \in PublicReadings(public) :
        IF reading \in People \cup {Nobody}
        THEN Step("recipient", "fit") /\ key' = [NoKey EXCEPT !.to = reading]
        ELSE Return(reading) /\ UNCHANGED key
  BY DEF ReadRecipient
<1>2. /\ pc = "recipient" /\ key = NoKey /\ result = "pending" /\ sealings = 0
      /\ UNCHANGED <<before, disk, writer, public, msg, room, sealings, candidate, image>>
      /\ UNCHANGED receiverVars /\ UNCHANGED <<private, typed, step, identity, secret, file, verdict>>
  BY DEF ReadRecipient, IInv, SenderInv, outputVars, receiverVars, Early
<1>3. reading \in People \cup {Nobody, "wrong_label", "damaged", "malformed"}
  <2>1. public \in KeyFiles
    BY DEF IInv, TypeOK
  <2> QED BY <1>1, <2>1, PublicIs
<1>4. \/ /\ reading \in People \cup {Nobody} /\ pc' = "fit" /\ UNCHANGED result
         /\ key' = [to |-> reading, fresh |-> FALSE]
      \/ /\ reading \in {"wrong_label", "damaged", "malformed"} /\ pc' = "done"
         /\ result' = reading /\ UNCHANGED key
  BY <1>1, <1>3 DEF Step, Return, NoKey
<1>5. TypeOK'
  <2>1. OutputType'
    BY <1>2 DEF IInv, TypeOK, OutputType
  <2>2. key' \in Keys
    BY <1>4, KeysAre DEF IInv, TypeOK, Keys
  <2>3. pc' \in {"fit", "done"} /\ result' \in SenderFailures \cup {"pending", "ok", "output"}
    BY <1>2, <1>4 DEF SenderFailures
  <2> QED BY <1>2, <2>1, <2>2, <2>3 DEF IInv, TypeOK, Keys
<1>6. ~key.fresh /\ ~key'.fresh /\ image = Undecodable
  BY <1>2, <1>4 DEF IInv, SenderInv, NoKey
<1>7. SenderInv'
  <2>1. key' # NoKey \/ pc' = "fit" => key'.to \in PublicReadings(public)'
    BY <1>1, <1>2, <1>4
  <2> QED BY <1>2, <1>4, <1>6, <2>1 DEF SenderInv, Early, Drawing, Undecodable, Bare
<1>8. ReceiverInv'
  <2>1. ~file.transport.fresh
    BY <1>6 DEF IInv, ReceiverInv
  <2> QED BY <1>2, <2>1, ReceiverKept DEF IInv
<1> QED BY <1>5, <1>7, <1>8 DEF IInv

LEMMA FitKeeps == ASSUME IInv, Fit PROVE IInv'
<1>1. /\ pc = "fit" /\ pc' \in {"encapsulate", "done"}
      /\ result' \in SenderFailures \cup {"pending"} /\ (pc' = "encapsulate" => UNCHANGED result)
      /\ result' # "ok" /\ ~key.fresh /\ sealings = 0 /\ image = Undecodable
      /\ UNCHANGED <<before, disk, writer, public, msg, room, key, sealings, candidate, image>>
      /\ UNCHANGED receiverVars /\ UNCHANGED <<private, typed, step, identity, secret, file, verdict>>
  BY DEF Fit, Step, Return, SenderFailures, IInv, SenderInv, outputVars, receiverVars, Early
<1>2. TypeOK'
  BY <1>1 DEF IInv, TypeOK, OutputType
<1>3. SenderInv'
  <2>1. key' # NoKey \/ pc' \in {"fit", "encapsulate"} => key'.to \in PublicReadings(public)'
    BY <1>1 DEF IInv, SenderInv
  <2> QED BY <1>1, <2>1 DEF IInv, SenderInv, Early, Drawing, Undecodable, Bare
<1>4. ReceiverInv'
  BY <1>1, ReceiverKept DEF IInv
<1> QED BY <1>2, <1>3, <1>4 DEF IInv

LEMMA EncapsulateAndSealKeeps == ASSUME IInv, EncapsulateAndSeal PROVE IInv'
<1>1. /\ pc = "encapsulate" /\ ~key.fresh /\ sealings = 0 /\ image = Undecodable
      /\ result = "pending" /\ key.to \in PublicReadings(public)
      /\ UNCHANGED <<before, disk, writer, public, msg, room, candidate, image>>
      /\ UNCHANGED receiverVars /\ UNCHANGED <<private, typed, step, identity, secret, file, verdict>>
  BY DEF EncapsulateAndSeal, Step, Return, IInv, SenderInv, outputVars, receiverVars, Early
<1>2. \/ /\ pc' = "next" /\ UNCHANGED result /\ sealings' = 1
         /\ key' = [to |-> key.to, fresh |-> TRUE]
      \/ pc' = "done" /\ result' \in {"kem", "crypto"} /\ UNCHANGED <<key, sealings>>
  BY <1>1 DEF EncapsulateAndSeal, Step, Return, MessageKey
<1>3. TypeOK'
  <2>1. key' \in Keys
    <3>1. key \in Keys /\ key.to \in People \cup {Nobody}
      BY DEF IInv, TypeOK, Keys
    <3> QED BY <1>2, <3>1, KeysAre
  <2>2. sealings' \in 0 .. MAX_CANDIDATES + 1
    BY <1>1, <1>2, RecipientAssumption
  <2>3. /\ pc' \in {"next", "done"} /\ result' \in SenderFailures \cup {"pending"}
    BY <1>1, <1>2 DEF SenderFailures
  <2> QED BY <1>1, <2>1, <2>2, <2>3 DEF IInv, TypeOK, OutputType, Keys
<1>4. SenderInv'
  <2>1. key'.to \in PublicReadings(public)'
    BY <1>1, <1>2
  <2>2. key'.fresh \/ pc' = "done"
    BY <1>2
  <2> QED BY <1>1, <1>2, <2>1, <2>2 DEF SenderInv, Early, Drawing, Undecodable, Bare
<1>5. ReceiverInv'
  <2>1. ~file.transport.fresh
    BY <1>1 DEF IInv, ReceiverInv
  <2> QED BY <1>1, <2>1, ReceiverKept DEF IInv
<1> QED BY <1>3, <1>4, <1>5 DEF IInv

LEMMA NextCandidateKeeps == ASSUME IInv, NextCandidate PROVE IInv'
<1>1. /\ pc = "next" /\ pc' \in {"draw", "done"} /\ candidate' \in 0 .. MAX_CANDIDATES
      /\ result' \in SenderFailures \cup {"pending"} /\ (pc' = "draw" => UNCHANGED result)
      /\ result' # "ok" /\ key.fresh /\ result = "pending"
      /\ UNCHANGED <<before, disk, writer, public, msg, room, key, sealings, image>>
      /\ UNCHANGED receiverVars /\ UNCHANGED <<private, typed, step, identity, secret, file, verdict>>
  <2>1. candidate \in 0 .. MAX_CANDIDATES /\ MAX_CANDIDATES \in Nat
    BY RecipientAssumption DEF IInv, TypeOK
  <2> QED BY <2>1 DEF NextCandidate, Step, Return, SenderFailures, IInv, SenderInv, outputVars,
                      receiverVars, Drawing
<1>2. TypeOK'
  BY <1>1 DEF IInv, TypeOK, OutputType
<1>3. SenderInv'
  <2>1. key'.to \in PublicReadings(public)'
    BY <1>1 DEF IInv, SenderInv, NoKey
  <2>2. image' = Undecodable \/ (key'.fresh /\ image' = Drawn(image.gates)')
    BY <1>1 DEF IInv, SenderInv, Drawn
  <2> QED BY <1>1, <2>1, <2>2 DEF IInv, SenderInv, Early, Drawing
<1>4. ReceiverInv'
  BY <1>1, ReceiverKept DEF IInv
<1> QED BY <1>2, <1>3, <1>4 DEF IInv

LEMMA DrawKeeps == ASSUME IInv, Draw PROVE IInv'
<1>1. /\ pc = "draw" /\ key.fresh /\ result = "pending"
      /\ UNCHANGED <<before, disk, public, msg, room, key, sealings, candidate>>
      /\ UNCHANGED receiverVars /\ UNCHANGED <<private, typed, step, identity, secret, file, verdict>>
      /\ writer' \in {writer, "compressing"}
  BY DEF Draw, Step, Return, BeginWrite, IInv, SenderInv, outputVars, receiverVars, Drawing
<1>2. \/ pc' = "write" /\ image' = Drawn(TRUE) /\ UNCHANGED result
      \/ pc' = "next" /\ image' \in {Drawn(TRUE), Drawn(FALSE)} /\ UNCHANGED result
      \/ pc' = "done" /\ result' = "exhausted" /\ UNCHANGED image
  BY DEF Draw, Step, Return
<1>3. Drawn(TRUE) \in Images /\ Drawn(FALSE) \in Images
  <2>1. key = MessageKey(key.to) /\ key.to \in People \cup {Nobody} /\ msg \in Messages
    BY <1>1 DEF IInv, TypeOK, MessageKey
  <2> QED BY <2>1, ImagesAre DEF Drawn
<1>4. TypeOK'
  <2>1. image' \in Images
    BY <1>2, <1>3 DEF IInv, TypeOK
  <2>2. OutputType'
    BY <1>1 DEF IInv, TypeOK, OutputType, WriterStates
  <2>3. pc' \in {"write", "next", "done"} /\ result' \in SenderFailures \cup {"pending"}
    BY <1>1, <1>2 DEF SenderFailures
  <2> QED BY <1>1, <2>1, <2>2, <2>3 DEF IInv, TypeOK
<1>5. SenderInv'
  <2>1. key'.to \in PublicReadings(public)' /\ key'.fresh
    BY <1>1 DEF IInv, SenderInv, NoKey
  <2>2. \A gates : Drawn(gates)' = Drawn(gates) /\ Drawn(gates).gates = gates
    BY <1>1 DEF Drawn
  <2>3. image' = Undecodable \/ image' = Drawn(image.gates)'
    <3>1. CASE \E gates \in BOOLEAN : image' = Drawn(gates)
      BY <1>1, <3>1 DEF Drawn
    <3>2. CASE UNCHANGED image
      BY <1>1, <3>2 DEF IInv, SenderInv, Drawn
    <3> QED BY <1>2, <3>1, <3>2
  <2>4. pc' = "write" => image'.gates
    BY <1>2, <2>2
  <2>5. result' # "ok"
    BY <1>1, <1>2
  <2> QED BY <1>1, <1>2, <2>1, <2>3, <2>4, <2>5 DEF IInv, SenderInv, Early, Drawing, Drawn
<1>6. ReceiverInv'
  BY <1>1, ReceiverKept DEF IInv
<1> QED BY <1>4, <1>5, <1>6 DEF IInv

LEMMA WriteKeeps == ASSUME IInv, Write PROVE IInv'
<1>1. OutputType'
  BY DEF Write, WriteStep, CompressSamples, CreateFile, WriteChunks, FinishFile, WriteFails,
         IInv, TypeOK, OutputType, DiskStates, WriterStates
<1>2. /\ UNCHANGED <<public, msg, room, pc, key, sealings, candidate, image, result>>
      /\ UNCHANGED receiverVars /\ UNCHANGED <<private, typed, step, identity, secret, file, verdict>>
  BY DEF Write, receiverVars
<1>3. TypeOK'
  BY <1>1, <1>2 DEF IInv, TypeOK
<1>4. SenderInv'
  <2>1. PublicReadings(public)' = PublicReadings(public)
    BY <1>2
  <2> QED BY <1>2, <2>1 DEF IInv, SenderInv, Drawn
<1>5. ReceiverInv'
  BY <1>2, ReceiverKept DEF IInv
<1> QED BY <1>3, <1>4, <1>5 DEF IInv

LEMMA ReportKeeps == ASSUME IInv, Report PROVE IInv'
<1>1. /\ pc = "write" /\ pc' = "done" /\ result' \in {"ok", "output"} /\ image.gates /\ key.fresh
      /\ UNCHANGED <<before, disk, writer, public, msg, room, key, sealings, candidate, image>>
      /\ UNCHANGED receiverVars /\ UNCHANGED <<private, typed, step, identity, secret, file, verdict>>
  BY DEF Report, Return, IInv, SenderInv, outputVars, receiverVars, Drawing
<1>2. TypeOK'
  BY <1>1 DEF IInv, TypeOK, OutputType
<1>3. SenderInv'
  <2>1. key'.to \in PublicReadings(public)'
    BY <1>1 DEF IInv, SenderInv, NoKey
  <2>2. image' = Undecodable \/ (key'.fresh /\ image' = Drawn(image.gates)')
    BY <1>1 DEF IInv, SenderInv, Drawn
  <2> QED BY <1>1, <2>1, <2>2 DEF IInv, SenderInv, Early, Drawing
<1>4. ReceiverInv'
  BY <1>1, ReceiverKept DEF IInv
<1> QED BY <1>2, <1>3, <1>4 DEF IInv

LEMMA CrashKeeps == ASSUME IInv, Crash PROVE IInv'
<1>1. /\ pc' = "crashed" /\ result = "pending"
      /\ UNCHANGED <<before, disk, writer, public, msg, room, key, sealings, candidate, image, result>>
      /\ UNCHANGED receiverVars /\ UNCHANGED <<private, typed, step, identity, secret, file, verdict>>
  BY DEF Crash, IInv, SenderInv, outputVars, receiverVars
<1>2. TypeOK'
  BY <1>1 DEF IInv, TypeOK, OutputType
<1>3. SenderInv'
  <2>1. key' # NoKey => key'.to \in PublicReadings(public)'
    BY <1>1 DEF IInv, SenderInv
  <2>2. image' = Undecodable \/ (key'.fresh /\ image' = Drawn(image.gates)')
    BY <1>1 DEF IInv, SenderInv, Drawn
  <2> QED BY <1>1, <2>1, <2>2 DEF IInv, SenderInv, Early, Drawing
<1>4. ReceiverInv'
  BY <1>1, ReceiverKept DEF IInv
<1> QED BY <1>2, <1>3, <1>4 DEF IInv

\* What the path of the container can hold when it is opened, damaged or not.
LEMMA OnDiskIs ==
    ASSUME IInv, NEW f \in OnDisk, NEW d \in SUBSET Damages, NEW got, got = [f EXCEPT !.damage = d]
    PROVE  /\ got \in Images
           /\ got.transport.fresh => got.transport = key /\ got.msg = msg
<1>1. f \in {Photo, Undecodable, image}
  BY DEF OnDisk, IInv, TypeOK, OutputType, DiskStates
<1>2. Photo \in Images /\ Undecodable \in Images /\ image \in Images
  <2>1. \A gates \in BOOLEAN : Bare(gates) \in Images
    BY DEF Images, Bare
  <2> QED BY <2>1 DEF Photo, Undecodable, IInv, TypeOK
<1>3. f \in Images
  BY <1>1, <1>2
<1>4. f.transport.fresh => f.transport = key /\ f.msg = msg
  <2>1. CASE f \in {Photo, Undecodable}
    <3>1. f.transport = NoKey
      BY <2>1 DEF Photo, Undecodable, Bare
    <3> QED BY <3>1 DEF NoKey
  <2>2. CASE f = Drawn(image.gates)
    BY <2>2 DEF Drawn
  <2> QED BY <1>1, <2>1, <2>2 DEF IInv, SenderInv
<1>5. /\ got = [gates |-> f.gates, transport |-> f.transport, msg |-> f.msg, damage |-> d]
      /\ got \in Images /\ got.transport = f.transport /\ got.msg = f.msg
  BY <1>3 DEF Images
<1> QED BY <1>4, <1>5

LEMMA OpenKeeps == ASSUME IInv, Open PROVE IInv'
<1>1. PICK f \in OnDisk, d \in SUBSET Damages : file' = [f EXCEPT !.damage = d]
  BY DEF Open
<1>2. /\ step = "open" /\ step' = "unlock" /\ verdict = "pending" /\ UNCHANGED senderVars
      /\ UNCHANGED <<before, disk, writer, public, msg, room, pc, key, sealings, candidate, image, result>>
      /\ UNCHANGED <<private, typed, identity, secret, verdict>>
  BY DEF Open, Goes, IInv, ReceiverInv, senderVars, outputVars
<1>3. file' \in Images /\ (file'.transport.fresh => file'.transport = key /\ file'.msg = msg)
  BY <1>1, OnDiskIs
<1>4. TypeOK'
  BY <1>2, <1>3 DEF IInv, TypeOK, OutputType
<1>5. ReceiverInv'
  BY <1>2, <1>3 DEF IInv, ReceiverInv
<1> QED BY <1>2, <1>4, <1>5, SenderKept DEF IInv

LEMMA UnlockKeeps == ASSUME IInv, Unlock PROVE IInv'
<1> DEFINE reading == PrivateReading(private, typed)
<1>1. /\ step = "unlock" /\ verdict = "pending" /\ UNCHANGED senderVars
      /\ UNCHANGED <<before, disk, writer, public, msg, room, pc, key, sealings, candidate, image, result>>
      /\ UNCHANGED <<private, typed, secret, file>>
  BY DEF Unlock, Goes, IInv, ReceiverInv, senderVars, outputVars
<1>2. reading \in People \cup PrivateRefusals
  <2>1. private \in KeyFiles
    BY DEF IInv, TypeOK
  <2> QED BY <2>1, PrivateIs
<1>3. (People \cup {Nobody}) \cap PrivateRefusals = {}
  BY RecipientAssumption DEF PrivateRefusals, ReceiverFailures, Nobody
<1> HIDE DEF reading
<1>4. \/ /\ reading \in People /\ step' = "load" /\ UNCHANGED verdict /\ identity' = reading
      \/ /\ reading \in PrivateRefusals /\ step' = "done" /\ verdict' = reading /\ UNCHANGED identity
  BY <1>2, <1>3 DEF Unlock, Goes, Answer, reading
<1>5. TypeOK'
  <2>1. verdict' \in ReceiverFailures \cup {"pending"} /\ identity' \in People \cup {Nobody}
    BY <1>1, <1>4 DEF IInv, TypeOK, PrivateRefusals, ReceiverFailures
  <2>2. step' \in {"load", "done"}
    BY <1>4
  <2> QED BY <1>1, <2>1, <2>2 DEF IInv, TypeOK, OutputType
<1>6. ReceiverInv'
  <2>1. reading = PrivateReading(private, typed)'
    BY <1>1 DEF reading
  <2>2. file'.transport.fresh => file'.transport = key' /\ file'.msg = msg'
    BY <1>1 DEF IInv, ReceiverInv
  <2>3. secret' = NoKey
    BY <1>1 DEF IInv, ReceiverInv
  <2>4. \/ Unlocked' /\ secret' = NoKey /\ step' = "load" /\ UNCHANGED verdict
        \/ verdict' \in PrivateRefusals /\ verdict' = PrivateReading(private, typed)' /\ step' = "done"
    BY <1>4, <2>1, <2>3 DEF Unlocked
  <2> QED BY <1>1, <2>2, <2>4 DEF ReceiverInv
<1> QED BY <1>1, <1>5, <1>6, SenderKept DEF IInv

LEMMA LoadKeeps == ASSUME IInv, Load PROVE IInv'
<1>1. /\ step = "load" /\ verdict = "pending" /\ Unlocked /\ UNCHANGED senderVars
      /\ UNCHANGED <<before, disk, writer, public, msg, room, pc, key, sealings, candidate, image, result>>
      /\ UNCHANGED <<private, typed, identity, secret, file>>
  BY DEF Load, Goes, IInv, ReceiverInv, senderVars, outputVars
<1>2. \/ file.gates /\ step' = "decapsulate" /\ UNCHANGED verdict
      \/ ~file.gates /\ step' = "done" /\ verdict' = "validation"
  BY DEF Load, Goes, Answer
<1>3. TypeOK'
  BY <1>1, <1>2 DEF IInv, TypeOK, OutputType, ReceiverFailures
<1>4. ReceiverInv'
  <2>1. Unlocked'
    BY <1>1 DEF Unlocked
  <2>2. step' = "done" => verdict' = Outcome' /\ ~file'.gates
    BY <1>1, <1>2 DEF Outcome
  <2>3. file'.transport.fresh => file'.transport = key' /\ file'.msg = msg'
    BY <1>1 DEF IInv, ReceiverInv
  <2> QED BY <1>1, <1>2, <2>1, <2>2, <2>3 DEF ReceiverInv
<1> QED BY <1>1, <1>3, <1>4, SenderKept DEF IInv

\* What decapsulation makes of the head of a container opens its payload only
\* where everything fits.
LEMMA DecapsulatedIs ==
    ASSUME IInv
    PROVE  /\ Decapsulated \in {NoKey} \cup {MessageKey(p) : p \in People} \/ identity = Nobody
           /\ Opens(Decapsulated) <=>
                key = MessageKey(identity) /\ file.transport # NoKey /\ file.damage = {}
           /\ Opens(Decapsulated) => file.msg = msg /\ key = MessageKey(identity)
           /\ ~Opens(Refused) /\ ~Opens(NoKey)
<1>1. ~Opens(Refused) /\ ~Opens(NoKey)
  BY DEF Opens, Refused, NoKey
<1>2. file.transport \in {NoKey, MessageKey(Nobody)} \cup {MessageKey(p) : p \in People}
      /\ file.damage \in SUBSET {"transport", "body"} /\ identity \in People \cup {Nobody}
  BY DEF IInv, TypeOK, Images, Damages
<1>3. file.transport # NoKey => file.transport.fresh
  BY <1>2 DEF MessageKey
<1>4. file.transport.fresh => file.transport = key /\ file.msg = msg
  BY DEF IInv, ReceiverInv
<1>5. MessageKey(identity).fresh /\ ~NoKey.fresh
  BY DEF MessageKey, NoKey
<1>6. Decapsulated \in {NoKey, MessageKey(identity)}
  BY DEF Decapsulated
<1>7. Opens(Decapsulated) <=>
        file.transport = MessageKey(identity) /\ "transport" \notin file.damage /\ "body" \notin file.damage
  BY <1>5 DEF Opens, Decapsulated
<1>8. file.transport = MessageKey(identity) <=> (key = MessageKey(identity) /\ file.transport # NoKey)
  BY <1>3, <1>4, <1>5
<1>9. file.damage = {} <=> ("transport" \notin file.damage /\ "body" \notin file.damage)
  BY <1>2
<1> QED BY <1>1, <1>2, <1>4, <1>5, <1>6, <1>7, <1>8, <1>9

\* What a receiver past the gates is told.
Told == IF Readable /\ secret' # Refused THEN msg ELSE "rejected"

LEMMA DecapsulateKeeps ==
    ASSUME IInv, Decapsulate
    PROVE  IInv' /\ (step' = "done" => verdict' = Told)
<1>1. /\ step = "decapsulate" /\ verdict = "pending" /\ Unlocked /\ file.gates
      /\ UNCHANGED senderVars
      /\ UNCHANGED <<before, disk, writer, public, msg, room, pc, key, sealings, candidate, image, result>>
      /\ UNCHANGED <<private, typed, identity, file>>
  BY DEF Decapsulate, Goes, IInv, ReceiverInv, senderVars, outputVars
<1>2. \/ step' = "payload" /\ UNCHANGED verdict /\ secret' = Decapsulated
      \/ step' = "done" /\ verdict' = "rejected" /\ secret' = Refused
  BY DEF Decapsulate, Goes, Answer
<1>3. Unlocked' /\ Decapsulated' = Decapsulated /\ identity \in People /\ identity # Nobody
  <2>1. identity \in People /\ Nobody \notin People
    BY <1>1, RecipientAssumption DEF Unlocked
  <2> QED BY <1>1, <2>1 DEF Unlocked, Decapsulated
<1>4. TypeOK'
  <2>1. secret' \in {NoKey, Refused} \cup {MessageKey(p) : p \in People}
    BY <1>2, <1>3, DecapsulatedIs
  <2> QED BY <1>1, <1>2, <2>1 DEF IInv, TypeOK, OutputType, ReceiverFailures
<1>5. ReceiverInv'
  <2>1. file'.transport.fresh => file'.transport = key' /\ file'.msg = msg'
    BY <1>1 DEF IInv, ReceiverInv
  <2>2. step' = "done" => verdict' = Outcome' /\ secret' = Refused
    <3>1. secret' = Refused => ~Opens(secret)'
      BY DEF Opens, Refused
    <3> QED BY <1>1, <1>2, <3>1 DEF Outcome
  <2> QED BY <1>1, <1>2, <1>3, <2>1, <2>2 DEF ReceiverInv
<1>6. step' = "done" => verdict' = Told
  BY <1>2 DEF Told
<1> QED BY <1>1, <1>4, <1>5, <1>6, SenderKept DEF IInv

LEMMA ReadPayloadKeeps == ASSUME IInv, ReadPayload PROVE IInv' /\ verdict' = Told
<1>1. /\ step = "payload" /\ step' = "done" /\ verdict = "pending" /\ Unlocked /\ file.gates
      /\ UNCHANGED senderVars
      /\ UNCHANGED <<before, disk, writer, public, msg, room, pc, key, sealings, candidate, image, result>>
      /\ UNCHANGED <<private, typed, identity, secret, file>> /\ secret = Decapsulated
  BY DEF ReadPayload, Answer, IInv, ReceiverInv, senderVars, outputVars
<1>2. verdict' = Outcome
  BY <1>1 DEF ReadPayload, Answer, Outcome
<1>3. /\ Opens(secret) <=> (key = MessageKey(identity) /\ file.transport # NoKey /\ file.damage = {})
      /\ Opens(secret) => file.msg = msg
      /\ Opens(secret) => secret # Refused
  BY <1>1, DecapsulatedIs
<1>4. Outcome = Told
  BY <1>1, <1>3 DEF Outcome, Told, Readable
<1>5. Outcome \in {msg, "rejected"}
  BY <1>4 DEF Told
<1>6. TypeOK'
  <2>1. verdict' \in ReceiverFailures \cup Messages
    BY <1>2, <1>5 DEF ReceiverFailures, IInv, TypeOK
  <2> QED BY <1>1, <2>1 DEF IInv, TypeOK, OutputType
<1>7. ReceiverInv'
  <2>1. Unlocked' /\ Outcome' = Outcome /\ Decapsulated' = Decapsulated
    BY <1>1 DEF Unlocked, Outcome, Opens, Decapsulated
  <2>2. file'.transport.fresh => file'.transport = key' /\ file'.msg = msg'
    BY <1>1 DEF IInv, ReceiverInv
  <2> QED BY <1>1, <1>2, <2>1, <2>2 DEF ReceiverInv
<1> QED BY <1>1, <1>2, <1>4, <1>6, <1>7, SenderKept DEF IInv

LEMMA StutterKeeps == ASSUME IInv, UNCHANGED vars PROVE IInv'
<1>1. /\ UNCHANGED senderVars /\ UNCHANGED receiverVars
      /\ UNCHANGED <<before, disk, writer, public, msg, room, pc, key, sealings, candidate, image, result>>
      /\ UNCHANGED <<private, typed, step, identity, secret, file, verdict>>
  BY DEF vars, senderVars, receiverVars, outputVars
<1>2. TypeOK'
  BY <1>1 DEF IInv, TypeOK, OutputType
<1> QED BY <1>1, <1>2, SenderKept, ReceiverKept DEF IInv

LEMMA Preserved == IInv /\ [Next]_vars => IInv'
<1> SUFFICES ASSUME IInv, [Next]_vars PROVE IInv'
  OBVIOUS
<1>1. CASE Sender
  BY <1>1, ReadRecipientKeeps, FitKeeps, EncapsulateAndSealKeeps, NextCandidateKeeps, DrawKeeps,
     WriteKeeps, ReportKeeps, CrashKeeps DEF Sender
<1>2. CASE Receiver
  BY <1>2, OpenKeeps, UnlockKeeps, LoadKeeps, DecapsulateKeeps,
     ReadPayloadKeeps DEF Receiver
<1>3. CASE Finished \/ UNCHANGED vars
  BY <1>3, StutterKeeps DEF Finished
<1> QED BY <1>1, <1>2, <1>3 DEF Next

\* In every state the two sides reach, the invariant holds.
THEOREM Invariant == Spec => []IInv
BY Initially, Preserved, PTL DEF Spec

\* A message key seals one buffer, whatever number of textures is tried: the
\* sealing stands above the loop.
THEOREM OneSealing == Spec => []SealedOnce
<1>1. IInv => SealedOnce
  BY DEF IInv, SenderInv, SealedOnce
<1> QED BY <1>1, Invariant, PTL

\* What goes on from a key file, on either side, was read from a line that was
\* written whole: no cut, misplaced padding or other half of a pair passes.
THEOREM WholeKeysOnly == Spec => []OnlyWholeKeys
<1>1. IInv => OnlyWholeKeys
  <2> SUFFICES ASSUME IInv PROVE OnlyWholeKeys
    OBVIOUS
  <2>1. public \in KeyFiles /\ private \in KeyFiles
    BY DEF IInv, TypeOK
  <2>2. ASSUME pc = "fit", key.to \in People
        PROVE  Holds(public.line, "recipient", PublicKey(key.to))
    <3>1. key.to \in PublicReadings(public)
      BY <2>2 DEF IInv, SenderInv
    <3> QED BY <2>1, <2>2, <3>1, PublicIs
  <2>3. ASSUME step = "load", identity \in People
        PROVE  Holds(private.line, "identity", SealedSeed(identity))
    <3>1. identity = PrivateReading(private, typed)
      BY <2>3 DEF IInv, ReceiverInv, Unlocked
    <3> QED BY <2>1, <2>3, <3>1, PrivateIs
  <2> QED BY <2>2, <2>3 DEF OnlyWholeKeys
<1> QED BY <1>1, Invariant, PTL

\* A message comes out only for the holder of the private key it was
\* encapsulated to, under the passphrase of that key, and it is the message of
\* the sender.
THEOREM RecipientOnly == Spec => []OnlyTheRecipient
<1>1. IInv => OnlyTheRecipient
  <2> SUFFICES ASSUME IInv, verdict \in Messages
               PROVE  /\ verdict = msg
                      /\ typed = private.locked /\ identity \in People
                      /\ Holds(private.line, "identity", SealedSeed(identity))
                      /\ Holds(public.line, "recipient", PublicKey(identity))
    BY DEF OnlyTheRecipient
  <2>1. public \in KeyFiles /\ private \in KeyFiles
    BY DEF IInv, TypeOK
  <2>2. verdict \notin ReceiverFailures \cup {"pending"}
    BY RecipientAssumption
  <2>3. step = "done" /\ Unlocked /\ verdict = Outcome
    BY <2>2 DEF IInv, ReceiverInv, PrivateRefusals, ReceiverFailures
  <2>4. Opens(secret) /\ verdict = file.msg /\ secret \in {Refused, Decapsulated}
    BY <2>2, <2>3 DEF IInv, ReceiverInv, Outcome, PrivateRefusals, ReceiverFailures
  <2>5. Opens(Decapsulated)
    BY <2>4 DEF Opens, Refused
  <2>6. key = MessageKey(identity) /\ verdict = msg
    BY <2>4, <2>5, DecapsulatedIs
  <2>7. identity \in PublicReadings(public)
    <3>1. key.to = identity /\ key # NoKey
      BY <2>6 DEF MessageKey, NoKey
    <3> QED BY <3>1 DEF IInv, SenderInv
  <2>8. identity \in People /\ identity = PrivateReading(private, typed)
    BY <2>3 DEF Unlocked
  <2> QED BY <2>1, <2>6, <2>7, <2>8, PublicIs, PrivateIs
<1> QED BY <1>1, Invariant, PTL

\* A container whose writing was reported opens for its recipient, who holds
\* the pair as it was written, and gives the message.
THEOREM RecipientReads == Spec => []Delivered
<1>1. IInv => Delivered
  <2> SUFFICES ASSUME IInv, step = "done", result = "ok", file = image, msg \notin Oversized,
                      typed = private.locked, secret # Refused, NEW p \in People,
                      public.line = encode_labelled("recipient", PublicKey(p)),
                      private.line = encode_labelled("identity", SealedSeed(p))
               PROVE  verdict = msg
    BY DEF Delivered
  <2>1. public \in KeyFiles /\ private \in KeyFiles
    BY DEF IInv, TypeOK
  <2>2. PublicReadings(public) = {p} /\ PrivateReading(private, typed) = p
    BY <2>1, PublicIs, PrivateIs
  <2>3. p \notin PrivateRefusals
    BY RecipientAssumption DEF PrivateRefusals, ReceiverFailures
  <2>4. identity = p /\ verdict = Outcome /\ (file.gates => secret \in {Refused, Decapsulated})
    BY <2>2, <2>3 DEF IInv, ReceiverInv, Unlocked
  <2>5. image.gates /\ key.fresh /\ image = Drawn(image.gates)
    BY DEF IInv, SenderInv, Undecodable, Bare
  <2>6. file.gates /\ file.transport = key /\ file.msg = msg /\ file.damage = {}
    BY <2>5 DEF Drawn
  <2>7. key = MessageKey(p)
    <3>1. key.to = p /\ key \in [to : People \cup {Nobody}, fresh : BOOLEAN]
      BY <2>2, <2>5 DEF IInv, SenderInv, TypeOK, NoKey
    <3> QED BY <2>5, <3>1 DEF MessageKey
  <2>8. secret = Decapsulated /\ Opens(Decapsulated)
    BY <2>4, <2>5, <2>6, <2>7 DEF Opens, Decapsulated
  <2> QED BY <2>4, <2>6, <2>8 DEF Outcome
<1> QED BY <1>1, Invariant, PTL

\* Past the gates the message comes out exactly where the sender encapsulated to
\* this identity, nothing was damaged, the derivation went through and the
\* payload decompresses; from every other case, whichever statement it leaves
\* by, comes the one answer.
THEOREM NothingToldApart == Spec => OneAnswer
<1>1. IInv /\ [Next]_vars =>
        [(step \in {"decapsulate", "payload"} /\ step' = "done") => verdict' = Told]_vars
  <2> SUFFICES ASSUME IInv, Next, step \in {"decapsulate", "payload"}, step' = "done"
               PROVE  verdict' = Told
    OBVIOUS
  <2>1. Decapsulate \/ ReadPayload
    <3>1. ~UNCHANGED step
      OBVIOUS
    <3>2. ~(UNCHANGED receiverVars) /\ ~(UNCHANGED vars)
      BY <3>1 DEF receiverVars, vars
    <3>3. ~Sender
      BY <3>2 DEF Sender, ReadRecipient, Fit, EncapsulateAndSeal, NextCandidate, Draw, Write,
                  Report, Crash
    <3>4. ~Open /\ ~Unlock /\ ~Load
      BY DEF Open, Unlock, Load, Goes
    <3> QED BY <3>2, <3>3, <3>4 DEF Next, Receiver, Finished
  <2> QED BY <2>1, DecapsulateKeeps, ReadPayloadKeeps
<1> QED BY <1>1, Invariant, PTL DEF Spec, OneAnswer, Told
=============================================================================
