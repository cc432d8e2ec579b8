--------------------------- MODULE IdentityProofs ---------------------------
(* Theorems about Identity, for keys of every size and every number.       *)
EXTENDS Identity, TLAPS

LEMMA Bytes ==
  ASSUME NEW n \in Nat
  PROVE  n \div 256 \in Nat /\ n % 256 \in 0..255
         /\ n = 256 * (n \div 256) + (n % 256)
  OBVIOUS

(* set_own_bt_addr keeps the whole serial number: it can be computed from  *)
(* the address, so devices with different numbers have different addresses.*)
THEOREM AddressTellsNumber ==
  ASSUME NEW n \in Nat, Shifted(n)[4] < 256
  PROVE  LET a == OwnAddress(n) IN
         n = a[1] + 256 * (a[2] + 256 * (a[3] + 256 * a[4]))
<1>. DEFINE q1 == n \div 256  q2 == q1 \div 256  q3 == q2 \div 256
<1>1. Shifted(n) = <<n, q1, q2, q3>>
  BY DEF Shifted
<1>2. q1 \in Nat /\ q2 \in Nat /\ q3 \in Nat
  BY Bytes
<1>3. /\ OwnAddress(n)[1] = n % 256 /\ OwnAddress(n)[2] = q1 % 256
      /\ OwnAddress(n)[3] = q2 % 256 /\ OwnAddress(n)[4] = q3 % 256
  <2>. DEFINE low == [i \in 1..4 |-> Shifted(n)[i] % 256]
              high == <<231, IF Zep1656 THEN 214 ELSE 212>>
  <2>1. /\ low[1] = n % 256 /\ low[2] = q1 % 256
        /\ low[3] = q2 % 256 /\ low[4] = q3 % 256
    BY <1>1
  <2>2. low \in Seq(0..255) /\ Len(low) = 4
    <3>1. \A i \in 1..4 : low[i] \in 0..255
      BY <1>1, <1>2
    <3>. QED
      BY <3>1
  <2>3. high \in Seq(0..255) /\ Len(high) = 2
    OBVIOUS
  <2>4. \A i \in 1..4 : (low \o high)[i] = low[i]
    BY <2>2, <2>3
  <2>. QED
    BY <2>1, <2>4 DEF OwnAddress
<1>4. q3 % 256 = q3
  BY <1>1, <1>2
<1>5. /\ n = 256 * q1 + (n % 256) /\ q1 = 256 * q2 + (q1 % 256)
      /\ q2 = 256 * q3 + (q2 % 256)
  BY <1>2, Bytes
<1>. HIDE DEF q1, q2, q3
<1>. QED
  BY <1>2, <1>3, <1>4, <1>5, Bytes

LEMMA HexByteTypes ==
  ASSUME NEW hi \in 0..35, NEW lo \in 0..35
  PROVE  HexByte(hi, lo) \in 0..255
<1>1. (hi * 16) % 256 \in 0..255
  BY hi * 16 \in Nat
<1>2. ((hi * 16) % 256) + lo \in Nat
  BY <1>1
<1>. QED
  BY <1>2, Bytes DEF HexByte

LEMMA HexByteValue ==
  ASSUME NEW hi \in 0..15, NEW lo \in 0..15
  PROVE  HexByte(hi, lo) = 16 * hi + lo
<1>1. (hi * 16) % 256 = 16 * hi /\ (16 * hi + lo) % 256 = 16 * hi + lo
  OBVIOUS
<1>. QED
  BY <1>1 DEF HexByte

LEMMA HexDigitsDiffer ==
  ASSUME NEW a \in 0..15, NEW b \in 0..15, NEW c \in 0..15, NEW d \in 0..15,
         16 * a + b = 16 * c + d
  PROVE  a = c /\ b = d
  OBVIOUS

(* generate_hex answers with an error or a key of the full size, never     *)
(* with a shorter one.                                                     *)
LEMMA KeyIsWhole ==
  ASSUME NEW src \in Seq(Alnum \cup {Other})
  PROVE  generate_hex(src) \in [1..KeySize -> 0..255] \cup {Invalid}
<1>1. CASE /\ Len(src) \div 2 = KeySize
           /\ \A i \in 1..Len(src) : src[i] \in Alnum
  <2>1. ASSUME NEW j \in 1..KeySize
        PROVE  HexByte(src[2 * j - 1], src[2 * j]) \in 0..255
    <3>1. 2 * j - 1 \in 1..Len(src) /\ 2 * j \in 1..Len(src)
      BY <1>1, IdentityAssumption DEF IdentityAssumption
    <3>2. src[2 * j - 1] \in 0..35 /\ src[2 * j] \in 0..35
      BY <1>1, <3>1 DEF Alnum
    <3>. QED
      BY <3>2, HexByteTypes
  <2>. QED
    BY <1>1, <2>1 DEF generate_hex
<1>2. CASE ~(/\ Len(src) \div 2 = KeySize
             /\ \A i \in 1..Len(src) : src[i] \in Alnum)
  BY <1>2 DEF generate_hex
<1>. QED
  BY <1>1, <1>2

LEMMA HexDigits ==
  ASSUME NEW src \in [1 .. 2 * KeySize -> 0..15], NEW j \in 1..KeySize
  PROVE  /\ generate_hex(src)[j] = 16 * src[2 * j - 1] + src[2 * j]
         /\ src[2 * j - 1] \in 0..15 /\ src[2 * j] \in 0..15
<1>. USE IdentityAssumption DEF IdentityAssumption
<1>1. 2 * j - 1 \in 1 .. 2 * KeySize /\ 2 * j \in 1 .. 2 * KeySize
  OBVIOUS
<1>2. src \in Seq(0..15) /\ Len(src) = 2 * KeySize
  OBVIOUS
<1>3. \A i \in 1..Len(src) : src[i] \in Alnum
  BY <1>2 DEF Alnum
<1>4. generate_hex(src)[j] = HexByte(src[2 * j - 1], src[2 * j])
  BY <1>2, <1>3 DEF generate_hex
<1>5. src[2 * j - 1] \in 0..15 /\ src[2 * j] \in 0..15
  BY <1>1
<1>. QED
  BY <1>4, <1>5, HexByteValue

(* A token of hexadecimal digits is the key: no two tokens make the same.  *)
(* (With letters beyond f they may: 0g makes the same byte as 10.)         *)
THEOREM TokensMakeTheirKeys ==
  ASSUME NEW s \in [1 .. 2 * KeySize -> 0..15],
         NEW t \in [1 .. 2 * KeySize -> 0..15],
         generate_hex(s) = generate_hex(t)
  PROVE  s = t
<1>. USE IdentityAssumption DEF IdentityAssumption
<1>1. ASSUME NEW j \in 1..KeySize
      PROVE  s[2 * j - 1] = t[2 * j - 1] /\ s[2 * j] = t[2 * j]
  <2>. DEFINE a == s[2 * j - 1]  b == s[2 * j]
              c == t[2 * j - 1]  d == t[2 * j]
  <2>1. 16 * a + b = 16 * c + d
    BY HexDigits
  <2>2. a \in 0..15 /\ b \in 0..15 /\ c \in 0..15 /\ d \in 0..15
    BY HexDigits
  <2>. HIDE DEF a, b, c, d
  <2>3. a = c /\ b = d
    BY <2>1, <2>2, HexDigitsDiffer
  <2>. QED
    BY <2>3 DEF a, b, c, d
<1>2. ASSUME NEW i \in 1 .. 2 * KeySize
      PROVE  \E j \in 1..KeySize : i = 2 * j - 1 \/ i = 2 * j
  <2>1. (i + 1) \div 2 \in 1..KeySize
    OBVIOUS
  <2>2. i = 2 * ((i + 1) \div 2) - 1 \/ i = 2 * ((i + 1) \div 2)
    OBVIOUS
  <2>. QED
    BY <2>1, <2>2
<1>3. \A i \in 1 .. 2 * KeySize : s[i] = t[i]
  BY <1>1, <1>2
<1>. QED
  BY <1>3
=============================================================================
