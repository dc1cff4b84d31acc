---------------------------- MODULE CodecProofs ----------------------------
(***************************************************************************)
(* Every message comes back from its octets: the DER library on numbers    *)
(* and strings of every size, and the two codecs on every message, with    *)
(* the one exception of an r2 that the server has not set.                 *)
(***************************************************************************)
EXTENDS DerCodec, WellFoundedInduction, TLAPS

\* Octets, and strings of them.
Byte == 0..255

String == Seq(Byte)

-----------------------------------------------------------------------------
(* Numbers.                                                                *)

\* A number of 32 bits.
IsNumber(n) == n \in Nat /\ n < 4294967296

\* The four octets of a number.
LEMMA Digits ==
    ASSUME NEW n \in Nat, n < 4294967296
    PROVE  /\ n = Octet(n, 1) + 256 * Octet(n, 2) + 65536 * Octet(n, 3)
                    + 16777216 * Octet(n, 4)
           /\ \A j \in 1..4 : Octet(n, j) \in 0..255
           /\ n < 256 => Octet(n, 1) = n /\ Octet(n, 2) = 0
           /\ n < 65536 => Octet(n, 3) = 0
           /\ n < 16777216 => Octet(n, 4) = 0
<1>1. /\ Octet(n, 1) = n % 256 /\ Octet(n, 2) = (n \div 256) % 256
      /\ Octet(n, 3) = (n \div 65536) % 256 /\ Octet(n, 4) = (n \div 16777216) % 256
  BY DEF Octet
<1>2. n \div 65536 = (n \div 256) \div 256 /\ n \div 16777216 = (n \div 65536) \div 256
  OBVIOUS
<1>3. ASSUME NEW a \in Nat
      PROVE  a = 256 * (a \div 256) + (a % 256) /\ a \div 256 \in Nat /\ a % 256 \in 0..255
  OBVIOUS
<1>4. n \div 16777216 \in 0..255
  OBVIOUS
<1>5. (n \div 16777216) % 256 = n \div 16777216
  BY <1>4
<1>6. n = 256 * (n \div 256) + (n % 256) /\ n \div 256 \in Nat
  BY <1>3
<1>7. n \div 256 = 256 * (n \div 65536) + ((n \div 256) % 256) /\ n \div 65536 \in Nat
  BY <1>2, <1>3, <1>6
<1>8. n \div 65536 = 256 * (n \div 16777216) + ((n \div 65536) % 256)
  BY <1>2, <1>3, <1>7
<1>9. /\ n % 256 \in 0..255 /\ (n \div 256) % 256 \in 0..255
      /\ (n \div 65536) % 256 \in 0..255 /\ (n \div 16777216) % 256 \in 0..255
  BY <1>3, <1>4, <1>5, <1>6, <1>7
<1>10. \A j \in 1..4 : Octet(n, j) \in 0..255
  BY <1>1, <1>9, SMTT(30)
<1>11. n = Octet(n, 1) + 256 * Octet(n, 2) + 65536 * Octet(n, 3) + 16777216 * Octet(n, 4)
  BY <1>1, <1>5, <1>6, <1>7, <1>8
<1>12. /\ n < 256 => n \div 256 = 0 /\ n % 256 = n
       /\ n < 65536 => n \div 65536 = 0
       /\ n < 16777216 => n \div 16777216 = 0
  OBVIOUS
<1>13. 0 % 256 = 0
  OBVIOUS
<1>14. n < 256 => Octet(n, 1) = n /\ Octet(n, 2) = 0
  BY <1>1, <1>12, <1>13
<1>15. n < 65536 => Octet(n, 3) = 0
  BY <1>1, <1>12, <1>13
<1>16. n < 16777216 => Octet(n, 4) = 0
  BY <1>1, <1>12, <1>13
<1> QED
  BY <1>10, <1>11, <1>14, <1>15, <1>16

\* n takes at most m octets.
Room(n, m) ==
    \/ m = 1 /\ n < 256
    \/ m = 2 /\ n < 65536
    \/ m = 3 /\ n < 16777216
    \/ m = 4 /\ n < 4294967296

\* What the shifts take apart, the shifts put together again.
LEMMA ValueOfOctets ==
    ASSUME NEW m \in 1..4, NEW n \in Nat, Room(n, m)
    PROVE  Octets(n, m) \in String /\ Len(Octets(n, m)) = m /\ Value(Octets(n, m)) = n
<1>0. n < 4294967296
  BY DEF Room
<1>1. \A j \in 1..4 : Octet(n, j) \in Byte
  BY <1>0, Digits DEF Byte
<1>2. \A j \in 1..m : m + 1 - j \in 1..4
  OBVIOUS
<1>3. Octets(n, m) \in String /\ Len(Octets(n, m)) = m
  <2>1. \A j \in 1..m : Octet(n, m + 1 - j) \in Byte
    BY <1>1, <1>2
  <2> QED
    BY <2>1 DEF Octets, String
<1>4. \A j \in 1..4 : FromRight(Octets(n, m), j) = IF j <= m THEN Octet(n, j) ELSE 0
  <2> SUFFICES ASSUME NEW j \in 1..4
               PROVE  FromRight(Octets(n, m), j) = IF j <= m THEN Octet(n, j) ELSE 0
    OBVIOUS
  <2>1. CASE j <= m
    <3>1. m + 1 - j \in 1..m /\ m + 1 - (m + 1 - j) = j
      BY <2>1
    <3>2. Octets(n, m)[m + 1 - j] = Octet(n, j)
      BY <3>1 DEF Octets
    <3> QED
      BY <2>1, <3>2, <1>3 DEF FromRight
  <2>2. CASE ~ j <= m
    BY <2>2, <1>3 DEF FromRight
  <2> QED
    BY <2>1, <2>2
<1>5. \A j \in 1..4 : j > m => Octet(n, j) = 0
  <2>1. /\ m = 1 => Octet(n, 2) = 0 /\ Octet(n, 3) = 0 /\ Octet(n, 4) = 0
        /\ m = 2 => Octet(n, 3) = 0 /\ Octet(n, 4) = 0
        /\ m = 3 => Octet(n, 4) = 0
    BY <1>0, Digits DEF Room
  <2> QED
    BY <2>1
<1>6. \A j \in 1..4 : FromRight(Octets(n, m), j) = Octet(n, j)
  BY <1>4, <1>5
<1>7. n = Octet(n, 1) + 256 * Octet(n, 2) + 65536 * Octet(n, 3) + 16777216 * Octet(n, 4)
  BY <1>0, Digits
<1> QED
  BY <1>3, <1>6, <1>7 DEF Value

-----------------------------------------------------------------------------
(* Strings of octets.                                                      *)
\* Where the octets of two strings are when one is behind the other.
LEMMA Behind2 ==
    ASSUME NEW s \in String, NEW t \in String
    PROVE  /\ s \o t \in String /\ Len(s \o t) = Len(s) + Len(t)
           /\ \A j \in 1..Len(s) : (s \o t)[j] = s[j]
           /\ \A j \in 1..Len(t) : (s \o t)[Len(s) + j] = t[j]
BY DEF String

\* Two strings with the same octets are the same.
LEMMA SameString ==
    ASSUME NEW s \in String, NEW t \in String, Len(s) = Len(t),
           \A j \in 1..Len(s) : s[j] = t[j]
    PROVE  s = t
BY DEF String

\* A part of a string.
LEMMA Part ==
    ASSUME NEW s \in String, NEW a \in 1..Len(s) + 1, NEW b \in Nat, a <= b + 1, b <= Len(s)
    PROVE  /\ SubSeq(s, a, b) \in String /\ Len(SubSeq(s, a, b)) = b + 1 - a
           /\ \A j \in 1..b + 1 - a : SubSeq(s, a, b)[j] = s[a + j - 1]
<1>1. SubSeq(s, a, b) = [j \in 1..b + 1 - a |-> s[a + j - 1]]
  BY DEF String
<1>2. \A j \in 1..b + 1 - a : a + j - 1 \in 1..Len(s)
  BY DEF String
<1>3. \A j \in 1..Len(s) : s[j] \in Byte
  BY DEF String
<1>4. \A j \in 1..b + 1 - a : s[a + j - 1] \in Byte
  BY <1>2, <1>3
<1> QED
  BY <1>1, <1>4 DEF String

\* The two strings can be cut apart again.
LEMMA CutApart ==
    ASSUME NEW s \in String, NEW t \in String
    PROVE  /\ SubSeq(s \o t, 1, Len(s)) = s
           /\ SubSeq(s \o t, Len(s) + 1, Len(s) + Len(t)) = t
           /\ SubSeq(s \o t, Len(s) + 1, Len(s \o t)) = t
<1> DEFINE u == s \o t
<1>1. /\ u \in String /\ Len(u) = Len(s) + Len(t) /\ Len(s) \in Nat /\ Len(t) \in Nat
      /\ \A j \in 1..Len(s) : u[j] = s[j]
      /\ \A j \in 1..Len(t) : u[Len(s) + j] = t[j]
  BY Behind2 DEF String
<1> HIDE DEF u
<1>2. SubSeq(u, 1, Len(s)) = s
  <2> DEFINE v == SubSeq(u, 1, Len(s))
  <2>1. /\ v \in String /\ Len(v) = Len(s)
        /\ \A j \in 1..Len(s) : v[j] = u[1 + j - 1]
    BY <1>1, Part
  <2> HIDE DEF v
  <2>2. \A j \in 1..Len(s) : v[j] = s[j]
    BY <1>1, <2>1
  <2>3. v = s
    BY <1>1, <2>1, <2>2, SameString
  <2> QED
    BY <2>3 DEF v
<1>3. SubSeq(u, Len(s) + 1, Len(s) + Len(t)) = t
  <2> DEFINE v == SubSeq(u, Len(s) + 1, Len(s) + Len(t))
  <2>1. /\ v \in String /\ Len(v) = Len(t)
        /\ \A j \in 1..Len(t) : v[j] = u[Len(s) + 1 + j - 1]
    BY <1>1, Part
  <2> HIDE DEF v
  <2>2. \A j \in 1..Len(t) : v[j] = t[j]
    BY <1>1, <2>1
  <2>3. v = t
    BY <1>1, <2>1, <2>2, SameString
  <2> QED
    BY <2>3 DEF v
<1> QED
  BY <1>1, <1>2, <1>3 DEF u

LEMMA BehindBoth ==
    ASSUME NEW s \in String, NEW t \in String, NEW u \in String
    PROVE  (s \o t) \o u = s \o (t \o u)
<1> DEFINE a == (s \o t) \o u
           b == s \o (t \o u)
<1>1. /\ s \o t \in String /\ t \o u \in String /\ a \in String /\ b \in String
      /\ Len(s) \in Nat /\ Len(t) \in Nat /\ Len(u) \in Nat
      /\ Len(s \o t) = Len(s) + Len(t) /\ Len(t \o u) = Len(t) + Len(u)
      /\ Len(a) = Len(s \o t) + Len(u) /\ Len(b) = Len(s) + Len(t \o u)
  BY Behind2 DEF String
<1>2. /\ \A j \in 1..Len(s) : (s \o t)[j] = s[j]
      /\ \A j \in 1..Len(t) : (s \o t)[Len(s) + j] = t[j]
      /\ \A j \in 1..Len(t) : (t \o u)[j] = t[j]
      /\ \A j \in 1..Len(u) : (t \o u)[Len(t) + j] = u[j]
      /\ \A j \in 1..Len(s \o t) : a[j] = (s \o t)[j]
      /\ \A j \in 1..Len(u) : a[Len(s \o t) + j] = u[j]
      /\ \A j \in 1..Len(s) : b[j] = s[j]
      /\ \A j \in 1..Len(t \o u) : b[Len(s) + j] = (t \o u)[j]
  BY <1>1, Behind2, SMTT(30)
<1> HIDE DEF a, b
<1>3. ASSUME NEW j \in 1..Len(a)
      PROVE  a[j] = b[j]
  <2>1. CASE j <= Len(s)
    BY <1>1, <1>2, <2>1, SMTT(30)
  <2>2. CASE Len(s) < j /\ j <= Len(s) + Len(t)
    <3>1. PICK i \in 1..Len(t) : j = Len(s) + i
      BY <1>1, <2>2, SMTT(30)
    <3> QED
      BY <1>1, <1>2, <3>1
  <2>3. CASE Len(s) + Len(t) < j
    <3>0. j - Len(s) - Len(t) \in 1..Len(u)
      BY <1>1, <2>3
    <3> DEFINE i == j - Len(s) - Len(t)
    <3>1. i \in 1..Len(u) /\ j = Len(s) + (Len(t) + i) /\ j = Len(s) + Len(t) + i
      BY <1>1, <3>0
    <3> HIDE DEF i
    <3>4. Len(t) + i \in 1..Len(t \o u)
      BY <1>1, <3>1
    <3>2. b[Len(s) + (Len(t) + i)] = (t \o u)[Len(t) + i]
      BY <1>2, <3>4
    <3>3. a[j] = u[i]
      BY <1>1, <1>2, <3>1
    <3> QED
      BY <1>1, <1>2, <3>1, <3>2, <3>3
  <2> QED
    BY <1>1, <2>1, <2>2, <2>3
<1>4. Len(a) = Len(b)
  BY <1>1
<1>5. \A j \in 1..Len(a) : a[j] = b[j]
  BY <1>3
<1>6. a \in String /\ b \in String
  BY <1>1
<1>7. a = b
  BY <1>4, <1>5, <1>6, SameString
<1> QED
  BY <1>7 DEF a, b

\* One octet is a string, and what is behind it is its tail.
LEMMA OneOctet ==
    ASSUME NEW c \in Byte, NEW s \in String
    PROVE  /\ <<c>> \in String /\ Len(<<c>>) = 1
           /\ (<<c>> \o s)[1] = c /\ Tail(<<c>> \o s) = s
           /\ <<c>> \o s \in String /\ Len(<<c>> \o s) = 1 + Len(s)
<1>1. <<c>> \in String /\ Len(<<c>>) = 1 /\ <<c>>[1] = c
  BY DEF String
<1>2. /\ <<c>> \o s \in String /\ Len(<<c>> \o s) = 1 + Len(s)
      /\ (<<c>> \o s)[1] = c
      /\ \A j \in 1..Len(s) : (<<c>> \o s)[1 + j] = s[j]
  BY <1>1, Behind2
<1> DEFINE u == <<c>> \o s
<1> HIDE DEF u
<1>3. Tail(u) = s
  <2>1. u \in String /\ Len(u) = 1 + Len(s) /\ Len(s) \in Nat
    BY <1>2 DEF u, String
  <2>2. \A j \in 1..Len(s) : Tail(u)[j] = u[j + 1]
    BY <2>1 DEF String
  <2>3. Tail(u) \in String /\ Len(Tail(u)) = Len(s)
    BY <2>1 DEF String
  <2>4. \A j \in 1..Len(s) : u[1 + j] = s[j]
    BY <1>2 DEF u
  <2>5. \A j \in 1..Len(Tail(u)) : Tail(u)[j] = s[j]
    BY <2>1, <2>2, <2>3, <2>4
  <2> QED
    BY <2>3, <2>5, SameString
<1> QED
  BY <1>1, <1>2, <1>3 DEF u

-----------------------------------------------------------------------------
(* Lengths.                                                                *)

\* How long the number behind the first octet of a long form is.
LEMMA CountIsEnough ==
    ASSUME NEW n, IsNumber(n)
    PROVE  \/ n < 128 /\ Count_LengthOfSize(n) = 1
           \/ \E m \in 1..4 : Count_LengthOfSize(n) = m + 1 /\ Room(n, m)
<1>0. n \in Nat
  BY DEF IsNumber
<1>1. CASE n <= 127
  BY <1>0, <1>1 DEF Count_LengthOfSize
<1>2. CASE n > 127 /\ n <= 255
  <2>1. Count_LengthOfSize(n) = 1 + 1 /\ Room(n, 1)
    BY <1>0, <1>2 DEF Count_LengthOfSize, Room, IsNumber
  <2> QED
    BY <2>1
<1>3. CASE n > 255 /\ n < 65535
  <2>1. Count_LengthOfSize(n) = 2 + 1 /\ Room(n, 2)
    BY <1>0, <1>3 DEF Count_LengthOfSize, Room, IsNumber
  <2> QED
    BY <2>1
<1>4. CASE n >= 65535 /\ n <= 16777215
  <2>1. Count_LengthOfSize(n) = 3 + 1 /\ Room(n, 3)
    BY <1>0, <1>4 DEF Count_LengthOfSize, Room, IsNumber
  <2> QED
    BY <2>1
<1>5. CASE n > 16777215
  <2>1. Count_LengthOfSize(n) = 4 + 1 /\ Room(n, 4)
    BY <1>0, <1>5 DEF Count_LengthOfSize, Room, IsNumber
  <2> QED
    BY <2>1
<1> QED
  BY <1>0, <1>1, <1>2, <1>3, <1>4, <1>5

\* A length is read as it was written, whatever is behind it.
LEMMA LengthBack ==
    ASSUME NEW n, IsNumber(n), NEW x \in String
    PROVE  /\ LengthOctets(n) \in String
           /\ Len(LengthOctets(n)) = Count_LengthOfSize(n)
           /\ GetLengthInfo(LengthOctets(n) \o x)
                = [ok |-> TRUE, value |-> n, size |-> Count_LengthOfSize(n)]
<1> DEFINE info == [ok |-> TRUE, value |-> n, size |-> Count_LengthOfSize(n)]
<1>0. n \in Nat
  BY DEF IsNumber
<1>1. CASE n < 128 /\ Count_LengthOfSize(n) = 1
  <2>1. LengthOctets(n) = <<n>>
    BY <1>1 DEF LengthOctets
  <2>2. n \in Byte
    BY <1>0, <1>1 DEF Byte
  <2>3. (<<n>> \o x)[1] = n /\ <<n>> \in String /\ Len(<<n>>) = 1
    BY <2>2, OneOctet
  <2>4. GetLengthInfo(<<n>> \o x) = info
    BY <1>1, <2>3 DEF GetLengthInfo
  <2> QED
    BY <1>1, <2>1, <2>3, <2>4
<1>2. ASSUME NEW m \in 1..4, Count_LengthOfSize(n) = m + 1, Room(n, m)
      PROVE  /\ LengthOctets(n) \in String
             /\ Len(LengthOctets(n)) = Count_LengthOfSize(n)
             /\ GetLengthInfo(LengthOctets(n) \o x) = info
  <2> DEFINE o == Octets(n, m)
             c == 128 + m
  <2>1. o \in String /\ Len(o) = m /\ Value(o) = n
    BY <1>0, <1>2, ValueOfOctets
  <2>2. LengthOctets(n) = <<c>> \o o
    BY <1>2 DEF LengthOctets
  <2>3. c \in Byte /\ c % 128 = m /\ c >= 128
    BY DEF Byte
  <2> HIDE DEF o, c
  <2>4. <<c>> \o o \in String /\ Len(<<c>> \o o) = 1 + m /\ <<c>> \in String
    BY <2>1, <2>3, OneOctet
  <2> DEFINE s == (<<c>> \o o) \o x
  <2>9. <<c>> \in String /\ o \in String
    BY <2>1, <2>4
  <2>12. o \o x \in String
    BY <2>9, Behind2
  <2>5. s = <<c>> \o (o \o x) /\ o \o x \in String
    BY <2>9, <2>12, BehindBoth
  <2>6. s[1] = c
    BY <2>3, <2>5, OneOctet
  <2>7. SubSeq(s, 2, m + 1) = o
    <3>1. /\ s \in String /\ Len(s) = 1 + m + Len(x) /\ Len(x) \in Nat
          /\ \A j \in 1..1 + m : s[j] = (<<c>> \o o)[j]
      BY <2>4, Behind2 DEF String
    <3>2. \A j \in 1..m : (<<c>> \o o)[1 + j] = o[j]
      BY <2>1, <2>3, <2>4, OneOctet, Behind2
    <3> HIDE DEF s
    <3> DEFINE v == SubSeq(s, 2, m + 1)
    <3>3. /\ v \in String /\ Len(v) = m
          /\ \A j \in 1..m : v[j] = s[2 + j - 1]
      BY <3>1, Part
    <3> HIDE DEF v
    <3>4. \A j \in 1..m : 2 + j - 1 = 1 + j /\ 1 + j \in 1..1 + m
      OBVIOUS
    <3>5. \A j \in 1..Len(v) : v[j] = o[j]
      BY <3>1, <3>2, <3>3, <3>4, ZenonT(60)
    <3>6. v = o
      BY <2>1, <3>3, <3>5, SameString
    <3> QED
      BY <3>6 DEF v
  <2> HIDE DEF s
  <2>10. ~ s[1] < 128 /\ ~ s[1] % 128 > 4 /\ s[1] % 128 # 0 /\ s[1] % 128 = m
    BY <2>3, <2>6 DEF Byte
  <2>11. GetLengthInfo(s) = [ok |-> TRUE, value |-> Value(SubSeq(s, 2, m + 1)), size |-> m + 1]
    BY <2>10 DEF GetLengthInfo
  <2>8. GetLengthInfo(s) = info
    BY <1>2, <2>1, <2>7, <2>11
  <2> QED
    BY <1>2, <2>2, <2>4, <2>8 DEF s
<1> QED
  BY <1>1, <1>2, CountIsEnough

-----------------------------------------------------------------------------
(* Elements: an octet for the tag, the length, the content.                *)

Element(h, c) == <<h>> \o (LengthOctets(Len(c)) \o c)

\* What is read at the start of an element e of tag h and content c.
ElementRead(e, h, c) ==
    LET info == GetLengthInfo(Tail(e))
    IN  /\ e \in String /\ e[1] = h
        /\ info.ok /\ info.size \in Nat /\ info.value = Len(c)
        /\ 1 + info.size + info.value = Len(e)
        /\ SubSeq(e, 2 + info.size, Len(e)) = c
        /\ SubSeq(e, 2 + info.size, 1 + info.size + info.value) = c

\* An element is read as it was written, and it is what is cut out of a string
\* that begins with it.
LEMMA ElementBack ==
    ASSUME NEW h \in Byte, NEW c \in String, IsNumber(Len(c)), NEW x \in String
    PROVE  /\ Element(h, c) \in String
           /\ Len(Element(h, c)) = 1 + Count_LengthOfSize(Len(c)) + Len(c)
           /\ ElementRead(Element(h, c), h, c)
           /\ ElementSize(Element(h, c) \o x) = Len(Element(h, c))
<1> DEFINE n == Len(c)
           lo == LengthOctets(n)
           z == Count_LengthOfSize(n)
           e == Element(h, c)
<1>0. n \in Nat /\ z \in Nat /\ IsNumber(n)
  <2>1. n \in Nat
    BY DEF String
  <2>2. z \in Nat
    BY <2>1, SMTT(20) DEF Count_LengthOfSize
  <2> QED
    BY <2>1, <2>2
<1> HIDE DEF n
<1>1. ASSUME NEW y \in String
      PROVE  /\ lo \in String /\ Len(lo) = z
             /\ GetLengthInfo(lo \o y) = [ok |-> TRUE, value |-> n, size |-> z]
  BY <1>0, LengthBack
<1>2. e = <<h>> \o (lo \o c)
  BY DEF Element, n
<1> HIDE DEF lo, z, e
<1>3. lo \in String /\ Len(lo) = z
  BY <1>1
<1>4. <<h>> \in String /\ Len(<<h>>) = 1
  BY OneOctet
<1>5. lo \o c \in String /\ Len(lo \o c) = z + n
  BY <1>3, Behind2 DEF n
<1>6. e \in String /\ e[1] = h /\ Tail(e) = lo \o c
  BY <1>2, <1>5, OneOctet
<1>7. Len(e) = 1 + z + n
  <2>1. Len(e) = 1 + Len(lo \o c)
    BY <1>2, <1>5, OneOctet
  <2> QED
    BY <1>0, <1>5, <2>1
<1>8. GetLengthInfo(Tail(e)) = [ok |-> TRUE, value |-> n, size |-> z]
  BY <1>1, <1>6
<1>9. SubSeq(e, 2 + z, Len(e)) = c
  <2>1. e = (<<h>> \o lo) \o c
    BY <1>2, <1>3, <1>4, BehindBoth
  <2>2. <<h>> \o lo \in String /\ Len(<<h>> \o lo) = 1 + z
    BY <1>3, OneOctet
  <2>3. SubSeq(e, Len(<<h>> \o lo) + 1, Len(e)) = c
    BY <2>1, <2>2, CutApart
  <2>4. Len(<<h>> \o lo) + 1 = 2 + z
    BY <1>0, <2>2
  <2> QED
    BY <2>3, <2>4
<1>10. ElementRead(e, h, c)
  <2>1. 1 + z + n = Len(e) /\ SubSeq(e, 2 + z, Len(e)) = c
    BY <1>7, <1>9
  <2>2. SubSeq(e, 2 + z, 1 + z + n) = c
    BY <2>1
  <2> DEFINE info == GetLengthInfo(Tail(e))
  <2>3. info.ok /\ info.value = n /\ info.size = z /\ z \in Nat
    BY <1>0, <1>8
  <2> HIDE DEF info
  <2>4. /\ info.ok /\ info.size \in Nat /\ info.value = n
        /\ 1 + info.size + info.value = Len(e)
        /\ SubSeq(e, 2 + info.size, Len(e)) = c
        /\ SubSeq(e, 2 + info.size, 1 + info.size + info.value) = c
    BY <2>1, <2>2, <2>3
  <2> QED
    BY <1>6, <2>4 DEF ElementRead, info, n
<1>11. ElementSize(e \o x) = Len(e)
  <2>1. e \o x = <<h>> \o (lo \o (c \o x))
    <3>1. e \o x = <<h>> \o ((lo \o c) \o x)
      BY <1>2, <1>4, <1>5, BehindBoth
    <3>2. (lo \o c) \o x = lo \o (c \o x)
      BY <1>3, BehindBoth
    <3> QED
      BY <3>1, <3>2
  <2>2. c \o x \in String
    BY Behind2
  <2>3. lo \o (c \o x) \in String
    BY <1>3, <2>2, Behind2
  <2>4. Tail(e \o x) = lo \o (c \o x)
    BY <2>1, <2>3, OneOctet
  <2>5. GetLengthInfo(Tail(e \o x)) = [ok |-> TRUE, value |-> n, size |-> z]
    BY <1>1, <2>2, <2>4
  <2>6. ElementSize(e \o x) = 1 + z + n
    BY <2>5 DEF ElementSize
  <2> QED
    BY <1>7, <2>6
<1> QED
  BY <1>6, <1>7, <1>10, <1>11 DEF e, z, n

-----------------------------------------------------------------------------
(* Integers.                                                               *)

\* The octets of a number are as few as it needs: the first is not 0 unless it
\* is the only one.
LEMMA FewestOctets ==
    ASSUME NEW n, IsNumber(n)
    PROVE  \E m \in 1..4 : /\ IntSize(n) = m /\ Room(n, m)
                           /\ m > 1 => Octets(n, m)[1] # 0
<1>0. n \in Nat
  BY DEF IsNumber
<1>1. \A m \in 1..4 : Octets(n, m)[1] = Octet(n, m)
  BY DEF Octets
<1> DEFINE a == Octet(n, 1)
           b == Octet(n, 2)
           c == Octet(n, 3)
           d == Octet(n, 4)
<1>2. /\ n = a + 256 * b + 65536 * c + 16777216 * d
      /\ a \in 0..255 /\ b \in 0..255 /\ c \in 0..255 /\ d \in 0..255
      /\ n < 65536 => c = 0
      /\ n < 16777216 => d = 0
  BY Digits, SMTT(20) DEF IsNumber
<1> HIDE DEF a, b, c, d
<1>3. CASE n <= 255
  <2>1. IntSize(n) = 1 /\ Room(n, 1)
    BY <1>0, <1>3, SMTT(20) DEF IntSize, Room
  <2> QED
    BY <2>1
<1>4. CASE n > 255 /\ n <= 65535
  <2>1. IntSize(n) = 2 /\ Room(n, 2)
    BY <1>0, <1>4, SMTT(20) DEF IntSize, Room
  <2>2. b # 0
    BY <1>0, <1>2, <1>4, SMTT(20)
  <2> QED
    BY <1>1, <2>1, <2>2 DEF b
<1>5. CASE n > 65535 /\ n <= 16777215
  <2>1. IntSize(n) = 3 /\ Room(n, 3)
    BY <1>0, <1>5, SMTT(20) DEF IntSize, Room
  <2>2. c # 0
    BY <1>0, <1>2, <1>5, SMTT(20)
  <2> QED
    BY <1>1, <2>1, <2>2 DEF c
<1>6. CASE n > 16777215
  <2>1. IntSize(n) = 4 /\ Room(n, 4)
    BY <1>0, <1>6, SMTT(20) DEF IntSize, Room, IsNumber
  <2>2. d # 0
    BY <1>0, <1>2, <1>6, SMTT(20)
  <2> QED
    BY <1>1, <2>1, <2>2 DEF d
<1> QED
  BY <1>0, <1>3, <1>4, <1>5, <1>6, SMTT(20)

\* What IntToChar and CharToInt promise each other.
LEMMA IntThereAndBack ==
    ASSUME NEW n, IsNumber(n)
    PROVE  /\ IntToChar(n) \in String /\ Len(IntToChar(n)) \in 1..5
           /\ CharToInt(IntToChar(n)) = n
<1>1. PICK m \in 1..4 : IntSize(n) = m /\ Room(n, m) /\ (m > 1 => Octets(n, m)[1] # 0)
  BY FewestOctets
<1> DEFINE s == Octets(n, m)
<1>0. n \in Nat
  BY SMT DEF IsNumber
<1>2. s \in String /\ Len(s) = m /\ Value(s) = n
  BY <1>0, <1>1, ValueOfOctets
<1>3. IntToChar(n) = IF s[1] >= 128 THEN <<0>> \o s ELSE s
  BY <1>1 DEF IntToChar
<1>4. m > 1 => s[1] # 0
  BY <1>1
<1> HIDE DEF s
<1>5. CASE s[1] >= 128
  <2>1. /\ <<0>> \o s \in String /\ Len(<<0>> \o s) = 1 + m
        /\ (<<0>> \o s)[1] = 0 /\ Tail(<<0>> \o s) = s
    <3>1. 0 \in Byte
      BY DEF Byte
    <3> QED
      BY <1>2, <3>1, OneOctet
  <2>3. Len(<<0>> \o s) > 1
    BY <2>1
  <2>2. CharToInt(<<0>> \o s) = n
    BY <1>2, <2>1, <2>3 DEF CharToInt
  <2> QED
    BY <1>3, <1>5, <2>1, <2>2
<1>6. CASE ~ s[1] >= 128
  <2>1. CharToInt(s) = n
    BY <1>2, <1>4 DEF CharToInt
  <2> QED
    BY <1>2, <1>3, <1>6, <2>1, SMTT(30)
<1> QED
  BY <1>5, <1>6

\* The octet of a length below 128 is its length.
LEMMA ShortLength ==
    ASSUME NEW n \in 0..127
    PROVE  IsNumber(n) /\ LengthOctets(n) = <<n>> /\ Count_LengthOfSize(n) = 1
<1>1. Count_LengthOfSize(n) = 1
  BY SMTT(20) DEF Count_LengthOfSize
<1> QED
  BY <1>1, SMTT(20) DEF LengthOctets, IsNumber

\* An integer is read as it was written, and its element is what is cut out of a
\* sequence that begins with it.
THEOREM IntegerBack ==
    ASSUME NEW n, IsNumber(n), NEW x \in String
    PROVE  /\ WriteInteger(n) \in String /\ Len(WriteInteger(n)) \in 3..7
           /\ ReadInteger(WriteInteger(n)) = n
           /\ ElementSize(WriteInteger(n) \o x) = Len(WriteInteger(n))
<1> DEFINE c == IntToChar(n)
           w == WriteInteger(n)
<1>1. c \in String /\ Len(c) \in 1..5 /\ CharToInt(c) = n
  BY IntThereAndBack
<1>2. w = <<IdInteger, Len(c)>> \o c
  BY SMTT(30) DEF WriteInteger
<1> HIDE DEF c, w
<1>3. /\ LengthOctets(Len(c)) = <<Len(c)>> /\ IsNumber(Len(c))
      /\ Count_LengthOfSize(Len(c)) = 1
  <2>1. Len(c) \in 0..127
    BY <1>1
  <2> QED
    BY <2>1, ShortLength
<1>4. IdInteger \in Byte /\ Len(c) \in Byte
  BY <1>1 DEF IdInteger, Byte
<1>5. w = Element(IdInteger, c)
  <2>1. <<IdInteger, Len(c)>> = <<IdInteger>> \o <<Len(c)>>
    OBVIOUS
  <2>2. <<IdInteger>> \in String /\ <<Len(c)>> \in String /\ c \in String
    BY <1>1, <1>4, OneOctet
  <2>3. (<<IdInteger>> \o <<Len(c)>>) \o c = <<IdInteger>> \o (<<Len(c)>> \o c)
    BY <2>2, BehindBoth
  <2> QED
    BY <1>2, <1>3, <2>1, <2>3 DEF Element
<1>6. /\ w \in String /\ Len(w) = 1 + 1 + Len(c)
      /\ ElementRead(w, IdInteger, c) /\ ElementSize(w \o x) = Len(w)
  BY <1>1, <1>3, <1>4, <1>5, ElementBack
<1>7. ReadInteger(w) = n
  BY <1>1, <1>6 DEF ElementRead, ReadInteger
<1>8. Len(w) \in 3..7
  <2>1. \A l \in 1..5 : 1 + 1 + l \in 3..7
    OBVIOUS
  <2> QED
    BY <1>1, <1>6, <2>1
<1> QED
  BY <1>6, <1>7, <1>8 DEF w

-----------------------------------------------------------------------------
(* Strings and sequences.                                                  *)

\* What comes back from an element that was read whole.
Whole(s) == [ok |-> TRUE, value |-> s]

\* A part that begins one octet later lacks the first octet.
LEMMA LaterPart ==
    ASSUME NEW e \in String, NEW a \in 1..Len(e), NEW c \in Byte, NEW s \in String,
           SubSeq(e, a, Len(e)) = <<c>> \o s
    PROVE  SubSeq(e, a + 1, Len(e)) = s
<1> DEFINE u == SubSeq(e, a, Len(e))
           v == SubSeq(e, a + 1, Len(e))
           n == Len(e)
<1>0. n \in Nat /\ a \in 1..n
  BY DEF String
<1>1. /\ u \in String /\ Len(u) = n + 1 - a
      /\ \A j \in 1..n + 1 - a : u[j] = e[a + j - 1]
  <2>1. a \in 1..n + 1 /\ a <= n + 1 /\ n <= n
    BY <1>0
  <2> QED
    BY <1>0, <2>1, Part
<1>2. /\ v \in String /\ Len(v) = n + 1 - (a + 1)
      /\ \A j \in 1..n + 1 - (a + 1) : v[j] = e[a + 1 + j - 1]
  <2>1. a + 1 \in 1..n + 1 /\ a + 1 <= n + 1
    BY <1>0
  <2> QED
    BY <1>0, <2>1, Part
<1>3. u = <<c>> \o s
  OBVIOUS
<1> HIDE DEF u, v, n
<1>4. Len(u) = 1 + Len(s) /\ Len(s) \in Nat
  BY <1>3, OneOctet DEF String
<1>5. \A j \in 1..Len(s) : u[1 + j] = s[j]
  BY <1>3, OneOctet, Behind2
<1>6. Len(v) = Len(s)
  BY <1>0, <1>1, <1>2, <1>4
<1>7. ASSUME NEW j \in 1..Len(v)
      PROVE  v[j] = s[j]
  <2>1. v[j] = e[a + 1 + j - 1] /\ a + 1 + j - 1 = a + (1 + j) - 1
    BY <1>0, <1>2, <1>6
  <2>2. 1 + j \in 1..n + 1 - a
    BY <1>0, <1>1, <1>4, <1>6
  <2>3. u[1 + j] = e[a + (1 + j) - 1]
    BY <1>1, <2>2
  <2> QED
    BY <1>5, <1>6, <2>1, <2>3
<1>8. \A j \in 1..Len(v) : v[j] = s[j]
  BY <1>7
<1>9. v = s
  BY <1>2, <1>6, <1>8, SameString
<1> QED
  BY <1>9 DEF v, n

\* A string of any of the three types is read as it was written, without the octet
\* for the unused bits of a bit string.
THEOREM StringBack ==
    ASSUME NEW tag \in {IdBitString, IdPrintable, IdBmp}, NEW s \in String,
           IsNumber(Len(s) + 1), NEW x \in String
    PROVE  /\ WriteString(tag, s) \in String
           /\ Len(WriteString(tag, s)) \in 1..7 + Len(s)
           /\ ReadTagAndLength(WriteString(tag, s)) = Whole(s)
           /\ ElementSize(WriteString(tag, s) \o x) = Len(WriteString(tag, s))
<1> DEFINE c == Content(tag, s)
           w == WriteString(tag, s)
           u == Len(s) % 8
           skip == IF tag = IdBitString THEN 1 ELSE 0
<1>0. Len(s) \in Nat /\ tag \in Byte /\ ~ tag >= 128 /\ tag % 32 = tag
  <2>1. tag \in {3, 19, 30}
    BY DEF IdBitString, IdPrintable, IdBmp
  <2>2. \A i \in {3, 19, 30} : i \in 0..255 /\ ~ i >= 128 /\ i % 32 = i
    OBVIOUS
  <2>3. Len(s) \in Nat
    BY DEF String
  <2> QED
    BY <2>1, <2>2, <2>3 DEF Byte
<1>1. u \in Byte
  <2>1. \A n \in Nat : n % 8 \in 0..255
    OBVIOUS
  <2> QED
    BY <1>0, <2>1 DEF Byte
<1>2. c = IF tag = IdBitString THEN <<u>> \o s ELSE s
  BY DEF Content
<1>3. w = (<<tag>> \o LengthOctets(Len(c))) \o c
  BY DEF WriteString, WriteTagAndLength
<1> HIDE DEF c, w, u
<1>4. c \in String /\ Len(c) = Len(s) + skip /\ IsNumber(Len(c))
  <2>1. IsNumber(Len(s))
    BY <1>0, SMT DEF IsNumber
  <2>2. CASE tag = IdBitString
    <3>1. <<u>> \o s \in String /\ Len(<<u>> \o s) = 1 + Len(s)
      BY <1>1, OneOctet
    <3>2. 1 + Len(s) = Len(s) + 1
      BY <1>0
    <3> QED
      BY <1>2, <2>2, <3>1, <3>2
  <2>3. CASE tag # IdBitString
    <3>1. Len(s) = Len(s) + 0
      BY <1>0
    <3> QED
      BY <1>2, <2>1, <2>3, <3>1
  <2> QED
    BY <2>2, <2>3
<1>5. w = Element(tag, c)
  <2>1. LengthOctets(Len(c)) \in String /\ <<tag>> \in String
    BY <1>0, <1>4, LengthBack, OneOctet
  <2>2. (<<tag>> \o LengthOctets(Len(c))) \o c = <<tag>> \o (LengthOctets(Len(c)) \o c)
    BY <1>4, <2>1, BehindBoth
  <2> QED
    BY <1>3, <2>2 DEF Element
<1>6. w \in String /\ ElementRead(w, tag, c) /\ ElementSize(w \o x) = Len(w)
  BY <1>0, <1>4, <1>5, ElementBack
<1>7. Len(w) = 1 + Count_LengthOfSize(Len(c)) + Len(c)
  BY <1>0, <1>4, <1>5, ElementBack
<1> DEFINE info == GetLengthInfo(Tail(w))
           a == 2 + info.size
<1>8. /\ w[1] = tag /\ info.value = Len(c) /\ 1 + info.size + info.value = Len(w)
      /\ SubSeq(w, a, Len(w)) = c /\ info.size \in Nat /\ Len(c) \in Nat
  BY <1>4, <1>6 DEF ElementRead, String
<1>9. GetTagInfo(w) = tag
  BY <1>0, <1>8 DEF GetTagInfo
<1>10. ReadTagAndLength(w) = Whole(SubSeq(w, Len(w) + 1 - Len(c) + skip, Len(w)))
  BY <1>8, <1>9 DEF ReadTagAndLength, Whole
<1> HIDE DEF info
<1>11. Len(w) + 1 - Len(c) = a /\ a \in Nat
  <2>1. \A p, q \in Nat : 1 + p + q + 1 - q = 2 + p /\ 2 + p \in Nat
    OBVIOUS
  <2>2. Len(w) = 1 + info.size + Len(c)
    BY <1>8
  <2>3. info.size \in Nat /\ Len(c) \in Nat
    BY <1>8
  <2> QED
    BY <2>1, <2>2, <2>3
<1>12. SubSeq(w, a + skip, Len(w)) = s
  <2>1. CASE tag = IdBitString
    <3>1. a \in 1..Len(w)
      BY <1>0, <1>4, <1>8, <2>1
    <3>2. SubSeq(w, a, Len(w)) = <<u>> \o s
      BY <1>2, <1>8, <2>1
    <3>3. SubSeq(w, a + 1, Len(w)) = s
      BY <1>1, <1>6, <3>1, <3>2, LaterPart
    <3> QED
      BY <2>1, <3>3
  <2>2. CASE tag # IdBitString
    <3>1. a + 0 = a
      BY <1>11
    <3> QED
      BY <1>2, <1>8, <2>2, <3>1
  <2> QED
    BY <2>1, <2>2
<1>13. Len(w) \in 1..7 + Len(s)
  <2>1. Count_LengthOfSize(Len(c)) \in 1..5
    BY <1>4, CountIsEnough
  <2>2. Len(c) \in Nat /\ Len(c) <= Len(s) + 1
    BY <1>0, <1>4
  <2>3. \A p \in 1..5, q, r \in Nat : q <= r + 1 => 1 + p + q \in 1..7 + r
    OBVIOUS
  <2> QED
    BY <1>0, <1>7, <2>1, <2>2, <2>3
<1> QED
  BY <1>6, <1>10, <1>11, <1>12, <1>13 DEF w

\* The content of a sequence is taken out of it as it was put in.
LEMMA SequenceBack ==
    ASSUME NEW c \in String, IsNumber(Len(c))
    PROVE  /\ WriteSequence(c) \in String
           /\ Len(WriteSequence(c)) \in 1..6 + Len(c)
           /\ SequenceContent(WriteSequence(c)) = Whole(c)
<1> DEFINE h == IdSequence + Constructed
           w == WriteSequence(c)
<1>1. h \in Byte /\ ~ h >= 128 /\ h % 32 = IdSequence
  BY DEF IdSequence, Constructed, Byte
<1>2. w = (<<h>> \o LengthOctets(Len(c))) \o c
  BY DEF WriteSequence
<1> HIDE DEF h, w
<1>3. w = Element(h, c)
  <2>1. LengthOctets(Len(c)) \in String /\ <<h>> \in String
    BY <1>1, LengthBack, OneOctet
  <2>2. (<<h>> \o LengthOctets(Len(c))) \o c = <<h>> \o (LengthOctets(Len(c)) \o c)
    BY <2>1, BehindBoth
  <2> QED
    BY <1>2, <2>2 DEF Element
<1>4. /\ ElementRead(w, h, c) /\ w \in String
      /\ Len(w) = 1 + Count_LengthOfSize(Len(c)) + Len(c)
  <2>1. <<>> \in String
    BY DEF String
  <2> QED
    BY <1>1, <1>3, <2>1, ElementBack
<1>5. GetTagInfo(w) = IdSequence
  BY <1>1, <1>4 DEF GetTagInfo, ElementRead
<1>6. SequenceContent(w) = Whole(c)
  BY <1>4, <1>5 DEF ElementRead, SequenceContent, Whole
<1>7. Len(w) \in 1..6 + Len(c)
  <2>1. Count_LengthOfSize(Len(c)) \in 1..5 /\ Len(c) \in Nat
    BY CountIsEnough DEF String
  <2>2. \A p \in 1..5, q \in Nat : 1 + p + q \in 1..6 + q
    OBVIOUS
  <2> QED
    BY <1>4, <2>1, <2>2
<1> QED
  BY <1>4, <1>6, <1>7 DEF w

\* A sequence of null has null in it.
LEMMA NullBack == ReadNull(SequenceContent(WriteNullSequence).value)
<1>1. WriteNull \in String /\ Len(WriteNull) = 2
  BY DEF WriteNull, String, Byte, IdNull
<1>2. IsNumber(Len(WriteNull))
  BY <1>1, SMT DEF IsNumber
<1>3. SequenceContent(WriteNullSequence) = Whole(WriteNull)
  BY <1>1, <1>2, SequenceBack DEF WriteNullSequence
<1>4. SequenceContent(WriteNullSequence).value = <<5, 0>>
  BY <1>3 DEF Whole, WriteNull, IdNull
<1>5. ReadNull(<<5, 0>>)
  BY DEF ReadNull
<1> QED
  BY <1>4, <1>5

-----------------------------------------------------------------------------
(* Texts.                                                                  *)

\* The text in s ends at its octet e.
EndsAt(s, e) ==
    /\ e \in 1..Len(s) /\ s[e] = 0
    /\ \A j \in 1..Len(s) : j < e => s[j] # 0

\* A text ends at the first 0.
LEMMA TextEnds ==
    ASSUME NEW s \in String, NEW e, EndsAt(s, e)
    PROVE  Text(s) = SubSeq(s, 1, e)
<1> DEFINE ends == {j \in DOMAIN s : s[j] = 0}
<1>1. DOMAIN s = 1..Len(s) /\ Len(s) \in Nat
  BY DEF String
<1>2. e \in ends /\ \A i \in ends : e <= i
  BY <1>1 DEF EndsAt
<1>3. \A j \in ends : (\A i \in ends : j <= i) => j = e
  BY <1>1, <1>2
<1>4. (CHOOSE j \in ends : \A i \in ends : j <= i) = e
  BY <1>2, <1>3
<1>5. ends # {}
  BY <1>2
<1> QED
  BY <1>4, <1>5 DEF Text

\* The text in an array is its beginning, up to the first 0.
LEMMA TextIs ==
    ASSUME NEW s, NEW n \in Nat, IsText(s, n)
    PROVE  /\ s \in String /\ Text(s) \in String /\ Len(Text(s)) \in 1..n
           /\ EndsAt(Text(s), Len(Text(s)))
<1>1. s \in String /\ Len(s) <= n /\ Len(s) \in Nat /\ DOMAIN s = 1..Len(s)
  BY DEF IsText, String, Byte
<1> DEFINE ends == {j \in DOMAIN s : s[j] = 0}
<1>2. ends # {} /\ ends \subseteq Nat
  BY <1>1 DEF IsText
<1>3. PICK e \in ends : \A j \in ends : ~ (<<j, e>> \in OpToRel(<, Nat))
  BY <1>2, NatLessThanWellFounded, WFMin, Zenon
<1>4. \A j \in ends : ~ (j < e)
  BY <1>2, <1>3 DEF OpToRel
<1>5. EndsAt(s, e)
  BY <1>1, <1>4 DEF EndsAt
<1>6. Text(s) = SubSeq(s, 1, e)
  BY <1>1, <1>5, TextEnds
<1>7. e \in 1..Len(s) /\ s[e] = 0 /\ \A j \in 1..Len(s) : j < e => s[j] # 0
  BY <1>5 DEF EndsAt
<1> DEFINE t == SubSeq(s, 1, e)
<1>8. /\ t \in String /\ Len(t) = e
      /\ \A j \in 1..e : t[j] = s[j]
  <2>1. 1 \in 1..Len(s) + 1 /\ e \in Nat /\ 1 <= e + 1 /\ e <= Len(s) /\ e + 1 - 1 = e
    BY <1>1, <1>7
  <2>2. /\ t \in String /\ Len(t) = e
        /\ \A j \in 1..e : t[j] = s[1 + j - 1]
    BY <1>1, <2>1, Part
  <2>3. \A j \in 1..e : 1 + j - 1 = j
    BY <2>1
  <2> QED
    BY <2>2, <2>3
<1> HIDE DEF t
<1>9. Len(t) \in 1..n
  BY <1>1, <1>7, <1>8
<1>10. EndsAt(t, Len(t))
  <2>1. \A j \in 1..e : j \in 1..Len(s)
    BY <1>1, <1>7
  <2>2. e \in 1..e
    BY <1>1, <1>7
  <2> QED
    BY <1>7, <1>8, <2>1, <2>2 DEF EndsAt
<1> QED
  BY <1>1, <1>6, <1>8, <1>9, <1>10 DEF t

\* Whatever is behind a text, it is the text of the whole.
LEMMA TextBack ==
    ASSUME NEW t \in String, EndsAt(t, Len(t)), NEW a \in String, Len(t) <= Len(a),
           SubSeq(a, 1, Len(t)) = t
    PROVE  Text(a) = t
<1> DEFINE e == Len(t)
           u == SubSeq(a, 1, e)
<1>1. e \in 1..e /\ Len(a) \in Nat /\ e \in 1..Len(a)
  BY DEF EndsAt, String
<1>2. \A j \in 1..e : u[j] = a[j]
  <2>1. 1 \in 1..Len(a) + 1 /\ e \in Nat /\ 1 <= e + 1 /\ e <= Len(a) /\ e + 1 - 1 = e
    BY <1>1
  <2>2. \A j \in 1..e : u[j] = a[1 + j - 1]
    BY <2>1, Part
  <2>3. \A j \in 1..e : 1 + j - 1 = j
    BY <2>1
  <2> QED
    BY <2>2, <2>3
<1>3. u = t
  OBVIOUS
<1> HIDE DEF u
<1>4. EndsAt(a, e)
  <2>1. t[e] = 0 /\ \A j \in 1..e : j < e => t[j] # 0
    BY SMTT(30) DEF EndsAt
  <2>2. \A j \in 1..Len(a) : j < e => j \in 1..e
    BY <1>1, SMTT(30)
  <2>3. \A j \in 1..e : a[j] = t[j]
    BY <1>2, <1>3, SMTT(30)
  <2> QED
    BY <1>1, <2>1, <2>2, <2>3 DEF EndsAt
<1> QED
  BY <1>4, TextEnds

-----------------------------------------------------------------------------
(* Nodes put together.                                                     *)

\* At most five strings.
Five(s, n) ==
    /\ n \in 0..5 /\ Len(s) = n
    /\ s = [j \in 1..n |-> s[j]] /\ \A j \in 1..n : s[j] \in String

\* What FlattenSeq computes, up to each string.
Unrolled(s) ==
    CHOOSE f : f = [i \in 1..Len(s) |-> IF i = 1 THEN s[i] ELSE f[i - 1] \o s[i]]

LEMMA UnrolledIs ==
    ASSUME NEW s, Len(s) \in 1..5
    PROVE  Unrolled(s) =
             [i \in 1..Len(s) |-> IF i = 1 THEN s[i] ELSE Unrolled(s)[i - 1] \o s[i]]
<1> DEFINE F(f) == [i \in 1..Len(s) |-> IF i = 1 THEN s[i] ELSE f[i - 1] \o s[i]]
           a2 == s[1] \o s[2]
           a3 == a2 \o s[3]
           a4 == a3 \o s[4]
           a5 == a4 \o s[5]
           g == [i \in 1..Len(s) |-> CASE i = 1 -> s[1] [] i = 2 -> a2 [] i = 3 -> a3
                                       [] i = 4 -> a4 [] i = 5 -> a5]
<1>1. g = F(g)
  <2>1. \A i \in 1..Len(s) : g[i] = F(g)[i]
    OBVIOUS
  <2> QED
    BY <2>1
<1>2. \E f : f = F(f)
  BY <1>1
<1> QED
  BY <1>2 DEF Unrolled

\* How they follow from each other.
LEMMA UnrolledSteps ==
    ASSUME NEW s, NEW n \in 1..5, Len(s) = n
    PROVE  /\ Unrolled(s)[1] = s[1]
           /\ \A i, h \in 1..n : h = i + 1 => Unrolled(s)[h] = Unrolled(s)[i] \o s[h]
<1> DEFINE f == Unrolled(s)
           F == [i \in 1..n |-> IF i = 1 THEN s[i] ELSE f[i - 1] \o s[i]]
<1>1. f = F
  BY UnrolledIs
<1> HIDE DEF f
<1>2. F[1] = s[1]
  OBVIOUS
<1>3. ASSUME NEW h \in 1..n, h # 1
      PROVE  F[h] = f[h - 1] \o s[h]
  BY <1>3
<1> HIDE DEF F
<1>4. ASSUME NEW i \in 1..n, NEW h \in 1..n, h = i + 1
      PROVE  F[h] = f[i] \o s[h]
  <2>1. h # 1 /\ h - 1 = i
    BY <1>4
  <2> QED
    BY <1>3, <2>1
<1> QED
  BY <1>1, <1>2, <1>4 DEF f

\* The first of some strings can be set apart before they are put together.
LEMMA FlattenFront ==
    ASSUME NEW s, NEW t, NEW n \in 1..5, Five(s, n), Five(t, n - 1),
           \A j \in 1..n - 1 : t[j] = s[j + 1]
    PROVE  FlattenSeq(s) = s[1] \o FlattenSeq(t)
<1> DEFINE f == Unrolled(s)
           g == Unrolled(t)
<1>1. FlattenSeq(s) = f[n]
  BY DEF FlattenSeq, Unrolled, Five
<1>2. n - 1 # 0 => FlattenSeq(t) = g[n - 1]
  BY DEF FlattenSeq, Unrolled, Five
<1>3. n - 1 = 0 => FlattenSeq(t) = <<>>
  BY DEF FlattenSeq, Five
<1>4. Len(s) = n /\ Len(t) = n - 1 /\ \A j \in 1..n : s[j] \in String
  BY DEF Five
<1>5. f[1] = s[1] /\ \A i, h \in 1..n : h = i + 1 => f[h] = f[i] \o s[h]
  BY <1>4, UnrolledSteps
<1>6. n > 1 => g[1] = t[1] /\ \A i, h \in 1..n - 1 : h = i + 1 => g[h] = g[i] \o t[h]
  <2>1. n > 1 => n - 1 \in 1..5
    OBVIOUS
  <2> QED
    BY <1>4, <2>1, UnrolledSteps
<1> HIDE DEF f, g
<1>7. \A i \in 1..n - 1 : t[i] \in String /\ t[i] = s[i + 1]
  BY DEF Five
<1> DEFINE C(i) == g[i] \in String /\ \A h \in 1..n : h = i + 1 => f[h] = s[1] \o g[i]
<1>8. n > 1 => C(1)
  <2> SUFFICES ASSUME n > 1 PROVE C(1)
    OBVIOUS
  <2>1. 1 \in 1..n - 1 /\ 2 \in 1..n /\ 1 \in 1..n /\ 2 = 1 + 1
    OBVIOUS
  <2>2. f[2] = f[1] \o s[2]
    BY <1>5, <2>1
  <2>3. t[1] = s[2] /\ t[1] \in String
    BY <1>7, <2>1
  <2> QED
    BY <1>5, <1>6, <2>1, <2>2, <2>3
<1>9. ASSUME NEW i \in 1..n - 1, NEW h \in 1..n - 1, h = i + 1, C(i)
      PROVE  C(h)
  <2> SUFFICES ASSUME NEW e \in 1..n, e = h + 1
               PROVE  g[h] \in String /\ f[e] = s[1] \o g[h]
    <3>1. h + 1 \in 1..n
      OBVIOUS
    <3> QED
      BY <3>1
  <2>0. h \in 1..n /\ n > 1 /\ 1 \in 1..n
    OBVIOUS
  <2>1. f[e] = f[h] \o s[e]
    BY <1>5, <2>0
  <2>2. g[h] = g[i] \o t[h]
    BY <1>6, <1>9, <2>0
  <2>3. s[1] \in String /\ t[h] \in String /\ t[h] = s[e] /\ g[i] \in String
    BY <1>4, <1>7, <1>9, <2>0
  <2>4. (s[1] \o g[i]) \o t[h] = s[1] \o (g[i] \o t[h])
    BY <2>3, BehindBoth
  <2>5. g[h] \in String
    BY <2>2, <2>3, Behind2
  <2>6. f[h] = s[1] \o g[i]
    BY <1>9, <2>0
  <2> QED
    BY <2>1, <2>2, <2>3, <2>4, <2>5, <2>6
<1>10. n > 1 => C(n - 1)
  <2> HIDE DEF C
  <2>1. n > 2 => C(2)
    <3>1. n > 2 => 1 \in 1..n - 1 /\ 2 \in 1..n - 1 /\ n > 1 /\ 2 = 1 + 1
      OBVIOUS
    <3> QED
      BY <1>8, <1>9, <3>1
  <2>2. n > 3 => C(3)
    <3>1. n > 3 => 2 \in 1..n - 1 /\ 3 \in 1..n - 1 /\ n > 2 /\ 3 = 2 + 1
      OBVIOUS
    <3> QED
      BY <1>9, <2>1, <3>1
  <2>3. n > 4 => C(4)
    <3>1. n > 4 => 3 \in 1..n - 1 /\ 4 \in 1..n - 1 /\ n > 3 /\ 4 = 3 + 1
      OBVIOUS
    <3> QED
      BY <1>9, <2>2, <3>1
  <2>4. \/ ~ n > 1
        \/ n - 1 = 1 /\ n > 1
        \/ n - 1 = 2 /\ n > 2
        \/ n - 1 = 3 /\ n > 3
        \/ n - 1 = 4 /\ n > 4
    OBVIOUS
  <2> QED
    BY <1>8, <2>1, <2>2, <2>3, <2>4
<1>11. CASE n > 1
  <2>1. n - 1 # 0 /\ n = n - 1 + 1 /\ n \in 1..n
    BY <1>11
  <2> QED
    BY <1>1, <1>2, <1>10, <1>11, <2>1
<1>12. CASE n = 1
  <2>1. n - 1 = 0
    BY <1>12
  <2>2. s[1] \o <<>> = s[1]
    <3>1. s[1] \in String
      BY <1>4
    <3> QED
      BY <3>1 DEF String
  <2> QED
    BY <1>1, <1>3, <1>5, <1>12, <2>1, <2>2
<1> QED
  BY <1>11, <1>12

-----------------------------------------------------------------------------
(* The messages and their nodes.                                           *)

Msgs == RequestMsgs \cup RespondMsgs

\* What a field of a message holds, of either kind.
IntField(m, f, j) ==
    /\ m[f] \in Int /\ m[f] <= MaxInt
    /\ InRange(m[f]) <=> j <= Count(m)

TextField(m, f) ==
    /\ Size(m, f) \in 1..65
    /\ IsText(m[f], Reach)
    /\ Fits(m, f) \/ (f = "r2" /\ Unended(m))

\* No node is longer than this.
NodeMax == Reach + 84

\* What of the two bounds the lengths below need.
LEMMA Bounds ==
    /\ Reach \in Nat /\ 65 <= Reach
    /\ NodeMax \in Nat /\ NodeMax = Reach + 84
BY SMTT(20) DEF NodeMax, Reach

\* Nothing that is put together of five nodes is too long for a length.
LEMMA LengthsAreNumbers == \A l \in Nat : l <= NodeMax * 5 + 10 => IsNumber(l)
BY SMTT(20) DEF NodeMax, Reach, IsNumber

\* A text that ends inside its array is one of those.
LEMMA TextInside ==
    ASSUME NEW m, NEW f, Size(m, f) \in 1..65, IsText(m[f], Size(m, f))
    PROVE  TextField(m, f)
<1>1. Size(m, f) \in Nat /\ Reach \in Nat /\ Size(m, f) <= Reach
  BY Bounds
<1>2. Len(Text(m[f])) \in 1..Size(m, f)
  BY <1>1, TextIs
<1>3. Len(m[f]) \in Nat /\ Len(m[f]) <= Size(m, f)
  BY DEF IsText
<1>4. Len(m[f]) <= Reach
  BY <1>1, <1>3
<1>5. IsText(m[f], Reach)
  BY <1>4 DEF IsText
<1> QED
  BY <1>1, <1>2, <1>5 DEF TextField, Fits

\* The order of the fields of a message, and what they hold.
LEMMA FieldsOf ==
    ASSUME NEW m \in Msgs
    PROVE  /\ Count(m) \in 4..5
           /\ Reads(m) = Fields(m)
           /\ DOMAIN m = {Fields(m)[j] : j \in 1..5}
           /\ \A i, j \in 1..5 : Fields(m)[i] = Fields(m)[j] => i = j
           /\ \A j \in 1..5 : IF IsInt(Fields(m)[j]) THEN IntField(m, Fields(m)[j], j)
                              ELSE TextField(m, Fields(m)[j]) /\ j <= Count(m)
<1>1. CASE m \in RequestMsgs
  <2>1. DOMAIN m = {RequestFields[j] : j \in 1..5}
    BY <1>1, MessagesAssumption
  <2>2. IsRequest(m)
    BY <2>1 DEF IsRequest, RequestFields
  <2>3. Fields(m) = RequestFields /\ Reads(m) = RequestFields /\ Count(m) = 5
    BY <2>2 DEF Fields, Reads, RequestReads, RequestFields, Count
  <2>4. IntField(m, "cmdType", 1)
    <3>1. m.cmdType \in Nat /\ m.cmdType <= MaxInt
      BY <1>1, MessagesAssumption
    <3> QED
      BY <2>3, <3>1 DEF IntField, InRange
  <2>5. \A f \in {"clientId", "authCode", "serverId", "r1"} : TextField(m, f)
    <3>1. \A f \in DOMAIN RequestSize : IsText(m[f], RequestSize[f])
      BY <1>1, MessagesAssumption
    <3>2. /\ DOMAIN RequestSize = {"clientId", "authCode", "serverId", "r1"}
          /\ \A f \in DOMAIN RequestSize : RequestSize[f] \in 1..65
      BY DEF RequestSize
    <3> QED
      BY <2>2, <3>1, <3>2, TextInside DEF Size
  <2> QED
    BY <2>1, <2>3, <2>4, <2>5 DEF RequestFields, IsInt
<1>2. CASE m \in RespondMsgs
  <2>1. DOMAIN m = {RespondFields[j] : j \in 1..5}
    BY <1>2, MessagesAssumption
  <2>2. ~ IsRequest(m)
    BY <2>1 DEF IsRequest, RespondFields
  <2>3. Fields(m) = RespondFields /\ Reads(m) = RespondFields /\ Count(m) \in 4..5
    BY <2>2 DEF Fields, Reads, RespondReads, RespondFields, Count
  <2>4. IntField(m, "rv", 1) /\ IntField(m, "seckeyid", 5)
    <3>1. m.rv \in Nat /\ m.rv <= MaxInt /\ m.seckeyid \in Int /\ m.seckeyid <= MaxInt
      BY <1>2, MessagesAssumption
    <3>2. Count(m) = IF m.seckeyid < 0 THEN 4 ELSE 5
      BY <2>2 DEF Count
    <3>3. 1 <= Count(m) /\ (5 <= Count(m) <=> ~ m.seckeyid < 0)
      BY <3>2
    <3> QED
      BY <3>1, <3>3 DEF IntField, InRange
  <2>5. \A f \in {"clientId", "serverId", "r2"} : TextField(m, f)
    <3>1. /\ \A f \in {"clientId", "serverId"} : IsText(m[f], RespondSize[f])
          /\ IsText(m.r2, Reach)
      BY <1>2, MessagesAssumption
    <3>2. /\ \A f \in {"clientId", "serverId", "r2"} : RespondSize[f] \in 1..65
          /\ RespondSize.r2 = 64
      BY DEF RespondSize
    <3>3. TextField(m, "clientId") /\ TextField(m, "serverId")
      BY <2>2, <3>1, <3>2, TextInside DEF Size
    <3>4. TextField(m, "r2")
      <4>1. Size(m, "r2") = 64
        BY <2>2, <3>2 DEF Size
      <4>2. Reach \in Nat
        BY Bounds
      <4>3. Len(Text(m.r2)) \in 1..Reach
        BY <3>1, <4>2, TextIs
      <4>4. Len(Text(m.r2)) <= 64 \/ Len(Text(m.r2)) > 64
        BY <4>2, <4>3
      <4> QED
        BY <2>2, <3>1, <3>2, <4>1, <4>4 DEF TextField, Fits, Unended
    <3> QED
      BY <3>3, <3>4
  <2> QED
    BY <2>1, <2>3, <2>4, <2>5 DEF RespondFields, IsInt
<1> QED
  BY <1>1, <1>2 DEF Msgs

\* What a node of m is to those who write it, cut it out and read it.
NodeRead(m, j, w) ==
    LET f == Fields(m)[j]
    IN  IF IsInt(f) THEN ReadInteger(w) = m[f] ELSE DecodeChar(w) = Whole(Text(m[f]))

LEMMA NodeBack ==
    ASSUME NEW m \in Msgs, NEW j \in 1..Count(m), NEW x \in String
    PROVE  /\ Node(m, j) \in String /\ Len(Node(m, j)) \in 1..NodeMax
           /\ NodeRead(m, j, Node(m, j))
           /\ ElementSize(Node(m, j) \o x) = Len(Node(m, j))
<1> DEFINE f == Fields(m)[j]
<1>0. j \in 1..5 /\ j <= Count(m)
  <2>1. Count(m) \in 4..5
    BY FieldsOf
  <2> QED
    BY <2>1
<1>1. CASE IsInt(f)
  <2>1. m[f] \in Int /\ m[f] <= MaxInt /\ InRange(m[f])
    BY <1>0, <1>1, FieldsOf DEF IntField
  <2>2. IsNumber(m[f])
    BY <2>1, SMTT(20) DEF IsNumber, InRange, MaxInt
  <2>3. Node(m, j) = WriteInteger(m[f])
    BY <1>1 DEF Node
  <2>4. \A l \in 3..7 : l \in 1..NodeMax
    BY Bounds
  <2> QED
    BY <1>1, <2>2, <2>3, <2>4, IntegerBack DEF NodeRead
<1>2. CASE ~ IsInt(f)
  <2> DEFINE t == Text(m[f])
  <2>1. IsText(m[f], Reach)
    BY <1>0, <1>2, FieldsOf DEF TextField
  <2>2. Reach \in Nat
    BY Bounds
  <2>3. t \in String /\ Len(t) \in 1..Reach
    BY <2>1, <2>2, TextIs
  <2> HIDE DEF t
  <2>5. IsNumber(Len(t) + 1)
    <3>1. \A l \in 1..Reach : IsNumber(l + 1)
      <4>1. \A l \in 1..Reach : l + 1 \in Nat /\ l + 1 <= NodeMax * 5 + 10
        BY Bounds, SMTT(20)
      <4> QED
        BY <4>1, LengthsAreNumbers
    <3> QED
      BY <2>3, <3>1
  <2>6. Node(m, j) = WriteString(IdPrintable, t)
    BY <1>2 DEF Node, EncodeChar, WritePrintableString, WriteCharString, IdPrintable, IdBmp, t
  <2>7. DecodeChar(Node(m, j)) = ReadTagAndLength(Node(m, j))
    BY DEF DecodeChar, ReadPrintableString
  <2>8. /\ Node(m, j) \in String /\ Len(Node(m, j)) \in 1..7 + Len(t)
        /\ ReadTagAndLength(Node(m, j)) = Whole(t)
        /\ ElementSize(Node(m, j) \o x) = Len(Node(m, j))
    BY <2>3, <2>5, <2>6, StringBack
  <2>9. Len(Node(m, j)) \in 1..NodeMax
    <3>1. \A l \in 1..Reach : \A i \in 1..7 + l : i \in 1..NodeMax
      BY Bounds, SMTT(20)
    <3> QED
      BY <2>3, <2>8, <3>1
  <2> QED
    BY <1>2, <2>7, <2>8, <2>9 DEF NodeRead, t
<1> QED
  BY <1>1, <1>2

\* The nodes that are not cut out yet: one fewer, and one shorter.
LEMMA PackedFront ==
    ASSUME NEW m \in Msgs, NEW n \in 0..Count(m) - 1
    PROVE  PackedBehind(m, n) = Node(m, n + 1) \o PackedBehind(m, n + 1)
<1> DEFINE c == Count(m) - n
           s == [j \in 1..c |-> Node(m, n + j)]
           t == [j \in 1..Count(m) - (n + 1) |-> Node(m, n + 1 + j)]
<1>1. Count(m) \in 4..5
  BY FieldsOf
<1>2. c \in 1..5 /\ Count(m) - (n + 1) = c - 1 /\ c - 1 \in 0..5
  BY <1>1
<1>3. \A j \in 1..c : n + j \in 1..Count(m)
  BY <1>1
<1>4. \A j \in 1..Count(m) : Node(m, j) \in String
  <2>1. <<>> \in String
    BY DEF String
  <2> QED
    BY <2>1, NodeBack
<1>5. Five(s, c)
  <2>1. \A j \in 1..c : s[j] \in String
    BY <1>3, <1>4
  <2>2. Len(s) = c /\ c \in 0..5
    BY <1>2
  <2>3. s = [j \in 1..c |-> s[j]]
    OBVIOUS
  <2> QED
    BY <2>1, <2>2, <2>3 DEF Five
<1>6. Five(t, c - 1)
  <2>1. \A j \in 1..c - 1 : n + 1 + j \in 1..Count(m)
    BY <1>1
  <2>2. t = [j \in 1..c - 1 |-> Node(m, n + 1 + j)]
    BY <1>2
  <2>3. \A j \in 1..c - 1 : t[j] \in String
    BY <1>4, <2>1, <2>2
  <2>4. Len(t) = c - 1
    BY <1>2, <2>2
  <2>5. t = [j \in 1..c - 1 |-> t[j]]
    BY <2>2
  <2> QED
    BY <1>2, <2>3, <2>4, <2>5 DEF Five
<1>7. \A j \in 1..c - 1 : t[j] = s[j + 1]
  <2>1. \A j \in 1..c - 1 : j + 1 \in 1..c /\ n + (j + 1) = n + 1 + j
    BY <1>1
  <2>2. \A j \in 1..c - 1 : t[j] = Node(m, n + 1 + j)
    BY <1>2
  <2>3. \A j \in 1..c - 1 : s[j + 1] = Node(m, n + (j + 1))
    BY <2>1
  <2> QED
    BY <2>1, <2>2, <2>3
<1>8. s[1] = Node(m, n + 1)
  BY <1>2
<1>9. PackedBehind(m, n) = FlattenSeq(s) /\ PackedBehind(m, n + 1) = FlattenSeq(t)
  BY SMTT(30) DEF PackedBehind
<1> HIDE DEF s, t, c
<1>10. FlattenSeq(s) = s[1] \o FlattenSeq(t)
  BY <1>2, <1>5, <1>6, <1>7, FlattenFront
<1> QED
  BY <1>8, <1>9, <1>10

\* The last of them, and how long they are.
LEMMA PackedType ==
    ASSUME NEW m \in Msgs
    PROVE  /\ PackedBehind(m, Count(m)) = <<>>
           /\ \A n \in 0..Count(m) :
                 PackedBehind(m, n) \in String /\ Len(PackedBehind(m, n)) \in 0..NodeMax * 5
<1> DEFINE c == Count(m)
           P(n) == /\ PackedBehind(m, n) \in String
                   /\ Len(PackedBehind(m, n)) \in 0..NodeMax * (5 - n)
<1>1. c \in 4..5
  BY FieldsOf
<1> HIDE DEF c
<1>2. PackedBehind(m, c) = <<>>
  <2>1. c - c = 0
    BY <1>1
  <2>2. [j \in 1..0 |-> Node(m, c + j)] = <<>>
    OBVIOUS
  <2>3. FlattenSeq(<<>>) = <<>>
    BY DEF FlattenSeq
  <2> QED
    BY <2>1, <2>2, <2>3 DEF PackedBehind, c
<1>3. P(c)
  <2>1. <<>> \in String /\ Len(<<>>) = 0
    BY DEF String
  <2>2. 0 \in 0..NodeMax * (5 - c)
    BY <1>1, Bounds, SMTT(20)
  <2> QED
    BY <1>2, <2>1, <2>2
<1>4. ASSUME NEW n \in 0..4, n < c, P(n + 1)
      PROVE  P(n)
  <2>1. n \in 0..c - 1 /\ n + 1 \in 1..c
    BY <1>1, <1>4
  <2>2. PackedBehind(m, n) = Node(m, n + 1) \o PackedBehind(m, n + 1)
    BY <2>1, PackedFront DEF c
  <2>3. Node(m, n + 1) \in String /\ Len(Node(m, n + 1)) \in 1..NodeMax
    BY <1>4, <2>1, NodeBack DEF c
  <2>4. /\ PackedBehind(m, n) \in String
        /\ Len(PackedBehind(m, n)) = Len(Node(m, n + 1)) + Len(PackedBehind(m, n + 1))
    BY <1>4, <2>2, <2>3, Behind2
  <2>5. \A i \in 1..NodeMax : \A h \in 0..NodeMax * (5 - (n + 1)) :
           i + h \in 0..NodeMax * (5 - n)
    BY Bounds, SMTT(20)
  <2> QED
    BY <1>4, <2>3, <2>4, <2>5
<1>5. c = 5 => P(5)
  BY <1>3
<1>6. P(4)
  <2>1. c = 5 => 4 \in 0..4 /\ 4 < c /\ 4 + 1 = 5
    OBVIOUS
  <2>2. c = 4 \/ c = 5
    BY <1>1
  <2> HIDE DEF P
  <2> QED
    BY <1>3, <1>4, <1>5, <2>1, <2>2
<1>7. P(3) /\ P(2) /\ P(1) /\ P(0)
  <2>1. 3 \in 0..4 /\ 3 < c /\ 3 + 1 = 4
    BY <1>1
  <2>2. 2 \in 0..4 /\ 2 < c /\ 2 + 1 = 3
    BY <1>1
  <2>3. 1 \in 0..4 /\ 1 < c /\ 1 + 1 = 2
    BY <1>1
  <2>4. 0 \in 0..4 /\ 0 < c /\ 0 + 1 = 1
    BY <1>1
  <2> HIDE DEF P
  <2>5. P(3)
    BY <1>4, <1>6, <2>1
  <2>6. P(2)
    BY <1>4, <2>2, <2>5
  <2>7. P(1)
    BY <1>4, <2>3, <2>6
  <2> QED
    BY <1>4, <2>4, <2>5, <2>6, <2>7
<1>8. ASSUME NEW n \in 0..c
      PROVE  P(n)
  <2> HIDE DEF P
  <2>1. n \in 0..5 /\ (n = 5 => c = 5)
    BY <1>1
  <2>2. CASE n = 5
    BY <1>5, <2>1, <2>2, SMTT(30)
  <2>3. CASE n # 5
    <3>1. n \in {0, 1, 2, 3, 4}
      BY <2>1, <2>3, SMTT(30)
    <3> QED
      BY <1>6, <1>7, <3>1, SMTT(30)
  <2> QED
    BY <2>2, <2>3
<1>9. ASSUME NEW n \in 0..c
      PROVE  Len(PackedBehind(m, n)) \in 0..NodeMax * 5
  <2>1. n \in 0..5
    BY <1>1
  <2>2. \A h \in 0..5 : \A l \in 0..NodeMax * (5 - h) : l \in 0..NodeMax * 5
    BY Bounds, SMTT(20)
  <2>3. Len(PackedBehind(m, n)) \in 0..NodeMax * (5 - n)
    BY <1>8
  <2> QED
    BY <2>1, <2>2, <2>3
<1> QED
  BY <1>2, <1>8, <1>9 DEF c

-----------------------------------------------------------------------------
(* The invariant.                                                          *)

\* The part of the struct that a field of the decoder is.
Array(o, m, j) ==
    LET f == Fields(m)[j]
        size == Size(m, f)
        t == Text(m[f])
    IN  /\ o[f] \in String
        /\ Len(o[f]) = size \/ (Len(t) > size /\ Len(o[f]) = Len(t))

\* FieldOK with the state it is about.
Decoded1(m, o, j, read) ==
    IF IsInt(Fields(m)[j]) THEN read => o[Fields(m)[j]] = m[Fields(m)[j]]
    ELSE /\ Array(o, m, j)
         /\ read => SubSeq(o[Fields(m)[j]], 1, Len(Text(m[Fields(m)[j]]))) = Text(m[Fields(m)[j]])

LEMMA FieldIs ==
    ASSUME NEW j \in 1..5
    PROVE  FieldOK(j) <=> Decoded1(msg, out, j, pc \in {"decode", "done", "dead"} /\ j < k)
BY DEF FieldOK, Decoded1, Array, Holds, String, Byte

LEMMA FieldIsNext ==
    ASSUME NEW j \in 1..5
    PROVE  FieldOK(j)' <=>
             Decoded1(msg', out', j, pc' \in {"decode", "done", "dead"} /\ j < k')
BY DEF FieldOK, Decoded1, Array, Holds, String, Byte

\* What the decoder stores for an int spills into a text that comes later.
LEMMA SpillsLater ==
    ASSUME NEW m \in Msgs, NEW j \in 1..5, NEW i \in 1..5, IsInt(Fields(m)[j]),
           Fields(m)[i] \in Behind(m, Fields(m)[j])
    PROVE  i > j /\ ~ IsInt(Fields(m)[i])
<1>1. Fields(m) = RequestFields \/ Fields(m) = RespondFields
  BY DEF Fields
<1>2. CASE Fields(m) = RequestFields
  BY <1>2 DEF RequestFields, IsInt, Behind
<1>3. CASE Fields(m) = RespondFields
  BY <1>3 DEF RespondFields, IsInt, Behind
<1> QED
  BY <1>1, <1>2, <1>3

\* The list with one more node.
LEMMA OneNodeMore ==
    ASSUME NEW m, NEW n \in Nat
    PROVE  /\ Append(Nodes(m, n), Node(m, n + 1)) = Nodes(m, n + 1)
           /\ Len(Nodes(m, n)) = n
           /\ \A j \in 1..n : Nodes(m, n)[j] = Node(m, j)
BY DEF Nodes

\* Before the first step nothing is written and nothing is read.
LEMMA InitInv == Init => IndInv
<1> SUFFICES ASSUME Init
             PROVE  IndInv
  OBVIOUS
<1> USE DEF Init
<1>1. msg \in Msgs /\ Count(msg) \in 4..5
  BY FieldsOf DEF Msgs
<1>2. EncodeOK
  <2>1. Nodes(msg, 0) = <<>>
    BY DEF Nodes
  <2>2. 1 <= Count(msg) /\ 0 <= Count(msg) /\ 1 - 1 = 0
    BY <1>1
  <2>3. k = 1 /\ header = Nodes(msg, 0) /\ next = TRUE
    BY <2>1
  <2>4. k \in 1..6 /\ k - 1 = 0
    BY <2>3
  <2>5. next = (k - 1 <= Count(msg))
    BY <2>2, <2>3, <2>4
  <2>6. header = Nodes(msg, IF k <= Count(msg) THEN k - 1 ELSE Count(msg))
    BY <2>2, <2>3, <2>4
  <2> QED
    BY <2>4, <2>5, <2>6 DEF EncodeOK
<1>3. DOMAIN out = DOMAIN msg
  BY DEF Memory
<1>4. ASSUME NEW j \in 1..5
      PROVE  FieldOK(j)
  <2> DEFINE f == Fields(msg)[j]
  <2>1. CASE ~ IsInt(f)
    <3>1. Size(msg, f) \in 1..65 /\ f \in DOMAIN msg
      <4>1. TextField(msg, f)
        BY <1>1, <2>1, FieldsOf
      <4>2. f \in DOMAIN msg
        <5>1. DOMAIN msg = {Fields(msg)[i] : i \in 1..5}
          BY <1>1, FieldsOf
        <5> QED
          BY <5>1
      <4> QED
        BY <4>1, <4>2 DEF TextField
    <3>2. out[f] = [i \in 1..Size(msg, f) |-> Unset]
      BY <2>1, <3>1 DEF Memory
    <3>4. Unset \in Byte
      BY UnsetAssumption DEF Byte
    <3>5. \A n \in 1..65 : LET s == [i \in 1..n |-> Unset] IN s \in String /\ Len(s) = n
      BY <3>4 DEF String
    <3>3. out[f] \in String /\ Len(out[f]) = Size(msg, f)
      BY <3>1, <3>2, <3>5
    <3> QED
      BY <2>1, <3>3, FieldIs DEF Decoded1, Array
  <2>2. CASE IsInt(f)
    BY <2>2, FieldIs DEF Decoded1
  <2> QED
    BY <2>1, <2>2
<1> QED
  BY <1>1, <1>2, <1>3, <1>4 DEF IndInv, Msgs

\* Steps that read no field leave the fields as they are.
LEMMA FieldsStay ==
    ASSUME IndInv, UNCHANGED <<msg, out>>,
           \A j \in 1..5 : pc' \in {"decode", "done", "dead"} /\ j < k' =>
                           pc \in {"decode", "done", "dead"} /\ j < k
    PROVE  (DOMAIN out = DOMAIN msg)' /\ \A j \in 1..5 : FieldOK(j)'
<1>1. DOMAIN out' = DOMAIN msg'
  BY DEF IndInv
<1>2. ASSUME NEW j \in 1..5
      PROVE  FieldOK(j)'
  <2>1. FieldOK(j)
    BY DEF IndInv
  <2> QED
    BY <2>1, FieldIs, FieldIsNext DEF Decoded1, Array
<1> QED
  BY <1>1, <1>2

\* What the invariant says of the message.
LEMMA MsgFacts ==
    ASSUME IndInv
    PROVE  msg \in Msgs /\ Count(msg) \in 4..5
BY FieldsOf DEF IndInv, Msgs

\* A node of msgEncode: it is the next of the list, or there is none.
LEMMA NodeInv ==
    ASSUME IndInv, pc = "encode", k <= 5, UNCHANGED <<msg, pc, rest, out>>, k' = k + 1,
           header' = IF k <= Count(msg) THEN Append(header, Node(msg, k)) ELSE header,
           next' = (k <= Count(msg))
    PROVE  IndInv'
<1>1. Count(msg) \in 4..5 /\ EncodeOK
  BY MsgFacts DEF IndInv
<1>2. k \in 1..5 /\ k + 1 \in 1..6 /\ k + 1 - 1 = k /\ k - 1 + 1 = k /\ k - 1 \in Nat
  BY <1>1 DEF EncodeOK
<1>3. (DOMAIN out = DOMAIN msg)' /\ \A j \in 1..5 : FieldOK(j)'
  BY FieldsStay
<1>4. EncodeOK'
  <2>1. k' \in 1..6 /\ k' - 1 = k
    BY <1>2
  <2>2. next' = (k' - 1 <= Count(msg'))
    BY <2>1
  <2>3. CASE k <= Count(msg)
    <3>1. header = Nodes(msg, k - 1)
      BY <1>1, <2>3 DEF EncodeOK
    <3>2. header' = Nodes(msg, k)
      BY <1>2, <2>3, <3>1, OneNodeMore
    <3>3. ~ k + 1 <= Count(msg) => k = Count(msg)
      BY <1>1, <1>2, <2>3
    <3> QED
      BY <1>2, <2>1, <2>2, <3>2, <3>3 DEF EncodeOK
  <2>4. CASE ~ k <= Count(msg)
    <3>1. header = Nodes(msg, Count(msg))
      BY <1>1, <2>4 DEF EncodeOK
    <3>2. ~ k + 1 <= Count(msg)
      BY <1>1, <1>2, <2>4
    <3> QED
      BY <2>1, <2>2, <2>4, <3>1, <3>2 DEF EncodeOK
  <2> QED
    BY <2>3, <2>4
<1> QED
  BY <1>3, <1>4 DEF IndInv

LEMMA WriteInv ==
    ASSUME IndInv, WriteIntNode \/ WriteTextNode
    PROVE  IndInv'
<1>1. msg \in Msgs /\ Count(msg) \in 4..5 /\ pc = "encode" /\ k <= 5 /\ EncodeOK
  BY MsgFacts DEF IndInv, WriteIntNode, WriteTextNode
<1>2. k \in 1..5 /\ k - 1 <= Count(msg)
  BY <1>1 DEF EncodeOK
<1>3. next = TRUE
  BY <1>1, <1>2 DEF EncodeOK
<1>4. CASE WriteIntNode
  <2>1. IsInt(Fields(msg)[k]) /\ IntField(msg, Fields(msg)[k], k)
    BY <1>1, <1>2, <1>4, FieldsOf DEF WriteIntNode, Field
  <2>2. InRange(msg[Fields(msg)[k]]) <=> k <= Count(msg)
    BY <2>1 DEF IntField
  <2>3. Node(msg, k) = WriteInteger(msg[Fields(msg)[k]])
    BY <2>1 DEF Node
  <2>4. /\ header' = IF k <= Count(msg) THEN Append(header, Node(msg, k)) ELSE header
        /\ k' = k + 1 /\ UNCHANGED <<msg, pc, rest, out>>
    BY <1>3, <1>4, <2>2, <2>3 DEF WriteIntNode, Field
  <2>5. next' = InRange(msg[Fields(msg)[k]])
    BY <1>3, <1>4 DEF WriteIntNode, Field
  <2>6. next' = (k <= Count(msg))
    BY <2>2, <2>5 DEF InRange
  <2> QED
    BY <1>1, <2>4, <2>6, NodeInv
<1>5. CASE WriteTextNode
  <2>1. ~ IsInt(Fields(msg)[k]) /\ k <= Count(msg)
    BY <1>1, <1>2, <1>5, FieldsOf DEF WriteTextNode, Field
  <2>2. Node(msg, k) = EncodeChar(Text(msg[Fields(msg)[k]]))
    BY <2>1 DEF Node
  <2>3. /\ header' = Append(header, Node(msg, k)) /\ next' = next
        /\ k' = k + 1 /\ UNCHANGED <<msg, pc, rest, out>>
    BY <1>3, <1>5, <2>2 DEF WriteTextNode, Field
  <2>4. next' = (k <= Count(msg))
    BY <1>3, <2>1, <2>3
  <2> QED
    BY <1>1, <2>1, <2>3, <2>4, NodeInv
<1> QED
  BY <1>4, <1>5

\* packSequence puts together what msgEncode made.
LEMMA PackInv ==
    ASSUME IndInv, PackSequence
    PROVE  IndInv'
<1>1. Count(msg) \in 4..5 /\ EncodeOK /\ k = 6 /\ pc = "encode"
  BY MsgFacts DEF IndInv, PackSequence
<1>2. header = Nodes(msg, Count(msg))
  BY <1>1 DEF EncodeOK
<1>3. PackedBehind(msg, 0) = FlattenSeq(Nodes(msg, Count(msg)))
  <2>1. Count(msg) - 0 = Count(msg) /\ \A j \in 1..Count(msg) : 0 + j = j
    BY <1>1
  <2>2. [j \in 1..Count(msg) - 0 |-> Node(msg, 0 + j)] = Nodes(msg, Count(msg))
    BY <2>1 DEF Nodes
  <2> QED
    BY <2>2 DEF PackedBehind
<1>4. UnpackOK'
  BY <1>2, <1>3, SMTT(30) DEF UnpackOK, PackSequence
<1>5. (DOMAIN out = DOMAIN msg)' /\ \A j \in 1..5 : FieldOK(j)'
  BY FieldsStay, SMTT(30) DEF PackSequence
<1> QED
  BY <1>4, <1>5 DEF IndInv, PackSequence

\* The sequence that arrives, before its first element is taken out.
LEMMA PackedWhole ==
    ASSUME NEW m \in Msgs
    PROVE  /\ IsNumber(Len(PackedBehind(m, 0)))
           /\ SequenceContent(WriteSequence(PackedBehind(m, 0))) = Whole(PackedBehind(m, 0))
<1>1. 0 \in 0..Count(m)
  <2>1. Count(m) \in 4..5
    BY FieldsOf
  <2> QED
    BY <2>1
<1>2. PackedBehind(m, 0) \in String /\ Len(PackedBehind(m, 0)) \in 0..NodeMax * 5
  BY <1>1, PackedType
<1>3. \A l \in 0..NodeMax * 5 : IsNumber(l)
  <2>1. \A l \in 0..NodeMax * 5 : l \in Nat /\ l <= NodeMax * 5 + 10
    BY Bounds, SMTT(20)
  <2> QED
    BY <2>1, LengthsAreNumbers
<1> QED
  BY <1>2, <1>3, SequenceBack, ZenonT(60)

LEMMA UnpackHeaderInv ==
    ASSUME IndInv, UnpackHeader
    PROVE  IndInv'
<1>1. msg \in Msgs /\ Count(msg) \in 4..5 /\ UnpackOK /\ k = 0 /\ pc = "unpack"
  BY MsgFacts DEF IndInv, UnpackHeader
<1>2. header = <<>> /\ rest = WriteSequence(PackedBehind(msg, 0))
  BY <1>1 DEF UnpackOK
<1>3. SequenceContent(rest) = Whole(PackedBehind(msg, 0))
  BY <1>1, <1>2, PackedWhole
<1>4. rest' = PackedBehind(msg, 0) /\ pc' = "unpack" /\ k' = 1 /\ UNCHANGED <<msg, header, out>>
  BY <1>3 DEF UnpackHeader, Whole
<1>5. UnpackOK'
  <2>1. Nodes(msg, 0) = <<>>
    BY DEF Nodes
  <2>2. 0 \in 0..Count(msg)
    BY <1>1
  <2> QED
    BY <1>2, <1>4, <2>1, <2>2 DEF UnpackOK
<1>6. (DOMAIN out = DOMAIN msg)' /\ \A j \in 1..5 : FieldOK(j)'
  BY <1>4, FieldsStay
<1> QED
  BY <1>4, <1>5, <1>6 DEF IndInv

\* While octets are left, the next node is at their front.
LEMMA NodeLeft ==
    ASSUME NEW m \in Msgs, NEW n \in 0..Count(m), PackedBehind(m, n) # <<>>
    PROVE  /\ n + 1 \in 1..Count(m) /\ n < 5
           /\ ElementSize(PackedBehind(m, n)) = Len(Node(m, n + 1))
           /\ Len(Node(m, n + 1)) <= Len(PackedBehind(m, n))
           /\ SubSeq(PackedBehind(m, n), 1, Len(Node(m, n + 1))) = Node(m, n + 1)
           /\ SubSeq(PackedBehind(m, n), Len(Node(m, n + 1)) + 1, Len(PackedBehind(m, n)))
                = PackedBehind(m, n + 1)
<1>1. Count(m) \in 4..5
  BY FieldsOf
<1>2. n # Count(m)
  BY PackedType, SMTT(30)
<1>3. n \in 0..Count(m) - 1 /\ n + 1 \in 1..Count(m) /\ n + 1 \in 0..Count(m) /\ n < 5
  BY <1>1, <1>2, SMTT(30)
<1> DEFINE w == Node(m, n + 1)
           p == PackedBehind(m, n + 1)
<1>4. PackedBehind(m, n) = w \o p
  BY <1>3, PackedFront, SMTT(30)
<1>5. p \in String
  BY <1>3, PackedType
<1>6. w \in String /\ ElementSize(w \o p) = Len(w)
  BY <1>3, <1>5, NodeBack
<1> HIDE DEF w, p
<1>7. Len(w \o p) = Len(w) + Len(p) /\ Len(w) \in Nat /\ Len(p) \in Nat
  BY <1>5, <1>6, Behind2 DEF String
<1>8. Len(w) <= Len(w \o p)
  BY <1>7
<1>9. SubSeq(w \o p, 1, Len(w)) = w /\ SubSeq(w \o p, Len(w) + 1, Len(w \o p)) = p
  BY <1>5, <1>6, CutApart
<1> QED
  BY <1>3, <1>4, <1>6, <1>8, <1>9, SMTT(30) DEF w, p

LEMMA UnpackElementInv ==
    ASSUME IndInv, UnpackElement
    PROVE  IndInv'
<1>1. msg \in Msgs /\ UnpackOK /\ k = 1 /\ pc = "unpack" /\ rest # <<>>
  BY MsgFacts DEF IndInv, UnpackElement
<1>2. PICK n \in 0..Count(msg) : header = Nodes(msg, n) /\ rest = PackedBehind(msg, n)
  BY <1>1 DEF UnpackOK
<1>3. /\ n + 1 \in 1..Count(msg)
      /\ SubSeq(rest, 1, ElementSize(rest)) = Node(msg, n + 1)
      /\ SubSeq(rest, ElementSize(rest) + 1, Len(rest)) = PackedBehind(msg, n + 1)
  BY <1>1, <1>2, NodeLeft
<1>4. header' = Nodes(msg, n + 1) /\ rest' = PackedBehind(msg, n + 1)
  <2>1. n \in Nat
    BY <1>2
  <2>2. /\ header' = Append(header, SubSeq(rest, 1, ElementSize(rest)))
        /\ rest' = SubSeq(rest, ElementSize(rest) + 1, Len(rest))
    BY DEF UnpackElement
  <2>3. Append(Nodes(msg, n), Node(msg, n + 1)) = Nodes(msg, n + 1)
    BY <2>1, OneNodeMore
  <2> QED
    BY <1>2, <1>3, <2>2, <2>3
<1>5. n + 1 \in 0..Count(msg)
  BY <1>3
<1>6. UNCHANGED <<msg, pc, k, out>>
  BY DEF UnpackElement
<1>7. UnpackOK'
  BY <1>1, <1>4, <1>5, <1>6 DEF UnpackOK
<1>8. (DOMAIN out = DOMAIN msg)' /\ \A j \in 1..5 : FieldOK(j)'
  BY <1>6, FieldsStay
<1> QED
  BY <1>1, <1>6, <1>7, <1>8 DEF IndInv

\* When no octet is left the list is whole.
LEMMA UnpackedInv ==
    ASSUME IndInv, Unpacked
    PROVE  IndInv'
<1>1. msg \in Msgs /\ Count(msg) \in 4..5 /\ UnpackOK /\ k = 1 /\ pc = "unpack" /\ rest = <<>>
  BY MsgFacts DEF IndInv, Unpacked
<1>2. PICK n \in 0..Count(msg) : header = Nodes(msg, n) /\ rest = PackedBehind(msg, n)
  BY <1>1 DEF UnpackOK
<1>3. n = Count(msg)
  <2> SUFFICES ASSUME n # Count(msg)
               PROVE  FALSE
    OBVIOUS
  <2>1. n \in 0..Count(msg) - 1 /\ n + 1 \in 1..Count(msg) /\ n + 1 \in 0..Count(msg)
    BY <1>1
  <2>2. rest = Node(msg, n + 1) \o PackedBehind(msg, n + 1)
    BY <1>1, <1>2, <2>1, PackedFront, SMTT(30)
  <2>3. PackedBehind(msg, n + 1) \in String
    BY <1>1, <2>1, PackedType
  <2>4. Node(msg, n + 1) \in String /\ Len(Node(msg, n + 1)) \in 1..NodeMax
    BY <1>1, <2>1, <2>3, NodeBack
  <2>5. Len(rest) = Len(Node(msg, n + 1)) + Len(PackedBehind(msg, n + 1))
    BY <2>2, <2>3, <2>4, Behind2
  <2>6. Len(rest) = 0 /\ Len(PackedBehind(msg, n + 1)) \in Nat
    BY <1>1, <2>3 DEF String
  <2>7. \A i \in 1..NodeMax : \A h \in Nat : i + h # 0
    OBVIOUS
  <2> QED
    BY <2>4, <2>5, <2>6, <2>7
<1>4. UNCHANGED <<msg, k, header, out>> /\ pc' = "decode"
  BY DEF Unpacked
<1>5. DecodeOK'
  <2>1. 1 \in 1..Count(msg) + 1
    BY <1>1
  <2> QED
    BY <1>1, <1>2, <1>3, <1>4, <2>1 DEF DecodeOK
<1>6. (DOMAIN out = DOMAIN msg)' /\ \A j \in 1..5 : FieldOK(j)'
  <2>1. \A j \in 1..5 : ~ j < k'
    BY <1>1, <1>4
  <2> QED
    BY <1>4, <2>1, FieldsStay
<1> QED
  BY <1>4, <1>5, <1>6 DEF IndInv

\* What msgDecode has at hand.
LEMMA DecodeFacts ==
    ASSUME IndInv, pc = "decode"
    PROVE  /\ DecodeOK /\ k \in 1..6 /\ k <= Count(msg) + 1 /\ Len(header) = Count(msg)
           /\ \A j \in 1..Count(msg) : header[j] = Node(msg, j) /\ NodeRead(msg, j, header[j])
<1>1. msg \in Msgs /\ Count(msg) \in 4..5 /\ DecodeOK
  BY MsgFacts DEF IndInv
<1>2. header = Nodes(msg, Count(msg)) /\ k \in 1..Count(msg) + 1
  BY <1>1 DEF DecodeOK
<1>3. k \in 1..6 /\ k <= Count(msg) + 1
  BY <1>1, <1>2
<1>4. Len(header) = Count(msg) /\ \A j \in 1..Count(msg) : header[j] = Node(msg, j)
  BY <1>1, <1>2, OneNodeMore, SMTT(30)
<1>5. \A j \in 1..Count(msg) : NodeRead(msg, j, Node(msg, j))
  <2>1. <<>> \in String
    BY DEF String
  <2> QED
    BY <1>1, <2>1, NodeBack
<1> QED
  BY <1>1, <1>3, <1>4, <1>5

\* A read that finds no node ends the process, and it was the last one; one
\* that copies too much may.
LEMMA DieInv ==
    ASSUME IndInv, pc = "decode", k <= 5, k > Len(header) \/ Unended(msg), Die
    PROVE  IndInv'
<1>1. Count(msg) \in 4..5
  BY MsgFacts
<1>2. DecodeOK /\ k \in 1..6 /\ k <= Count(msg) + 1 /\ Len(header) = Count(msg)
  BY DecodeFacts
<1>3. (k = 5 /\ Count(msg) = 4) \/ Unended(msg)
  BY <1>1, <1>2
<1>4. DecodeOK'
  BY <1>2, <1>3 DEF DecodeOK, Die
<1>5. (DOMAIN out = DOMAIN msg)' /\ \A j \in 1..5 : FieldOK(j)'
  BY FieldsStay DEF Die
<1> QED
  BY <1>4, <1>5 DEF IndInv, Die

\* A read of the field k leaves those before it as they were.
LEMMA ReadInv ==
    ASSUME IndInv, pc = "decode", k <= 5, k <= Count(msg),
           UNCHANGED <<msg, pc, header, next, rest>>, k' = k + 1, DOMAIN out' = DOMAIN out,
           Decoded1(msg, out', k, TRUE),
           \A j \in 1..5 : j # k /\ ~ IsInt(Fields(msg)[j]) /\ Array(out, msg, j) =>
              Array(out', msg, j),
           \A j \in 1..5 : j < k => out'[Fields(msg)[j]] = out[Fields(msg)[j]]
    PROVE  IndInv'
<1>1. DecodeOK /\ k \in 1..5 /\ k + 1 \in 1..Count(msg) + 1
  <2>1. Count(msg) \in 4..5 /\ DecodeOK /\ k \in 1..6
    BY MsgFacts, DecodeFacts
  <2> QED
    BY <2>1
<1>2. DecodeOK'
  BY <1>1 DEF DecodeOK
<1>3. DOMAIN out' = DOMAIN msg'
  BY DEF IndInv
<1>4. ASSUME NEW j \in 1..5
      PROVE  FieldOK(j)'
  <2>1. Decoded1(msg, out, j, j < k)
    BY FieldIs DEF IndInv
  <2>2. Decoded1(msg, out', j, j < k + 1)
    <3>1. CASE j = k
      BY <3>1 DEF Decoded1
    <3>2. CASE j < k
      <4>1. j < k + 1
        BY <1>1, <3>2
      <4> QED
        BY <2>1, <3>2, <4>1 DEF Decoded1, Array
    <3>3. CASE j > k
      <4>1. ~ j < k + 1 /\ j # k
        BY <1>1, <3>3
      <4> QED
        BY <2>1, <4>1 DEF Decoded1
    <3> QED
      BY <1>1, <3>1, <3>2, <3>3
  <2> QED
    BY <2>2, FieldIsNext
<1> QED
  BY <1>2, <1>3, <1>4 DEF IndInv

\* The four octets that spill over an array are octets, and do not make it longer.
LEMMA SpilledOver ==
    ASSUME NEW a \in String
    PROVE  LET b == [j \in DOMAIN a |-> IF j <= 4 THEN 0 ELSE a[j]]
           IN  b \in String /\ Len(b) = Len(a)
<1> DEFINE b == [j \in DOMAIN a |-> IF j <= 4 THEN 0 ELSE a[j]]
<1>1. DOMAIN a = 1..Len(a) /\ Len(a) \in Nat /\ \A j \in 1..Len(a) : a[j] \in Byte
  BY DEF String
<1>2. 0 \in Byte
  BY DEF Byte
<1>3. b = [j \in 1..Len(a) |-> IF j <= 4 THEN 0 ELSE a[j]]
  BY <1>1
<1>4. \A j \in 1..Len(a) : (IF j <= 4 THEN 0 ELSE a[j]) \in Byte
  BY <1>1, <1>2
<1> HIDE DEF b
<1>5. b \in String /\ Len(b) = Len(a)
  BY <1>1, <1>3, <1>4 DEF String
<1> QED
  BY <1>5 DEF b

LEMMA ReadIntInv ==
    ASSUME IndInv, ReadIntNode
    PROVE  IndInv'
<1>1. pc = "decode" /\ k <= 5 /\ msg \in Msgs
  BY MsgFacts DEF ReadIntNode
<1>2. CASE k > Len(header)
  BY <1>1, <1>2, DieInv DEF ReadIntNode
<1>3. CASE ~ k > Len(header)
  <2> DEFINE f == Fields(msg)[k]
  <2>1. k \in 1..5 /\ k <= Count(msg) /\ k \in 1..Count(msg)
    <3>1. k \in 1..6 /\ Len(header) = Count(msg) /\ Count(msg) \in 4..5
      BY <1>1, DecodeFacts, MsgFacts
    <3> QED
      BY <1>1, <1>3, <3>1
  <2>2. Target = f /\ IsInt(f)
    BY <1>1, FieldsOf DEF ReadIntNode, Target
  <2>3. ReadInteger(header[k]) = msg[f]
    <3>1. NodeRead(msg, k, header[k])
      BY <1>1, <2>1, DecodeFacts
    <3> QED
      BY <2>2, <3>1 DEF NodeRead
  <2>4. out' = [g \in DOMAIN out |->
                  IF g = f THEN msg[f]
                  ELSE IF g \in Behind(msg, f)
                  THEN [j \in DOMAIN out[g] |-> IF j <= 4 THEN 0 ELSE out[g][j]]
                  ELSE out[g]]
    BY <1>3, <2>2, <2>3 DEF ReadIntNode
  <2>5. k' = k + 1 /\ UNCHANGED <<msg, pc, header, next, rest>>
    BY <1>3 DEF ReadIntNode
  <2>6. \A j \in 1..5 : Fields(msg)[j] \in DOMAIN out
    BY <1>1, FieldsOf DEF IndInv
  <2>7. out'[f] = msg[f]
    BY <2>1, <2>4, <2>6
  <2>8. \A j \in 1..5 : j # k => Fields(msg)[j] # f
    BY <1>1, <2>1, FieldsOf
  <2>9. ASSUME NEW j \in 1..5, j # k, ~ IsInt(Fields(msg)[j]), Array(out, msg, j)
        PROVE  Array(out', msg, j)
    <3> DEFINE g == Fields(msg)[j]
               b == [i \in DOMAIN out[g] |-> IF i <= 4 THEN 0 ELSE out[g][i]]
    <3>1. g \in DOMAIN out /\ g # f
      BY <2>6, <2>8, <2>9
    <3>2. out'[g] = IF g \in Behind(msg, f) THEN b ELSE out[g]
      BY <2>4, <3>1
    <3>3. out[g] \in String
      BY <2>9 DEF Array
    <3>4. b \in String /\ Len(b) = Len(out[g])
      BY <3>3, SpilledOver
    <3> QED
      BY <2>9, <3>2, <3>3, <3>4 DEF Array
  <2>10. ASSUME NEW j \in 1..5, j < k
         PROVE  out'[Fields(msg)[j]] = out[Fields(msg)[j]]
    <3>1. j # k /\ ~ j > k
      BY <2>1, <2>10
    <3>2. Fields(msg)[j] \notin Behind(msg, f)
      BY <1>1, <2>1, <2>2, <3>1, SpillsLater
    <3> QED
      BY <2>4, <2>6, <2>8, <3>1, <3>2
  <2>11. Decoded1(msg, out', k, TRUE)
    BY <2>2, <2>7 DEF Decoded1
  <2>12. DOMAIN out' = DOMAIN out
    BY <2>4
  <2> HIDE DEF f
  <2> QED
    BY <1>1, <2>1, <2>5, <2>9, <2>10, <2>11, <2>12, ReadInv
<1> QED
  BY <1>2, <1>3

\* A text that is longer than the array is all there is of it then.
LEMMA CopiedOver ==
    ASSUME NEW a \in String, NEW t \in String, Len(t) > Len(a)
    PROVE  CopyTo(a, t) = t /\ SubSeq(t, 1, Len(t)) = t
<1>1. SubSeq(a, Len(t) + 1, Len(a)) = <<>>
  BY DEF String
<1>2. t \o <<>> = t /\ SubSeq(t, 1, Len(t)) = t
  BY DEF String
<1> QED
  BY <1>1, <1>2 DEF CopyTo

\* A text that fits is at the start of the array and leaves its length.
LEMMA CopiedIn ==
    ASSUME NEW a \in String, NEW t \in String, Len(t) <= Len(a)
    PROVE  /\ CopyTo(a, t) \in String /\ Len(CopyTo(a, t)) = Len(a)
           /\ SubSeq(CopyTo(a, t), 1, Len(t)) = t
<1> DEFINE u == SubSeq(a, Len(t) + 1, Len(a))
<1>1. Len(a) \in Nat /\ Len(t) \in Nat
  BY DEF String
<1>2. Len(t) + 1 \in 1..Len(a) + 1 /\ Len(t) + 1 <= Len(a) + 1 /\ Len(a) <= Len(a)
  BY <1>1
<1>3. u \in String /\ Len(u) = Len(a) + 1 - (Len(t) + 1)
  BY <1>1, <1>2, Part
<1>4. CopyTo(a, t) = t \o u
  BY DEF CopyTo
<1> HIDE DEF u
<1>5. t \o u \in String /\ Len(t \o u) = Len(t) + Len(u)
  BY <1>3, Behind2
<1>6. Len(t) + Len(u) = Len(a)
  BY <1>1, <1>3
<1>7. SubSeq(t \o u, 1, Len(t)) = t
  BY <1>3, CutApart
<1> QED
  BY <1>4, <1>5, <1>6, <1>7

\* A text that was copied to its array, past its end or not.
LEMMA Copied ==
    ASSUME NEW m, NEW o, NEW p, NEW j, ~ IsInt(Fields(m)[j]), Array(o, m, j),
           LET t == Text(m[Fields(m)[j]])
           IN  t \in String /\ Len(t) \in Nat /\ Size(m, Fields(m)[j]) \in Nat,
           p[Fields(m)[j]] = CopyTo(o[Fields(m)[j]], Text(m[Fields(m)[j]]))
    PROVE  Decoded1(m, p, j, TRUE)
<1> DEFINE f == Fields(m)[j]
           t == Text(m[f])
           a == o[f]
<1>1. /\ t \in String /\ Len(t) \in Nat /\ Size(m, f) \in Nat
      /\ a \in String /\ Len(a) \in Nat /\ p[f] = CopyTo(a, t) /\ ~ IsInt(f)
      /\ Len(a) = Size(m, f) \/ (Len(t) > Size(m, f) /\ Len(a) = Len(t))
  BY DEF Array, String
<1>2. SUFFICES /\ p[f] \in String
               /\ Len(p[f]) = Size(m, f) \/ (Len(t) > Size(m, f) /\ Len(p[f]) = Len(t))
               /\ SubSeq(p[f], 1, Len(t)) = t
  BY <1>1 DEF Decoded1, Array
<1> HIDE DEF a, t, f
<1>3. CASE Len(t) <= Len(a)
  <2>1. /\ CopyTo(a, t) \in String /\ Len(CopyTo(a, t)) = Len(a)
        /\ SubSeq(CopyTo(a, t), 1, Len(t)) = t
    BY <1>1, <1>3, CopiedIn
  <2> QED
    BY <1>1, <2>1
<1>4. CASE Len(t) > Len(a)
  <2>1. CopyTo(a, t) = t /\ SubSeq(t, 1, Len(t)) = t
    BY <1>1, <1>4, CopiedOver
  <2> QED
    BY <1>1, <1>4, <2>1
<1> QED
  BY <1>1, <1>3, <1>4

\* A text of a message that is longer than its array is an r2 nobody has set.
LEMMA TextLonger ==
    ASSUME NEW m, NEW f, TextField(m, f), Len(Text(m[f])) > Size(m, f)
    PROVE  f = "r2" /\ Unended(m)
<1>1. Size(m, f) \in 1..65 /\ IsText(m[f], Reach) /\ Reach \in Nat
  BY Bounds DEF TextField
<1>2. Len(Text(m[f])) \in 1..Reach
  BY <1>1, TextIs
<1>3. ~ Len(Text(m[f])) <= Size(m, f)
  <2> DEFINE l == Len(Text(m[f]))
             s == Size(m, f)
  <2>1. l \in Nat /\ s \in Nat /\ l > s
    <3>1. \A i \in 1..65 : i \in Nat
      OBVIOUS
    <3>2. \A i \in 1..Reach : i \in Nat
      OBVIOUS
    <3> QED
      BY <1>1, <1>2, <3>1, <3>2, Zenon
  <2> HIDE DEF l, s
  <2>2. ~ l <= s
    BY <2>1
  <2> QED
    BY <2>2 DEF l, s
<1> QED
  BY <1>3 DEF TextField, Fits

LEMMA ReadTextInv ==
    ASSUME IndInv, ReadTextNode
    PROVE  IndInv'
<1>1. pc = "decode" /\ k <= 5 /\ msg \in Msgs
  BY MsgFacts DEF ReadTextNode
<1>2. CASE k > Len(header)
  BY <1>1, <1>2, DieInv DEF ReadTextNode
<1>3. CASE ~ k > Len(header)
  <2> DEFINE f == Fields(msg)[k]
             t == Text(msg[f])
  <2>1. k \in 1..5 /\ k <= Count(msg) /\ k \in 1..Count(msg)
    <3>1. k \in 1..6 /\ Len(header) = Count(msg) /\ Count(msg) \in 4..5
      BY <1>1, DecodeFacts, MsgFacts
    <3> QED
      BY <1>1, <1>3, <3>1
  <2>2. Target = f /\ ~ IsInt(f)
    BY <1>1, FieldsOf DEF ReadTextNode, Target
  <2>3. DecodeChar(header[k]).ok /\ DecodeChar(header[k]).value = t
    <3>1. NodeRead(msg, k, header[k])
      BY <1>1, <2>1, DecodeFacts
    <3> QED
      BY <2>2, <3>1 DEF NodeRead, Whole
  <2>0. TextField(msg, f)
    BY <1>1, <2>1, <2>2, FieldsOf
  <2>4. CASE Len(t) > Size(msg, f) /\ Die
    <3>1. Unended(msg)
      BY <2>0, <2>4, TextLonger
    <3> QED
      BY <1>1, <2>4, <3>1, DieInv
  <2>5. CASE /\ out' = [out EXCEPT ![f] = CopyTo(@, t)]
             /\ k' = k + 1 /\ UNCHANGED <<msg, pc, header, next, rest>>
    <3>1. \A j \in 1..5 : Fields(msg)[j] \in DOMAIN out
      BY <1>1, FieldsOf DEF IndInv
    <3>2. Array(out, msg, k)
      <4>1. Decoded1(msg, out, k, pc \in {"decode", "done", "dead"} /\ k < k)
        BY <2>1, FieldIs DEF IndInv
      <4> QED
        BY <2>2, <4>1 DEF Decoded1
    <3>3. t \in String /\ Len(t) \in Nat /\ Size(msg, f) \in Nat
      <4>1. Size(msg, f) \in 1..65 /\ IsText(msg[f], Reach) /\ Reach \in Nat
        BY <2>0, Bounds DEF TextField
      <4>2. t \in String /\ Len(t) \in 1..Reach
        BY <4>1, TextIs
      <4>3. \A i \in 1..65 : i \in Nat
        OBVIOUS
      <4>4. \A i \in 1..Reach : i \in Nat
        OBVIOUS
      <4> QED
        BY <4>1, <4>2, <4>3, <4>4, Zenon
    <3>4. out'[f] = CopyTo(out[f], t)
      BY <2>1, <2>5, <3>1
    <3>5. \A j \in 1..5 : j # k => out'[Fields(msg)[j]] = out[Fields(msg)[j]]
      <4>1. \A j \in 1..5 : j # k => Fields(msg)[j] # f
        BY <1>1, <2>1, FieldsOf
      <4> QED
        BY <2>5, <3>1, <4>1
    <3>6. Decoded1(msg, out', k, TRUE)
      BY <2>2, <3>2, <3>3, <3>4, Copied
    <3>7. DOMAIN out' = DOMAIN out
      BY <2>5
    <3>8. \A j \in 1..5 : j # k /\ ~ IsInt(Fields(msg)[j]) /\ Array(out, msg, j) =>
              Array(out', msg, j)
      BY <3>5 DEF Array
    <3>9. \A j \in 1..5 : j < k => out'[Fields(msg)[j]] = out[Fields(msg)[j]]
      BY <2>1, <3>5
    <3> HIDE DEF f, t
    <3> QED
      BY <1>1, <2>1, <2>5, <3>6, <3>7, <3>8, <3>9, ReadInv
  <2> HIDE DEF f, t
  <2> QED
    <3>1. Target = f /\ DecodeChar(header[k]).ok /\ DecodeChar(header[k]).value = t
      BY <2>2, <2>3
    <3> QED
      BY <1>3, <2>4, <2>5, <3>1 DEF ReadTextNode
<1> QED
  BY <1>2, <1>3

LEMMA DecodedInv ==
    ASSUME IndInv, Decoded
    PROVE  IndInv'
<1>1. Count(msg) \in 4..5 /\ DecodeOK /\ pc = "decode" /\ k = 6
  BY MsgFacts, DecodeFacts DEF Decoded
<1>2. DecodeOK'
  BY <1>1 DEF DecodeOK, Decoded
<1>3. (DOMAIN out = DOMAIN msg)' /\ \A j \in 1..5 : FieldOK(j)'
  BY <1>1, FieldsStay DEF Decoded
<1> QED
  BY <1>2, <1>3 DEF IndInv, Decoded

\* Every step of either codec keeps the invariant.
LEMMA NextInv == IndInv /\ [Next]_vars => IndInv'
<1> SUFFICES ASSUME IndInv, [Next]_vars
             PROVE  IndInv'
  OBVIOUS
<1>1. CASE WriteIntNode \/ WriteTextNode
  BY <1>1, WriteInv
<1>2. CASE PackSequence
  BY <1>2, PackInv
<1>3. CASE UnpackHeader
  BY <1>3, UnpackHeaderInv
<1>4. CASE UnpackElement
  BY <1>4, UnpackElementInv
<1>5. CASE Unpacked
  BY <1>5, UnpackedInv
<1>6. CASE ReadIntNode
  BY <1>6, ReadIntInv
<1>7. CASE ReadTextNode
  BY <1>7, ReadTextInv
<1>8. CASE Decoded
  BY <1>8, DecodedInv
<1>9. CASE UNCHANGED vars
  <2>1. UNCHANGED <<msg, pc, k, header, next, rest, out>>
    BY <1>9 DEF vars
  <2>2. \A j \in 1..5 : FieldOK(j)'
    BY <2>1, FieldsStay
  <2> QED
    BY <2>1, <2>2 DEF IndInv, EncodeOK, UnpackOK, DecodeOK
<1> QED
  BY <1>1, <1>2, <1>3, <1>4, <1>5, <1>6, <1>7, <1>8, <1>9 DEF Next, Encode, Decode

\* At every step of msgEncode, packSequence, unpackSequence and msgDecode the
\* octets are where the invariant says, for every message, whatever its r2.
THEOREM CodecInvariance == Spec => []IndInv
  BY InitInv, NextInv, PTL DEF Spec

-----------------------------------------------------------------------------
(* What the invariant means for the codecs.                                *)

\* What is decoded is what was encoded, in every field whose text fits, with the
\* spill of each int into the field behind it.
THEOREM ComesBack == Spec => []RoundTrip
<1>1. IndInv => RoundTrip
  <2> SUFFICES ASSUME IndInv, pc = "done", NEW f \in DOMAIN msg
               PROVE  IF IsInt(f) THEN out[f] = msg[f]
                      ELSE Fits(msg, f) => Text(out[f]) = Text(msg[f])
    BY DEF RoundTrip
  <2>1. msg \in Msgs
    BY MsgFacts
  <2>2. PICK j \in 1..5 : f = Fields(msg)[j]
    <3>1. DOMAIN msg = {Fields(msg)[j] : j \in 1..5}
      BY <2>1, FieldsOf
    <3> QED
      BY <3>1
  <2>3. k = 6
    BY DEF IndInv, DecodeOK
  <2>4. Decoded1(msg, out, j, TRUE)
    <3>1. j < k
      BY <2>3
    <3>2. Decoded1(msg, out, j, pc \in {"decode", "done", "dead"} /\ j < k)
      BY FieldIs DEF IndInv
    <3> QED
      BY <3>1, <3>2
  <2>5. CASE IsInt(f)
    BY <2>2, <2>4, <2>5 DEF Decoded1
  <2>6. CASE ~ IsInt(f) /\ Fits(msg, f)
    <3>1. /\ out[f] \in String
          /\ \/ Len(out[f]) = Size(msg, f)
             \/ Len(Text(msg[f])) > Size(msg, f) /\ Len(out[f]) = Len(Text(msg[f]))
      BY <2>2, <2>4, <2>6 DEF Decoded1, Array
    <3>2. SubSeq(out[f], 1, Len(Text(msg[f]))) = Text(msg[f])
      BY <2>2, <2>4, <2>6 DEF Decoded1
    <3>3. Size(msg, f) \in 1..65 /\ IsText(msg[f], Reach) /\ Reach \in Nat
      <4>1. TextField(msg, f)
        BY <2>1, <2>2, <2>6, FieldsOf
      <4> QED
        BY <4>1, Bounds DEF TextField
    <3>5. /\ Text(msg[f]) \in String /\ Len(Text(msg[f])) \in 1..Reach
          /\ EndsAt(Text(msg[f]), Len(Text(msg[f])))
      BY <3>3, TextIs
    <3>6. Len(Text(msg[f])) <= Len(out[f])
      BY <2>6, <3>1, <3>3, <3>5 DEF Fits
    <3>7. Text(out[f]) = Text(msg[f])
      BY <3>1, <3>2, <3>5, <3>6, TextBack
    <3> QED
      BY <2>6, <3>7
  <2> QED
    BY <2>5, <2>6
<1> QED
  BY <1>1, CodecInvariance, PTL

\* A text that msgDecode copies leaves its array in the struct only when it is an
\* r2 that the server has not set and that does not end in its 64 octets.
THEOREM NothingBeyond == Spec => []InsideItsField
<1>1. IndInv => InsideItsField
  <2> SUFFICES ASSUME IndInv, NEW f \in DOMAIN msg, ~ IsInt(f),
                      Len(out[f]) # Size(msg, f)
               PROVE  f = "r2" /\ Unended(msg)
    BY DEF InsideItsField
  <2>1. PICK j \in 1..5 : f = Fields(msg)[j]
    <3>1. DOMAIN msg = {Fields(msg)[j] : j \in 1..5}
      BY MsgFacts, FieldsOf
    <3> QED
      BY <3>1
  <2>2. Len(Text(msg[f])) > Size(msg, f)
    BY <2>1, FieldIs DEF IndInv, Decoded1, Array
  <2>3. TextField(msg, f)
    BY <2>1, MsgFacts, FieldsOf
  <2> QED
    BY <2>2, <2>3, TextLonger
<1> QED
  BY <1>1, CodecInvariance, PTL

\* Only what a response holds unset ends a process, and it is the decoder.
THEOREM WhatKills == Spec => []OnlyUnsetKills
<1>1. IndInv => OnlyUnsetKills
  <2> SUFFICES ASSUME IndInv, pc = "dead", ~ Unended(msg)
               PROVE  ~ IsRequest(msg) /\ msg.seckeyid < 0 /\ Len(header) = 4
    BY DEF OnlyUnsetKills
  <2>1. header = Nodes(msg, Count(msg)) /\ Count(msg) = 4
    BY DEF IndInv, DecodeOK
  <2>2. Len(header) = 4
    BY <2>1, OneNodeMore
  <2>3. ~ IsRequest(msg) /\ msg.seckeyid < 0
    BY <2>1 DEF Count
  <2> QED
    BY <2>2, <2>3
<1> QED
  BY <1>1, CodecInvariance, PTL

\* The loop of unpackSequence meets the end of the buffer exactly.
THEOREM LoopMeetsTheEnd == Spec => []ElementsFill
<1>1. IndInv => ElementsFill
  <2> SUFFICES ASSUME IndInv, pc = "unpack", k = 1, rest # <<>>
               PROVE  Len(header) < 5 /\ ElementSize(rest) <= Len(rest)
    BY DEF ElementsFill
  <2>1. msg \in Msgs /\ UnpackOK
    BY MsgFacts DEF IndInv
  <2>2. PICK n \in 0..Count(msg) : header = Nodes(msg, n) /\ rest = PackedBehind(msg, n)
    BY <2>1 DEF UnpackOK
  <2>3. n < 5 /\ ElementSize(rest) <= Len(rest)
    BY <2>1, <2>2, NodeLeft
  <2>4. Len(header) = n
    <3>1. n \in Nat
      BY <2>2
    <3> QED
      BY <2>2, <3>1, OneNodeMore
  <2> QED
    BY <2>3, <2>4
<1> QED
  BY <1>1, CodecInvariance, PTL

\* The types that the codecs do not use come back too, with the octets of every
\* message for their content.
THEOREM OtherTypesComeBack == Spec => []OtherTypesRoundTrip
<1>1. IndInv => OtherTypesRoundTrip
  <2> SUFFICES ASSUME IndInv, pc = "unpack", k = 0
               PROVE  /\ DecodeUnsignedChar(EncodeUnsignedChar(rest)) = Whole(rest)
                      /\ \A type \in {IdPrintable, IdBmp} :
                            ReadPrintableString(WritePrintableString(type, rest)) = Whole(rest)
                      /\ ReadNull(SequenceContent(WriteNullSequence).value)
    BY SMTT(30) DEF OtherTypesRoundTrip, Whole
  <2> DEFINE p == PackedBehind(msg, 0)
  <2>1. msg \in Msgs /\ rest = WriteSequence(p)
    BY MsgFacts, SMTT(30) DEF IndInv, UnpackOK
  <2>2. p \in String /\ Len(p) \in 0..NodeMax * 5
    <3>1. 0 \in 0..Count(msg)
      <4>1. Count(msg) \in 4..5
        BY MsgFacts, SMTT(30)
      <4> QED
        BY <4>1, SMTT(30)
    <3> QED
      BY <2>1, <3>1, PackedType, SMTT(30)
  <2> HIDE DEF p
  <2>3. IsNumber(Len(p))
    <3>1. \A l \in 0..NodeMax * 5 : IsNumber(l)
      <4>1. \A l \in 0..NodeMax * 5 : l \in Nat /\ l <= NodeMax * 5 + 10
        BY Bounds, SMTT(20)
      <4> QED
        BY <4>1, LengthsAreNumbers
    <3> QED
      BY <2>2, <3>1, ZenonT(60)
  <2>4. rest \in String /\ Len(rest) \in 1..6 + Len(p)
    BY <2>1, <2>2, <2>3, SequenceBack, SMTT(30)
  <2>5. IsNumber(Len(rest) + 1)
    <3>1. \A l \in 0..NodeMax * 5 : \A i \in 1..6 + l : IsNumber(i + 1)
      <4>1. \A l \in 0..NodeMax * 5 : \A i \in 1..6 + l :
               i + 1 \in Nat /\ i + 1 <= NodeMax * 5 + 10
        BY Bounds, SMTT(20)
      <4> QED
        BY <4>1, LengthsAreNumbers
    <3> QED
      BY <2>2, <2>4, <3>1
  <2>6. \A tag \in {IdBitString, IdPrintable, IdBmp} :
           ReadTagAndLength(WriteString(tag, rest)) = Whole(rest)
    <3>1. <<>> \in String
      BY DEF String
    <3> QED
      BY <2>4, <2>5, <3>1, StringBack
  <2>7. DecodeUnsignedChar(EncodeUnsignedChar(rest)) = Whole(rest)
    BY <2>6 DEF DecodeUnsignedChar, EncodeUnsignedChar, ReadBitString, WriteBitString
  <2>8. \A type \in {IdPrintable, IdBmp} :
           ReadPrintableString(WritePrintableString(type, rest)) = Whole(rest)
    BY <2>6 DEF ReadPrintableString, WritePrintableString, WriteBmpString, WriteCharString
  <2> QED
    BY <2>7, <2>8, NullBack
<1> QED
  BY <1>1, CodecInvariance, PTL
============================================================================
