------------------------------- MODULE DerLow -------------------------------
(***************************************************************************)
(* The DER library (class BaseASN1) as pure operators on octet strings:    *)
(* lengths, integers, strings and the elements of a sequence.              *)
(*                                                                         *)
(* An octet string is a sequence of numbers below 256. Operators that read *)
(* return a record whose ok is FALSE where the code returns an error code. *)
(* No tag of the library is above 30, so the long form of a tag never      *)
(* comes up; malloc is assumed to succeed.                                 *)
(***************************************************************************)
EXTENDS Integers, Sequences

\* DerTag: the types that have an encoder.
IdInteger == 2
IdBitString == 3
IdNull == 5
IdSequence == 16
IdPrintable == 19
IdBmp == 30

Constructed == 32

-----------------------------------------------------------------------------
(* Big-endian numbers of at most four octets.                              *)

\* The octet of n that is k places from the right: n >> 8 * (k - 1).
Octet(n, k) ==
    CASE k = 1 -> n % 256
      [] k = 2 -> (n \div 256) % 256
      [] k = 3 -> (n \div 65536) % 256
      [] k = 4 -> (n \div 16777216) % 256

Octets(n, m) == [k \in 1..m |-> Octet(n, m + 1 - k)]

\* What shifting and or-ing m octets together gives: the octet k places from
\* the right counts 256^(k-1) times, and those left of the string do not count.
FromRight(s, k) == IF k <= Len(s) THEN s[Len(s) + 1 - k] ELSE 0

Value(s) ==
    FromRight(s, 1) + 256 * FromRight(s, 2) + 65536 * FromRight(s, 3)
        + 16777216 * FromRight(s, 4)

-----------------------------------------------------------------------------
(* Lengths.                                                                *)

\* Mutant: the short form is used for 128 as well.
CountShortTo128(n) ==
    CASE n <= 128 -> 1
      [] n > 128 /\ n <= 255 -> 2
      [] n > 255 /\ n < 65535 -> 3
      [] n >= 65535 /\ n <= 16777215 -> 4
      [] n > 16777215 -> 5

\* How many octets the length n takes. 65535 takes one more than it needs.
Count_LengthOfSize(n) ==
    CASE n <= 127 -> 1
      [] n > 127 /\ n <= 255 -> 2
      [] n > 255 /\ n < 65535 -> 3
      [] n >= 65535 /\ n <= 16777215 -> 4
      [] n > 16777215 -> 5

LengthOctets(n) ==
    LET size == Count_LengthOfSize(n)
    IN  IF size = 1 THEN <<n>> ELSE <<128 + (size - 1)>> \o Octets(n, size - 1)

\* The length at the start of s, and the octets it takes. The loop reads one
\* octet even when the long form announces none.
GetLengthInfo(s) ==
    LET more == s[1] % 128
    IN  IF s[1] < 128 THEN [ok |-> TRUE, value |-> s[1], size |-> 1]
        ELSE IF more > 4 THEN [ok |-> FALSE, value |-> 0, size |-> 0]
        ELSE IF more = 0 THEN [ok |-> TRUE, value |-> s[2], size |-> 1]
        ELSE [ok |-> TRUE, value |-> Value(SubSeq(s, 2, more + 1)),
              size |-> more + 1]

\* The tag of an element whose number is below 31.
GetTagInfo(s) == IF s[1] >= 128 THEN s[1] ELSE s[1] % 32

-----------------------------------------------------------------------------
(* Integers.                                                               *)

\* Mutant: 255 is taken for a number of two octets, 256 for one of one.
SizeOffByOne(n) ==
    CASE n <= 256 -> 1
      [] n > 256 /\ n <= 65535 -> 2
      [] n > 65535 /\ n <= 16777215 -> 3
      [] n > 16777215 -> 4

IntSize(n) ==
    CASE n <= 255 -> 1
      [] n > 255 /\ n <= 65535 -> 2
      [] n > 65535 /\ n <= 16777215 -> 3
      [] n > 16777215 -> 4

\* A negative int becomes an unsigned long beyond 32 bits: DataRangeErr.
InRange(n) == n >= 0

\* A first octet of 128 or more gets a zero in front.
IntToChar(n) ==
    LET s == Octets(n, IntSize(n))
    IN  IF s[1] >= 128 THEN <<0>> \o s ELSE s

CharToInt(s) == IF s[1] = 0 /\ Len(s) > 1 THEN Value(Tail(s)) ELSE Value(s)

WriteInteger(n) == <<IdInteger, Len(IntToChar(n))>> \o IntToChar(n)

\* The integer of an element; its length is the element's own.
ReadInteger(s) ==
    LET info == GetLengthInfo(Tail(s))
    IN  CharToInt(SubSeq(s, 2 + info.size, 1 + info.size + info.value))

-----------------------------------------------------------------------------
(* Strings.                                                                *)

\* A bit string begins with the number of unused bits, which is whatever
\* String_To_AnyBuf computed from the length.
Content(tag, s) == IF tag = IdBitString THEN <<Len(s) % 8>> \o s ELSE s

WriteTagAndLength(tag, s) == <<tag>> \o LengthOctets(Len(Content(tag, s)))

WriteString(tag, s) == WriteTagAndLength(tag, s) \o Content(tag, s)

\* Mutant: the octet with the unused bits is taken for the first of the string.
ReadWithUnused(s) ==
    LET info == GetLengthInfo(Tail(s))
    IN  IF 1 + info.size + info.value # Len(s) THEN [ok |-> FALSE, value |-> <<>>]
        ELSE [ok |-> TRUE, value |-> SubSeq(s, Len(s) + 1 - info.value, Len(s))]

\* The content of an element that ReadSequence took apart, when its length
\* agrees with what was cut out.
ReadTagAndLength(s) ==
    LET info == GetLengthInfo(Tail(s))
        skip == IF GetTagInfo(s) = IdBitString THEN 1 ELSE 0
    IN  IF 1 + info.size + info.value # Len(s) THEN [ok |-> FALSE, value |-> <<>>]
        ELSE [ok |-> TRUE,
              value |-> SubSeq(s, Len(s) + 1 - info.value + skip, Len(s))]

WriteBitString(s) == WriteString(IdBitString, s)
ReadBitString(s) == ReadTagAndLength(s)

WriteCharString(s) == WriteString(IdPrintable, s)
ReadCharString(s) == ReadTagAndLength(s)

WriteBmpString(s) == WriteString(IdBmp, s)
ReadBmpString(s) == ReadTagAndLength(s)

WritePrintableString(type, s) ==
    IF type = IdBmp THEN WriteBmpString(s) ELSE WriteCharString(s)
ReadPrintableString(s) == ReadTagAndLength(s)

\* String_To_AnyBuf marks every string as a printable one.
EncodeChar(s) == WritePrintableString(IdPrintable, s)
DecodeChar(s) == ReadPrintableString(s)

EncodeUnsignedChar(s) == WriteBitString(s)
DecodeUnsignedChar(s) == ReadBitString(s)

WriteNull == <<IdNull, 0>>
ReadNull(s) == s[1] = 5 /\ s[2] = 0

-----------------------------------------------------------------------------
(* Sequences.                                                              *)

\* Tag and length in front of the encoded elements.
WriteSequence(content) ==
    <<IdSequence + Constructed>> \o LengthOctets(Len(content)) \o content

WriteNullSequence == WriteSequence(WriteNull)

\* The content of a sequence, when the tag is right and the length is that of
\* the buffer.
SequenceContent(s) ==
    LET info == GetLengthInfo(Tail(s))
    IN  IF \/ GetTagInfo(s) # IdSequence
           \/ ~info.ok
           \/ 1 + info.size + info.value # Len(s)
        THEN [ok |-> FALSE, value |-> <<>>]
        ELSE [ok |-> TRUE, value |-> SubSeq(s, 2 + info.size, Len(s))]

\* How many octets at the start of s the first element claims for itself.
ElementSize(s) ==
    LET info == GetLengthInfo(Tail(s)) IN 1 + info.size + info.value
============================================================================
