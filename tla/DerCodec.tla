------------------------------ MODULE DerCodec ------------------------------
(***************************************************************************)
(* The codecs of the two messages (RequestCodec, RespondCodec) and the     *)
(* list of nodes they build and take apart (SequenceASN1): one action for  *)
(* each node written or read. One process encodes, the other one decodes.  *)
(*                                                                         *)
(* A character array is the sequence of its octets; a text ends with the   *)
(* octet 0, which the encoder includes. The decoder's struct is memory     *)
(* nobody initialised, and readHeadNode and readNextNode store an int as   *)
(* an unsigned long of eight octets, four of them into the next field.     *)
(*                                                                         *)
(* The server sets r2 of a response only when it accepts an agreement.     *)
(* Otherwise r2 is memory nobody initialised either, and strlen may run    *)
(* past its 64 octets: r2 of a response stands for the octets from its     *)
(* beginning up to the first 0, wherever that is.                          *)
(***************************************************************************)
EXTENDS DerLow, FiniteSets, SequencesExt

CONSTANTS
    RequestMsgs,  \* the requests a client may encode
    RespondMsgs,  \* the responses the server may encode
    Unset         \* the octet that fills the decoder's memory

ASSUME UnsetAssumption == Unset \in 0..255

VARIABLES
    msg,     \* the struct that is encoded
    pc,      \* "encode", "unpack", "decode", "done" or "dead"
    k,       \* the field the codec is at
    header,  \* m_header: the nodes of the list
    next,    \* m_next is a node, not NULL
    rest,    \* the octets that packSequence made, less those unpacked
    out      \* the struct that is decoded

vars == <<msg, pc, k, header, next, rest, out>>

-----------------------------------------------------------------------------
(* The two structs.                                                        *)

IsRequest(m) == "cmdType" \in DOMAIN m

\* The order in which msgEncode writes the fields of a request.
RequestFields == <<"cmdType", "clientId", "authCode", "serverId", "r1">>

RespondFields == <<"rv", "clientId", "serverId", "r2", "seckeyid">>

Fields(m) == IF IsRequest(m) THEN RequestFields ELSE RespondFields

\* The order in which msgDecode reads them.
RequestReads == <<"cmdType", "clientId", "authCode", "serverId", "r1">>

RespondReads == <<"rv", "clientId", "serverId", "r2", "seckeyid">>

Reads(m) == IF IsRequest(m) THEN RequestReads ELSE RespondReads

IsInt(f) == f \in {"cmdType", "rv", "seckeyid"}

RequestSize == [clientId |-> 12, authCode |-> 65, serverId |-> 12, r1 |-> 64]

RespondSize == [clientId |-> 12, serverId |-> 12, r2 |-> 64]

Size(m, f) == IF IsRequest(m) THEN RequestSize[f] ELSE RespondSize[f]

\* A text fits into an array of n octets, with its final 0.
IsText(t, n) ==
    t \in Seq(0..255) /\ Len(t) <= n /\ \E j \in DOMAIN t : t[j] = 0

\* INT_MAX of an int of 32 bits.
MaxInt == 2147483647

\* Bound: how far strlen runs before it meets a 0.
Reach == 16777216

\* What a program puts into the structs: a command, a return value and an id
\* are ints, of which only the id may be negative (it is not set by a check, a
\* revocation or a refusal). Every text ends inside its array but r2 of a
\* response, which those answers leave unset too.
ASSUME MessagesAssumption ==
    /\ \A m \in RequestMsgs :
          /\ DOMAIN m = {RequestFields[j] : j \in 1..5}
          /\ m.cmdType \in Nat /\ m.cmdType <= MaxInt
          /\ \A f \in DOMAIN RequestSize : IsText(m[f], RequestSize[f])
    /\ \A m \in RespondMsgs :
          /\ DOMAIN m = {RespondFields[j] : j \in 1..5}
          /\ m.rv \in Nat /\ m.rv <= MaxInt
          /\ m.seckeyid \in Int /\ m.seckeyid <= MaxInt
          /\ \A f \in {"clientId", "serverId"} : IsText(m[f], RespondSize[f])
          /\ IsText(m.r2, Reach)

\* The struct before anything is decoded into it.
Memory(m) ==
    [f \in DOMAIN m |-> IF IsInt(f) THEN Unset ELSE [j \in 1..Size(m, f) |-> Unset]]

\* The text in an array: the octets up to the first 0, and that one.
Text(s) ==
    LET ends == {j \in DOMAIN s : s[j] = 0}
    IN  IF ends = {} THEN s
        ELSE SubSeq(s, 1, CHOOSE j \in ends : \A i \in ends : j <= i)

\* The text of a field, with its final 0, has room in the field's array.
Fits(m, f) == Len(Text(m[f])) <= Size(m, f)

-----------------------------------------------------------------------------
(* msgEncode.                                                              *)

Init ==
    /\ msg \in RequestMsgs \cup RespondMsgs
    /\ pc = "encode"
    /\ k = 1
    /\ header = <<>>
    /\ next = TRUE
    /\ rest = <<>>
    /\ out = Memory(msg)

Field == Fields(msg)[k]

Die == pc' = "dead" /\ UNCHANGED <<msg, k, header, next, rest, out>>

\* writeHeadNode and writeNextNode of an int. Outside the range no node is
\* made: m_next becomes NULL and the errors are not looked at.
WriteIntNode ==
    /\ pc = "encode" /\ k <= 5 /\ IsInt(Field)
    /\ IF ~next THEN Die
       ELSE /\ header' = IF InRange(msg[Field])
                         THEN Append(header, WriteInteger(msg[Field])) ELSE header
            /\ next' = InRange(msg[Field])
            /\ k' = k + 1
            /\ UNCHANGED <<msg, pc, rest, out>>

\* writeHeadNode and writeNextNode of a text: strlen + 1 octets of it.
WriteTextNode ==
    /\ pc = "encode" /\ k <= 5 /\ ~IsInt(Field)
    /\ IF ~next THEN Die
       ELSE /\ header' = Append(header, EncodeChar(Text(msg[Field])))
            /\ k' = k + 1
            /\ UNCHANGED <<msg, pc, next, rest, out>>

\* packSequence; the encoder frees its list. What arrives is the sequence.
PackSequence ==
    /\ pc = "encode" /\ k = 6
    /\ rest' = WriteSequence(FlattenSeq(header))
    /\ header' = <<>>
    /\ pc' = "unpack"
    /\ k' = 0
    /\ UNCHANGED <<msg, next, out>>

-----------------------------------------------------------------------------
(* msgDecode.                                                              *)

\* The checks at the start of unpackSequence. Their errors are not looked at
\* either: the list stays empty and the first read follows NULL.
UnpackHeader ==
    LET content == SequenceContent(rest)
    IN  /\ pc = "unpack" /\ k = 0
        /\ rest' = content.value
        /\ k' = 1
        /\ pc' = IF content.ok THEN "unpack" ELSE "decode"
        /\ UNCHANGED <<msg, header, next, out>>

\* Mutant: the length octets of an element are not counted.
UnpackElementShort ==
    LET size == ElementSize(rest) - 1
    IN  /\ pc = "unpack" /\ k = 1 /\ rest # <<>>
        /\ header' = Append(header, SubSeq(rest, 1, size))
        /\ rest' = SubSeq(rest, size + 1, Len(rest))
        /\ UNCHANGED <<msg, pc, k, next, out>>

\* One turn of the loop that copies the elements into the list.
UnpackElement ==
    LET size == ElementSize(rest)
    IN  /\ pc = "unpack" /\ k = 1 /\ rest # <<>>
        /\ header' = Append(header, SubSeq(rest, 1, size))
        /\ rest' = SubSeq(rest, size + 1, Len(rest))
        /\ UNCHANGED <<msg, pc, k, next, out>>

Unpacked ==
    /\ pc = "unpack" /\ k = 1 /\ rest = <<>>
    /\ pc' = "decode"
    /\ UNCHANGED <<msg, k, header, next, rest, out>>

Target == Reads(msg)[k]

\* Eight octets are stored where the int begins: the upper four of them, all
\* zero, land in the field behind it in the struct (behind seckeyid is the end).
Behind(m, f) ==
    CASE f \in {"cmdType", "rv"} -> {"clientId"}
      [] f = "seckeyid" -> {}

ReadIntNode ==
    /\ pc = "decode" /\ k <= 5 /\ IsInt(Target)
    /\ IF k > Len(header) THEN Die
       ELSE /\ out' = [f \in DOMAIN out |->
                         IF f = Target THEN ReadInteger(header[k])
                         ELSE IF f \in Behind(msg, Target)
                         THEN [j \in DOMAIN out[f] |-> IF j <= 4 THEN 0 ELSE out[f][j]]
                         ELSE out[f]]
            /\ k' = k + 1
            /\ UNCHANGED <<msg, pc, header, next, rest>>

\* Mutant: a final 0 is put behind what was copied.
CopyAndEnd(array, s) ==
    s \o <<0>> \o SubSeq(array, Len(s) + 2, Len(array))

\* memcpy of all octets of the text to the start of the array, and on behind it
\* when there are more (an array that grows stands for that).
CopyTo(array, s) ==
    s \o SubSeq(array, Len(s) + 1, Len(array))

\* readNextNode of a text. One that is longer than its array overwrites what is
\* behind it (behind r2 the id, which is read later, and then whatever follows the
\* struct): the process may die of it.
ReadTextNode ==
    LET text == DecodeChar(header[k])
    IN  /\ pc = "decode" /\ k <= 5 /\ ~IsInt(Target)
        /\ IF k > Len(header) THEN Die
           ELSE IF ~text.ok THEN Die
           ELSE \/ /\ out' = [out EXCEPT ![Target] = CopyTo(@, text.value)]
                   /\ k' = k + 1
                   /\ UNCHANGED <<msg, pc, header, next, rest>>
                \/ Len(text.value) > Size(msg, Target) /\ Die

Decoded ==
    /\ pc = "decode" /\ k = 6
    /\ pc' = "done"
    /\ UNCHANGED <<msg, k, header, next, rest, out>>

Encode == WriteIntNode \/ WriteTextNode \/ PackSequence

Decode ==
    UnpackHeader \/ UnpackElement \/ Unpacked \/ ReadIntNode \/ ReadTextNode \/ Decoded

Next == Encode \/ Decode

Spec == Init /\ [][Next]_vars

-----------------------------------------------------------------------------
(* Properties.                                                             *)

\* What is decoded is what was encoded, in every field whose text fits, whatever
\* memory the decoder started from and although each int it stores spills into
\* the field behind it: an int comes before the text that its spill would damage,
\* and the id after the text that may run over it.
RoundTrip ==
    pc = "done" =>
        \A f \in DOMAIN msg :
            IF IsInt(f) THEN out[f] = msg[f]
            ELSE Fits(msg, f) => Text(out[f]) = Text(msg[f])

\* The r2 of a response that no accepted agreement has set, and that has no 0 in
\* its 64 octets.
Unended(m) == ~IsRequest(m) /\ Len(Text(m.r2)) > RespondSize.r2

\* A text that a codec copies leaves its array in one case only: it is an r2 that
\* nobody has set. Every other array keeps its size, in that message too, and so
\* does an r2 of 63 characters, which fills its array to the last octet.
InsideItsField ==
    \A f \in DOMAIN msg :
        ~IsInt(f) /\ Len(out[f]) # Size(msg, f) => f = "r2" /\ Unended(msg)

\* Nothing kills a process but what a refusal, a check or a revocation leaves
\* unset, and then it is the decoding one. With a negative seckeyid the encoder
\* drops the number without an error, the sequence ends early and the last read
\* follows NULL (KeyClient!DecodeDies is that step of the system); with an r2
\* that does not end, the copy runs past the struct.
OnlyUnsetKills ==
    pc = "dead" => \/ ~IsRequest(msg) /\ msg.seckeyid < 0 /\ Len(header) = 4
                   \/ Unended(msg)

\* The octets that packSequence announces are those it writes, at the lengths
\* where the form changes too: the loop that takes the list apart always meets
\* the end of the buffer exactly, on the fifth node or after a dropped one.
ElementsFill ==
    pc = "unpack" /\ k = 1 /\ rest # <<>> =>
        /\ Len(header) < 5
        /\ ElementSize(rest) <= Len(rest)

\* The types that the codecs do not use come back as well: what was packed
\* (so that the lengths around 128 occur, with and without the octet for the
\* unused bits) survives as a bit string and as either kind of string, and a
\* sequence of null has null in it.
OtherTypesRoundTrip ==
    pc = "unpack" /\ k = 0 =>
        /\ DecodeUnsignedChar(EncodeUnsignedChar(rest)) = [ok |-> TRUE, value |-> rest]
        /\ \A type \in {IdPrintable, IdBmp} :
              ReadPrintableString(WritePrintableString(type, rest))
                = [ok |-> TRUE, value |-> rest]
        /\ ReadNull(SequenceContent(WriteNullSequence).value)

\* How many nodes the list of m gets, and the first n of them.
Count(m) == IF ~IsRequest(m) /\ m.seckeyid < 0 THEN 4 ELSE 5

Node(m, j) ==
    LET f == Fields(m)[j]
    IN  IF IsInt(f) THEN WriteInteger(m[f]) ELSE EncodeChar(Text(m[f]))

Nodes(m, n) == [j \in 1..n |-> Node(m, j)]

\* What packSequence makes of the nodes of m behind the first n.
PackedBehind(m, n) == FlattenSeq([j \in 1..Count(m) - n |-> Node(m, n + j)])

\* msgEncode has made the nodes of the fields before k.
EncodeOK ==
    /\ k \in 1..6
    /\ header = Nodes(msg, IF k <= Count(msg) THEN k - 1 ELSE Count(msg))
    /\ next = (k - 1 <= Count(msg))

\* unpackSequence has the sequence, or has taken its first elements out of it.
UnpackOK ==
    \/ k = 0 /\ header = <<>> /\ rest = WriteSequence(PackedBehind(msg, 0))
    \/ k = 1 /\ \E n \in 0..Count(msg) :
                   header = Nodes(msg, n) /\ rest = PackedBehind(msg, n)

\* msgDecode has the list that msgEncode made, and stops where it ends.
DecodeOK ==
    /\ header = Nodes(msg, Count(msg))
    /\ pc = "decode" => k \in 1..Count(msg) + 1
    /\ pc = "done" => k = 6
    /\ pc = "dead" => (k = 5 /\ Count(msg) = 4) \/ Unended(msg)

\* An array of the decoder's struct, with the text t in it if it was read.
Holds(array, size, read, t) ==
    /\ array \in Seq(0..255)
    /\ Len(array) = size \/ (Len(t) > size /\ Len(array) = Len(t))
    /\ read => SubSeq(array, 1, Len(t)) = t

\* What was read so far is what was written.
FieldOK(j) ==
    LET f == Fields(msg)[j]
        read == pc \in {"decode", "done", "dead"} /\ j < k
    IN  IF IsInt(f) THEN read => out[f] = msg[f]
        ELSE Holds(out[f], Size(msg, f), read, Text(msg[f]))

\* Where every octet is at each step: the nodes made so far, the sequence, what
\* is not yet taken out of it, the list, and the fields that were read from it
\* (msgEncode, packSequence, unpackSequence and msgDecode of both codecs).
IndInv ==
    /\ msg \in RequestMsgs \cup RespondMsgs
    /\ pc \in {"encode", "unpack", "decode", "done", "dead"}
    /\ pc = "encode" => EncodeOK
    /\ pc = "unpack" => UnpackOK
    /\ pc \in {"decode", "done", "dead"} => DecodeOK
    /\ DOMAIN out = DOMAIN msg
    /\ \A j \in 1..5 : FieldOK(j)
=============================================================================
