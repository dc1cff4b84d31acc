--------------------------- MODULE FramingProofs ---------------------------
(***************************************************************************)
(* Messages arrive whole, for every number of connections and descriptors, *)
(* every set of messages and every way in which reads and writes split the *)
(* streams: what an end has read, what is on its way and what the other    *)
(* end has still to write are together the frame of one message.           *)
(***************************************************************************)
EXTENDS Framing, SequenceTheorems, TLAPS

-----------------------------------------------------------------------------
(* The frame.                                                              *)

Messages == Requests \cup Answers

\* The octets of a length and what they count.
LEMMA LengthOctets ==
    ASSUME NEW n \in Nat
    PROVE  /\ Length(n) \in Octets /\ Len(Length(n)) = HeaderLen
           /\ n < 256 * Weight(1) => LengthOf(Length(n)) = n
<1>1. HeaderLen \in {1, 2, 3, 4}
  BY FramingAssumption
<1>2. \A k \in 1..HeaderLen : Weight(k) \in {16777216, 65536, 256, 1}
  BY <1>1 DEF Weight
<1>3. \A k \in 1..HeaderLen : (n \div Weight(k)) % 256 \in 0..255
  BY <1>2, SMTT(30)
<1>4. Length(n) \in Octets /\ Len(Length(n)) = HeaderLen
  <2>1. Length(n) \in [1..HeaderLen -> 0..255]
    BY <1>3 DEF Length
  <2> QED
    BY <1>1, <2>1 DEF Octets, Octet
<1>5. ASSUME n < 256 * Weight(1)
      PROVE  LengthOf(Length(n)) = n
  <2>1. CASE HeaderLen = 1
    BY <1>5, <2>1 DEF Length, LengthOf, Weight
  <2>2. CASE HeaderLen = 2
    BY <1>5, <2>2 DEF Length, LengthOf, Weight
  <2>3. CASE HeaderLen = 3
    BY <1>5, <2>3 DEF Length, LengthOf, Weight
  <2>4. CASE HeaderLen = 4
    <3>1. n < 256 * 16777216 /\ Weight(1) = 16777216 /\ Weight(2) = 65536
          /\ Weight(3) = 256 /\ Weight(4) = 1
      BY <1>5, <2>4 DEF Weight
    <3>2. LengthOf(Length(n)) = ((n \div 16777216) % 256) * 16777216
            + ((n \div 65536) % 256) * 65536 + ((n \div 256) % 256) * 256 + ((n \div 1) % 256)
      <4>1. \A k \in {1, 2, 3, 4} : Length(n)[k] = (n \div Weight(k)) % 256
        BY <2>4 DEF Length
      <4>2. LengthOf(Length(n)) = Length(n)[1] * 16777216 + Length(n)[2] * 65536
              + Length(n)[3] * 256 + Length(n)[4] * 1
        BY <2>4, <3>1 DEF LengthOf
      <4>3. /\ (n \div 16777216) % 256 \in Nat /\ (n \div 65536) % 256 \in Nat
            /\ (n \div 256) % 256 \in Nat /\ (n \div 1) % 256 \in Nat
        OBVIOUS
      <4>4. /\ Length(n)[1] = (n \div 16777216) % 256 /\ Length(n)[2] = (n \div 65536) % 256
            /\ Length(n)[3] = (n \div 256) % 256 /\ Length(n)[4] = (n \div 1) % 256
        BY <3>1, <4>1
      <4> QED
        BY <4>2, <4>3, <4>4
    <3>3. n \div 65536 = (n \div 256) \div 256 /\ n \div 16777216 = (n \div 65536) \div 256
      OBVIOUS
    <3>4. ASSUME NEW a \in Nat
          PROVE  a = 256 * (a \div 256) + (a % 256) /\ a \div 256 \in Nat
      OBVIOUS
    <3>5. n \div 16777216 \in 0..255
      BY <3>1
    <3>6. (n \div 16777216) % 256 = n \div 16777216
      BY <3>5
    <3>7. n = 256 * (n \div 256) + (n % 256) /\ n \div 256 \in Nat /\ n \div 1 = n
      BY <3>4
    <3>8. n \div 256 = 256 * (n \div 65536) + ((n \div 256) % 256) /\ n \div 65536 \in Nat
      BY <3>3, <3>4, <3>7
    <3>9. n \div 65536 = 256 * (n \div 16777216) + ((n \div 65536) % 256)
      BY <3>3, <3>4, <3>8
    <3> QED
      BY <3>2, <3>6, <3>7, <3>8, <3>9
  <2> QED
    BY <1>1, <2>1, <2>2, <2>3, <2>4
<1> QED
  BY <1>4, <1>5

\* The length that is read depends on the octets of the length only.
LEMMA SameLength ==
    ASSUME NEW h, NEW g, \A k \in 1..HeaderLen : h[k] = g[k]
    PROVE  LengthOf(h) = LengthOf(g)
BY DEF LengthOf

LEMMA FrameFacts ==
    ASSUME NEW m \in Messages
    PROVE  /\ m \in Octets /\ Len(m) \in Nat \ {0}
           /\ Frame(m) \in Octets /\ Len(Frame(m)) = HeaderLen + Len(m)
           /\ LengthOf(Frame(m)) = Len(m)
           /\ Drop(Frame(m), HeaderLen) = m
<1>1. /\ m \in Octets /\ Len(m) \in Nat \ {0} /\ Len(m) < 256 * Weight(1)
      /\ HeaderLen \in 1..4
  BY FramingAssumption, LengthAssumption DEF Messages, Octets, Octet
<1>2. /\ Length(Len(m)) \in Octets /\ Len(Length(Len(m))) = HeaderLen
      /\ LengthOf(Length(Len(m))) = Len(m)
  BY <1>1, LengthOctets
<1> DEFINE h == Length(Len(m))
<1> HIDE DEF h
<1>3. h \in Octets /\ Len(h) = HeaderLen /\ LengthOf(h) = Len(m) /\ Frame(m) = h \o m
  BY <1>2 DEF h, Frame
<1>4. Frame(m) \in Octets /\ Len(Frame(m)) = HeaderLen + Len(m)
  BY <1>1, <1>3 DEF Octets
<1>5. LengthOf(Frame(m)) = Len(m)
  <2>1. \A k \in 1..HeaderLen : Frame(m)[k] = h[k]
    BY <1>1, <1>3 DEF Octets
  <2>2. LengthOf(Frame(m)) = LengthOf(h)
    BY <2>1, SameLength, Zenon
  <2> QED
    BY <1>3, <2>2
<1>6. Drop(Frame(m), HeaderLen) = m
  BY <1>1, <1>3, <1>4 DEF Drop, Octets
<1> QED
  BY <1>1, <1>4, <1>5, <1>6

\* A reader that has the beginning of a frame knows how much is missing.
LEMMA MissingOctets ==
    ASSUME NEW m \in Messages, NEW b \in Octets, Begins(b, Frame(m))
    PROVE  /\ Missing(b) \in Nat /\ Missing(b) <= Len(Frame(m)) - Len(b)
           /\ Missing(b) = 0 => b = Frame(m) /\ Drop(b, HeaderLen) = m
<1>1. /\ Frame(m) \in Octets /\ Len(Frame(m)) = HeaderLen + Len(m) /\ Len(m) \in Nat \ {0}
      /\ LengthOf(Frame(m)) = Len(m) /\ Drop(Frame(m), HeaderLen) = m /\ HeaderLen \in 1..4
  BY FrameFacts, FramingAssumption
<1>2. CASE Len(b) < HeaderLen
  <2>1. Missing(b) = HeaderLen - Len(b)
    BY <1>1, <1>2 DEF Missing, Octets
  <2> QED
    BY <1>1, <1>2, <2>1 DEF Octets
<1>3. CASE Len(b) >= HeaderLen
  <2>1. LengthOf(b) = Len(m)
    <3>1. \A k \in 1..HeaderLen : b[k] = Frame(m)[k]
      BY <1>1, <1>3 DEF Begins, Octets
    <3> QED
      BY <1>1, <3>1, SameLength
  <2>2. Missing(b) = Len(Frame(m)) - Len(b)
    BY <1>1, <1>3, <2>1 DEF Missing, Octets
  <2>3. Missing(b) \in Nat
    BY <1>1, <2>2 DEF Begins, Octets
  <2>4. ASSUME Missing(b) = 0
        PROVE  b = Frame(m)
    BY <1>1, <2>2, <2>4 DEF Begins, Octets
  <2> QED
    BY <1>1, <2>2, <2>3, <2>4
<1> QED
  BY <1>1, <1>2, <1>3 DEF Octets

-----------------------------------------------------------------------------
(* Streams.                                                                *)

LEMMA Slice ==
    ASSUME NEW S, NEW s \in Seq(S), NEW j \in Int, NEW k \in Int, 1 <= j, k <= Len(s)
    PROVE  /\ SubSeq(s, j, k) \in Seq(S)
           /\ Len(SubSeq(s, j, k)) = IF j <= k THEN k - j + 1 ELSE 0
           /\ \A n \in 1..(k - j + 1) : SubSeq(s, j, k)[n] = s[j + n - 1]
BY SubSeqProperties

\* What is taken and what is left.
LEMMA Split ==
    ASSUME NEW s \in Octets, NEW k \in 1..Len(s)
    PROVE  /\ Take(s, k) \in Octets /\ Drop(s, k) \in Octets
           /\ Len(Take(s, k)) = k /\ Len(Drop(s, k)) = Len(s) - k
           /\ Take(s, k) \o Drop(s, k) = s
<1>1. Take(s, k) \in Octets /\ Len(Take(s, k)) = k
  BY Slice DEF Take, Octets
<1>2. Drop(s, k) \in Octets /\ Len(Drop(s, k)) = Len(s) - k
  BY Slice DEF Drop, Octets
<1>3. Take(s, k) \o Drop(s, k) = s
  BY DEF Take, Drop, Octets
<1> QED
  BY <1>1, <1>2, <1>3

LEMMA Join ==
    ASSUME NEW a \in Octets, NEW b \in Octets
    PROVE  /\ a \o b \in Octets /\ Len(a \o b) = Len(a) + Len(b)
           /\ a \o <<>> = a /\ <<>> \o a = a /\ <<>> \in Octets
<1>1. a \o b \in Octets /\ Len(a \o b) = Len(a) + Len(b)
  BY DEF Octets
<1>2. a \o <<>> = a /\ <<>> \o a = a /\ <<>> \in Octets
  BY DEF Octets
<1> QED
  BY <1>1, <1>2

\* Three parts are the same stream whichever two are joined first.
Grouped(a, b, c) == (a \o b) \o c = a \o (b \o c)

LEMMA Regroup ==
    ASSUME NEW a \in Octets, NEW b \in Octets, NEW c \in Octets
    PROVE  Grouped(a, b, c)
BY ConcatAssociative DEF Octets, Grouped

\* The beginning of a beginning is one.
LEMMA Shorter ==
    ASSUME NEW a \in Octets, NEW b \in Octets, NEW f \in Octets, Begins(a \o b, f)
    PROVE  Begins(a, f)
BY DEF Begins, Octets

LEMMA StreamLen ==
    ASSUME NEW b \in Octets, NEW u \in Octets, NEW l \in Octets
    PROVE  Len(Stream(b, u, l)) = Len(b) + Len(u) + Len(l)
<1>1. b \o u \in Octets /\ Len(b \o u) = Len(b) + Len(u)
  BY Join
<1>2. ASSUME NEW v \in Octets
      PROVE  Len(v \o l) = Len(v) + Len(l)
  BY <1>2, Join
<1> QED
  BY <1>1, <1>2 DEF Stream

LEMMA StreamType ==
    ASSUME NEW b \in Octets, NEW u \in Octets, NEW l \in Octets
    PROVE  /\ Stream(b, u, l) \in Octets
           /\ Stream(b, <<>>, <<>>) = b /\ Stream(<<>>, <<>>, l) = l
<1>1. b \o u \in Octets
  BY Join
<1>2. ASSUME NEW v \in Octets
      PROVE  v \o l \in Octets
  BY <1>2, Join
<1>3. Stream(b, u, l) \in Octets
  BY <1>1, <1>2 DEF Stream
<1>4. Stream(b, <<>>, <<>>) = b
  BY Join DEF Stream
<1>5. Stream(<<>>, <<>>, l) = l
  BY Join DEF Stream
<1> QED
  BY <1>3, <1>4, <1>5

\* A stream whose writer is lost still begins the frame, and so does its
\* reader's part.
LEMMA Cut ==
    ASSUME NEW b \in Octets, NEW u \in Octets, NEW l \in Octets, NEW f \in Octets,
           Begins(Stream(b, u, l), f)
    PROVE  Begins(Stream(b, u, <<>>), f) /\ Begins(b, f)
<1>1. b \o u \in Octets /\ (b \o u) \o <<>> = b \o u
  BY Join
<1>2. Begins(b \o u, f)
  BY <1>1, Shorter DEF Stream
<1>3. Begins(b, f)
  BY <1>2, Shorter
<1> QED
  BY <1>1, <1>2, <1>3 DEF Stream

\* Behind a whole frame there is nothing.
LEMMA Spent ==
    ASSUME NEW b \in Octets, NEW u \in Octets, NEW l \in Octets,
           Begins(Stream(b, u, l), b)
    PROVE  u = <<>> /\ l = <<>>
<1>1. Len(Stream(b, u, l)) = Len(b) + Len(u) + Len(l)
  BY StreamLen
<1>2. Len(Stream(b, u, l)) <= Len(b)
  BY DEF Begins
<1>3. Len(b) \in Nat /\ Len(u) \in Nat /\ Len(l) \in Nat
  BY DEF Octets
<1>4. Len(u) = 0 /\ Len(l) = 0
  BY <1>1, <1>2, <1>3
<1> QED
  BY <1>4 DEF Octets

\* Octets that a write or a read moves from one part of the stream to the next
\* stay in it.
LEMMA WritePasses ==
    ASSUME NEW b \in Octets, NEW u \in Octets, NEW l \in Octets, NEW k \in 1..Len(l)
    PROVE  Stream(b, u \o Take(l, k), Drop(l, k)) = Stream(b, u, l)
<1>1. Take(l, k) \in Octets /\ Drop(l, k) \in Octets /\ l = Take(l, k) \o Drop(l, k)
  BY Split
<1>2. ASSUME NEW x \in Octets, NEW y \in Octets, l = x \o y, NEW v, v = u \o x
      PROVE  Stream(b, v, y) = Stream(b, u, l)
  <2>1. v \in Octets /\ y \in Octets
    BY <1>2, Join
  <2>2. Grouped(b, v, y) /\ Grouped(u, x, y) /\ Grouped(b, u, l)
    BY <1>2, <2>1, Regroup
  <2>3. v \o y = u \o l
    BY <1>2, <2>2, Zenon DEF Grouped
  <2>4. (b \o v) \o y = (b \o u) \o l
    BY <2>2, <2>3, Zenon DEF Grouped
  <2> QED
    BY <2>4, Zenon DEF Stream
<1> QED
  BY <1>1, <1>2, Zenon

LEMMA ReadPasses ==
    ASSUME NEW b \in Octets, NEW u \in Octets, NEW l \in Octets, NEW k \in 1..Len(u)
    PROVE  Stream(b \o Take(u, k), Drop(u, k), l) = Stream(b, u, l)
<1>1. Take(u, k) \in Octets /\ Drop(u, k) \in Octets /\ u = Take(u, k) \o Drop(u, k)
  BY Split
<1>2. ASSUME NEW x \in Octets, NEW y \in Octets, u = x \o y, NEW v, v = b \o x
      PROVE  Stream(v, y, l) = Stream(b, u, l)
  <2>1. Grouped(b, x, y)
    BY <1>2, Regroup
  <2>2. v \o y = b \o u
    BY <1>2, <2>1, Zenon DEF Grouped
  <2> QED
    BY <2>2, Zenon DEF Stream
<1> QED
  BY <1>1, <1>2, Zenon

-----------------------------------------------------------------------------
(* The state.                                                              *)

\* At work on a connection.
Busy == client \in {"send", "select", "read"}

LEMMA Facts ==
    ASSUME IndInv
    PROVE  /\ MaxConn \in Nat /\ User \notin Conn /\ User \in End /\ Conn \subseteq End
           /\ Conn \subseteq Nat /\ <<>> \in Octets /\ made \in 0..MaxConn
           /\ Busy => m_socket \in Conn /\ m_socket <= made /\ cEnd[m_socket] = "open"
           /\ \A i \in Conn : sEnd[i] # "none" => i <= made
           /\ \A i \in Conn : i <= made => asked[i] \in Messages
           /\ \A i \in Conn : told[i] # Nothing => told[i] \in Messages
           /\ Nothing \notin Messages
           /\ \A i \in Conn : worker[i] # "none" <=> sEnd[i] = "open"
           /\ \A i \in Conn : ToServer(i) \in Octets /\ ToClient(i) \in Octets
           /\ up \in [Conn -> Octets] /\ down \in [Conn -> Octets]
           /\ left \in [End -> Octets] /\ buf \in [End -> Octets]
<1>1. /\ MaxConn \in Nat /\ User \notin Conn /\ User \in End /\ Conn \subseteq End
      /\ Conn \subseteq Nat /\ \A k \in 0..MaxConn : k # 0 => k \in Conn
  BY FramingAssumption DEF User, Conn, End
<1>2. made \in 0..MaxConn /\ \A i \in Conn : worker[i] # "none" <=> sEnd[i] = "open"
  BY DEF IndInv, TypeOK
<1>3. Busy => m_socket \in Conn /\ m_socket <= made /\ cEnd[m_socket] = "open"
  BY <1>1 DEF IndInv, Busy, UsersOK, UnmadeOK, TypeOK
<1>4. \A i \in Conn : sEnd[i] # "none" => i <= made
  BY DEF IndInv, UnmadeOK
<1>5. \A i \in Conn : i <= made => asked[i] \in Messages
  BY DEF IndInv, UnmadeOK, StreamsOK, Messages
<1>6. \A i \in Conn : told[i] # Nothing => told[i] \in Messages
  BY DEF IndInv, StreamsOK, Messages
<1>7. Nothing \notin Messages
  BY FramingAssumption DEF Messages
<1>8. <<>> \in Octets
  BY DEF Octets
<1>9. /\ up \in [Conn -> Octets] /\ down \in [Conn -> Octets]
      /\ left \in [End -> Octets] /\ buf \in [End -> Octets]
  BY DEF IndInv, StreamsOK
<1>10. \A i \in Conn : ToServer(i) \in Octets /\ ToClient(i) \in Octets
  BY <1>1, <1>8, <1>9 DEF ToServer, ToClient
<1> QED
  BY <1>1, <1>2, <1>3, <1>4, <1>5, <1>6, <1>7, <1>8, <1>9, <1>10

-----------------------------------------------------------------------------
(* The client's steps.                                                     *)

\* A client that does not write any more has sent what it has sent.
LEMMA Silent ==
    ASSUME IndInv, UNCHANGED <<up, sEnd, worker, asked>>, \A i \in Conn : buf'[i] = buf[i],
           client' # "send"
    PROVE  UpOK'
<1> SUFFICES ASSUME NEW i \in Conn, sEnd[i] = "queued" \/ worker[i] \in {"select", "read"}
             PROVE  Begins(Stream(buf[i], up[i], ToServer(i)'), Frame(asked[i]))
  BY DEF UpOK
<1>1. Begins(Stream(buf[i], up[i], ToServer(i)), Frame(asked[i]))
  BY DEF IndInv, UpOK
<1>2. ToServer(i)' = <<>>
  BY DEF ToServer
<1>3. /\ ToServer(i) \in Octets /\ Frame(asked[i]) \in Octets
      /\ buf[i] \in Octets /\ up[i] \in Octets
  BY Facts, FrameFacts
<1> QED
  BY <1>1, <1>2, <1>3, Cut

\* A step that moves no octet but may empty the client's buffer.
LEMMA ClientMoves ==
    ASSUME IndInv, UNCHANGED <<serverVars, made, asked, wire, left, mishap>>,
           client' \in {"idle", "select", "read", "failed", "dead"},
           client' \in {"select", "read"} =>
               client = "select" /\ m_socket' = m_socket /\ buf' = buf,
           buf' = buf \/ buf' = [buf EXCEPT ![User] = <<>>],
           client' # "read" => buf'[User] = <<>>,
           m_socket' = m_socket \/ m_socket' = 0,
           heard' = Nothing \/ (heard' = heard /\ m_socket' = m_socket)
    PROVE  IndInv'
<1>0. /\ User \notin Conn /\ User \in End /\ Conn \subseteq End /\ <<>> \in Octets
      /\ 0 \in 0..MaxConn /\ buf \in [End -> Octets] /\ left \in [End -> Octets]
      /\ up \in [Conn -> Octets] /\ made \in 0..MaxConn
  BY Facts, FramingAssumption
<1>1. \A i \in Conn : buf'[i] = buf[i]
  BY <1>0
<1>2. TypeOK'
  BY <1>0 DEF IndInv, TypeOK, serverVars, wire
<1>3. StreamsOK'
  BY <1>0 DEF IndInv, StreamsOK, serverVars, wire
<1>4. UnmadeOK'
  BY <1>0 DEF IndInv, UnmadeOK, serverVars, wire
<1>5. UsersOK'
  BY <1>0, <1>1 DEF IndInv, UsersOK, serverVars, wire
<1>6. ToldOK'
  BY DEF IndInv, ToldOK, serverVars, wire
<1>7. UpOK'
  BY <1>1, Silent DEF serverVars, wire
<1>8. DownOK'
  BY DEF IndInv, DownOK, serverVars, wire, ToClient
<1>9. ClosedOK'
  BY DEF IndInv, ClosedOK, serverVars, wire
<1>10. WholeMessages'
  BY DEF IndInv, WholeMessages, serverVars
<1>11. ServerSurvives'
  BY DEF IndInv, ServerSurvives, serverVars
<1> QED
  BY <1>2, <1>3, <1>4, <1>5, <1>6, <1>7, <1>8, <1>9, <1>10, <1>11 DEF IndInv

LEMMA QuietSteps ==
    ASSUME IndInv,
           NoDescriptor \/ ClientReadable \/ ClientTimeout \/ ClientReadEnds \/ StartClient
    PROVE  IndInv'
<1>0. /\ client # "read" => buf[User] = <<>>
      /\ buf \in [End -> Octets] /\ User \in End
  BY Facts DEF IndInv, UsersOK
<1>1. CASE NoDescriptor
  BY <1>0, <1>1, ClientMoves DEF NoDescriptor, Goto
<1>2. CASE ClientReadable
  BY <1>0, <1>2, ClientMoves DEF ClientReadable, Goto
<1>3. CASE ClientTimeout
  BY <1>0, <1>3, ClientMoves DEF ClientTimeout, Goto
<1>4. CASE ClientReadEnds
  BY <1>0, <1>4, ClientMoves DEF ClientReadEnds, Goto
<1>5. CASE StartClient
  BY <1>0, <1>5, ClientMoves DEF StartClient, Goto
<1> QED
  BY <1>1, <1>2, <1>3, <1>4, <1>5

LEMMA Dying ==
    ASSUME IndInv, ClientDies
    PROVE  IndInv'
<1> USE DEF ClientDies, Goto
<1>0. /\ User \notin Conn /\ User \in End /\ Conn \subseteq End /\ <<>> \in Octets
      /\ 0 \in 0..MaxConn /\ buf \in [End -> Octets] /\ left \in [End -> Octets]
      /\ up \in [Conn -> Octets] /\ made \in 0..MaxConn
  BY Facts, FramingAssumption
<1>1. \A i \in Conn : buf'[i] = buf[i] /\ left'[i] = left[i]
  BY <1>0
<1>2. TypeOK'
  BY <1>0 DEF IndInv, TypeOK, serverVars
<1>3. StreamsOK'
  <2>1. /\ left' \in [End -> Octets] /\ buf' \in [End -> Octets]
        /\ reset' \in [Conn -> BOOLEAN] /\ mishap' \in BOOLEAN
    BY <1>0 DEF IndInv, StreamsOK
  <2> QED
    BY <2>1 DEF IndInv, StreamsOK, serverVars
<1>4. UnmadeOK'
  BY <1>0 DEF IndInv, UnmadeOK, serverVars
<1>5. UsersOK'
  BY <1>0, <1>1 DEF IndInv, UsersOK, serverVars
<1>6. ToldOK'
  BY DEF IndInv, ToldOK, serverVars
<1>7. UpOK'
  BY <1>1, Silent DEF serverVars
<1>8. DownOK'
  BY DEF DownOK
<1>9. ClosedOK' /\ ServerSurvives'
  BY DEF ClosedOK, ServerSurvives
<1>10. WholeMessages'
  BY DEF IndInv, WholeMessages, serverVars
<1> QED
  BY <1>2, <1>3, <1>4, <1>5, <1>6, <1>7, <1>8, <1>9, <1>10 DEF IndInv

LEMMA Connecting ==
    ASSUME IndInv, NEW m \in Requests, ConnectToHost(m), NEW i, i = made + 1
    PROVE  IndInv'
<1> USE DEF Goto
<1>0. /\ User \notin Conn /\ User \in End /\ Conn \subseteq End /\ <<>> \in Octets
      /\ buf \in [End -> Octets] /\ left \in [End -> Octets]
      /\ up \in [Conn -> Octets] /\ down \in [Conn -> Octets] /\ made \in 0..MaxConn
      /\ Conn \subseteq Nat
      /\ \A j \in Conn : worker[j] # "none" <=> sEnd[j] = "open"
  BY Facts
<1>1. /\ i \in Conn /\ ~ (i <= made) /\ made' = i /\ m_socket' = i /\ client' = "send"
      /\ client = "idle" /\ heard' = Nothing
      /\ m \in Messages /\ m # Nothing /\ Frame(m) \in Octets
      /\ \A j \in Conn \ {i} : (j <= made) <=> (j <= i)
  BY <1>0, FrameFacts, FramingAssumption DEF ConnectToHost, Messages, Conn
<1>2. /\ cEnd[i] = "none" /\ sEnd[i] = "none" /\ up[i] = <<>> /\ got[i] = Nothing
      /\ told[i] = Nothing /\ worker[i] = "none" /\ buf[i] = <<>> /\ buf[User] = <<>>
  BY <1>0, <1>1 DEF IndInv, UnmadeOK, ToldOK, UsersOK
<1>3. /\ cEnd'[i] = "open" /\ sEnd'[i] \in {"queued", "refused"} /\ asked'[i] = m
      /\ left'[User] = Frame(m) /\ left' \in [End -> Octets]
      /\ cEnd' \in [Conn -> {"none", "open", "closed"}]
      /\ sEnd' \in [Conn -> {"none", "queued", "refused", "open", "closed"}]
      /\ asked' \in [Conn -> Requests \cup {Nothing}]
  BY <1>0, <1>1 DEF ConnectToHost, ConnectTimeout, IndInv, TypeOK, StreamsOK
<1>4. /\ \A j \in Conn \ {i} : cEnd'[j] = cEnd[j] /\ sEnd'[j] = sEnd[j] /\ asked'[j] = asked[j]
      /\ \A j \in Conn : left'[j] = left[j]
      /\ UNCHANGED <<serverVars, up, down, reset, buf, mishap>>
  BY <1>0, <1>1 DEF ConnectToHost, IndInv, TypeOK, StreamsOK
<1>5. TypeOK'
  BY <1>0, <1>1, <1>2, <1>3, <1>4 DEF IndInv, TypeOK, serverVars, Conn
<1>6. StreamsOK'
  BY <1>3, <1>4 DEF IndInv, StreamsOK, serverVars
<1>7. UnmadeOK'
  <2>1. m_socket' <= made'
    BY <1>0, <1>1
  <2> QED
    BY <1>0, <1>1, <1>3, <1>4, <2>1 DEF IndInv, UnmadeOK, serverVars
<1>8. UsersOK'
  BY <1>0, <1>1, <1>2, <1>3, <1>4 DEF IndInv, UsersOK, serverVars
<1>9. ToldOK'
  BY <1>1, <1>2, <1>3, <1>4 DEF IndInv, ToldOK, serverVars
<1>10. UpOK'
  <2>1. ASSUME NEW j \in Conn \ {i}, sEnd[j] = "queued" \/ worker[j] \in {"select", "read"}
        PROVE  Begins(Stream(buf[j], up[j], ToServer(j)'), Frame(asked[j]))
    <3>1. ToServer(j)' = <<>> /\ ToServer(j) = <<>>
      BY <1>1, <2>1 DEF ToServer
    <3> QED
      BY <2>1, <3>1 DEF IndInv, UpOK
  <2>2. Begins(Stream(buf[i], up[i], ToServer(i)'), Frame(m))
    <3>1. ToServer(i)' = Frame(m)
      BY <1>1, <1>3 DEF ToServer
    <3>2. Stream(<<>>, <<>>, Frame(m)) = Frame(m)
      BY <1>0, <1>1, StreamType
    <3> QED
      BY <1>1, <1>2, <3>1, <3>2 DEF Begins, Octets
  <2> QED
    BY <1>3, <1>4, <2>1, <2>2 DEF UpOK, serverVars
<1>11. DownOK'
  BY <1>1, <1>2, <1>4 DEF DownOK, serverVars
<1>12. ClosedOK'
  BY <1>1, <1>3, <1>4 DEF IndInv, ClosedOK, serverVars
<1>13. WholeMessages' /\ ServerSurvives'
  BY <1>1, <1>2, <1>4 DEF IndInv, WholeMessages, ServerSurvives, serverVars
<1> QED
  BY <1>5, <1>6, <1>7, <1>8, <1>9, <1>10, <1>11, <1>12, <1>13 DEF IndInv

LEMMA ClientWrites ==
    ASSUME IndInv, ClientWrite, NEW i, i = m_socket
    PROVE  IndInv'
<1>0. /\ User \notin Conn /\ User \in End /\ Conn \subseteq End /\ <<>> \in Octets
      /\ buf \in [End -> Octets] /\ left \in [End -> Octets]
      /\ up \in [Conn -> Octets] /\ made \in 0..MaxConn /\ Capacity \in Nat
      /\ i \in Conn /\ client = "send"
      /\ \A j \in Conn : sEnd[j] # "none" => j <= made
      /\ Frame(asked[i]) \in Octets
  BY Facts, FrameFacts, FramingAssumption DEF ClientWrite, Busy
<1>1. /\ UNCHANGED <<serverVars, m_socket, made, asked, heard, down, cEnd, sEnd,
                     reset, buf, mishap>>
      /\ sEnd[i] \in {"queued", "open"}
  BY DEF ClientWrite
<1>2. PICK k \in 1..Len(left[User]) :
        /\ k <= Capacity - Len(up[i])
        /\ up' = [up EXCEPT ![i] = up[i] \o Take(left[User], k)]
        /\ left' = [left EXCEPT ![User] = Drop(left[User], k)]
        /\ client' = IF k = Len(left[User]) THEN "select" ELSE "send"
  BY DEF ClientWrite, Some, Goto
<1>3. /\ Take(left[User], k) \in Octets /\ Drop(left[User], k) \in Octets
      /\ Len(Take(left[User], k)) = k /\ Len(Drop(left[User], k)) = Len(left[User]) - k
  BY <1>0, Split
<1>4. /\ up[i] \o Take(left[User], k) \in Octets
      /\ Len(up[i] \o Take(left[User], k)) = Len(up[i]) + k
  BY <1>0, <1>3, Join
<1>5. /\ up'[i] = up[i] \o Take(left[User], k) /\ up' \in [Conn -> Octets]
      /\ left'[User] = Drop(left[User], k) /\ left' \in [End -> Octets]
      /\ \A j \in Conn \ {i} : up'[j] = up[j]
      /\ \A j \in Conn : left'[j] = left[j]
  BY <1>0, <1>2, <1>3, <1>4
<1>6. TypeOK'
  <2>1. Len(up'[i]) <= Capacity
    BY <1>0, <1>2, <1>4, <1>5 DEF Octets
  <2> QED
    BY <1>1, <1>2, <1>5, <2>1 DEF IndInv, TypeOK, serverVars
<1>7. StreamsOK'
  BY <1>1, <1>5 DEF IndInv, StreamsOK, serverVars
<1>8. UnmadeOK'
  BY <1>0, <1>1, <1>5 DEF IndInv, UnmadeOK, serverVars
<1>9. UsersOK'
  BY <1>0, <1>1, <1>2, <1>5 DEF IndInv, UsersOK, serverVars
<1>10. ToldOK'
  BY <1>1 DEF IndInv, ToldOK, serverVars
<1>11. UpOK'
  <2>1. ASSUME NEW j \in Conn \ {i}, sEnd[j] = "queued" \/ worker[j] \in {"select", "read"}
        PROVE  Begins(Stream(buf[j], up[j], ToServer(j)'), Frame(asked[j]))
    <3>1. ToServer(j)' = <<>> /\ ToServer(j) = <<>>
      BY <1>0, <1>1, <2>1 DEF ToServer
    <3> QED
      BY <2>1, <3>1 DEF IndInv, UpOK
  <2>2. ASSUME sEnd[i] = "queued" \/ worker[i] \in {"select", "read"}
        PROVE  Begins(Stream(buf[i], up'[i], ToServer(i)'), Frame(asked[i]))
    <3>1. Begins(Stream(buf[i], up[i], left[User]), Frame(asked[i]))
      BY <1>0, <2>2 DEF IndInv, UpOK, ToServer
    <3>2. Stream(buf[i], up'[i], left'[User]) = Stream(buf[i], up[i], left[User])
      BY <1>0, <1>5, WritePasses
    <3>3. ToServer(i)' = left'[User] \/ ToServer(i)' = <<>>
      BY DEF ToServer
    <3>4. CASE ToServer(i)' = left'[User]
      BY <3>1, <3>2, <3>4
    <3>5. CASE ToServer(i)' = <<>>
      BY <1>0, <1>3, <1>4, <1>5, <3>1, <3>2, <3>5, Cut
    <3> QED
      BY <3>3, <3>4, <3>5
  <2> QED
    BY <1>1, <1>5, <2>1, <2>2 DEF UpOK, serverVars
<1>12. DownOK'
  BY <1>0, <1>1, <1>5 DEF IndInv, DownOK, ToClient, serverVars
<1>13. ClosedOK' /\ WholeMessages' /\ ServerSurvives'
  BY <1>1 DEF IndInv, ClosedOK, WholeMessages, ServerSurvives, serverVars
<1> QED
  BY <1>6, <1>7, <1>8, <1>9, <1>10, <1>11, <1>12, <1>13 DEF IndInv

\* What is written to a connection that nobody reads.
LEMMA ClientWritesLost ==
    ASSUME IndInv, ClientWriteLost, NEW i, i = m_socket
    PROVE  IndInv'
<1>0. /\ User \notin Conn /\ User \in End /\ Conn \subseteq End /\ <<>> \in Octets
      /\ buf \in [End -> Octets] /\ left \in [End -> Octets] /\ Capacity \in Nat
      /\ i \in Conn /\ client = "send"
      /\ \A j \in Conn : worker[j] # "none" <=> sEnd[j] = "open"
  BY Facts, FramingAssumption DEF ClientWriteLost, Busy
<1>1. CASE ClientDies
  BY <1>1, Dying
<1>2. ASSUME ~ ClientDies
      PROVE  IndInv'
  <2>1. /\ UNCHANGED <<serverVars, m_socket, made, asked, heard, up, down, cEnd,
                       sEnd, buf, mishap>>
        /\ sEnd[i] = "closed" /\ reset' = [reset EXCEPT ![i] = TRUE]
    BY <1>2 DEF ClientWriteLost
  <2>2. PICK k \in 1..Len(left[User]) :
          /\ left' = [left EXCEPT ![User] = Drop(left[User], k)]
          /\ client' = IF k = Len(left[User]) THEN "select" ELSE "send"
    BY <1>2 DEF ClientWriteLost, Some, Goto
  <2>3. /\ left' \in [End -> Octets] /\ \A j \in Conn : left'[j] = left[j]
        /\ reset' \in [Conn -> BOOLEAN]
    BY <1>0, <2>1, <2>2, Split DEF IndInv, StreamsOK
  <2>4. TypeOK' /\ StreamsOK'
    BY <2>1, <2>2, <2>3 DEF IndInv, TypeOK, StreamsOK, serverVars
  <2>5. UnmadeOK' /\ ToldOK'
    BY <1>0, <2>1 DEF IndInv, UnmadeOK, ToldOK, serverVars
  <2>6. UsersOK'
    BY <1>0, <2>1, <2>2, <2>3 DEF IndInv, UsersOK, serverVars
  <2>7. UpOK'
    <3> SUFFICES ASSUME NEW j \in Conn, sEnd[j] = "queued" \/ worker[j] \in {"select", "read"}
                 PROVE  Begins(Stream(buf[j], up[j], ToServer(j)'), Frame(asked[j]))
      BY <2>1 DEF UpOK, serverVars
    <3>1. j # i
      BY <1>0, <2>1
    <3>2. ToServer(j)' = <<>> /\ ToServer(j) = <<>>
      BY <2>1, <3>1 DEF ToServer
    <3> QED
      BY <3>2 DEF IndInv, UpOK
  <2>8. DownOK'
    BY <1>0, <2>1, <2>3 DEF IndInv, DownOK, ToClient, serverVars
  <2>9. ClosedOK' /\ WholeMessages' /\ ServerSurvives'
    BY <2>1 DEF IndInv, ClosedOK, WholeMessages, ServerSurvives, serverVars
  <2> QED
    BY <2>4, <2>5, <2>6, <2>7, <2>8, <2>9 DEF IndInv
<1> QED
  BY <1>1, <1>2

\* What the client that reads has to do with its worker.
LEMMA AtRead ==
    ASSUME IndInv, client = "read", NEW i, i = m_socket
    PROVE  /\ i \in Conn /\ i <= made /\ cEnd[i] = "open"
           /\ told[i] = Nothing => buf[User] = <<>> /\ down[i] = <<>>
           /\ told[i] # Nothing =>
                 /\ Begins(Stream(buf[User], down[i], ToClient(i)), Frame(told[i]))
                 /\ Begins(buf[User], Frame(told[i]))
                 /\ told[i] \in Messages /\ Frame(told[i]) \in Octets
<1>1. i \in Conn /\ i <= made /\ cEnd[i] = "open"
  BY Facts DEF Busy
<1>2. told[i] = Nothing => buf[User] = <<>> /\ down[i] = <<>>
  BY <1>1 DEF IndInv, DownOK, ToldOK
<1>3. ASSUME told[i] # Nothing
      PROVE  /\ Begins(Stream(buf[User], down[i], ToClient(i)), Frame(told[i]))
             /\ Begins(buf[User], Frame(told[i]))
             /\ told[i] \in Messages /\ Frame(told[i]) \in Octets
  <2>1. /\ told[i] \in Messages /\ Frame(told[i]) \in Octets
        /\ buf[User] \in Octets /\ down[i] \in Octets /\ ToClient(i) \in Octets
    BY <1>1, <1>3, Facts, FrameFacts
  <2>2. Begins(Stream(buf[User], down[i], ToClient(i)), Frame(told[i]))
    BY <1>3 DEF IndInv, DownOK
  <2> QED
    BY <2>1, <2>2, Cut
<1> QED
  BY <1>1, <1>2, <1>3

LEMMA ClientReads ==
    ASSUME IndInv, ClientRead, NEW i, i = m_socket
    PROVE  IndInv'
<1>0. /\ User \notin Conn /\ User \in End /\ Conn \subseteq End /\ <<>> \in Octets
      /\ buf \in [End -> Octets] /\ left \in [End -> Octets]
      /\ down \in [Conn -> Octets] /\ Capacity \in Nat /\ client = "read" /\ ToClient(i) \in Octets
      /\ i \in Conn /\ i <= made /\ cEnd[i] = "open"
      /\ told[i] = Nothing => down[i] = <<>>
  BY Facts, FramingAssumption, AtRead DEF ClientRead
<1>1. UNCHANGED <<serverVars, clientVars, up, cEnd, sEnd, reset, left, mishap>>
  BY DEF ClientRead
<1>2. PICK k \in 1..Missing(buf[User]) :
        /\ k <= Len(down[i])
        /\ down' = [down EXCEPT ![i] = Drop(down[i], k)]
        /\ buf' = [buf EXCEPT ![User] = buf[User] \o Take(down[i], k)]
  BY DEF ClientRead, Some
<1>3. k \in 1..Len(down[i])
  BY <1>0, <1>2 DEF Octets
<1>4. told[i] # Nothing
  BY <1>0, <1>3
<1>5. /\ Take(down[i], k) \in Octets /\ Drop(down[i], k) \in Octets
      /\ Len(Drop(down[i], k)) = Len(down[i]) - k
  BY <1>0, <1>3, Split
<1>6. buf[User] \o Take(down[i], k) \in Octets
  BY <1>0, <1>5, Join
<1>7. /\ down'[i] = Drop(down[i], k) /\ down' \in [Conn -> Octets]
      /\ buf'[User] = buf[User] \o Take(down[i], k) /\ buf' \in [End -> Octets]
      /\ \A j \in Conn \ {i} : down'[j] = down[j]
      /\ \A j \in Conn : buf'[j] = buf[j]
  BY <1>0, <1>2, <1>5, <1>6
<1>8. TypeOK'
  <2>1. Len(down'[i]) <= Len(down[i])
    BY <1>0, <1>3, <1>5, <1>7 DEF Octets
  <2>2. Len(down[i]) <= Capacity /\ Len(down[i]) \in Nat /\ Len(down'[i]) \in Nat
    BY <1>0, <1>7 DEF IndInv, TypeOK, Octets
  <2>3. Len(down'[i]) <= Capacity
    BY <1>0, <2>1, <2>2
  <2> QED
    BY <1>1, <1>7, <2>3 DEF IndInv, TypeOK, serverVars, clientVars
<1>9. StreamsOK'
  BY <1>1, <1>7 DEF IndInv, StreamsOK, serverVars, clientVars
<1>10. UnmadeOK'
  BY <1>1 DEF IndInv, UnmadeOK, serverVars, clientVars
<1>11. UsersOK'
  BY <1>0, <1>1, <1>7 DEF IndInv, UsersOK, serverVars, clientVars
<1>12. ToldOK'
  BY <1>1, <1>4, <1>7 DEF IndInv, ToldOK, serverVars, clientVars
<1>13. UpOK'
  BY <1>0, <1>1, <1>7, Silent DEF serverVars, clientVars
<1>14. DownOK'
  <2>1. Stream(buf'[User], down'[i], ToClient(i)) = Stream(buf[User], down[i], ToClient(i))
    BY <1>0, <1>3, <1>7, ReadPasses
  <2>2. ToClient(i)' = ToClient(i)
    BY <1>1 DEF ToClient, serverVars
  <2>3. Begins(Stream(buf[User], down[i], ToClient(i)), Frame(told[i]))
    BY <1>0, <1>4, AtRead
  <2> QED
    BY <1>1, <1>4, <2>1, <2>2, <2>3 DEF DownOK, serverVars, clientVars
<1>15. ClosedOK' /\ WholeMessages' /\ ServerSurvives'
  BY <1>1 DEF IndInv, ClosedOK, WholeMessages, ServerSurvives, serverVars, clientVars
<1> QED
  BY <1>8, <1>9, <1>10, <1>11, <1>12, <1>13, <1>14, <1>15 DEF IndInv

\* A message that is read is the one that was told, and its worker has written
\* the last octet.
LEMMA Hearing ==
    ASSUME IndInv, ClientHears, NEW i, i = m_socket
    PROVE  IndInv'
<1>0. /\ User \notin Conn /\ User \in End /\ Conn \subseteq End /\ <<>> \in Octets
      /\ buf \in [End -> Octets] /\ left \in [End -> Octets] /\ HeaderLen \in 1..4
      /\ down \in [Conn -> Octets] /\ client = "read" /\ ToClient(i) \in Octets
      /\ i \in Conn /\ i <= made /\ cEnd[i] = "open"
      /\ told[i] = Nothing => buf[User] = <<>>
      /\ Missing(buf[User]) = 0
  BY Facts, FramingAssumption, AtRead DEF ClientHears
<1>1. told[i] # Nothing
  BY <1>0 DEF Missing
<1>2. /\ Begins(Stream(buf[User], down[i], ToClient(i)), Frame(told[i]))
      /\ Begins(buf[User], Frame(told[i]))
      /\ told[i] \in Messages /\ Frame(told[i]) \in Octets
  BY <1>0, <1>1, AtRead
<1>3. buf[User] = Frame(told[i]) /\ Drop(buf[User], HeaderLen) = told[i]
  BY <1>0, <1>2, MissingOctets
<1>4. ToClient(i) = <<>>
  BY <1>0, <1>2, <1>3, Spent
<1>5. worker[i] \notin {"select", "read", "failed", "send"} /\ sEnd[i] # "queued"
  BY <1>0, <1>1, <1>4 DEF IndInv, ToldOK, UsersOK, ToClient
<1>6. /\ UNCHANGED <<serverVars, m_socket, made, asked, up, down, sEnd, left, mishap>>
      /\ client' = "idle" /\ heard' = told[i] /\ buf' = [buf EXCEPT ![User] = <<>>]
      /\ \A j \in Conn : buf'[j] = buf[j]
  BY <1>0, <1>3 DEF ClientHears, Goto
<1>7. /\ \A j \in Conn \ {i} : cEnd'[j] = cEnd[j]
      /\ cEnd'[i] \in {"open", "closed"}
      /\ cEnd' \in [Conn -> {"none", "open", "closed"}] /\ reset' \in [Conn -> BOOLEAN]
  <2>1. (UNCHANGED <<cEnd, reset>>) \/ CloseClientEnd(i)
    BY DEF ClientHears
  <2> QED
    BY <1>0, <2>1 DEF CloseClientEnd, IndInv, TypeOK, StreamsOK
<1>8. TypeOK' /\ StreamsOK'
  BY <1>0, <1>6, <1>7 DEF IndInv, TypeOK, StreamsOK, serverVars
<1>9. UnmadeOK' /\ ToldOK'
  BY <1>0, <1>6, <1>7 DEF IndInv, UnmadeOK, ToldOK, serverVars
<1>10. UsersOK'
  BY <1>0, <1>6 DEF IndInv, UsersOK, serverVars
<1>11. UpOK'
  BY <1>6, Silent DEF serverVars
<1>12. DownOK'
  BY <1>6 DEF DownOK
<1>13. ClosedOK'
  <2>1. worker[i] \in {"none", "close"}
    BY <1>0, <1>5 DEF IndInv, TypeOK
  <2> QED
    BY <1>5, <1>6, <1>7, <2>1 DEF IndInv, ClosedOK, serverVars
<1>14. WholeMessages' /\ ServerSurvives'
  BY <1>6 DEF IndInv, WholeMessages, ServerSurvives, serverVars
<1> QED
  BY <1>8, <1>9, <1>10, <1>11, <1>12, <1>13, <1>14 DEF IndInv

LEMMA ClientSteps ==
    ASSUME IndInv,
           \/ \E m \in Requests : ConnectToHost(m)
           \/ NoDescriptor \/ ClientStep \/ ClientKilled \/ StartClient
    PROVE  IndInv'
<1>1. ASSUME NEW m \in Requests, ConnectToHost(m)
      PROVE  IndInv'
  BY <1>1, Connecting
<1>2. CASE ClientFails
  <2>1. CASE ClientDies
    BY <2>1, Dying
  <2>2. CASE /\ Goto("idle")
             /\ UNCHANGED <<serverVars, m_socket, made, asked, heard, wire, left, buf, mishap>>
    <3>1. buf[User] = <<>>
      BY <1>2 DEF ClientFails, IndInv, UsersOK
    <3> QED
      BY <2>2, <3>1, ClientMoves DEF Goto
  <2> QED
    BY <1>2, <2>1, <2>2 DEF ClientFails
<1>3. CASE ClientKilled
  BY <1>3, Dying DEF ClientKilled
<1>4. ClientStep => IndInv'
  BY <1>2, ClientWrites, ClientWritesLost, QuietSteps, ClientReads, Hearing DEF ClientStep
<1> QED
  BY <1>1, <1>3, <1>4, QuietSteps

-----------------------------------------------------------------------------
(* The steps of the server.                                                *)

\* The process ends with its sockets.
LEMMA ServerDying ==
    ASSUME IndInv, ServerDies, mishap
    PROVE  IndInv'
<1>0. /\ User \notin Conn /\ User \in End /\ Conn \subseteq End /\ <<>> \in Octets
      /\ buf \in [End -> Octets] /\ left \in [End -> Octets]
      /\ down \in [Conn -> Octets]
      /\ Busy => m_socket \in Conn
  BY Facts
<1>1. /\ UNCHANGED <<clientVars, up, down, cEnd, told, got, mishap>>
      /\ worker' = [j \in Conn |-> "none"] /\ serverUp' = FALSE
      /\ buf'[User] = buf[User] /\ left'[User] = left[User]
      /\ \A j \in Conn : buf'[j] = <<>>
      /\ left' \in [End -> Octets] /\ buf' \in [End -> Octets]
      /\ \A j \in Conn : sEnd'[j] = IF sEnd[j] \in {"queued", "open"} THEN "closed" ELSE sEnd[j]
      /\ sEnd' \in [Conn -> {"none", "queued", "refused", "open", "closed"}]
      /\ reset' \in [Conn -> BOOLEAN]
  BY <1>0 DEF ServerDies, IndInv, TypeOK, StreamsOK
<1>2. TypeOK' /\ StreamsOK'
  BY <1>1 DEF IndInv, TypeOK, StreamsOK, clientVars
<1>3. UnmadeOK' /\ ToldOK'
  BY <1>1 DEF IndInv, UnmadeOK, ToldOK, clientVars
<1>4. UsersOK'
  BY <1>1 DEF IndInv, UsersOK, clientVars
<1>5. UpOK'
  BY <1>1 DEF UpOK
<1>6. DownOK'
  <2> SUFFICES ASSUME NEW i, i = m_socket, Busy
               PROVE  IF told[i] = Nothing THEN buf[User] = <<>>
                      ELSE Begins(Stream(buf[User], down[i], ToClient(i)'), Frame(told[i]))
    BY <1>1 DEF DownOK, clientVars, Busy
  <2>1. i \in Conn /\ ToClient(i) \in Octets /\ ToClient(i)' = <<>>
    BY <1>0, <1>1, Facts DEF ToClient
  <2>2. told[i] # Nothing =>
          /\ Begins(Stream(buf[User], down[i], ToClient(i)), Frame(told[i]))
          /\ Frame(told[i]) \in Octets
    BY <2>1, Facts, FrameFacts DEF IndInv, DownOK, Busy
  <2>3. told[i] = Nothing => buf[User] = <<>>
    BY DEF IndInv, DownOK, Busy
  <2> QED
    BY <1>0, <2>1, <2>2, <2>3, Cut
<1>7. ClosedOK' /\ ServerSurvives' /\ WholeMessages'
  BY <1>1 DEF IndInv, ClosedOK, ServerSurvives, WholeMessages, clientVars
<1> QED
  BY <1>2, <1>3, <1>4, <1>5, <1>6, <1>7 DEF IndInv

\* A worker that goes on without an octet, or gives up.
LEMMA WorkerMoves ==
    ASSUME IndInv, NEW i \in Conn, NEW step \in {"select", "read", "failed"},
           UNCHANGED <<clientVars, up, down, cEnd, reset, told, got, serverUp, left>>,
           worker' = [worker EXCEPT ![i] = step],
           \/ sEnd[i] = "queued" /\ sEnd' = [sEnd EXCEPT ![i] = "open"] /\ step = "select"
           \/ worker[i] \in {"select", "read"} /\ sEnd' = sEnd,
           mishap => mishap', mishap' \in BOOLEAN,
           step = "failed" => mishap',
           buf' = buf \/ (step = "failed" /\ buf' = [buf EXCEPT ![i] = <<>>]),
           step # "read" => buf'[i] = <<>>
    PROVE  IndInv'
<1>0. /\ User \notin Conn /\ User \in End /\ Conn \subseteq End /\ <<>> \in Octets
      /\ buf \in [End -> Octets]
      /\ \A j \in Conn : worker[j] # "none" <=> sEnd[j] = "open"
  BY Facts
<1>1. /\ worker'[i] = step /\ \A j \in Conn \ {i} : worker'[j] = worker[j]
      /\ worker' \in [Conn -> {"none", "select", "read", "failed", "send", "close"}]
      /\ sEnd'[i] = "open" /\ \A j \in Conn \ {i} : sEnd'[j] = sEnd[j]
      /\ sEnd' \in [Conn -> {"none", "queued", "refused", "open", "closed"}]
      /\ sEnd[i] \in {"queued", "open"}
  BY <1>0 DEF IndInv, TypeOK
<1>2. /\ buf'[User] = buf[User] /\ buf' \in [End -> Octets]
      /\ \A j \in Conn \ {i} : buf'[j] = buf[j]
      /\ step # "failed" => buf' = buf
  BY <1>0
<1>3. TypeOK' /\ StreamsOK'
  BY <1>1, <1>2 DEF IndInv, TypeOK, StreamsOK, clientVars
<1>4. UnmadeOK'
  BY <1>1 DEF IndInv, UnmadeOK, clientVars
<1>5. UsersOK'
  BY <1>1, <1>2 DEF IndInv, UsersOK, clientVars
<1>6. ToldOK'
  BY <1>1 DEF IndInv, ToldOK, clientVars
<1>7. UpOK'
  <2>1. \A j \in Conn : ToServer(j)' = ToServer(j)
    BY DEF ToServer, clientVars
  <2> QED
    BY <1>1, <1>2, <2>1 DEF IndInv, UpOK, clientVars
<1>8. DownOK'
  <2>1. ASSUME NEW j, j = m_socket, Busy
        PROVE  ToClient(j)' = ToClient(j)
    <3>1. j \in Conn
      BY <2>1, Facts
    <3>2. CASE j = i
      BY <1>0, <1>1, <3>2 DEF ToClient
    <3>3. CASE j # i
      BY <1>1, <3>1, <3>3 DEF ToClient
    <3> QED
      BY <3>2, <3>3
  <2> QED
    BY <1>2, <2>1 DEF IndInv, DownOK, clientVars, Busy
<1>9. ClosedOK'
  BY <1>1 DEF IndInv, ClosedOK, clientVars
<1>10. WholeMessages' /\ ServerSurvives'
  BY DEF IndInv, WholeMessages, ServerSurvives, clientVars
<1> QED
  BY <1>3, <1>4, <1>5, <1>6, <1>7, <1>8, <1>9, <1>10 DEF IndInv

LEMMA WaitingSteps ==
    ASSUME IndInv, NEW i \in Conn,
           Accept(i) \/ ServerReadable(i) \/ ServerTimeout(i) \/ ServerReadEnds(i)
    PROVE  IndInv'
<1>0. /\ worker[i] # "read" => buf[i] = <<>>
      /\ worker[i] # "none" <=> sEnd[i] = "open"
      /\ mishap \in BOOLEAN /\ buf \in [End -> Octets] /\ i \in End
  BY Facts DEF IndInv, UsersOK, StreamsOK
<1>1. CASE Accept(i)
  BY <1>0, <1>1, WorkerMoves DEF Accept, Step
<1>2. CASE ServerReadable(i)
  BY <1>0, <1>2, WorkerMoves DEF ServerReadable, At, Step, wire
<1>3. CASE ServerTimeout(i)
  BY <1>0, <1>3, WorkerMoves DEF ServerTimeout, At, Step, wire
<1>4. CASE ServerReadEnds(i)
  <2>1. mishap
    BY <1>4 DEF ServerReadEnds, Reading, At, IndInv, ClosedOK
  <2> QED
    BY <1>0, <1>4, <2>1, WorkerMoves DEF ServerReadEnds, Reading, At, Step, wire
<1> QED
  BY <1>1, <1>2, <1>3, <1>4

LEMMA ServerReads ==
    ASSUME IndInv, NEW i \in Conn, ServerRead(i)
    PROVE  IndInv'
<1>0. /\ User \notin Conn /\ User \in End /\ Conn \subseteq End
      /\ buf \in [End -> Octets] /\ up \in [Conn -> Octets] /\ Capacity \in Nat
      /\ worker[i] = "read" /\ sEnd[i] = "open" /\ i <= made
      /\ ToServer(i) \in Octets
  BY Facts, FramingAssumption DEF ServerRead, Reading, At
<1>1. UNCHANGED <<clientVars, serverVars, down, cEnd, sEnd, reset, left, mishap>>
  BY DEF ServerRead
<1>2. PICK k \in 1..Missing(buf[i]) :
        /\ k <= Len(up[i])
        /\ up' = [up EXCEPT ![i] = Drop(up[i], k)]
        /\ buf' = [buf EXCEPT ![i] = buf[i] \o Take(up[i], k)]
  BY DEF ServerRead, Some
<1>3. k \in 1..Len(up[i])
  BY <1>0, <1>2 DEF Octets
<1>4. /\ Take(up[i], k) \in Octets /\ Drop(up[i], k) \in Octets
      /\ Len(Drop(up[i], k)) = Len(up[i]) - k
  BY <1>0, <1>3, Split
<1>5. buf[i] \o Take(up[i], k) \in Octets
  BY <1>0, <1>4, Join
<1>6. /\ up'[i] = Drop(up[i], k) /\ up' \in [Conn -> Octets]
      /\ buf'[i] = buf[i] \o Take(up[i], k) /\ buf' \in [End -> Octets]
      /\ buf'[User] = buf[User]
      /\ \A j \in Conn \ {i} : up'[j] = up[j] /\ buf'[j] = buf[j]
  BY <1>0, <1>2, <1>4, <1>5
<1>7. TypeOK'
  <2>1. Len(up'[i]) = Len(up[i]) - k /\ Len(up[i]) \in Nat
    BY <1>0, <1>4, <1>6 DEF Octets
  <2>2. Len(up'[i]) <= Capacity
    BY <1>0, <1>3, <2>1 DEF IndInv, TypeOK
  <2> QED
    BY <1>1, <1>6, <2>2 DEF IndInv, TypeOK, serverVars, clientVars
<1>8. StreamsOK'
  BY <1>1, <1>6 DEF IndInv, StreamsOK, serverVars, clientVars
<1>9. UnmadeOK'
  BY <1>0, <1>1, <1>6 DEF IndInv, UnmadeOK, serverVars, clientVars
<1>10. UsersOK'
  BY <1>0, <1>1, <1>6 DEF IndInv, UsersOK, serverVars, clientVars
<1>11. ToldOK'
  BY <1>1 DEF IndInv, ToldOK, serverVars, clientVars
<1>12. UpOK'
  <2>1. Stream(buf'[i], up'[i], ToServer(i)) = Stream(buf[i], up[i], ToServer(i))
    BY <1>0, <1>3, <1>6, ReadPasses
  <2>2. \A j \in Conn : ToServer(j)' = ToServer(j)
    BY <1>1 DEF ToServer, clientVars
  <2>3. Begins(Stream(buf[i], up[i], ToServer(i)), Frame(asked[i]))
    BY <1>0 DEF IndInv, UpOK
  <2> QED
    BY <1>1, <1>6, <2>1, <2>2, <2>3 DEF IndInv, UpOK, serverVars, clientVars
<1>13. DownOK'
  BY <1>1, <1>6 DEF IndInv, DownOK, ToClient, serverVars, clientVars
<1>14. ClosedOK' /\ WholeMessages' /\ ServerSurvives'
  BY <1>1 DEF IndInv, ClosedOK, WholeMessages, ServerSurvives, serverVars, clientVars
<1> QED
  BY <1>7, <1>8, <1>9, <1>10, <1>11, <1>12, <1>13, <1>14 DEF IndInv

\* The worker begins its answer, the first one that this connection carries.
LEMMA Answering ==
    ASSUME IndInv, NEW i \in Conn, Answer(i), worker[i] \in {"read", "failed"},
           UNCHANGED <<clientVars, wire, serverUp, mishap>>,
           buf' \in [End -> Octets], buf'[i] = <<>>,
           \A e \in End \ {i} : buf'[e] = buf[e],
           DOMAIN got' = Conn, got'[i] \in {got[i], asked[i]},
           \A j \in Conn \ {i} : got'[j] = got[j]
    PROVE  IndInv'
<1>0. /\ User \notin Conn /\ User \in End /\ Conn \subseteq End
      /\ left \in [End -> Octets] /\ down \in [Conn -> Octets]
      /\ sEnd[i] = "open" /\ i <= made /\ 0 \notin Conn
  BY Facts DEF User
<1>1. PICK m \in Answers : /\ told' = [told EXCEPT ![i] = m]
                           /\ left' = [left EXCEPT ![i] = Frame(m)]
                           /\ worker' = [worker EXCEPT ![i] = "send"]
  BY DEF Answer, Step
<1>2. /\ m \in Messages /\ m # Nothing /\ Frame(m) \in Octets /\ Len(Frame(m)) # 0
  <2>1. m \in Messages /\ m # Nothing /\ HeaderLen \in 1..4
    BY FramingAssumption DEF Messages
  <2>2. Frame(m) \in Octets /\ Len(Frame(m)) = HeaderLen + Len(m) /\ Len(m) \in Nat \ {0}
    BY <2>1, FrameFacts
  <2> QED
    BY <2>1, <2>2
<1>3. told[i] = Nothing /\ down[i] = <<>>
  BY <1>0 DEF IndInv, ToldOK
<1>4. /\ told'[i] = m /\ left'[i] = Frame(m) /\ worker'[i] = "send"
      /\ told' \in [Conn -> Answers \cup {Nothing}] /\ left' \in [End -> Octets]
      /\ worker' \in [Conn -> {"none", "select", "read", "failed", "send", "close"}]
  BY <1>0, <1>1, <1>2 DEF IndInv, TypeOK, StreamsOK
<1>5. /\ \A j \in Conn \ {i} : told'[j] = told[j] /\ worker'[j] = worker[j]
      /\ \A e \in End \ {i} : left'[e] = left[e]
      /\ left'[User] = left[User] /\ buf'[User] = buf[User]
  BY <1>0, <1>1 DEF IndInv, TypeOK, StreamsOK
<1>6. TypeOK' /\ StreamsOK'
  BY <1>0, <1>4, <1>5 DEF IndInv, TypeOK, StreamsOK, clientVars, wire
<1>7. UnmadeOK'
  BY <1>0 DEF IndInv, UnmadeOK, clientVars, wire
<1>8. UsersOK'
  <2>1. left'[i] # <<>>
    BY <1>2, <1>4
  <2> QED
    BY <1>0, <1>4, <1>5, <2>1 DEF IndInv, UsersOK, clientVars, wire
<1>9. ToldOK'
  BY <1>0, <1>2, <1>4, <1>5 DEF IndInv, ToldOK, clientVars, wire
<1>10. UpOK'
  <2>1. \A j \in Conn : ToServer(j)' = ToServer(j)
    BY <1>5 DEF ToServer, clientVars
  <2> QED
    BY <1>0, <1>4, <1>5, <2>1 DEF IndInv, UpOK, clientVars, wire
<1>11. DownOK'
  <2>1. ASSUME i = m_socket, Busy
        PROVE  Begins(Stream(buf[User], down[i], ToClient(i)'), Frame(m))
    <3>1. buf[User] = <<>> /\ ToClient(i)' = Frame(m)
      BY <1>3, <1>4, <2>1 DEF IndInv, DownOK, Busy, ToClient
    <3>2. Stream(<<>>, <<>>, Frame(m)) = Frame(m)
      BY <1>2, StreamType, Join
    <3> QED
      BY <1>2, <1>3, <3>1, <3>2 DEF Begins, Octets
  <2>2. ASSUME NEW j \in Conn \ {i}
        PROVE  ToClient(j)' = ToClient(j) /\ told'[j] = told[j]
    BY <1>0, <1>5 DEF ToClient
  <2>3. Busy => m_socket \in Conn
    BY Facts
  <2>4. CASE i = m_socket
    BY <1>2, <1>4, <1>5, <2>1, <2>4 DEF DownOK, Busy, clientVars, wire
  <2>5. CASE i # m_socket
    BY <1>5, <2>2, <2>3, <2>5 DEF IndInv, DownOK, Busy, clientVars, wire
  <2> QED
    BY <2>4, <2>5
<1>12. ClosedOK'
  <2>1. ~ mishap => worker[i] = "read" /\ cEnd[i] # "closed"
    BY DEF IndInv, ClosedOK
  <2> QED
    BY <1>4, <1>5, <2>1 DEF IndInv, ClosedOK, clientVars, wire
<1>13. WholeMessages'
  <2>1. \A j \in Conn : got'[j] # Nothing => got'[j] = asked'[j]
    BY DEF IndInv, WholeMessages, clientVars
  <2>2. ASSUME heard # Nothing
        PROVE  heard = told'[m_socket]
    <3>1. m_socket \in Conn /\ heard = told[m_socket]
      <4>1. m_socket # 0 /\ m_socket \in 0..MaxConn /\ MaxConn \in Nat
        BY <2>2, FramingAssumption DEF IndInv, TypeOK, UsersOK
      <4> QED
        BY <2>2, <4>1 DEF IndInv, WholeMessages, Conn
    <3> QED
      BY <1>3, <1>5, <2>2, <3>1
  <2> QED
    BY <2>1, <2>2 DEF WholeMessages, clientVars
<1>14. ServerSurvives'
  BY DEF IndInv, ServerSurvives
<1> QED
  BY <1>6, <1>7, <1>8, <1>9, <1>10, <1>11, <1>12, <1>13, <1>14 DEF IndInv

\* What recvMsg gives is the request.
LEMMA ServerHearing ==
    ASSUME IndInv, NEW i \in Conn, ServerHears(i)
    PROVE  IndInv'
<1>0. /\ User \notin Conn /\ User \in End /\ Conn \subseteq End /\ <<>> \in Octets
      /\ buf \in [End -> Octets] /\ up \in [Conn -> Octets] /\ ToServer(i) \in Octets
      /\ worker[i] = "read" /\ i <= made /\ asked[i] \in Messages
      /\ DOMAIN got = Conn /\ ~ (Missing(buf[i]) > 0)
  BY Facts DEF ServerHears, Reading, At, IndInv, StreamsOK
<1>1. Begins(Stream(buf[i], up[i], ToServer(i)), Frame(asked[i])) /\ Frame(asked[i]) \in Octets
  BY <1>0, FrameFacts DEF IndInv, UpOK
<1>2. Begins(buf[i], Frame(asked[i]))
  BY <1>0, <1>1, Cut
<1>3. Drop(buf[i], HeaderLen) = asked[i]
  <2>1. Missing(buf[i]) \in Nat
    BY <1>0, <1>2, MissingOctets
  <2>2. Missing(buf[i]) = 0
    BY <1>0, <2>1
  <2> QED
    BY <1>0, <1>2, <2>2, MissingOctets
<1>4. /\ got' = [got EXCEPT ![i] = asked[i]] /\ buf' = [buf EXCEPT ![i] = <<>>]
      /\ Answer(i) /\ UNCHANGED <<clientVars, wire, serverUp, mishap>>
  BY <1>3 DEF ServerHears
<1>5. /\ buf' \in [End -> Octets] /\ buf'[i] = <<>>
      /\ \A e \in End \ {i} : buf'[e] = buf[e]
      /\ DOMAIN got' = Conn /\ got'[i] = asked[i]
      /\ \A j \in Conn \ {i} : got'[j] = got[j]
  BY <1>0, <1>4
<1> QED
  BY <1>0, <1>4, <1>5, Answering

LEMMA ServerFailing ==
    ASSUME IndInv, NEW i \in Conn, ServerFails(i)
    PROVE  IndInv'
<1>0. /\ buf \in [End -> Octets] /\ worker[i] = "failed" /\ buf[i] = <<>> /\ mishap
      /\ DOMAIN got = Conn
  BY Facts DEF ServerFails, At, IndInv, UsersOK, StreamsOK, ClosedOK
<1>1. CASE ServerDies
  BY <1>0, <1>1, ServerDying
<1>2. CASE Answer(i) /\ UNCHANGED <<clientVars, wire, got, serverUp, buf, mishap>>
  BY <1>0, <1>2, Answering
<1> QED
  BY <1>1, <1>2 DEF ServerFails

LEMMA ServerWrites ==
    ASSUME IndInv, NEW i \in Conn, ServerWrite(i)
    PROVE  IndInv'
<1>0. /\ User \notin Conn /\ User \in End /\ Conn \subseteq End /\ <<>> \in Octets
      /\ left \in [End -> Octets] /\ down \in [Conn -> Octets] /\ buf \in [End -> Octets]
      /\ Capacity \in Nat /\ worker[i] = "send" /\ sEnd[i] = "open" /\ cEnd[i] = "open"
      /\ told[i] # Nothing /\ Frame(told[i]) \in Octets
  BY Facts, FrameFacts, FramingAssumption DEF ServerWrite, At, IndInv, ToldOK
<1>1. UNCHANGED <<clientVars, up, cEnd, sEnd, reset, told, got, serverUp, buf, mishap>>
  BY DEF ServerWrite
<1>2. PICK k \in 1..Len(left[i]) :
        /\ k <= Capacity - Len(down[i])
        /\ down' = [down EXCEPT ![i] = down[i] \o Take(left[i], k)]
        /\ left' = [left EXCEPT ![i] = Drop(left[i], k)]
        /\ worker' = [worker EXCEPT ![i] = IF k = Len(left[i]) THEN "close" ELSE "send"]
  BY DEF ServerWrite, Some, Step
<1>3. /\ Take(left[i], k) \in Octets /\ Drop(left[i], k) \in Octets
      /\ Len(Take(left[i], k)) = k /\ Len(Drop(left[i], k)) = Len(left[i]) - k
  BY <1>0, Split
<1>4. /\ down[i] \o Take(left[i], k) \in Octets
      /\ Len(down[i] \o Take(left[i], k)) = Len(down[i]) + k
  BY <1>0, <1>3, Join
<1>5. /\ down'[i] = down[i] \o Take(left[i], k) /\ down' \in [Conn -> Octets]
      /\ left'[i] = Drop(left[i], k) /\ left' \in [End -> Octets]
      /\ left'[User] = left[User]
      /\ \A j \in Conn \ {i} : down'[j] = down[j] /\ left'[j] = left[j]
  BY <1>0, <1>2, <1>3, <1>4
<1>6. /\ worker'[i] = IF k = Len(left[i]) THEN "close" ELSE "send"
      /\ worker' \in [Conn -> {"none", "select", "read", "failed", "send", "close"}]
      /\ \A j \in Conn \ {i} : worker'[j] = worker[j]
  BY <1>2 DEF IndInv, TypeOK
<1>7. TypeOK'
  <2>1. Len(down'[i]) <= Capacity
    BY <1>0, <1>2, <1>4, <1>5 DEF Octets
  <2> QED
    BY <1>0, <1>1, <1>5, <1>6, <2>1 DEF IndInv, TypeOK, clientVars
<1>8. StreamsOK' /\ UnmadeOK'
  BY <1>1, <1>5 DEF IndInv, StreamsOK, UnmadeOK, clientVars
<1>9. UsersOK'
  <2>1. worker'[i] = "send" => left'[i] # <<>>
    BY <1>0, <1>3, <1>5, <1>6 DEF Octets
  <2>2. worker'[i] # "read" => buf[i] = <<>>
    BY <1>0 DEF IndInv, UsersOK
  <2> QED
    BY <1>1, <1>5, <1>6, <2>1, <2>2 DEF IndInv, UsersOK, clientVars
<1>10. ToldOK'
  BY <1>0, <1>1, <1>5, <1>6 DEF IndInv, ToldOK, clientVars
<1>11. UpOK'
  <2>1. \A j \in Conn : ToServer(j)' = ToServer(j)
    BY <1>1, <1>5 DEF ToServer, clientVars
  <2> QED
    BY <1>0, <1>1, <1>6, <2>1 DEF IndInv, UpOK, clientVars
<1>12. DownOK'
  <2>1. ASSUME i = m_socket, Busy
        PROVE  Begins(Stream(buf[User], down'[i], ToClient(i)'), Frame(told[i]))
    <3>1. Begins(Stream(buf[User], down[i], left[i]), Frame(told[i]))
      BY <1>0, <2>1 DEF IndInv, DownOK, Busy, ToClient
    <3>2. Stream(buf[User], down'[i], left'[i]) = Stream(buf[User], down[i], left[i])
      BY <1>0, <1>5, WritePasses
    <3>3. CASE ToClient(i)' = left'[i]
      BY <3>1, <3>2, <3>3
    <3>4. CASE ToClient(i)' = <<>>
      BY <1>0, <1>3, <1>4, <1>5, <3>1, <3>2, <3>4, Cut
    <3> QED
      BY <3>3, <3>4 DEF ToClient
  <2>2. Busy => m_socket \in Conn
    BY Facts
  <2>3. CASE i = m_socket
    BY <1>0, <1>1, <2>1, <2>3 DEF DownOK, Busy, clientVars
  <2>4. CASE i # m_socket
    <3>1. Busy => ToClient(m_socket)' = ToClient(m_socket) /\ down'[m_socket] = down[m_socket]
      BY <1>1, <1>5, <1>6, <2>2, <2>4 DEF ToClient, clientVars
    <3> QED
      BY <1>1, <2>2, <2>4, <3>1 DEF IndInv, DownOK, Busy, clientVars
  <2> QED
    BY <2>3, <2>4
<1>13. ClosedOK'
  BY <1>0, <1>1, <1>6 DEF IndInv, ClosedOK, clientVars
<1>14. WholeMessages' /\ ServerSurvives'
  BY <1>1 DEF IndInv, WholeMessages, ServerSurvives, clientVars
<1> QED
  BY <1>7, <1>8, <1>9, <1>10, <1>11, <1>12, <1>13, <1>14 DEF IndInv

\* What is written to a client that has let go: it had died before.
LEMMA ServerWritesLost ==
    ASSUME IndInv, NEW i \in Conn, ServerWriteLost(i)
    PROVE  IndInv'
<1>0. /\ User \notin Conn /\ User \in End /\ Conn \subseteq End
      /\ left \in [End -> Octets] /\ buf \in [End -> Octets]
      /\ worker[i] = "send" /\ sEnd[i] = "open" /\ cEnd[i] = "closed" /\ mishap
      /\ told[i] # Nothing
      /\ ~ (Busy /\ m_socket = i)
  BY Facts DEF ServerWriteLost, At, IndInv, ToldOK, ClosedOK
<1>1. CASE ServerDies
  BY <1>0, <1>1, ServerDying
<1>2. ASSUME ~ ServerDies
      PROVE  IndInv'
  <2>1. /\ UNCHANGED <<clientVars, up, down, cEnd, sEnd, told, got, serverUp, buf, mishap>>
        /\ reset' = [reset EXCEPT ![i] = TRUE]
    BY <1>2 DEF ServerWriteLost
  <2>2. PICK k \in 1..Len(left[i]) :
          /\ left' = [left EXCEPT ![i] = Drop(left[i], k)]
          /\ worker' = [worker EXCEPT ![i] = IF k = Len(left[i]) THEN "close" ELSE "send"]
    BY <1>2 DEF ServerWriteLost, Some, Step
  <2>3. Drop(left[i], k) \in Octets /\ Len(Drop(left[i], k)) = Len(left[i]) - k
    BY <1>0, Split
  <2>4. /\ left'[i] = Drop(left[i], k) /\ left' \in [End -> Octets]
        /\ left'[User] = left[User] /\ \A j \in Conn \ {i} : left'[j] = left[j]
        /\ reset' \in [Conn -> BOOLEAN]
    BY <1>0, <2>1, <2>2, <2>3 DEF IndInv, StreamsOK
  <2>5. /\ worker'[i] = IF k = Len(left[i]) THEN "close" ELSE "send"
        /\ worker' \in [Conn -> {"none", "select", "read", "failed", "send", "close"}]
        /\ \A j \in Conn \ {i} : worker'[j] = worker[j]
    BY <2>2 DEF IndInv, TypeOK
  <2>6. TypeOK' /\ StreamsOK' /\ UnmadeOK'
    BY <1>0, <2>1, <2>4, <2>5 DEF IndInv, TypeOK, StreamsOK, UnmadeOK, clientVars
  <2>7. UsersOK'
    <3>1. worker'[i] = "send" => left'[i] # <<>>
      BY <1>0, <2>3, <2>4, <2>5 DEF Octets
    <3>2. worker'[i] # "read" => buf[i] = <<>>
      BY <1>0 DEF IndInv, UsersOK
    <3> QED
      BY <2>1, <2>4, <2>5, <3>1, <3>2 DEF IndInv, UsersOK, clientVars
  <2>8. ToldOK'
    BY <1>0, <2>1, <2>5 DEF IndInv, ToldOK, clientVars
  <2>9. UpOK'
    <3>1. \A j \in Conn : ToServer(j)' = ToServer(j)
      BY <2>1, <2>4 DEF ToServer, clientVars
    <3> QED
      BY <1>0, <2>1, <2>5, <3>1 DEF IndInv, UpOK, clientVars
  <2>10. DownOK'
    <3>1. Busy => ToClient(m_socket)' = ToClient(m_socket)
      BY <1>0, <2>1, <2>4, <2>5, Facts DEF ToClient, clientVars
    <3> QED
      BY <2>1, <3>1 DEF IndInv, DownOK, Busy, clientVars
  <2>11. ClosedOK' /\ WholeMessages' /\ ServerSurvives'
    BY <1>0, <2>1 DEF IndInv, ClosedOK, WholeMessages, ServerSurvives, clientVars
  <2> QED
    BY <2>6, <2>7, <2>8, <2>9, <2>10, <2>11 DEF IndInv
<1> QED
  BY <1>1, <1>2

LEMMA DisConnecting ==
    ASSUME IndInv, NEW i \in Conn, DisConnect(i)
    PROVE  IndInv'
<1>0. worker[i] = "close" /\ sEnd[i] = "open" /\ told[i] # Nothing
  BY Facts DEF DisConnect, At, IndInv, ToldOK
<1>1. /\ UNCHANGED <<clientVars, up, down, cEnd, told, got, serverUp, left, buf, mishap>>
      /\ sEnd'[i] = "closed" /\ worker'[i] = "none"
      /\ \A j \in Conn \ {i} : sEnd'[j] = sEnd[j] /\ worker'[j] = worker[j]
      /\ sEnd' \in [Conn -> {"none", "queued", "refused", "open", "closed"}]
      /\ worker' \in [Conn -> {"none", "select", "read", "failed", "send", "close"}]
      /\ reset' \in [Conn -> BOOLEAN]
  BY DEF DisConnect, Step, IndInv, TypeOK, StreamsOK
<1>2. TypeOK' /\ StreamsOK'
  BY <1>1 DEF IndInv, TypeOK, StreamsOK, clientVars
<1>3. UnmadeOK' /\ UsersOK' /\ ToldOK'
  BY <1>0, <1>1 DEF IndInv, UnmadeOK, UsersOK, ToldOK, clientVars
<1>4. UpOK'
  <2>1. \A j \in Conn : ToServer(j)' = ToServer(j)
    BY <1>1 DEF ToServer, clientVars
  <2> QED
    BY <1>1, <2>1 DEF IndInv, UpOK, clientVars
<1>5. DownOK'
  <2>1. ASSUME NEW j \in Conn
        PROVE  ToClient(j)' = ToClient(j)
    <3>1. CASE j = i
      BY <1>0, <1>1, <3>1 DEF ToClient
    <3>2. CASE j # i
      BY <1>1, <3>2 DEF ToClient
    <3> QED
      BY <3>1, <3>2
  <2> QED
    BY <1>1, <2>1, Facts DEF IndInv, DownOK, Busy, clientVars
<1>6. ClosedOK' /\ WholeMessages' /\ ServerSurvives'
  BY <1>0, <1>1 DEF IndInv, ClosedOK, WholeMessages, ServerSurvives, clientVars
<1> QED
  BY <1>2, <1>3, <1>4, <1>5, <1>6 DEF IndInv

-----------------------------------------------------------------------------
(* All of it.                                                              *)

LEMMA InitInv == Init => IndInv
<1> SUFFICES ASSUME Init
             PROVE  IndInv
  OBVIOUS
<1>1. /\ MaxConn \in Nat /\ Capacity \in Nat /\ <<>> \in Octets /\ Len(<<>>) = 0
      /\ 0 \in 0..MaxConn /\ \A i \in Conn : ~ (i <= 0)
  BY FramingAssumption DEF Octets, Conn
<1>2. TypeOK
  BY <1>1 DEF Init, TypeOK
<1>3. StreamsOK
  BY <1>1 DEF Init, StreamsOK
<1>4. UnmadeOK
  BY <1>1 DEF Init, UnmadeOK
<1>5. UsersOK /\ ToldOK
  BY DEF Init, UsersOK, ToldOK, User, End
<1>6. UpOK /\ DownOK /\ ClosedOK /\ WholeMessages /\ ServerSurvives
  BY DEF Init, UpOK, DownOK, ClosedOK, WholeMessages, ServerSurvives
<1> QED
  BY <1>2, <1>3, <1>4, <1>5, <1>6 DEF IndInv

LEMMA NextInv == IndInv /\ [Next]_vars => IndInv'
<1> SUFFICES ASSUME IndInv, [Next]_vars
             PROVE  IndInv'
  OBVIOUS
<1>1. CASE \/ \E m \in Requests : ConnectToHost(m)
           \/ NoDescriptor \/ ClientStep \/ ClientKilled \/ StartClient
  BY <1>1, ClientSteps
<1>2. ASSUME NEW i \in Conn, Accept(i) \/ WorkerStep(i) \/ ServerTimeout(i)
      PROVE  IndInv'
  <2>1. CASE Accept(i) \/ ServerTimeout(i)
    BY <2>1, WaitingSteps
  <2>2. CASE WorkerStep(i)
    BY <2>2, WaitingSteps, ServerReads, ServerHearing, ServerFailing, ServerWrites,
       ServerWritesLost, DisConnecting DEF WorkerStep
  <2> QED
    BY <1>2, <2>1, <2>2
<1>3. CASE UNCHANGED vars
  <2>1. /\ TypeOK' /\ StreamsOK' /\ UnmadeOK' /\ UsersOK' /\ ToldOK'
        /\ ClosedOK' /\ WholeMessages' /\ ServerSurvives'
    BY <1>3 DEF IndInv, TypeOK, StreamsOK, UnmadeOK, UsersOK, ToldOK, ClosedOK,
       WholeMessages, ServerSurvives, vars, serverVars, clientVars, wire
  <2>2. UpOK'
    BY <1>3 DEF IndInv, UpOK, ToServer, vars, serverVars, clientVars, wire
  <2>3. DownOK'
    BY <1>3 DEF IndInv, DownOK, ToClient, vars, serverVars, clientVars, wire
  <2> QED
    BY <2>1, <2>2, <2>3 DEF IndInv
<1> QED
  BY <1>1, <1>2, <1>3 DEF Next

\* The streams of every connection carry one frame in each direction, and no
\* octet of it is lost, doubled or of another message, however sendMsg and
\* recvMsg are interrupted (TcpSocket.cpp:133-207).
THEOREM FramingInvariance == Spec => []IndInv
BY InitInv, NextInv, PTL DEF Spec

\* What recvMsg gives at one end is the message that sendMsg was given at the
\* other, for every number of connections and every way in which reads and
\* writes split the stream (TcpSocket.cpp:133-207).
THEOREM MessagesWhole == Spec => []WholeMessages
<1>1. IndInv => WholeMessages
  BY DEF IndInv
<1> QED
  BY <1>1, FramingInvariance, PTL

\* The server's process ends only after a client that died, or that did not
\* send its request in time (TcpSocket.cpp:133-207, ServerOperation.cpp:45-88).
THEOREM ServerLives == Spec => []ServerSurvives
<1>1. IndInv => ServerSurvives
  BY DEF IndInv
<1> QED
  BY <1>1, FramingInvariance, PTL
============================================================================
