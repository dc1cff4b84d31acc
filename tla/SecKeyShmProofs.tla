-------------------------- MODULE SecKeyShmProofs --------------------------
(***************************************************************************)
(* What shmWrite and shmRead guarantee about a table of any size: facts    *)
(* about the operators of SecKeyShm, cited by the proofs about the system. *)
(***************************************************************************)
EXTENDS SecKeyShm, FiniteSetTheorems, WellFoundedInduction, TLAPS

\* A table of n slots whose clientIDs are clients or empty.
IsTable(t, n) == t \in [1..n -> NodeSHMInfo]

\* The scan of shmWrite and shmRead stops inside the set it scans for.
LEMMA FirstInSet ==
    ASSUME NEW S, S \subseteq Nat, S # {}
    PROVE  First(S) \in S /\ \A j \in S : First(S) <= j
<1>1. PICK k \in S : \A j \in S : ~ (<<j, k>> \in OpToRel(<, Nat))
  BY NatLessThanWellFounded, WFMin, Zenon
<1>2. \A j \in S : k <= j
  <2>1. \A j \in S : ~ (j < k)
    BY <1>1 DEF OpToRel
  <2> QED
    BY <2>1
<1> QED
  BY <1>2 DEF First

\* Where shmWrite writes is a slot of the table.
LEMMA WriteSlotsInTable ==
    ASSUME NEW n \in Nat, NEW t, IsTable(t, n), NEW c
    PROVE  /\ SlotsOf(t, c) \subseteq 1..n
           /\ FreeSlots(t) \subseteq 1..n
           /\ WriteSlots(t, c) \subseteq 1..n
           /\ SlotsOf(t, c) # {} => First(SlotsOf(t, c)) \in SlotsOf(t, c)
           /\ WriteSlots(t, c) # {} => First(WriteSlots(t, c)) \in WriteSlots(t, c)
<1>1. DOMAIN t = 1..n
  BY DEF IsTable
<1>2. SlotsOf(t, c) \subseteq 1..n /\ FreeSlots(t) \subseteq 1..n
  BY <1>1 DEF SlotsOf, FreeSlots
<1>3. WriteSlots(t, c) \subseteq 1..n
  BY <1>2 DEF WriteSlots
<1>4. 1..n \subseteq Nat
  OBVIOUS
<1> QED
  BY <1>2, <1>3, <1>4, FirstInSet

\* shmWrite keeps a table a table, whatever node it is given.
THEOREM ShmWriteType ==
    ASSUME NEW n \in Nat, NEW t, IsTable(t, n), NEW node \in NodeSHMInfo
    PROVE  IsTable(ShmWrite(t, node), n)
<1>1. DOMAIN t = 1..n /\ \A k \in 1..n : t[k] \in NodeSHMInfo
  BY DEF IsTable
<1> QED
  BY <1>1 DEF IsTable, ShmWrite

\* The all-zero slot belongs to no client, and is a node.
LEMMA ZeroType == Zero \in NodeSHMInfo
BY DEF Zero, NodeSHMInfo

\* What the constructor leaves is a table, without two slots of a client.
LEMMA ZeroTableType ==
    ASSUME NEW n \in Nat
    PROVE  IsTable(ZeroTable(n), n) /\ OneSlotEach(ZeroTable(n))
BY ZeroType DEF IsTable, ZeroTable, OneSlotEach, Zero

\* shmRead returns a slot of the table or zeroes.
LEMMA ShmReadType ==
    ASSUME NEW n \in Nat, NEW t, IsTable(t, n), NEW c
    PROVE  ShmRead(t, c) \in NodeSHMInfo
<1>1. CASE SlotsOf(t, c) = {}
  BY <1>1, ZeroType DEF ShmRead
<1>2. CASE SlotsOf(t, c) # {}
  <2>1. First(SlotsOf(t, c)) \in 1..n
    BY <1>2, WriteSlotsInTable
  <2> QED
    BY <1>2, <2>1 DEF ShmRead, IsTable
<1> QED
  BY <1>1, <1>2

\* What shmRead returns for a client is the client's own or nobody's.
LEMMA ShmReadOwner ==
    ASSUME NEW n \in Nat, NEW t, IsTable(t, n), NEW c
    PROVE  ShmRead(t, c).clientID \in {c, NoClient}
<1>1. CASE SlotsOf(t, c) = {}
  BY <1>1 DEF ShmRead, Zero
<1>2. CASE SlotsOf(t, c) # {}
  <2>1. First(SlotsOf(t, c)) \in SlotsOf(t, c)
    BY <1>2, WriteSlotsInTable
  <2> QED
    BY <1>2, <2>1 DEF ShmRead, SlotsOf
<1> QED
  BY <1>1, <1>2

\* shmWrite never gives a client a second slot: it looks for the client's own
\* slot before it looks for a free one.
THEOREM ShmWriteOneSlot ==
    ASSUME NEW n \in Nat, NEW t, IsTable(t, n), OneSlotEach(t),
           NEW node \in NodeSHMInfo
    PROVE  OneSlotEach(ShmWrite(t, node))
<1> DEFINE u == ShmWrite(t, node)
           W == WriteSlots(t, node.clientID)
<1>1. DOMAIN t = 1..n /\ DOMAIN u = 1..n
  BY DEF IsTable, ShmWrite
<1>2. CASE W = {}
  BY <1>1, <1>2 DEF ShmWrite, OneSlotEach
<1>3. CASE W # {}
  <2> DEFINE f == First(W)
  <2>1. f \in W /\ f \in 1..n
    BY <1>3, WriteSlotsInTable
  <2>2. \A k \in 1..n : u[k] = IF k = f THEN node ELSE t[k]
    BY <1>1, <1>3 DEF ShmWrite
  <2>3. ASSUME NEW k \in 1..n, k # f, t[k].clientID = node.clientID,
               node.clientID # NoClient
        PROVE  FALSE
    <3>1. SlotsOf(t, node.clientID) # {}
      BY <1>1, <2>3 DEF SlotsOf
    <3>2. f \in SlotsOf(t, node.clientID)
      BY <2>1, <3>1 DEF WriteSlots
    <3>3. t[f].clientID = node.clientID
      BY <3>2 DEF SlotsOf
    <3> QED
      BY <1>1, <2>1, <2>3, <3>3 DEF OneSlotEach
  <2>4. ASSUME NEW j \in 1..n, NEW k \in 1..n,
               u[j].clientID = u[k].clientID, u[j].clientID # NoClient
        PROVE  j = k
    <3>1. CASE j = f /\ k # f
      BY <2>2, <2>3, <2>4, <3>1
    <3>2. CASE k = f /\ j # f
      BY <2>2, <2>3, <2>4, <3>2
    <3>3. CASE j # f /\ k # f
      BY <1>1, <2>2, <2>4, <3>3 DEF OneSlotEach
    <3> QED
      BY <3>1, <3>2, <3>3
  <2> QED
    BY <1>1, <2>4 DEF OneSlotEach
<1> QED
  BY <1>2, <1>3

\* Whatever shmWrite does for one client, shmRead returns the same node as
\* before for every other client, also when the table is full.
THEOREM ShmWriteOthers ==
    ASSUME NEW n \in Nat, NEW t, IsTable(t, n), NEW node \in NodeSHMInfo,
           NEW c \in Client, c # node.clientID
    PROVE  ShmRead(ShmWrite(t, node), c) = ShmRead(t, c)
<1> DEFINE u == ShmWrite(t, node)
           W == WriteSlots(t, node.clientID)
<1>1. DOMAIN t = 1..n /\ DOMAIN u = 1..n
  BY DEF IsTable, ShmWrite
<1>2. \A k \in W : t[k].clientID # c
  <2>1. c # NoClient
    BY NoClientAssumption
  <2> QED
    BY <2>1 DEF WriteSlots, SlotsOf, FreeSlots, Zero
<1>3. ASSUME NEW k \in 1..n
      PROVE  u[k] = t[k] \/ (u[k] = node /\ k \in W)
  BY <1>1, WriteSlotsInTable DEF ShmWrite
<1>4. SlotsOf(u, c) = SlotsOf(t, c)
  BY <1>1, <1>2, <1>3 DEF SlotsOf
<1>5. CASE SlotsOf(t, c) = {}
  BY <1>4, <1>5 DEF ShmRead
<1>6. CASE SlotsOf(t, c) # {}
  <2>1. First(SlotsOf(t, c)) \in SlotsOf(t, c)
    BY <1>6, WriteSlotsInTable
  <2>2. u[First(SlotsOf(t, c))] = t[First(SlotsOf(t, c))]
    BY <1>1, <1>2, <1>3, <2>1 DEF SlotsOf
  <2> QED
    BY <1>4, <1>6, <2>2 DEF ShmRead
<1> QED
  BY <1>5, <1>6

\* When there is room, the next shmRead returns what shmWrite wrote.
THEOREM ShmReadAfterWrite ==
    ASSUME NEW n \in Nat, NEW t, IsTable(t, n), OneSlotEach(t),
           NEW node \in NodeSHMInfo, node.clientID \in Client,
           WriteSlots(t, node.clientID) # {}
    PROVE  ShmRead(ShmWrite(t, node), node.clientID) = node
<1> DEFINE u == ShmWrite(t, node)
           f == First(WriteSlots(t, node.clientID))
<1>1. DOMAIN t = 1..n /\ DOMAIN u = 1..n
  BY DEF IsTable, ShmWrite
<1>2. f \in 1..n
  BY WriteSlotsInTable
<1>3. u[f] = node
  BY <1>1, <1>2 DEF ShmWrite
<1>4. OneSlotEach(u)
  BY ShmWriteOneSlot
<1>5. node.clientID # NoClient
  BY NoClientAssumption
<1>6. SlotsOf(u, node.clientID) = {f}
  BY <1>1, <1>2, <1>3, <1>4, <1>5 DEF SlotsOf, OneSlotEach
<1>7. First({f}) = f
  BY <1>2, FirstInSet
<1> QED
  BY <1>3, <1>6, <1>7 DEF ShmRead

\* A table with as many slots as it has users never refuses one of them: the
\* slots that are taken belong to different users, so one is left.
THEOREM RoomForAll ==
    ASSUME NEW n \in Nat, NEW t, IsTable(t, n), OneSlotEach(t),
           NEW S, IsFiniteSet(S), Cardinality(S) <= n,
           \A k \in 1..n : /\ t[k].clientID \in S \cup {NoClient}
                           /\ t[k].clientID = NoClient => t[k] = Zero,
           NEW c \in S
    PROVE  WriteSlots(t, c) # {}
<1> SUFFICES ASSUME WriteSlots(t, c) = {} PROVE FALSE
  OBVIOUS
<1> DEFINE f == [k \in 1..n |-> t[k].clientID]
<1>1. DOMAIN t = 1..n /\ SlotsOf(t, c) = {} /\ FreeSlots(t) = {}
  BY DEF IsTable, WriteSlots
<1>2. \A k \in 1..n : t[k].clientID \in S \ {c} /\ t[k].clientID # NoClient
  BY <1>1 DEF SlotsOf, FreeSlots
<1>3. f \in Injection(1..n, S \ {c})
  <2>1. f \in [1..n -> S \ {c}]
    BY <1>2
  <2>2. \A j, k \in 1..n : f[j] = f[k] => j = k
    BY <1>1, <1>2 DEF OneSlotEach
  <2> QED
    BY <2>1, <2>2 DEF Injection, IsInjective
<1>4. /\ IsFiniteSet(S \ {c}) /\ Cardinality(S \ {c}) = Cardinality(S) - 1
      /\ Cardinality(S) \in Nat
  BY FS_RemoveElement, FS_CardinalityType
<1>5. Cardinality(1..n) = n
  BY FS_Interval, 1 \in Int
<1>6. Cardinality(1..n) <= Cardinality(S \ {c})
  BY <1>3, <1>4, FS_Injection
<1> QED
  BY <1>4, <1>5, <1>6
============================================================================
