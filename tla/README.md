# A TLA+ model of the key agreement system

The system lets a client and a server agree on a symmetric key: the client sends a
nonce `r1`, the server answers with a nonce `r2`, and both store `SHA1(r1 r2)`. The
key can later be checked and revoked. This directory models the protocol together
with the things that make it hard: worker threads that share one database
connection, two stores that are written one after the other, a server that crashes
and rebuilds one store from the other, and clients that miss their answers.

`src/` below is the root of the repository.

## 1. Inventory

| component | source | state | operations | status |
|---|---|---|---|---|
| server, request processing | `KeyAgreeServer/ServerOperation.cpp` | `m_shm`, `m_mysql`, locals of each worker | constructor (reload), `startWork`, `working`, `secKeyAgree`, `secKeyCheck`, `secKeyRevoke` | modelled: `KeyServer` |
| server, threads | `ServerOperation.cpp:72-92,332-405`, `TcpServer.cpp` | `m_listSocket`, `m_client`, `m_stop` | accept, thread creation, registry, SIGUSR1 | modelled: `ServerProcess`, `ServerThreads` |
| key table, server | `KeyAgreeServer/src/ShM/SecKeyShm.cpp` | `maxnode` slots in a System V segment | `shmWrite`, `shmRead`, constructor | modelled: `SecKeyShm`, `ShmCalls` |
| segments | `src/ShM/ShareMemory.cpp` | `m_shmAddr` | `mapShm`, `unmapShm` | modelled: `ShmCalls` |
| key table, client | `KeyAgreeClient/src/ShM/SecKeyShm.cpp` | one slot | the same, but the constructor keeps an existing segment | modelled: `SecKeyShm`, `KeyClient` |
| database | `KeyAgreeServer/src/MySQL/MySQL.cpp`, `KeyAgree_mysql.sql` | tables `seckeyinfo`, `secnode`; the member `result` | `GetSqlRes`, `DoSql` | modelled: `KeyServer` (calls whole), `DbCalls` (in parts) |
| client | `KeyAgreeClient/ClientOperation.cpp`, `main.cpp` | its table, its socket | menu, `secKeyAgree`, `secKeyCheck`, `secKeyRevoke`, `secKeyView` | modelled: `KeyClient` |
| messages | `RequestCodec`, `RespondCodec` | a struct | `msgEncode`, `msgDecode` | modelled: `Wire` (records), `DerCodec` (octets) |
| DER library | `src/ASN1/BaseASN1.cpp`, `SequenceASN1.cpp` | the list of nodes | lengths, integers, strings, sequences | modelled: `DerLow`, `DerCodec` |
| sockets and framing | `src/TCP/TcpSocket.cpp` | a descriptor | connect, send, receive, close, with timeouts | modelled: `Framing`; as whole connections: `Wire` |
| encryption library | `KeyAgreeLib/src` | - | `encryptFun`, `decryptFun` | partly: `Cipher`, without AES |
| factories, log, the client's copies of `MySQL` and `TcpServer` | | - | | not modelled: no state, pure output, never called |

How they interact. A client operation opens one TCP connection, sends one request
and waits for one response. The server's main thread accepts it and starts a detached
thread (`working`), which decodes the request, asks `secnode` for the client, runs one
of the three operations and sends the response. All threads share one `SecKeyShm` and
one `MySQL` object; there is no lock anywhere. An agreement writes shared memory first
(`ServerOperation.cpp:164`) and the database last (`:197`), with two or three other
calls in between; a revocation writes shared memory (`:287`) and then the database
(`:291`). The constructor zeroes the table and copies `seckeyinfo` into it.

What is hard, and what makes each part correct:

* The **table** must never hold two slots of a client, and a write for one client
  must not be seen by another (`OneSlotPerClient`, `OtherSlotsUntouched`). Both are false
  once two workers meet inside a call on it: the scan for a free slot and the copy to it
  have no lock (`NewSlotIsFree`, violated).
* The **two stores** of the server must tell the same whenever nobody is between the
  two writes, whatever crash came in between (`StoresAgree`).
* The **two ends** must hold the same key once the client has heard its answers, and an
  answer must fit the server's slot at the moment it is used (`EndsAgree`,
  `AnswerFits`). Where workers overlap, a refusal may be a freed result, and a client
  gives its key up for no reason; it must still never take for usable a key that the
  server does not (`UsableKeyFits`).
* A **revocation** that was carried out must survive restarts and replayed requests
  (`RevokedStaysRevoked`).
* A client that is **not registered** must get nothing (`UnregisteredRefused`).
* The **id** that the client keeps must be the id of its row, although two different
  mechanisms compute the two (`ClientIdIsRowId`).
* Every operation must **end** (`OperationsEnd`).
* All of this together is a simple promise, a pair of keys that changes by agreement and
  revocation only (`PairSpec`).
* **Inside one call** of a shared object there is no lock either: a worker must get its
  own socket (`OwnSocket`), a call that met no other must be atomic (`WriteIsAtomic`,
  `OwnRows`, `KnownInBoth`), a slot in use must not be taken (`LoadedSlotKept`), and
  every way the process can end must be one of the known ones (`CrashExplained`).
* The **octets** of a message must be those that were encoded (`RoundTrip`,
  `ElementsFill`, `InsideItsField`) and arrive whole however the stream splits them
  (`WholeMessages`), and a wait for them must end (`WorkersEnd`, `ClientReturns`).
* An **encrypted text** must come back under the same key (`TextComesBack`).

`PROJECT.json` lists every hazard at its line, and for the few that no property covers
the reason.

## 2. Modules

| module | models |
|---|---|
| `SecKeyShm` | the table as a function from slots to `NodeSHMInfo` records; `ShmWrite`, `ShmRead` |
| `Wire` | requests, responses, `Mac`, and `conn`, the TCP connections |
| `KeyServer` | the server's variables and one action for each call a worker makes on a shared object, three for `shmWrite` |
| `KeyClient` | the client's variables, its requests and everything `recvMsg` and `msgDecode` can end in |
| `KeyAgreement` | the composition, fairness, the invariants and properties |
| `KeyPair` | the abstract specification: what the system promises a client |
| `ServerProcess` | the main thread, the registry of sockets, the beginning and the end of a worker |
| `ShmCalls` | `shmWrite` and `shmRead` in parts: attach, return the address, scan, copy in two halves, detach |
| `DbCalls` | `GetSqlRes` and `DoSql` in parts: query, reply, free, forget, store, return; statement, reply |
| `ServerThreads` | the composition of the three, with the local code of a worker between the calls |
| `Framing` | `sendMsg` and `recvMsg` over streams; one client process and the server's workers |
| `DerLow` | the DER library as operators on octet strings |
| `DerCodec` | both codecs, one action for each node written or read |
| `Cipher` | `encryptFun` and `decryptFun` at the two ends, and the tables they read |
| `MCKeyAgreement`, `MCServerThreads`, `MCFraming`, `MCDerCodec`, `MCCipher` | values of the constants for TLC |
| `SecKeyShmProofs` | what `ShmWrite` and `ShmRead` do, for every table |
| `KeyAgreementProofs` | the inductive invariant `IndInv` of `KeyAgreement`, `WriteOK`, `OneSlotPerClient` and `OtherSlotsUntouched`; for requests that do not overlap `UnregisteredRefused`, `RevokedStaysRevoked` and `StoresAgree` |
| `EndsProofs` | the two ends: `EndsAgree`, `ClientIdIsRowId`, `AnswerFits`; `AnswerFits` and `UsableKeyFits` for workers that overlap |
| `PairProofs` | the refinement of `KeyPair` |
| `ThreadProofs` | the inductive invariant `IndInv` of `ServerThreads`, the six properties that follow, and `KnownInBoth` |
| `FramingProofs` | the inductive invariant `IndInv` of `Framing`, `WholeMessages` and `ServerSurvives` |
| `CipherProofs` | `TextComesBack` |
| `CodecProofs` | what the operators of `DerLow` write is read back; the inductive invariant `IndInv` of `DerCodec` and its five properties |

Correspondence of state:

* `shm`, `db`, `nextId` are the segment, the rows of `seckeyinfo` and its
  AUTO_INCREMENT counter. They survive `Crash`. `secnode` does not change while the
  system runs and is the constant `Registered`.
* `work[i]` is the thread that serves connection `i`: `pc` names the next call, `req`
  and `rsp` are its messages, `node` is its local `NodeSHMInfo`, `slot` where `shmWrite`
  is going to copy it. A thread yields between two calls on shared objects, so one action
  is one call together with the local code that follows it. Only `shmWrite` of a worker
  is three: the scan for the client's own slot (`OwnSlot`), without one the scan for a
  free one (`FreeSlot`), and the copy (`Copy`). `pc` runs query, checkId, then agree,
  ownSlot, (freeSlot,) copy, select, decide, (max, takeId,) update or insert; or check; or
  revoke, ownSlot, (freeSlot,) copy, revokeDb; and last send.
* `res` is `MySQL::result`: `by` is the thread whose query stored it. A thread that reads
  it after another thread's query reads freed memory, and `Read` then allows every
  number. A result is read once, so it is dropped when it has been read.
* `conn[i]` is a connection: `sent`, `served` by a thread, `answered`, or `lost` when the
  server died. `open` says whether the client's end still exists; the server keeps
  processing the request of a client that has gone.
* `inbuf` and `cbuf[c]` are what the uninitialised pointer `inData` may still point to
  when `recvMsg` fails: an earlier message, or nothing, and then the process dies.
* `rsp.seckeyid` starts as any member of `Garbage`, because `RespondMsg` is not
  initialised; `rsp.r2` starts as `Junk`. A negative `seckeyid` is dropped by the
  encoder and the client dies decoding the response (`DecodeDies`).
* `revoked`, `met`, `sure` and `alone` are history variables; no guard reads them. `met`
  says that since the server was started a call on the table began while a `shmWrite` was
  between its scan and its copy.

Abstractions. SHA1 and HMAC are injective: a key is the pair of nonces and a code the
pair of client and text. Nonces are not assumed to be fresh: both `getRandString`
functions seed `rand()` with the clock, so any nonce may come twice. `serverId` is the
literal "1" everywhere and left out. Times, names and output are left out. One process
per client id is assumed. The comment on `status` in the server's `SecKeyShm.h` says
that 0 is "in use"; the code uses 1 for a usable key, and so does the model.

### The promise: `KeyPair`

`KeyAgreement` is shown to implement `KeyPair` by the mapping in `KeyAgreement`: the
server's side of the pair is the client's row of `seckeyinfo` (what a restart builds on),
the client's side is its slot, and the news is the response, from the moment when the
stores are written until the client has used it or given up. Each agreement and
revocation is one abstract step, taken where the row is written; all others stutter. A
crash between the two writes is then an agreement that never happened, or happened and
was not told.

### Inside the calls: `ServerThreads`

`KeyServer` treats a call on `m_shm` or `m_mysql` as one step, `shmWrite` as three, and has
each worker start with its request. `ServerThreads` is the other half: it knows no codes
and no ids, but takes the calls apart, down to the mapping of the segment and the replies
of the database. `pc[t]` names the next part of thread `t`; `main` is the program
counter of `startWork`. A step that follows a null pointer, an address that was detached
or a result that was freed ends the process, and `why` records which. Assumptions:

* One operation on `std::map` is atomic, except that two at once may also end the process
  (`MapRace`). `Thread` bounds how many workers run; the code sets no limit. A thread
  number is given again when its thread has ended, which `pthread_create` may do.
* `working` returns nothing although it should return a pointer; nobody joins it, so
  nothing is said of it.
* `accept` fails at most once in a behaviour, and its errno may be the descriptor of an
  open connection. Two workers on one connection get parts of a message each; one of them
  then fails and decodes an unset pointer, so the process ends there.
* The MySQL client library is not part of the repository. What is modelled is what
  `MySQL.cpp` relies on: a statement is refused while a result waits to be stored, and two
  threads that wait for replies at once may get each other's.
* `memcpy` of a node is two steps, what comes before `seckey` and `seckey`.
* The table starts as the constructor leaves it (`Tab0`): one slot for each client, empty
  slots zeroed, and a row without a slot only if the table was full.

### Octets: `Framing`, `DerLow`, `DerCodec`

`Framing` follows octets in two streams for each connection; a read or a write moves any
number of them. `select` has a timeout, `readn` has none. The first write on a connection
that the other side closed may go nowhere and resets it, the next one raises SIGPIPE, which
neither program handles (`reset`); the reset comes at once when octets were left unread.
`writeTimeout` and the two switches of blocking mode have no action: a connection carries
one message each way, so it is always writable before it. The client process has one user,
and the socket it forgets stays open until it dies (`ClientFds`).

`DerLow` is a function of its input throughout. No tag above 30 exists, so the long form of
a tag does not come up, and `malloc` succeeds. In `DerCodec` the memory that is decoded into
holds any octet (`Unset`), and an int is stored with eight octets (`Behind`). `r2` of any
answer but that of a successful agreement is uninitialised too, so nothing says that it ends
inside its array: `r2` of a response is all that `strlen` runs over, up to the first 0,
wherever that is (`Reach` bounds it with 16 MB, twice the stack of a thread). The decoder
then copies more than its array holds, over the id, which is read later, and over what is
behind the struct; it goes on or dies of it (`ReadTextNode`). What is behind the struct, and
a `strlen` of the encoder that meets memory that is not mapped, are not modelled.

### Applications: `Cipher`

Both ends look the key up in their own table for each text. AES under the same key gives
the whole blocks back, and anything otherwise; `Anything` also stands for what lies behind
the end of a buffer.

### Faults of `KeyAgreement`

`Faults` names the faults a run allows: `crash` (the server's process ends, which covers
SIGUSR1, a failed select whose null result is followed, and a freed result that is
followed), `dbError` (a failed update or insert), `timeout` (a client stops waiting
or dies while waiting), `noSend` (a client dies between connect and send), `stale`
(an unset `inData` still points to the previous message) and `alter` (`r1` of an
agreement request changes on its way).

## 3. Runs

The first eight runs (to `SlotRace`) use `MCKeyAgreement`, the others the module named like them.

| run | constants | faults | what it shows |
|---|---|---|---|
| `OneClient` | 1 client, 1 slot, 2 connections, 1 worker, 2 `r1`, 2 `r2`, 2 ids | crash, timeout, alter | both stores, both ends, ids and revocations stay consistent; `IndInv` holds; `KeyPair` is implemented |
| `TwoClients` | 2 registered clients, 2 slots, 1 worker, 3 ids | crash | clients do not disturb each other's slot, row, id |
| `Replay` | 1 registered and 1 unregistered client, 1 worker | crash, timeout, stale, noSend | processing an old request again neither registers anybody nor undoes a revocation |
| `Workers` | 2 clients, 2 slots, 2 overlapping workers, 1 id | dbError | what holds even when results are freed under a worker and statements fail, as long as calls on the table do not meet: `shmWrite` chooses the right slot, and keys that clients may use are the server's |
| `Live` | 1 client, 1 worker, any `seckeyid` | crash, timeout, stale, noSend | every operation ends |
| `RevokedKey` | 1 client, 1 worker | timeout | *violated*: a revoked key passes a check |
| `Overlap` | 1 registered and 1 unregistered client, 2 workers | none | *violated*: the unregistered client is served |
| `SlotRace` | 2 clients, 2 slots, 2 workers | none | *violated*: two new clients are given the same slot |
| `Threads` | 2 threads, 2 connections, 2 addresses, 2 slots, a client with a revoked row and one without | SIGUSR1, accept timeout, one failing accept | what holds inside the calls without a lock, and what is behind each end of the process; `IndInv` holds |
| `Framing` | 2 connections, 2 descriptors, a length of 2 octets | timeouts, either process dies | messages arrive whole, waits end, no write kills the server; `IndInv` holds |
| `Codec` | 99 requests and 198 responses | - | every message comes back in all fields that fit; only an unset r2 leaves its array, and only unset values stop a decoder |
| `Cipher` | 1 client, texts of up to 33 characters | lost answers | texts come back under the same key |

Bounds, and why they are enough. Two connections allow a request to be abandoned and
processed after the next one, and two workers to overlap; a third adds another copy of
the same pair. Two nonces on each side allow an old key to differ from a new one and
an altered `r1` from the original. Two clients are needed for one to disturb another,
and the table is then scanned past a foreign slot. `MaxKeyId` allows the ids to run out
and an insert to fail. One worker at a time (`MaxWorkers = 1`) is a stronger assumption
than the code makes: it separates what goes wrong because of a crash or a lost message
from what goes wrong because of the shared result and the shared table, which `Workers`,
`Overlap` and `SlotRace` are about. `StoresAgree`, `EndsAgree`, `RevokedStaysRevoked`, `UnregisteredRefused` and
`ClientIdIsRowId` hold under that assumption; `Overlap` shows that the fourth of them
does not hold without it. With `MaxWorkers = 1` the operating system may still
reorder connections: any `sent` connection may be received next. `dbError` is allowed in
`Workers` only, since a statement that fails is answered with success and the stores
differ from then on; there, `crash` is left out, because a restart then loses the key
that an answer on its way speaks of.

The properties of `Workers` speak of the time before a call on the table met a `shmWrite`
(`met`): afterwards a slot may hold another client's key, which is what `SlotRace` shows.
Without crashes the server does not start anew, and `met` stays true once it is, so the
constraint `Unmet` lets TLC stop there without leaving out a state that the properties speak
of. `Live` has one worker: no step of a worker waits for another worker, so what overlap
adds to waiting is less than what one worker at a time does, for whom all others wait. With
two workers, `stale` and rows, TLC takes longer than a run may.

`Threads` has two workers because each property is about a meeting of two; the second one
may be the third thread in time, since a thread number is free again when its worker has
ended. A connection of `ServerProcess` is used once: its number stands for the connection,
not for a descriptor that may be given again. One client has a revoked row, which is what a
scan must not take, and the other no row, so that both branches of `secKeyAgree` run. The
signal, an accept that fails or times out and a worker that does not wait each end the
process sooner or later; the constraint `OneMishap` has TLC explore one of them in a
behaviour, and the theorems have no such bound. `Framing` needs two
connections for one to be forgotten while the next is used, and two descriptors for them to
run out. Its length has two octets instead of four and its messages one or two: that is
enough for a read to end inside the length, between length and message, and inside the
message. Every direction holds a whole frame (`RoomAssumption`), as a socket buffer does; only the
liveness properties need that. `Codec`
has a text for each array size that reaches its bound, sequences of 127, 128 and 129 octets,
ids at both sides of each change of size, and six answers whose `r2` has no 0 among its 64
octets and runs on over the id or beyond. `Cipher` reaches both sides of two block boundaries.

The safety runs use symmetry of nonces and connections, and of the two clients where
both are registered; the specification treats the members of these sets alike.

Deadlock is checked in the runs of `KeyAgreement`: a user can always start or end an
operation, or the server can be started. So it is in `Cipher`. It is not checked in the
other runs: there the connections run out, the process has ended, or a message has been
decoded.

The runs that must fail state what the documentation says:

* `RevokedKey`: the comment at `ServerOperation.cpp:287` calls the key unusable.
  `secKeyCheck` compares the codes and does not look at `status`. The client refuses
  to send a key that it knows to be revoked, so it takes a lost answer to see this.
* `Overlap`: `src/README.md:63` says that a client that is not registered is refused.
  `working` reads `res->row_count` at line 360 from a result that another worker's
  query may have replaced since line 358.
* `SlotRace`: the comment at `SecKeyShm.cpp:100` has a client without a slot written to a
  free place. Nothing is locked between the comparison with an empty node at line 107 and
  the copy at line 109, so two workers find the same place. The client whose key was there
  first has been told rv 0; its later checks fail until it agrees on a new key or the
  server starts anew.

Fairness. `FairSpec` assumes that a server thread that can take a step takes one
(the scheduler), and that a client blocked in `recvMsg` goes on when there is something
to return (`Woken`): an answer, a reset connection, or a descriptor that never connected.
Nothing is assumed of users, of faults, or of whoever starts the server again; a timeout may
happen, but it is not needed for `OperationsEnd` and not assumed.

`Framing` assumes the same of both processes: the client's steps, the main thread's accept,
and each worker's steps together with its timeout, so that a `select` that nothing wakes
ends. `WorkersEnd` needs no fairness of the client's user: a worker whose client never
sends times out, and one whose message stopped half-way is freed when the client's process,
which is fair, goes on to write the rest or dies.

Every property of a passing run has a mutant in `PROJECT.json`: a change to one mapped
definition, of the kind a programmer makes, under which TLC finds it violated. The
mutants are defined next to what they replace.

## 4. Proofs

TLAPS checks the following for every value of the constants that the named assumptions
allow: any set of clients, registered or not, any sets of nonces and connections, any
number of slots, threads and workers, and any set of faults, except where a hypothesis is
named. The assumptions are what the code fixes: the markers of "nobody", "no connection"
or "null" are none of the things they stand beside, an unset key is neither a nonce nor a
digest (`NoKeyAssumption`), a table has at least one slot, `Registered` is a set of clients,
and in `ServerThreads` the table starts as the constructor leaves it (`ShmCallsAssumption`,
`RequestsAssumption`). In `Framing` a message has an octet at least and fewer than its
length can count (`LengthAssumption`: 2^32 for the four octets of the code, and `dataLen`
is an int). In `DerCodec` commands and return values are ints of 32 bits
and not negative, as both programs set them, an id is any int, every text that a program
sets ends inside its array, and an `r2` that nobody set ends somewhere, at most `Reach` octets
from its beginning (`MessagesAssumption`). `RequestsAssumption` also takes the connection for the
nonce of the agreement asked on it, so that two writes of `ServerThreads` can be told apart.

### For any number of workers that overlap

* `SecKeyShmProofs`: `ShmWriteOneSlot` (a write never gives a client a second slot),
  `ShmWriteOthers` (no other client can tell that it happened, also on a full table),
  `ShmReadAfterWrite`, and `RoomForAll` (a table with a slot for everybody never refuses
  a write). They rest on `FirstInSet`: the scan stops inside the set it scans for, from
  the well-foundedness of `<` on the naturals.
* `KeyAgreementProofs`: `Invariance`, `Spec => []IndInv`, and from it `TypeCorrect`. Then
  `WriteInvariance`, `Spec => []WriteOK`: as long as no call on the table ran during a
  `shmWrite` (`~met`), the three steps of one are the one write `ShmWrite` of `SecKeyShm`.
  From it `OneSlot`, `Spec => []OneSlotPerClient`, and `OthersUntouched`,
  `Spec => OtherSlotsUntouched`. All hold for overlapping workers and freed results. The two
  properties, and `AnswerFits` and `UsableKeyFits` below, have `~met` in them: workers may
  interleave between their calls in every way, and once two of them meet inside one the
  properties say nothing more, for `SlotRace` shows that nothing can be said. With
  `MaxWorkers = 1` nobody meets anybody, and `met` stays false.
* `EndsProofs`: `OverlapFits`, `Spec => []AnswerFits`, for finitely many clients with a slot
  for each, and without `crash` and `noSend`. It rests on the layers `Wired`, `Asked3` and
  `Fits` of the next part, which need no `MaxWorkers = 1`, and on `Slots`: a slot without
  a name is all zeroes, also in the hands of a revocation, nobody serves before the
  server listens, and from the acceptance of an agreement to the end of its answer the
  slot holds the key of the nonce that the client drew. A freed result may send the worker
  to the wrong statement or into a refusal, but it reaches neither the slot nor `r2`. Both
  faults are left out for a reason that TLC shows: after a crash the slot is what the
  rows say, and overlapping workers may have lost the row; a worker that decodes the request
  of another connection again makes a second key of it.
* `EndsProofs`: `OverlapKeys`, `Spec => []UsableKeyFits`, under the same hypotheses and for the
  same reasons (TLC refutes it with `crash` and with `noSend`). The layers above are joined by
  `AllFit`, which says for each client what its own slot and the server's have in common at
  every step of its request: as long as nothing was carried out (`Changed`) the keys are the
  same, from the moment a key is made the slot holds the news (`NewsIsSlot`), and the node in
  the hands of a revocation is the client's key (`NodeFits`), since `KeyMatches` compared them.
  What keeps the requests a client left behind from undoing this is `OnlyChecks`: a client in
  `sure` or `alone` left nothing but checks. `Blank` says that the one start-up finds nothing.
  `EndsAgree` itself is false here: a worker that reads a freed result may refuse a revocation
  with 2, which the client takes for success, and the slot stays usable.
* `ThreadProofs`: `ThreadInvariance`, `Spec => []IndInv` of `ServerThreads`, and from it
  `OwnSocket`, `StopAfterOne`, `CrashExplained`, `WriteIsAtomic`, `LoadedSlotKept` and
  `OwnRows`. `BothKnowTheSame` adds `KnownInBoth`, for finitely many clients with a slot for
  each. Without the slots it is false: an agreement that finds no slot inserts its row all
  the same.
* `FramingProofs`: `FramingInvariance`, `Spec => []IndInv` of `Framing`, and from it
  `MessagesWhole`, `Spec => []WholeMessages`, and `ServerLives`, `Spec => []ServerSurvives`,
  for any number of connections and descriptors, any messages, any capacity of a connection
  and a length of one to four octets.
* `CipherProofs`: `TextReturns`, `Spec => []TextComesBack`, for texts and tables of every
  length and any octets behind the two buffers. It rests on the arithmetic of whole
  blocks (`RoundedUp`, `FurtherThan`) and on where the first 0 is (`Decrypts`).

* `CodecProofs`: `CodecInvariance`, `Spec => []IndInv` of `DerCodec`, and from it
  `RoundTrip`, `InsideItsField`, `OnlyUnsetKills`, `ElementsFill` and
  `OtherTypesRoundTrip`, for any messages, also where an unset `r2` does not fit: it is the
  only text that leaves its array, and the fields read before and after it come back.
  `IntegerBack` and `StringBack` say of the DER library alone that every number of 32 bits
  and every string of fewer than 2^32 - 1 octets is read as it was written, whatever is
  behind it. They rest on `Digits` (a number is its four octets) and `LengthBack` (every
  length is read back, at each change of form).

`TypeOK` of `KeyAgreement` is not inductive. A worker writes the node it holds to the table,
so `WorkOK` says that the node of an agreement holds a key, that a request handed to
`secKeyAgree` is an agreement request with a nonce, and that the node a revocation writes
back is the client's own or empty. A client's check sends the key of its slot, so `UsableOK`
says that a usable slot holds a key; a client takes it from an answer, so `AnswerOK` says
that an answered connection carries a response. `MAX(keyid)` is a number only if the ids are
bounded, so `IdsBelow` says that AUTO_INCREMENT is ahead of every row. `IndInv` is their
conjunction. It is also an invariant of the run `OneClient`.

The proof that a step preserves `IndInv` has one lemma for each action. Lemmas such as
`OwnStep`, `StoreStep`, `ConnStep` and `ClientOnly` say what is left to show when an
action touches only a part of the state. `OneSlot` and `OthersUntouched` use `WhoWrites`: outside
start-up, only `Copy` changes the table; and `WriteOK` says that it is then `ShmWrite`.

`IndInv` of `ServerThreads` is checked by the run `Threads`. Its parts: `SocketsOK` and
`OwnersOK` follow a socket from `accept` over the registry to its one worker, `NullsOK` says
where a null pointer in the registry comes from, `LateOK` when an accept after the signal is
possible; `SegmentOK`, `UseOK` and `WriteOK` say what a half-done call on the table has
reached, as long as no two of them have overlapped, `ScanOK` where a scan may stop even when
they have; `QueriesOK` says the same of a query and its result. `KnownInBoth` needs
`BothKnow` beside it: a client with a slot and no row is one whose agreement a worker is
still carrying out, and this worker has read the rows before.

`IndInv` of `Framing` is checked by the run `Framing`. Its heart is `Stream`: what an end of
a connection has read, what is on its way to it and what the other end has still to write
are together the frame of one message (`UpOK`, `DownOK`), or its beginning once the writer
has died. A write moves octets from the third part to the second and a read from the second
to the first, so neither changes the whole (`WritePasses`, `ReadPasses`), wherever it stops.
`MissingOctets` says that a reader which holds a beginning of a frame never asks for more
than the frame has, and holds all of it when it asks for nothing; it rests on
`LengthOctets`: the octets of a length count that length. For the second property,
`ClosedOK` says that without a mishap a client closes its end only after its worker's last
write: a client that has heard a whole frame leaves its worker nothing to write (`Spent`).

`IndInv` of `DerCodec` is checked by the run `Codec`. It says where each octet is. While the
encoder works, the list holds the nodes of the fields before `k` (`EncodeOK`); while the
sequence is taken apart, the list holds the first nodes and `rest` the octets of all others
(`UnpackOK`), so that the next element is cut where the encoder's node ends (`NodeLeft`);
then the list is the encoder's again (`DecodeOK`), with one node less when the id was
negative, and each field before `k` holds what it held (`FieldOK`). That an int does not
spill into what was read before is the order of the fields (`SpillsLater`).
`FlattenSeq` is a recursive function of the community modules. A list has five nodes at
most, so it is unrolled (`FlattenFront`) and needs no induction.

### Where requests do not overlap

`MaxWorkers = 1` is a hypothesis of the theorems below. The run `Overlap` shows why: a worker
may act on a result that another one's query stored or freed.

* `KeyAgreementProofs`, from this hypothesis alone: `UnregisteredRefused`. With `dbError` left out:
  `RevokedStaysRevoked`. A statement that fails is answered with success, and a revocation
  whose update failed is gone after a restart. With a slot and an id for each of finitely
  many registered clients besides (`Enough`): `StoresAgree`. An agreement without a slot or
  without an id is stored in one of the two places only.
* `EndsProofs`, from `Enough` and without `noSend`: `EndsAgree`, `ClientIdIsRowId` and
  `AnswerFits`, under crashes, timeouts, stale buffers and altered nonces. `noSend` is left
  out because the worker of a client that connected and died may decode the previous
  client's request again, which then is carried out although nobody waits for it.
* `PairProofs`, without `stale` too: `Spec => PairSpec`. With `stale`, a client may take an
  old answer for a new one; this is recorded as an unknown outcome (`sure`), which the
  abstract pair has no word for.

The argument is in layers, each an invariant that uses the ones before it.

1. `AloneOK`: at most one worker is in a request, the reply about `secnode` is still there
   when the worker that asked reads it, and whoever is past that question is registered;
   hence so is every name in the stores.
2. `RevokedOK`: nobody who is about to write a usable row serves a client in `revoked`, a
   revocation writes back the slot as it is but for its status, and writes the row after
   the slot; what is left to reload comes from the rows.
3. `BothOK`: no client has two rows, AUTO_INCREMENT is one more than their number, while the
   constructor runs the table is what it has copied, and `Halfway` says for each call between
   the two writes how slot and row differ; otherwise they tell the same.
4. `Wired`: a connection, the worker that serves it and the client at its end name one
   another; a client in `alone` has no other request on its way.
5. `Asked3`: a request carries the code of what the client drew or holds, also when `r1` was
   altered; what a client left behind that still knows where it stands is a check; a table
   holds its own client's key or nothing.
6. `Fits`, `Ids`, `Refused`: a worker stays in its operation and its key is made of the `r1`
   that was coded and the `r2` it answers with, the id computed by `MAX(keyid) + 1` is the
   one the row gets, and only an unregistered client is told 2.
7. `EndsOK`: for each client whose history is known, whether the server holds what the
   client holds, or what it is going to hold, according to the step its request has
   reached.

`PairOK` adds to these that buffers are empty between operations, that a revocation under
way was asked with the slot's key, and that only registered clients are answered with
anything but 2. The refinement is then shown client by client: `AtServer`, `AtClient` and
`OnWay` are one client's part of the mapping, `AgreePair` and `RevokePair` are the two calls
that change a row, `ReceivePair` is the news, and every other action leaves all three parts
of all clients alone (`QuietPair`, `OuterPair`, `CrashPair`, `NoStepPair`, `RequestPair`).

### Model-checked only

* `OperationsEnd`, `WorkersEnd` and `ClientReturns`: liveness under fairness is out of the
  prover's reach.

## 5. Plan

1. `SecKeyShm`, `Wire`, `KeyServer`, `KeyClient`, `KeyAgreement`: done, with the proofs of
   `SecKeyShmProofs` and `KeyAgreementProofs`.
2. `KeyPair` and its refinement; `ServerProcess`, `ShmCalls`, `DbCalls` and
   `ServerThreads`; `Framing`; `DerLow` and `DerCodec`; `Cipher`: done.
3. Proofs under `MaxWorkers = 1`, of the three safety properties of the server, of the three
   about both ends, and of the refinement of `KeyPair`: done.
4. Proofs about `ServerThreads`, `Framing`, `Cipher` and `DerCodec`, and of `AnswerFits`
   and `UsableKeyFits` for overlapping workers: done. What is left to the runs is liveness.

## 6. Not modelled

* AES, HMAC and SHA1 (OpenSSL), and the MySQL client library beyond what `DbCalls` says.
* The log (`ItcastLog.cpp`, output only) and the codec factories (they construct a codec
  and keep no state).
* The client's copies of `MySQL` and `TcpServer`: compiled and never used.
* Memory management of the DER nodes (`FreeQueue`, `FreeAnybuf`): who frees what has no
  effect on what is encoded or decoded.
* `secKeyView`, which prints; `isExist` and `delShm`, which nobody calls; the daemon's
  set-up, commented out in `main`.
* The layout of the stack and of pages: the array of 64 octets that `r1` and `r2` are
  joined in, and the four octets that the segment is short of.
