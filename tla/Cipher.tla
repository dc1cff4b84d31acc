------------------------------- MODULE Cipher -------------------------------
(***************************************************************************)
(* The library for applications (KeyAgreeLib): encryptFun at one end and   *)
(* decryptFun at the other, each with the key that the shared memory of    *)
(* its own end holds at that moment. The client's and the server's program *)
(* write these tables, the server's first, while applications use them.    *)
(*                                                                         *)
(* Both functions round the length of their input and a final 0 up to AES  *)
(* blocks and hand it to AES_cbc_encrypt as the number of octets to read   *)
(* and to write; both read behind the end of their input. An octet from    *)
(* there may be anything, and so may every octet that is decrypted under   *)
(* another key or was never encrypted.                                     *)
(***************************************************************************)
EXTENDS SecKeyShm, Sequences

CONSTANTS
    MaxText,   \* the longest text an application encrypts
    Slots,     \* slots of the server's table
    Anything   \* stands for the octets that may be anything

ASSUME CipherAssumption ==
    MaxText \in Nat /\ Slots \in Nat \ {0} /\ Anything \subseteq 0..255

VARIABLES
    table,     \* the shared memory of either end
    owed,      \* the node the server has written and the client not yet
    cipher,    \* what was encrypted: its length, its text, its key
    plain      \* what decryptFun made of it, and under which key

vars == <<table, owed, cipher, plain>>

End == {"server", "client"}

Nothing == [len |-> 0, text |-> <<>>, seckey |-> NoKey, clientID |-> NoClient]

Init ==
    /\ table = [e \in End |-> ZeroTable(IF e = "server" THEN Slots ELSE 1)]
    /\ owed = Zero
    /\ cipher = Nothing
    /\ plain = Nothing

-----------------------------------------------------------------------------
(* The programs at both ends.                                              *)

\* An agreement or a revocation of c reaches the server's table.
ServerWrites(c) ==
    /\ owed = Zero
    /\ \E key \in Key, status \in {0, 1} :
          LET node == [status |-> status, seckeyID |-> 1, clientID |-> c,
                       seckey |-> key]
          IN  /\ table' = [table EXCEPT !["server"] = ShmWrite(@, node)]
              /\ owed' = node
    /\ UNCHANGED <<cipher, plain>>

\* It reaches the client's, or its answer is lost.
ClientWrites ==
    /\ owed # Zero
    /\ \/ table' = [table EXCEPT !["client"] = ShmWrite(@, owed)]
       \/ UNCHANGED table
    /\ owed' = Zero
    /\ UNCHANGED <<cipher, plain>>

-----------------------------------------------------------------------------
(* The library.                                                            *)

Block == 16

\* Mutant: the final 0 of the text is not counted.
EncryptLengthNoNul(inLen) ==
    IF inLen % Block = 0 THEN inLen ELSE (inLen \div Block + 1) * Block

\* The length that encryptFun reads and writes for a text of inLen octets.
EncryptLength(inLen) ==
    IF (inLen + 1) % Block = 0 THEN inLen + 1
    ELSE ((inLen + 1) \div Block + 1) * Block

\* The same formula in decryptFun, for inLen octets of ciphertext.
DecryptLength(inLen) ==
    IF (inLen + 1) % Block = 0 THEN inLen + 1
    ELSE ((inLen + 1) \div Block + 1) * Block

\* The key of c at end e. shmRead leaves the zeroed node alone when there is
\* no slot of c, and the result is not looked at: the key is then all zero.
\* Nobody looks at the status either.
KeyAt(e, c) == ShmRead(table[e], c).seckey

\* A text of n characters, and the 0 at its end.
Chars(n) == [j \in 1..n + 1 |-> IF j <= n THEN 65 ELSE 0]

\* len octets of which the first are those of s.
Fill(s, len, junk) == [j \in 1..len |-> IF j <= Len(s) THEN s[j] ELSE junk]

Encrypt(e, c) ==
    /\ cipher = Nothing
    /\ \E n \in 0..MaxText, junk \in Anything :
          cipher' = [len |-> EncryptLength(n),
                     text |-> Fill(Chars(n), EncryptLength(n), junk),
                     seckey |-> KeyAt(e, c), clientID |-> c]
    /\ plain' = Nothing
    /\ UNCHANGED <<table, owed>>

\* Whole blocks of the ciphertext come back under the same key.
Decrypt(e) ==
    LET c == cipher.clientID
        len == DecryptLength(cipher.len)
    IN  /\ cipher # Nothing
        /\ \E junk \in Anything :
              plain' = [len |-> len,
                        text |-> IF KeyAt(e, c) = cipher.seckey
                                 THEN Fill(cipher.text, len, junk)
                                 ELSE [j \in 1..len |-> junk],
                        seckey |-> KeyAt(e, c), clientID |-> c]
        /\ UNCHANGED <<table, owed, cipher>>

\* The application is done with the message.
Forget ==
    /\ plain # Nothing
    /\ cipher' = Nothing
    /\ plain' = Nothing
    /\ UNCHANGED <<table, owed>>

Next ==
    \/ \E c \in Client : ServerWrites(c)
    \/ ClientWrites
    \/ \E e \in End, c \in Client : Encrypt(e, c)
    \/ \E e \in End : Decrypt(e)
    \/ Forget

Spec == Init /\ [][Next]_vars

-----------------------------------------------------------------------------
(* Properties.                                                             *)

\* The octets of s before its first 0; all of them when there is none.
CString(s) ==
    LET zeros == {j \in DOMAIN s : s[j] = 0}
    IN  SubSeq(s, 1, IF zeros = {} THEN Len(s) ELSE First(zeros) - 1)

\* decryptFun reads a block more than encryptFun wrote, and yet the text comes
\* back under the same key, whatever lies behind either buffer: the 0 that ends
\* it is always among the octets that were encrypted.
TextComesBack ==
    plain # Nothing /\ plain.seckey = cipher.seckey =>
        /\ 0 \in {plain.text[j] : j \in 1..cipher.len}
        /\ CString(plain.text) = CString(cipher.text)
        /\ CString(plain.text) = [j \in 1..Len(CString(plain.text)) |-> 65]
============================================================================
