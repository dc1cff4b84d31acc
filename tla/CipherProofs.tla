---------------------------- MODULE CipherProofs ----------------------------
(***************************************************************************)
(* What one application encrypts another one decrypts under the same key,  *)
(* for texts of every length and whatever lies behind the two buffers.     *)
(***************************************************************************)
EXTENDS Cipher, SecKeyShmProofs

\* The length that is encrypted is that of whole blocks, and has room for the
\* text and its final 0.
LEMMA RoundedUp ==
    ASSUME NEW n \in Nat
    PROVE  /\ EncryptLength(n) \in Nat /\ EncryptLength(n) % Block = 0
           /\ n + 1 <= EncryptLength(n) /\ EncryptLength(n) <= n + Block
<1>1. n + 1 = 16 * ((n + 1) \div 16) + ((n + 1) % 16) /\ (n + 1) \div 16 \in Nat
  OBVIOUS
<1>2. (n + 1) % 16 \in 0..15
  OBVIOUS
<1>3. \A m \in Nat : (m * 16) % 16 = 0
  OBVIOUS
<1> QED
  BY <1>1, <1>2, <1>3 DEF EncryptLength, Block

\* decryptFun goes further than the ciphertext.
LEMMA FurtherThan ==
    ASSUME NEW n \in Nat
    PROVE  DecryptLength(n) \in Nat /\ n + 1 <= DecryptLength(n)
BY RoundedUp DEF DecryptLength, EncryptLength

\* len octets, and n characters and a 0 at the start of some.
Octets(len) == [1..len -> 0..255]
HasText(s, n) == (\A j \in 1..n : s[j] = 65) /\ s[n + 1] = 0
Letters(n) == [j \in 1..n |-> 65]

\* The octets t, decrypted from len octets s, are that text as s is.
Returned(s, t, len, n) ==
    /\ 0 \in {t[j] : j \in 1..len}
    /\ CString(s) = Letters(n) /\ CString(t) = Letters(n)

\* Such octets are that text.
LEMMA IsText ==
    ASSUME NEW n \in Nat, NEW len \in Nat, n < len, NEW s \in Octets(len), HasText(s, n)
    PROVE  CString(s) = Letters(n)
<1> DEFINE zeros == {j \in DOMAIN s : s[j] = 0}
<1>1. zeros \subseteq Nat /\ n + 1 \in zeros /\ \A j \in zeros : n + 1 <= j
  BY DEF Octets, HasText
<1>2. First(zeros) = n + 1
  <2>1. First(zeros) \in zeros /\ \A j \in zeros : First(zeros) <= j
    BY <1>1, FirstInSet
  <2> QED
    BY <1>1, <2>1
<1>3. CString(s) = SubSeq(s, 1, n)
  <2>1. zeros # {}
    BY <1>1
  <2>2. CString(s) = SubSeq(s, 1, First(zeros) - 1)
    BY <2>1, Zenon DEF CString
  <2>3. First(zeros) - 1 = n
    BY <1>2
  <2> HIDE DEF zeros
  <2> QED
    BY <2>2, <2>3, Zenon
<1>4. SubSeq(s, 1, n) = Letters(n)
  BY DEF Octets, HasText, Letters
<1> QED
  BY <1>3, <1>4

\* Octets behind them change nothing.
LEMMA FillKeeps ==
    ASSUME NEW n \in Nat, NEW most \in Nat, NEW len \in Nat, n < most, most <= len,
           NEW s \in Octets(most), HasText(s, n), NEW junk \in 0..255
    PROVE  Fill(s, len, junk) \in Octets(len) /\ HasText(Fill(s, len, junk), n)
<1>1. Len(s) = most
  BY DEF Octets
<1>2. Fill(s, len, junk) = [j \in 1..len |-> IF j <= most THEN s[j] ELSE junk]
  BY <1>1, Zenon DEF Fill
<1>3. ASSUME NEW j \in 1..len
      PROVE  (IF j <= most THEN s[j] ELSE junk) \in 0..255
  <2>1. j <= most => j \in 1..most
    OBVIOUS
  <2> QED
    BY <2>1, ZenonT(30) DEF Octets
<1>4. Fill(s, len, junk) \in Octets(len)
  BY <1>2, <1>3, SMTT(30) DEF Octets
<1>5. \A j \in 1..n + 1 : j \in 1..len /\ j <= most
  OBVIOUS
<1>6. \A j \in 1..n + 1 : Fill(s, len, junk)[j] = s[j]
  BY <1>2, <1>5, Zenon
<1>7. HasText(Fill(s, len, junk), n)
  BY <1>6 DEF HasText
<1> QED
  BY <1>4, <1>7

\* A text, what it was encrypted as and what is decrypted are the same text.
LEMMA SameText ==
    ASSUME NEW n \in Nat, NEW junk \in 0..255, NEW more \in 0..255
    PROVE  LET len == EncryptLength(n)
               s == Fill(Chars(n), len, junk)
           IN  Returned(s, Fill(s, DecryptLength(len), more), len, n)
<1> DEFINE len == EncryptLength(n)
           wider == DecryptLength(len)
           s == Fill(Chars(n), len, junk)
           t == Fill(s, wider, more)
<1>1. len \in Nat /\ n < len /\ n + 1 <= len /\ n + 1 \in Nat /\ n < n + 1
  BY RoundedUp
<1> HIDE DEF len
<1>2. wider \in Nat /\ len <= wider /\ n < wider
  BY <1>1, FurtherThan
<1> HIDE DEF wider
<1>3. Chars(n) \in Octets(n + 1) /\ HasText(Chars(n), n)
  BY DEF Chars, Octets, HasText
<1>4. s \in Octets(len) /\ HasText(s, n)
  BY <1>1, <1>3, FillKeeps, ZenonT(60)
<1> HIDE DEF s
<1>5. t \in Octets(wider) /\ HasText(t, n)
  BY <1>1, <1>2, <1>4, FillKeeps, ZenonT(60)
<1> HIDE DEF t
<1>6. CString(s) = Letters(n) /\ CString(t) = Letters(n)
  BY <1>1, <1>2, <1>4, <1>5, IsText
<1>7. 0 \in {t[j] : j \in 1..len}
  BY <1>1, <1>5 DEF HasText
<1>8. Returned(s, t, len, n)
  BY <1>6, <1>7 DEF Returned
<1> QED
  BY <1>8 DEF len, wider, s, t

-----------------------------------------------------------------------------
(* The induction.                                                          *)

\* What is encrypted is a text of an application, and what is decrypted under
\* the same key is what was encrypted and the block behind it
\* (encryptFun, decryptFun of KeyAgreeLib).
IndInv ==
    /\ cipher # Nothing =>
          \E n \in 0..MaxText, junk \in Anything :
              /\ cipher.len = EncryptLength(n)
              /\ cipher.text = Fill(Chars(n), EncryptLength(n), junk)
    /\ plain # Nothing /\ plain.seckey = cipher.seckey =>
          /\ cipher # Nothing
          /\ \E junk \in Anything :
                plain.text = Fill(cipher.text, DecryptLength(cipher.len), junk)
    /\ TextComesBack

LEMMA InitInv == Init => IndInv
BY DEF Init, IndInv, TextComesBack

LEMMA Decrypts ==
    ASSUME IndInv, NEW e \in End, Decrypt(e)
    PROVE  IndInv'
<1>1. PICK n \in 0..MaxText, junk \in Anything :
        /\ cipher.len = EncryptLength(n)
        /\ cipher.text = Fill(Chars(n), EncryptLength(n), junk)
  BY DEF Decrypt, IndInv
<1>2. PICK more \in Anything :
        plain' = [len |-> DecryptLength(cipher.len),
                  text |-> IF KeyAt(e, cipher.clientID) = cipher.seckey
                           THEN Fill(cipher.text, DecryptLength(cipher.len), more)
                           ELSE [j \in 1..DecryptLength(cipher.len) |-> more],
                  seckey |-> KeyAt(e, cipher.clientID), clientID |-> cipher.clientID]
  BY DEF Decrypt
<1>3. cipher' = cipher /\ cipher # Nothing
  BY DEF Decrypt
<1>4. plain'.seckey = cipher.seckey =>
        plain'.text = Fill(cipher.text, DecryptLength(cipher.len), more)
  BY <1>2, Zenon
<1>5. n \in Nat /\ junk \in 0..255 /\ more \in 0..255
  BY <1>1, <1>2, CipherAssumption, SMTT(30)
<1>6. ASSUME plain'.seckey = cipher.seckey
      PROVE  Returned(cipher.text, plain'.text, cipher.len, n)
  BY <1>1, <1>4, <1>5, <1>6, SameText
<1>7. Len(Letters(n)) = n
  BY <1>5 DEF Letters
<1>8. TextComesBack'
  BY <1>3, <1>6, <1>7 DEF TextComesBack, Returned, Letters
<1> QED
  BY <1>1, <1>2, <1>3, <1>4, <1>8 DEF IndInv

LEMMA NextInv == IndInv /\ [Next]_vars => IndInv'
<1> SUFFICES ASSUME IndInv, [Next]_vars
             PROVE  IndInv'
  OBVIOUS
<1>1. CASE UNCHANGED <<cipher, plain>>
  BY <1>1 DEF IndInv, TextComesBack
<1>2. ASSUME NEW e \in End, NEW c \in Client, Encrypt(e, c)
      PROVE  IndInv'
  <2>1. /\ \E n \in 0..MaxText, junk \in Anything :
              /\ cipher'.len = EncryptLength(n)
              /\ cipher'.text = Fill(Chars(n), EncryptLength(n), junk)
        /\ plain' = Nothing
    BY <1>2 DEF Encrypt
  <2> QED
    BY <2>1, Zenon DEF IndInv, TextComesBack
<1>3. ASSUME NEW e \in End, Decrypt(e)
      PROVE  IndInv'
  BY <1>3, Decrypts
<1>4. CASE Forget
  BY <1>4 DEF Forget, IndInv, TextComesBack
<1> QED
  BY <1>1, <1>2, <1>3, <1>4 DEF Next, ServerWrites, ClientWrites, vars

\* The text that an application encrypted is the one that an application with
\* the same key decrypts, for every length of the text, every table and all
\* octets behind the buffers (encryptFun, decryptFun of KeyAgreeLib).
THEOREM TextReturns == Spec => []TextComesBack
<1>1. IndInv => TextComesBack
  BY DEF IndInv
<1> QED
  BY <1>1, InitInv, NextInv, PTL DEF Spec
============================================================================
