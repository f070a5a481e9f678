------------------------------ MODULE Padding ------------------------------
(***************************************************************************)
(* The paddings of messages and attachments, and that each is undone for   *)
(* every input: _pad of send.py with _strip_padding of receive.py, and the *)
(* zeros and PKCS #7 of attachments.py with the trimming after decryption. *)
(* The lengths at the edge of a block are where they could go wrong.       *)
(***************************************************************************)
EXTENDS Integers, Sequences, SequenceTheorems, TLAPS

Byte == 0..255

-----------------------------------------------------------------------------
(* Messages.                                                                *)

PaddingBlockSize == 80

\* b"\x00" * n for a negative n is empty: so it is when the terminator is the
\* last byte of a block.
Zeros(n) == LET length == n + 1
                blocks == (length + PaddingBlockSize - 1) \div PaddingBlockSize
                zeros  == blocks * PaddingBlockSize - length - 1
            IN  IF zeros < 0 THEN 0 ELSE zeros

Pad(body) ==
  [i \in 1..(Len(body) + 1 + Zeros(Len(body))) |->
     IF i <= Len(body) THEN body[i] ELSE IF i = Len(body) + 1 THEN 128 ELSE 0]

\* The scan from the end stops at the first byte that is not zero.
IsTerminator(s, i) ==
  /\ i \in 1..Len(s) /\ s[i] = 128
  /\ \A j \in 1..Len(s) : j > i => s[j] = 0

StripPadding(s) ==
  IF \E i \in 1..Len(s) : IsTerminator(s, i)
  THEN SubSeq(s, 1, (CHOOSE i \in 1..Len(s) : IsTerminator(s, i)) - 1)
  ELSE s

-----------------------------------------------------------------------------
(* Attachments.  The bucket size comes from a geometric curve; all that is  *)
(* used of it is that it is a number, even one below the length.            *)

ZeroPad(data, bucket) ==
  [i \in 1..(IF bucket > Len(data) THEN bucket ELSE Len(data)) |->
     IF i <= Len(data) THEN data[i] ELSE 0]

Pkcs7(s) ==
  LET n == 16 - (Len(s) % 16)
  IN  [i \in 1..(Len(s) + n) |-> IF i <= Len(s) THEN s[i] ELSE n]

Unpkcs7(s) == SubSeq(s, 1, Len(s) - s[Len(s)])

Padded(data, bucket) == Pkcs7(ZeroPad(data, bucket))

\* pkcs_stripped[:plaintext_size]
Trimmed(s, size) ==
  LET stripped == Unpkcs7(s)
  IN  SubSeq(stripped, 1, IF size < Len(stripped) THEN size ELSE Len(stripped))

-----------------------------------------------------------------------------
(* Padding hides the length of a message up to its block, and costs at most *)
(* a block: _pad adds between 1 and 80 bytes and ends one byte before the   *)
(* end of a block, or with the block.                                       *)
THEOREM PadIsBounded ==
  ASSUME NEW n \in Nat
  PROVE  /\ Zeros(n) \in 0..(PaddingBlockSize - 1)
         /\ (n + 1 + Zeros(n)) % PaddingBlockSize \in {0, PaddingBlockSize - 1}
  BY DEF Zeros, PaddingBlockSize

LEMMA SequenceOfLength ==
  ASSUME NEW S, NEW m \in Nat, NEW f \in [1..m -> S]
  PROVE  f \in Seq(S) /\ Len(f) = m
<1>1. f \in Seq(S)  BY SeqDef
<1> QED  BY <1>1, LenProperties

LEMMA PrefixIsSubSeq ==
  ASSUME NEW s \in Seq(Byte), NEW t \in Seq(Byte), Len(t) <= Len(s),
         \A j \in 1..Len(t) : s[j] = t[j]
  PROVE  SubSeq(s, 1, Len(t)) = t
<1>1. Len(t) \in Nat  BY LenProperties
<1>2. \A j \in 1..Len(t) : s[j] \in Byte  BY ElementOfSeq
<1> DEFINE u == SubSeq(s, 1, Len(t))
<1>3. u \in Seq(Byte)  BY <1>1, <1>2, SubSeqProperties
<1>4. Len(u) = Len(t)  BY <1>1, <1>2, SubSeqProperties
<1>5. \A j \in 1..Len(u) : u[j] = t[j]  BY <1>1, <1>2, <1>4, SubSeqProperties
<1> QED  BY <1>3, <1>4, <1>5, SeqEqual

LEMMA ZerosIsNatural ==
  ASSUME NEW n \in Nat
  PROVE  Zeros(n) \in Nat
BY DEF Zeros, PaddingBlockSize

LEMMA PadType ==
  ASSUME NEW body \in Seq(Byte)
  PROVE  /\ Pad(body) \in Seq(Byte)
         /\ Len(Pad(body)) = Len(body) + 1 + Zeros(Len(body))
         /\ Zeros(Len(body)) \in Nat
<1> DEFINE m == Len(body) + 1 + Zeros(Len(body))
<1>1. Len(body) \in Nat  BY LenProperties
<1>2. Zeros(Len(body)) \in Nat  BY <1>1, ZerosIsNatural
<1>3. m \in Nat  BY <1>1, <1>2
<1>4. \A j \in 1..Len(body) : body[j] \in Byte  BY ElementOfSeq
<1>5. Pad(body) \in [1..m -> Byte]  BY <1>1, <1>4 DEF Pad, Byte
<1> HIDE DEF m
<1>6. Pad(body) \in Seq(Byte) /\ Len(Pad(body)) = m  BY <1>3, <1>5, SequenceOfLength
<1> QED  BY <1>2, <1>6 DEF m

(* The byte _pad appends is the one _strip_padding finds, whatever bytes the *)
(* body ends with, zeros and terminators included.                           *)
LEMMA OnlyTerminator ==
  ASSUME NEW body \in Seq(Byte), NEW i \in 1..Len(Pad(body))
  PROVE  IsTerminator(Pad(body), i) <=> i = Len(body) + 1
<1> DEFINE n == Len(body)
           p == Pad(body)
<1>1. n \in Nat /\ Zeros(n) \in Nat /\ Len(p) = n + 1 + Zeros(n)
  BY PadType, LenProperties
<1>2. \A j \in 1..Len(p) :
        p[j] = IF j <= n THEN body[j] ELSE IF j = n + 1 THEN 128 ELSE 0
  BY <1>1 DEF Pad
<1> HIDE DEF n, p
<1>3. n + 1 \in 1..Len(p) /\ p[n + 1] = 128  BY <1>1, <1>2
<1>4. \A j \in 1..Len(p) : j > n + 1 => p[j] = 0  BY <1>1, <1>2
<1>5. IsTerminator(p, i) <=> i = n + 1
  <2> USE DEF p
  <2>1. CASE i = n + 1  BY <1>3, <1>4, <2>1 DEF IsTerminator
  <2>2. CASE i < n + 1  BY <1>1, <1>3, <2>2 DEF IsTerminator
  <2>3. CASE i > n + 1  BY <1>1, <1>4, <2>3 DEF IsTerminator
  <2> QED  BY <1>1, <2>1, <2>2, <2>3
<1> QED  BY <1>5 DEF n, p

(* send.py and receive.py: what the receiver strips is what the sender padded, *)
(* for every body.                                                             *)
THEOREM StripInvertsPad ==
  ASSUME NEW body \in Seq(Byte)
  PROVE  StripPadding(Pad(body)) = body
<1> DEFINE n == Len(body)
           p == Pad(body)
<1>1. /\ n \in Nat /\ Zeros(n) \in Nat
      /\ p \in Seq(Byte) /\ Len(p) = n + 1 + Zeros(n)
  BY PadType, LenProperties
<1>2. n + 1 \in 1..Len(p)  BY <1>1
<1>3. \A i \in 1..Len(p) : IsTerminator(p, i) <=> i = n + 1  BY OnlyTerminator
<1>4. (CHOOSE i \in 1..Len(p) : IsTerminator(p, i)) = n + 1  BY <1>2, <1>3
<1>5. StripPadding(p) = SubSeq(p, 1, n)
  <2> HIDE DEF n, p
  <2>1. \E i \in 1..Len(p) : IsTerminator(p, i)  BY <1>2, <1>3
  <2>2. (n + 1) - 1 = n  BY <1>1
  <2> QED  BY <1>4, <2>1, <2>2, Zenon DEF StripPadding
<1>6. \A j \in 1..n : p[j] = body[j]  BY <1>1 DEF Pad
<1>7. SubSeq(p, 1, n) = body
  <2>1. n <= Len(p)  BY <1>1
  <2> HIDE DEF p
  <2> QED  BY <1>1, <1>6, <2>1, PrefixIsSubSeq
<1> QED  BY <1>5, <1>7

-----------------------------------------------------------------------------
LEMMA Pkcs7Type ==
  ASSUME NEW s \in Seq(Byte)
  PROVE  LET n == 16 - (Len(s) % 16)
         IN  /\ Len(s) \in Nat /\ n \in 1..16
             /\ Pkcs7(s) \in Seq(Byte) /\ Len(Pkcs7(s)) = Len(s) + n
             /\ \A j \in 1..Len(s) : Pkcs7(s)[j] = s[j]
             /\ Pkcs7(s)[Len(s) + n] = n
<1> DEFINE n == 16 - (Len(s) % 16)
           m == Len(s) + n
<1>1. Len(s) \in Nat  BY LenProperties
<1>2. n \in 1..16  BY <1>1
<1>3. Pkcs7(s) = [i \in 1..m |-> IF i <= Len(s) THEN s[i] ELSE n]  BY DEF Pkcs7
<1> HIDE DEF n
<1>4. \A j \in 1..Len(s) : s[j] \in Byte  BY ElementOfSeq
<1>5. m \in Nat /\ m \in 1..m /\ Len(s) < m  BY <1>1, <1>2
<1>6. Pkcs7(s) \in [1..m -> Byte]  BY <1>1, <1>2, <1>3, <1>4 DEF Byte
<1>7. \A j \in 1..Len(s) : Pkcs7(s)[j] = s[j]  BY <1>1, <1>2, <1>3
<1>8. Pkcs7(s)[m] = n  BY <1>1, <1>3, <1>5
<1>9. Pkcs7(s) \in Seq(Byte) /\ Len(Pkcs7(s)) = m
  <2> HIDE DEF m
  <2> QED  BY <1>5, <1>6, SequenceOfLength
<1> QED  BY <1>1, <1>2, <1>7, <1>8, <1>9 DEF n

LEMMA Unpkcs7InvertsPkcs7 ==
  ASSUME NEW s \in Seq(Byte)
  PROVE  Unpkcs7(Pkcs7(s)) = s
<1> DEFINE n == 16 - (Len(s) % 16)
           p == Pkcs7(s)
<1>1. /\ Len(s) \in Nat /\ n \in 1..16
      /\ p \in Seq(Byte) /\ Len(p) = Len(s) + n
      /\ \A j \in 1..Len(s) : p[j] = s[j]
      /\ p[Len(s) + n] = n
  BY Pkcs7Type
<1> HIDE DEF n, p
<1>2. Unpkcs7(p) = SubSeq(p, 1, Len(s))  BY <1>1 DEF Unpkcs7
<1>3. SubSeq(p, 1, Len(s)) = s  BY <1>1, PrefixIsSubSeq
<1> QED  BY <1>2, <1>3 DEF p

(* attachments.py: the padding of an attachment, to whatever bucket and to  *)
(* the cipher's blocks, is gone once the receiver has trimmed to the size   *)
(* the pointer declares.                                                    *)
THEOREM TrimInvertsPadding ==
  ASSUME NEW data \in Seq(Byte), NEW bucket \in Int
  PROVE  Trimmed(Padded(data, bucket), Len(data)) = data
<1> DEFINE z == ZeroPad(data, bucket)
           m == IF bucket > Len(data) THEN bucket ELSE Len(data)
<1>1. Len(data) \in Nat  BY LenProperties
<1>2. m \in Nat /\ m >= Len(data)  BY <1>1
<1>3. \A j \in 1..Len(data) : data[j] \in Byte  BY ElementOfSeq
<1>4. z = [i \in 1..m |-> IF i <= Len(data) THEN data[i] ELSE 0]  BY DEF ZeroPad
<1> HIDE DEF z, m
<1>5. z \in [1..m -> Byte]  BY <1>1, <1>3, <1>4 DEF Byte
<1>6. z \in Seq(Byte) /\ Len(z) = m  BY <1>2, <1>5, SequenceOfLength
<1>7. \A j \in 1..Len(data) : z[j] = data[j]  BY <1>1, <1>2, <1>4
<1>8. Unpkcs7(Padded(data, bucket)) = z  BY <1>6, Unpkcs7InvertsPkcs7 DEF Padded, z
<1>9. Trimmed(Padded(data, bucket), Len(data)) = SubSeq(z, 1, Len(data))
  BY <1>1, <1>2, <1>6, <1>8 DEF Trimmed
<1>10. SubSeq(z, 1, Len(data)) = data  BY <1>1, <1>2, <1>6, <1>7, PrefixIsSubSeq
<1> QED  BY <1>9, <1>10
=============================================================================
