--------------------------- MODULE FpmLink_proofs ---------------------------
(***************************************************************************)
(* Proofs about FpmLink: its type invariant, and that a command which      *)
(* nothing disturbs takes exactly its own reply from the line.             *)
(*                                                                         *)
(* The argument.  While nothing has disturbed the line, at most one thread *)
(* asks, and the line holds the rest of the reply to it and nothing else   *)
(* (Tuned).  A reply is a header, the data and a sum (ReplyParts); the     *)
(* header announces the length of what follows, and the sum is the one the *)
(* code computes (AcceptedReply), so the two reads empty the line and      *)
(* GetFromUart returns the data.                                           *)
(***************************************************************************)
EXTENDS FpmLink, SequenceTheorems, WellFoundedInduction, TLAPS

-----------------------------------------------------------------------------
(* Sequences of bytes: the facts of the library that are used below *)

LEMMA Joined ==
    \A s \in Seq(Byte), t \in Seq(Byte) :
        /\ s \o t \in Seq(Byte)
        /\ Len(s \o t) = Len(s) + Len(t)
        /\ \A i \in 1 .. Len(s) + Len(t) :
              (s \o t)[i] = IF i <= Len(s) THEN s[i] ELSE t[i - Len(s)]
  <1> SUFFICES ASSUME NEW s \in Seq(Byte), NEW t \in Seq(Byte)
               PROVE  /\ s \o t \in Seq(Byte)
                      /\ Len(s \o t) = Len(s) + Len(t)
                      /\ \A i \in 1 .. Len(s) + Len(t) :
                            (s \o t)[i] = IF i <= Len(s) THEN s[i] ELSE t[i - Len(s)]
    OBVIOUS
  <1> QED
    BY ConcatProperties, Zenon

LEMMA JoinedLeft ==
    \A s \in Seq(Byte), t \in Seq(Byte), u \in Seq(Byte) : (s \o t) \o u = s \o (t \o u)
  <1> SUFFICES ASSUME NEW s \in Seq(Byte), NEW t \in Seq(Byte), NEW u \in Seq(Byte)
               PROVE  (s \o t) \o u = s \o (t \o u)
    OBVIOUS
  <1> QED
    BY ConcatAssociative

LEMMA Whole ==
    \A s \in Seq(Byte) : SubSeq(s, 1, Len(s)) = s
  BY SubSeqFull, Zenon

LEMMA LeftPart ==
    \A s \in Seq(Byte), t \in Seq(Byte) : \A n \in 1 .. Len(s) :
        SubSeq(s \o t, 1, n) = SubSeq(s, 1, n)
  <1> SUFFICES ASSUME NEW s \in Seq(Byte), NEW t \in Seq(Byte), NEW n \in 1 .. Len(s)
               PROVE  SubSeq(s \o t, 1, n) = SubSeq(s, 1, n)
    OBVIOUS
  <1>1. 1 \in 1 .. Len(s)
    BY LenProperties
  <1> QED
    BY <1>1, SubSeqOfConcat1, Zenon

LEMMA RightPart ==
    \A s \in Seq(Byte), t \in Seq(Byte) :
        t # <<>> => SubSeq(s \o t, Len(s) + 1, Len(s) + Len(t)) = t
  <1> SUFFICES ASSUME NEW s \in Seq(Byte), NEW t \in Seq(Byte), t # <<>>
               PROVE  SubSeq(s \o t, Len(s) + 1, Len(s) + Len(t)) = t
    OBVIOUS
  <1>1. Len(s) \in Nat /\ Len(t) \in Nat /\ Len(t) >= 1
    BY LenProperties, EmptySeq
  <1>2. /\ Len(s) + 1 \in Len(s) + 1 .. Len(s) + Len(t)
        /\ Len(s) + Len(t) \in Len(s) + 1 .. Len(s) + Len(t)
        /\ (Len(s) + 1) - Len(s) = 1 /\ (Len(s) + Len(t)) - Len(s) = Len(t)
    BY <1>1
  <1>3. SubSeq(s \o t, Len(s) + 1, Len(s) + Len(t))
            = SubSeq(t, (Len(s) + 1) - Len(s), (Len(s) + Len(t)) - Len(s))
    BY <1>2, SubSeqOfConcat2, ZenonT(30)
  <1> QED
    BY <1>2, <1>3, Whole

LEMMA Changed ==
    ASSUME NEW s \in Seq(Byte), NEW i \in 1 .. Len(s), NEW x \in Byte
    PROVE  [s EXCEPT ![i] = x] \in Seq(Byte)
  BY ExceptSeq

-----------------------------------------------------------------------------
(* The sum over the bytes of a packet, by induction on their number *)

LessThan == {p \in Nat \X Nat : p[1] < p[2]}

\* Induction, on a set in place of a predicate.
LEMMA Induct ==
    ASSUME NEW T, 0 \in T, \A n \in Nat : n \in T => n + 1 \in T
    PROVE  \A n \in Nat : n \in T
  <1> SUFFICES ASSUME Nat \ T # {} PROVE FALSE
    OBVIOUS
  <1>1. OpToRel(<, Nat) = LessThan
    BY DEF OpToRel, LessThan
  <1>2. PICK x \in Nat \ T : \A y \in Nat \ T : <<y, x>> \notin LessThan
    <2>1. (Nat \ T) \subseteq Nat
      OBVIOUS
    <2> QED
      BY <1>1, <2>1, NatLessThanWellFounded, WFMin
  <1>3. x # 0
    OBVIOUS
  <1>4. x - 1 \in Nat /\ (x - 1) + 1 = x
    BY <1>3
  <1>5. <<x - 1, x>> \in LessThan
    BY <1>4 DEF LessThan
  <1>6. x - 1 \in T
    BY <1>2, <1>4, <1>5
  <1> QED
    BY <1>4, <1>6

\* f sums the first n bytes of s.
Sums(f, s, n) == f = [i \in 0 .. n |-> IF i = 0 THEN 0 ELSE f[i - 1] + s[i]]

LEMMA SumsExist ==
    ASSUME NEW s \in Seq(Byte)
    PROVE  \A n \in Nat : \E f : Sums(f, s, n)
  <1> DEFINE T == {n \in Nat : \E f : Sums(f, s, n)}
  <1>1. 0 \in T
    <2> DEFINE f == [i \in 0 .. 0 |-> 0]
    <2>1. \A i \in 0 .. 0 : i = 0
      OBVIOUS
    <2>2. f = [i \in 0 .. 0 |-> IF i = 0 THEN 0 ELSE f[i - 1] + s[i]]
      BY <2>1
    <2>3. Sums(f, s, 0)
      BY <2>2 DEF Sums
    <2> QED
      BY <2>3
  <1>2. ASSUME NEW n \in Nat, n \in T PROVE n + 1 \in T
    <2>1. PICK f : Sums(f, s, n)
      BY <1>2
    <2> DEFINE g == [i \in 0 .. n + 1 |-> IF i <= n THEN f[i] ELSE f[n] + s[n + 1]]
    <2>2. ASSUME NEW i \in 0 .. n + 1
          PROVE  g[i] = IF i = 0 THEN 0 ELSE g[i - 1] + s[i]
      <3>1. CASE i = 0
        BY <2>1, <3>1 DEF Sums
      <3>2. CASE i # 0 /\ i <= n
        <4>1. i \in 0 .. n /\ i - 1 \in 0 .. n + 1 /\ i - 1 <= n
          BY <3>2
        <4>2. f[i] = f[i - 1] + s[i]
          BY <2>1, <3>2, <4>1 DEF Sums
        <4> QED
          BY <3>2, <4>1, <4>2
      <3>3. CASE i = n + 1
        BY <3>3
      <3> QED
        BY <3>1, <3>2, <3>3
    <2>3. g = [i \in 0 .. n + 1 |-> IF i = 0 THEN 0 ELSE g[i - 1] + s[i]]
      BY <2>2
    <2> HIDE DEF g
    <2>4. Sums(g, s, n + 1)
      BY <2>3 DEF Sums
    <2> QED
      BY <2>4
  <1> HIDE DEF T
  <1>3. \A n \in Nat : n \in T
    BY <1>1, <1>2, Induct
  <1> QED
    BY <1>3 DEF T

\* A sum of bytes is no more than 255 for each.
LEMMA TotalFacts ==
    ASSUME NEW s \in Seq(Byte)
    PROVE  Total(s) \in Nat /\ Total(s) <= 255 * Len(s)
  <1> DEFINE sum == CHOOSE f : f = [i \in 0 .. Len(s) |-> IF i = 0 THEN 0 ELSE f[i - 1] + s[i]]
             T   == {n \in Nat : n <= Len(s) => sum[n] \in Nat /\ sum[n] <= 255 * n}
  <1>1. Len(s) \in Nat
    BY LenProperties
  <1>2. sum = [i \in 0 .. Len(s) |-> IF i = 0 THEN 0 ELSE sum[i - 1] + s[i]]
    <2>1. \E f : f = [i \in 0 .. Len(s) |-> IF i = 0 THEN 0 ELSE f[i - 1] + s[i]]
      BY <1>1, SumsExist DEF Sums
    <2> QED
      BY <2>1
  <1>3. Total(s) = sum[Len(s)]
    BY DEF Total
  <1> HIDE DEF sum
  <1>4. 0 \in T
    BY <1>1, <1>2
  <1>5. ASSUME NEW n \in Nat, n \in T PROVE n + 1 \in T
    <2> SUFFICES ASSUME n + 1 <= Len(s)
                 PROVE  sum[n + 1] \in Nat /\ sum[n + 1] <= 255 * (n + 1)
      OBVIOUS
    <2>1. sum[n] \in Nat /\ sum[n] <= 255 * n
      BY <1>1, <1>5
    <2>2. s[n + 1] \in Nat /\ s[n + 1] <= 255
      <3>1. n + 1 \in 1 .. Len(s)
        BY <1>1
      <3>2. s[n + 1] \in Byte
        BY <3>1, ElementOfSeq
      <3>3. \A b \in Byte : b \in Nat /\ b <= 255
        BY DEF Byte
      <3> QED
        BY <3>2, <3>3
    <2>3. sum[n + 1] = sum[n] + s[n + 1]
      <3>1. n + 1 \in 0 .. Len(s) /\ n + 1 # 0 /\ (n + 1) - 1 = n
        BY <1>1
      <3> QED
        BY <1>2, <3>1
    <2> QED
      BY <2>1, <2>2, <2>3
  <1> HIDE DEF T
  <1>6. \A n \in Nat : n \in T
    BY <1>4, <1>5, Induct
  <1> QED
    BY <1>1, <1>3, <1>6 DEF T

-----------------------------------------------------------------------------
(* The reply to a command *)

Reply(r) == SendToUart(FINGERPRINT_ACKPACKET, r)

Front == StartCode \o Address

Kind(r) == <<FINGERPRINT_ACKPACKET, HighByte(Len(r) + 2), LowByte(Len(r) + 2)>>

Head9(r) == Front \o Kind(r)

SumOf(r) ==
    (HighByte(Len(r) + 2) + LowByte(Len(r) + 2) + FINGERPRINT_ACKPACKET + Total(r)) % 65536

Sum(r) == <<HighByte(SumOf(r)), LowByte(SumOf(r))>>

\* What the assumption says of a reply, without the set of the bytes.
LEMMA ReplyFacts ==
    ASSUME NEW r \in Replies
    PROVE  /\ r \in Seq(Byte) /\ Len(r) \in Nat /\ Len(r) >= 1 /\ Len(r) <= 53
           /\ Total(r) \in Nat /\ Total(r) <= 13515
  <1>1. r \in Seq(Byte) /\ Len(r) \in 1..SIZE - MIN_SIZE_PACKET - 2
    BY FpmLinkAssumption DEF FpmLinkAssumption
  <1>2. \A n : n \in 1..SIZE - MIN_SIZE_PACKET - 2 => n \in Nat /\ n >= 1 /\ n <= 53
    BY DEF SIZE, MIN_SIZE_PACKET
  <1>3. Len(r) \in Nat /\ Len(r) >= 1 /\ Len(r) <= 53
    BY <1>1, <1>2, Zenon
  <1>4. Total(r) \in Nat /\ Total(r) <= 255 * Len(r)
    BY <1>1, TotalFacts
  <1>5. Total(r) <= 13515
    BY <1>3, <1>4
  <1> QED
    BY <1>1, <1>3, <1>4, <1>5

LEMMA BoundFacts ==
    /\ MaxRetries \in Nat \ {0} /\ MaxCommands \in Nat /\ MaxShort \in Nat /\ MaxFaults \in Nat
    /\ Silence \notin Seq(Byte)
    /\ Noise \subseteq Byte
  BY FpmLinkAssumption DEF FpmLinkAssumption

\* The two bytes of a number of sixteen bits give it back.
LEMMA TwoBytes ==
    ASSUME NEW n \in Nat
    PROVE  /\ HighByte(n) \in Byte /\ LowByte(n) \in Byte
           /\ n < 65536 => Word(HighByte(n), LowByte(n)) = n
  BY DEF HighByte, LowByte, Word, Byte

\* A header is nine bytes, with the start code, the type and the length at their places.
LEMMA HeadParts ==
    ASSUME NEW r \in Replies
    PROVE  /\ Head9(r) \in Seq(Byte) /\ Len(Head9(r)) = 9
           /\ Head9(r)[7] = FINGERPRINT_ACKPACKET
           /\ Length(Head9(r)) = Len(r) + 2
           /\ SubSeq(Head9(r), 1, 2) = StartCode
  <1>1. /\ StartCode \in Seq(Byte) /\ Len(StartCode) = 2
        /\ Address \in Seq(Byte) /\ Len(Address) = 4
    BY DEF StartCode, Address, Byte
  <1>2. /\ Front \in Seq(Byte) /\ Len(Front) = 6
    <2>1. /\ Front \in Seq(Byte) /\ Len(Front) = Len(StartCode) + Len(Address)
      BY <1>1, Joined, Zenon DEF Front
    <2> QED
      BY <1>1, <2>1
  <1>3. /\ HighByte(Len(r) + 2) \in Byte /\ LowByte(Len(r) + 2) \in Byte
        /\ Word(HighByte(Len(r) + 2), LowByte(Len(r) + 2)) = Len(r) + 2
    <2>1. Len(r) + 2 \in Nat /\ Len(r) + 2 < 65536
      BY ReplyFacts
    <2> QED
      BY <2>1, TwoBytes
  <1>4. FINGERPRINT_ACKPACKET \in Byte
    BY DEF FINGERPRINT_ACKPACKET, Byte
  <1>5. /\ Kind(r) \in Seq(Byte) /\ Len(Kind(r)) = 3
        /\ Kind(r)[1] = FINGERPRINT_ACKPACKET
        /\ Kind(r)[2] = HighByte(Len(r) + 2) /\ Kind(r)[3] = LowByte(Len(r) + 2)
    BY <1>3, <1>4 DEF Kind
  <1>6. /\ Head9(r) \in Seq(Byte) /\ Len(Head9(r)) = 9
        /\ \A i \in 1..9 : Head9(r)[i] = IF i <= 6 THEN Front[i] ELSE Kind(r)[i - 6]
    <2>1. /\ Head9(r) \in Seq(Byte) /\ Len(Head9(r)) = Len(Front) + Len(Kind(r))
          /\ \A i \in 1 .. Len(Front) + Len(Kind(r)) :
                Head9(r)[i] = IF i <= Len(Front) THEN Front[i] ELSE Kind(r)[i - Len(Front)]
      BY <1>2, <1>5, Joined, Zenon DEF Head9
    <2> QED
      BY <1>2, <1>5, <2>1
  <1>7. Head9(r)[7] = Kind(r)[1] /\ Head9(r)[8] = Kind(r)[2] /\ Head9(r)[9] = Kind(r)[3]
    BY <1>6
  <1>8. SubSeq(Head9(r), 1, 2) = StartCode
    <2>1. SubSeq(Head9(r), 1, 2) = SubSeq(Front, 1, 2)
      <3>1. 2 \in 1 .. Len(Front)
        BY <1>2
      <3> QED
        BY <1>2, <1>5, <3>1, LeftPart, Zenon DEF Head9
    <2>2. SubSeq(Front, 1, 2) = SubSeq(StartCode, 1, 2)
      <3>1. 2 \in 1 .. Len(StartCode)
        BY <1>1
      <3> QED
        BY <1>1, <3>1, LeftPart, Zenon DEF Front
    <2>3. SubSeq(StartCode, 1, 2) = StartCode
      BY <1>1, Whole
    <2> QED
      BY <2>1, <2>2, <2>3
  <1> QED
    BY <1>3, <1>5, <1>6, <1>7, <1>8 DEF Length

LEMMA SumParts ==
    ASSUME NEW r \in Replies
    PROVE  /\ Sum(r) \in Seq(Byte) /\ Len(Sum(r)) = 2
           /\ Word(Sum(r)[1], Sum(r)[2]) = Len(r) + 2 + FINGERPRINT_ACKPACKET + Total(r)
  <1>1. /\ Len(r) \in Nat /\ Len(r) >= 1 /\ Len(r) <= 53
        /\ Total(r) \in Nat /\ Total(r) <= 13515
    BY ReplyFacts
  <1>2. HighByte(Len(r) + 2) = 0 /\ LowByte(Len(r) + 2) = Len(r) + 2
    BY <1>1 DEF HighByte, LowByte
  <1>3. SumOf(r) = Len(r) + 2 + FINGERPRINT_ACKPACKET + Total(r)
        /\ SumOf(r) \in Nat /\ SumOf(r) < 65536
    BY <1>1, <1>2 DEF SumOf, FINGERPRINT_ACKPACKET
  <1>4. /\ HighByte(SumOf(r)) \in Byte /\ LowByte(SumOf(r)) \in Byte
        /\ Word(HighByte(SumOf(r)), LowByte(SumOf(r))) = SumOf(r)
    BY <1>3, TwoBytes
  <1>5. /\ Sum(r) \in Seq(Byte) /\ Len(Sum(r)) = 2
        /\ Sum(r)[1] = HighByte(SumOf(r)) /\ Sum(r)[2] = LowByte(SumOf(r))
    BY <1>4 DEF Sum
  <1> QED
    BY <1>3, <1>4, <1>5

Body(r) == r \o Sum(r)

\* A reply is its header and its body, and the reads take it apart again.
LEMMA ReplyParts ==
    ASSUME NEW r \in Replies
    PROVE  /\ Reply(r) \in Seq(Byte)
           /\ Len(Reply(r)) = Len(r) + 11
           /\ SubSeq(Reply(r), 1, 9) = Head9(r)
           /\ SubSeq(Reply(r), 10, Len(Reply(r))) = Body(r)
  <1>1. r \in Seq(Byte) /\ Len(r) \in Nat /\ Len(r) >= 1
    BY ReplyFacts
  <1>2. Head9(r) \in Seq(Byte) /\ Len(Head9(r)) = 9
    BY HeadParts
  <1>3. Sum(r) \in Seq(Byte) /\ Len(Sum(r)) = 2
    BY SumParts
  <1>4. Body(r) \in Seq(Byte) /\ Len(Body(r)) = Len(r) + 2
    BY <1>1, <1>3, Joined DEF Body
  <1>5. Reply(r) = (Head9(r) \o r) \o Sum(r)
    BY DEF Reply, SendToUart, Head9, Front, Kind, Sum, SumOf
  <1>6. Reply(r) = Head9(r) \o Body(r)
    BY <1>1, <1>2, <1>3, <1>5, JoinedLeft DEF Body
  <1>7. Reply(r) \in Seq(Byte) /\ Len(Reply(r)) = Len(r) + 11
    <2>1. /\ Reply(r) \in Seq(Byte) /\ Len(Reply(r)) = Len(Head9(r)) + Len(Body(r))
      BY <1>2, <1>4, <1>6, Joined, Zenon
    <2> QED
      BY <1>1, <1>2, <1>4, <2>1
  <1>8. SubSeq(Reply(r), 1, 9) = Head9(r)
    <2>1. SubSeq(Reply(r), 1, 9) = SubSeq(Head9(r), 1, 9)
      <3>1. 9 \in 1 .. Len(Head9(r))
        BY <1>2
      <3> QED
        BY <1>2, <1>4, <1>6, <3>1, LeftPart, Zenon
    <2>2. SubSeq(Head9(r), 1, 9) = Head9(r)
      BY <1>2, Whole
    <2> QED
      BY <2>1, <2>2
  <1>9. SubSeq(Reply(r), 10, Len(Reply(r))) = Body(r)
    <2>1. Body(r) # <<>>
      BY <1>1, <1>4
    <2>2. SubSeq(Reply(r), Len(Head9(r)) + 1, Len(Head9(r)) + Len(Body(r))) = Body(r)
      BY <1>2, <1>4, <1>6, <2>1, RightPart
    <2> QED
      BY <1>1, <1>2, <1>4, <1>7, <2>2
  <1> QED
    BY <1>7, <1>8, <1>9

LEMMA BodyParts ==
    ASSUME NEW r \in Replies
    PROVE  /\ Body(r) \in Seq(Byte) /\ Len(Body(r)) = Len(r) + 2
           /\ SubSeq(Body(r), 1, Len(r)) = r
           /\ Body(r)[Len(r) + 1] = Sum(r)[1] /\ Body(r)[Len(r) + 2] = Sum(r)[2]
  <1>1. r \in Seq(Byte) /\ Len(r) \in Nat /\ Len(r) >= 1
    BY ReplyFacts
  <1>2. Sum(r) \in Seq(Byte) /\ Len(Sum(r)) = 2
    BY SumParts
  <1>3. /\ Body(r) \in Seq(Byte) /\ Len(Body(r)) = Len(r) + 2
        /\ \A i \in 1 .. Len(r) + 2 :
              Body(r)[i] = IF i <= Len(r) THEN r[i] ELSE Sum(r)[i - Len(r)]
    BY <1>1, <1>2, Joined DEF Body
  <1>4. SubSeq(Body(r), 1, Len(r)) = r
    <2>1. SubSeq(Body(r), 1, Len(r)) = SubSeq(r, 1, Len(r))
      BY <1>1, <1>2, LeftPart DEF Body
    <2> QED
      BY <1>1, <2>1, Whole
  <1> QED
    BY <1>1, <1>3, <1>4

\* GetFromUart accepts a reply that is read whole.
LEMMA AcceptedReply ==
    ASSUME NEW r \in Replies
    PROVE  Accepted(Head9(r), Body(r)) = r
  <1>1. /\ Head9(r)[7] = FINGERPRINT_ACKPACKET
        /\ Length(Head9(r)) = Len(r) + 2
        /\ SubSeq(Head9(r), 1, 2) = StartCode
    BY HeadParts
  <1>2. r \in Seq(Byte) /\ Len(r) \in Nat /\ Len(r) >= 1
    BY ReplyFacts
  <1>3. (Len(r) + 2) - 2 = Len(r) /\ (Len(r) + 2) - 1 = Len(r) + 1
    BY <1>2
  <1>4. ChecksumRight(Len(r) + 2, FINGERPRINT_ACKPACKET, Body(r))
    BY <1>2, <1>3, BodyParts, SumParts DEF ChecksumRight
  <1> QED
    BY <1>1, <1>3, <1>4, BodyParts DEF Accepted

-----------------------------------------------------------------------------
(* The type invariant *)

LEMMA PartOfLine ==
    ASSUME NEW s \in Seq(Byte), NEW n \in Nat, n <= Len(s)
    PROVE  /\ SubSeq(s, 1, n) \in Seq(Byte) /\ Len(SubSeq(s, 1, n)) = n
           /\ SubSeq(s, n + 1, Len(s)) \in Seq(Byte)
  <1>1. Len(s) \in Nat
    BY LenProperties
  <1>2. \A i \in 1 .. n : s[i] \in Byte
    <2> TAKE i \in 1 .. n
    <2>1. i \in 1 .. Len(s)
      BY <1>1
    <2> QED
      BY <2>1, ElementOfSeq
  <1>3. \A i \in n + 1 .. Len(s) : s[i] \in Byte
    <2> TAKE i \in n + 1 .. Len(s)
    <2>1. i \in 1 .. Len(s)
      BY <1>1
    <2> QED
      BY <2>1, ElementOfSeq
  <1>4. SubSeq(s, 1, n) \in Seq(Byte) /\ Len(SubSeq(s, 1, n)) = n
    <2>1. 1 \in Int /\ n \in Int
      OBVIOUS
    <2>2. SubSeq(s, 1, n) \in Seq(Byte)
      BY <1>2, <2>1, SubSeqProperties, Zenon
    <2>3. Len(SubSeq(s, 1, n)) = n
      BY <1>2, <2>1, SubSeqProperties
    <2> QED
      BY <2>2, <2>3
  <1>5. SubSeq(s, n + 1, Len(s)) \in Seq(Byte)
    <2>1. n + 1 \in Int /\ Len(s) \in Int
      BY <1>1
    <2> QED
      BY <1>3, <2>1, SubSeqProperties, Zenon
  <1> QED
    BY <1>4, <1>5

LEMMA TypeInit == Init => TypeOK
  <1> SUFFICES ASSUME Init PROVE TypeOK
    OBVIOUS
  <1>1. line \in Seq(Byte)
    BY EmptySeq DEF Init
  <1>2. header \in [Threads -> Seq(Byte)] /\ \A t \in Threads : Len(header[t]) = 0
    BY EmptySeq DEF Init
  <1>3. tries \in [Threads -> 0..MaxRetries - 1]
    BY BoundFacts DEF Init
  <1>4. place \in [Threads -> {"idle", "header", "body"}]
    BY DEF Init
  <1>5. answer \in [Threads -> Replies \cup {Silence}]
    BY DEF Init
  <1> QED
    BY <1>1, <1>2, <1>3, <1>4, <1>5 DEF Init, TypeOK

\* Sending: the bytes that arrive are bytes.
LEMMA TypeSend ==
    ASSUME TypeOK, NEW t \in Threads, NEW a \in Replies \cup {Silence}, NEW bytes \in Seq(Byte),
           SendCommand(t, a, bytes), disturbed' \in BOOLEAN
    PROVE  TypeOK'
  <1>1. line' \in Seq(Byte)
    BY Joined DEF TypeOK, SendCommand
  <1>2. sent' \subseteq Replies
    BY DEF TypeOK, SendCommand
  <1>3. answer' \in [Threads -> Replies \cup {Silence}]
    BY DEF TypeOK, SendCommand
  <1>4. place' \in [Threads -> {"idle", "header", "body"}]
    BY DEF TypeOK, SendCommand
  <1>5. \A u \in Threads : place'[u] = IF u = t THEN "header" ELSE place[u]
    BY DEF TypeOK, SendCommand
  <1>6. header' = header /\ tries' = tries /\ place[t] = "idle"
    BY DEF SendCommand
  <1>7. ASSUME NEW u \in Threads
        PROVE  /\ Len(header'[u]) = IF place'[u] = "body" THEN MIN_SIZE_PACKET ELSE 0
               /\ place'[u] = "idle" => tries'[u] = 0
    BY <1>5, <1>6 DEF TypeOK
  <1>8. header' \in [Threads -> Seq(Byte)] /\ tries' \in [Threads -> 0..MaxRetries - 1]
    BY <1>6 DEF TypeOK
  <1> QED
    BY <1>1, <1>2, <1>3, <1>4, <1>7, <1>8 DEF TypeOK

\* A command returns: its thread is idle again.
LEMMA TypeReturn ==
    ASSUME TypeOK, NEW t \in Threads, NEW r, Return(t, r),
           line' \in Seq(Byte), sent' = sent, disturbed' \in BOOLEAN
    PROVE  TypeOK'
  <1>1. answer' \in [Threads -> Replies \cup {Silence}]
    BY DEF TypeOK, Return
  <1>2. place' \in [Threads -> {"idle", "header", "body"}]
    BY DEF TypeOK, Return
  <1>3. ASSUME NEW u \in Threads
        PROVE  /\ Len(header'[u]) = IF place'[u] = "body" THEN MIN_SIZE_PACKET ELSE 0
               /\ place'[u] = "idle" => tries'[u] = 0
    <2>1. CASE u = t
      <3>1. place'[u] = "idle"
        BY <2>1 DEF TypeOK, Return
      <3>2. header'[u] = <<>> /\ tries'[u] = 0
        BY <2>1 DEF Return, TypeOK
      <3> QED
        BY <3>1, <3>2, EmptySeq
    <2>2. CASE u # t
      <3>1. place'[u] = place[u] /\ header'[u] = header[u] /\ tries'[u] = tries[u]
        BY <2>2 DEF Return, TypeOK
      <3> QED
        BY <3>1 DEF TypeOK
    <2> QED
      BY <2>1, <2>2
  <1>4. header' \in [Threads -> Seq(Byte)] /\ tries' \in [Threads -> 0..MaxRetries - 1]
    <2>1. 0 \in 0..MaxRetries - 1 /\ <<>> \in Seq(Byte)
      BY BoundFacts, EmptySeq
    <2> QED
      BY <2>1 DEF TypeOK, Return
  <1> QED
    BY <1>1, <1>2, <1>3, <1>4 DEF TypeOK

\* What is read and what is left of the line are bytes.
LEMMA ReadBytes ==
    ASSUME TypeOK, NEW n \in Nat, n <= Len(line)
    PROVE  /\ Received(n) \in Seq(Byte) /\ Len(Received(n)) = n
           /\ Rest(n) \in Seq(Byte)
  BY PartOfLine DEF TypeOK, Received, Rest

LEMMA SizeFacts == MIN_SIZE_PACKET \in Nat /\ MIN_SIZE_PACKET = 9
  BY DEF MIN_SIZE_PACKET

\* A header of nine bytes announces a number.
LEMMA LengthFacts ==
    ASSUME NEW h \in Seq(Byte), Len(h) = 9
    PROVE  Length(h) \in Nat
  <1>1. 8 \in 1 .. Len(h) /\ 9 \in 1 .. Len(h)
    OBVIOUS
  <1>2. h[8] \in Byte /\ h[9] \in Byte
    BY <1>1, ElementOfSeq
  <1>3. h[8] \in Nat /\ h[9] \in Nat
    <2>1. \A b \in Byte : b \in Nat
      BY DEF Byte
    <2> QED
      BY <1>2, <2>1
  <1>4. \A hi, lo \in Nat : Word(hi, lo) \in Nat
    BY DEF Word
  <1> QED
    BY <1>3, <1>4 DEF Length

\* What a thread asks for is a number of bytes.
LEMMA WantedFacts ==
    ASSUME TypeOK, NEW t \in Threads, t \in asking
    PROVE  Wanted(t) \in Nat
  <1>1. CASE place[t] = "header"
    BY <1>1, SizeFacts DEF Wanted
  <1>2. CASE place[t] = "body"
    <2>1. header[t] \in Seq(Byte) /\ Len(header[t]) = 9
      BY <1>2, SizeFacts DEF TypeOK
    <2> QED
      BY <1>2, <2>1, LengthFacts DEF Wanted
  <1> QED
    BY <1>1, <1>2 DEF TypeOK, asking

LEMMA TypeReadHeader ==
    ASSUME TypeOK, NEW t \in Threads, ReadHeader(t)
    PROVE  TypeOK'
  <1>1. /\ place[t] = "header" /\ Len(line) >= MIN_SIZE_PACKET
        /\ line' = Rest(MIN_SIZE_PACKET)
        /\ sent' = sent /\ disturbed' = disturbed /\ disturbed' \in BOOLEAN
    BY DEF ReadHeader, TypeOK
  <1>2. /\ line' \in Seq(Byte)
        /\ Received(MIN_SIZE_PACKET) \in Seq(Byte)
        /\ Len(Received(MIN_SIZE_PACKET)) = MIN_SIZE_PACKET
    <2>1. Len(line) \in Nat /\ MIN_SIZE_PACKET <= Len(line)
      BY <1>1, SizeFacts, LenProperties DEF TypeOK
    <2> QED
      BY <1>1, <2>1, SizeFacts, ReadBytes
  <1>3. CASE Fits(Length(Received(MIN_SIZE_PACKET)))
    <2>1. /\ place' = [place EXCEPT ![t] = "body"]
          /\ header' = [header EXCEPT ![t] = Received(MIN_SIZE_PACKET)]
          /\ tries' = [tries EXCEPT ![t] = 0]
          /\ answer' = answer
      BY <1>3 DEF ReadHeader
    <2>2. place' \in [Threads -> {"idle", "header", "body"}]
      BY <2>1 DEF TypeOK
    <2>3. header' \in [Threads -> Seq(Byte)]
      BY <1>2, <2>1 DEF TypeOK
    <2>4. tries' \in [Threads -> 0..MaxRetries - 1]
      <3>1. 0 \in 0..MaxRetries - 1
        BY BoundFacts
      <3> QED
        BY <2>1, <3>1 DEF TypeOK
    <2>5. ASSUME NEW u \in Threads
          PROVE  /\ Len(header'[u]) = IF place'[u] = "body" THEN MIN_SIZE_PACKET ELSE 0
                 /\ place'[u] = "idle" => tries'[u] = 0
      <3>1. CASE u = t
        <4>1. place'[u] = "body" /\ header'[u] = Received(MIN_SIZE_PACKET)
          BY <2>1, <3>1 DEF TypeOK
        <4> QED
          BY <1>2, <4>1
      <3>2. CASE u # t
        <4>1. place'[u] = place[u] /\ header'[u] = header[u] /\ tries'[u] = tries[u]
          BY <2>1, <3>2 DEF TypeOK
        <4> QED
          BY <4>1 DEF TypeOK
      <3> QED
        BY <3>1, <3>2
    <2>6. answer' \in [Threads -> Replies \cup {Silence}] /\ sent' \subseteq Replies
      BY <1>1, <2>1 DEF TypeOK
    <2> QED
      BY <1>1, <1>2, <2>2, <2>3, <2>4, <2>5, <2>6 DEF TypeOK
  <1>4. CASE ~Fits(Length(Received(MIN_SIZE_PACKET)))
    <2>1. Return(t, <<FINGERPRINT_TIMEOUT>>)
      BY <1>4 DEF ReadHeader
    <2> QED
      BY <1>1, <1>2, <2>1, TypeReturn
  <1> QED
    BY <1>3, <1>4

LEMMA TypeReadBody ==
    ASSUME TypeOK, NEW t \in Threads, ReadBody(t)
    PROVE  TypeOK'
  <1>1. /\ place[t] = "body" /\ Len(line) >= Wanted(t)
        /\ line' = Rest(Wanted(t))
        /\ Return(t, Accepted(header[t], Received(Wanted(t))))
        /\ sent' = sent /\ disturbed' = disturbed /\ disturbed' \in BOOLEAN
    BY DEF ReadBody, BodyRead, TypeOK
  <1>2. line' \in Seq(Byte)
    <2>1. t \in asking
      BY <1>1 DEF asking
    <2>2. Wanted(t) \in Nat /\ Len(line) \in Nat
      BY <2>1, WantedFacts, LenProperties DEF TypeOK
    <2>3. Wanted(t) <= Len(line)
      BY <1>1, <2>2
    <2> QED
      BY <1>1, <2>2, <2>3, ReadBytes
  <1> QED
    BY <1>1, <1>2, TypeReturn

LEMMA TypeReadShort ==
    ASSUME TypeOK, NEW t \in Threads, NEW n \in 1..Len(line), ReadShort(t, n)
    PROVE  TypeOK'
  <1>1. /\ t \in asking /\ line' = Rest(n) /\ disturbed' = TRUE /\ sent' = sent
    BY DEF ReadShort
  <1>2. line' \in Seq(Byte)
    <2>1. Len(line) \in Nat
      BY LenProperties DEF TypeOK
    <2>2. n \in Nat /\ n <= Len(line)
      BY <2>1
    <2> QED
      BY <1>1, <2>2, ReadBytes
  <1>3. CASE tries[t] + 1 = MaxRetries
    <2>1. Return(t, <<FINGERPRINT_TIMEOUT>>)
      BY <1>3 DEF ReadShort
    <2> QED
      BY <1>1, <1>2, <2>1, TypeReturn
  <1>4. CASE tries[t] + 1 # MaxRetries
    <2>1. /\ tries' = [tries EXCEPT ![t] = @ + 1]
          /\ place' = place /\ header' = header /\ answer' = answer
      BY <1>4 DEF ReadShort
    <2>2. tries' \in [Threads -> 0..MaxRetries - 1]
      <3>1. tries[t] + 1 \in 0..MaxRetries - 1
        <4>1. tries[t] \in 0..MaxRetries - 1
          BY DEF TypeOK
        <4> QED
          BY <1>4, <4>1, BoundFacts
      <3> QED
        BY <2>1, <3>1 DEF TypeOK
    <2>3. ASSUME NEW u \in Threads, place'[u] = "idle"
          PROVE  tries'[u] = 0
      <3>1. u # t
        BY <1>1, <2>1, <2>3 DEF asking
      <3> QED
        BY <2>1, <2>3, <3>1 DEF TypeOK
    <2> QED
      BY <1>1, <1>2, <2>1, <2>2, <2>3 DEF TypeOK
  <1> QED
    BY <1>3, <1>4

LEMMA TypeFallShort ==
    ASSUME TypeOK, NEW t \in Threads, FallShort(t)
    PROVE  TypeOK'
  <1>1. CASE \E n \in 1..Len(line) : ReadShort(t, n)
    BY <1>1, TypeReadShort
  <1>2. CASE line # <<>> /\ ReadShort(t, Len(line))
    <2>1. Len(line) \in 1..Len(line)
      BY <1>2, EmptySeq, LenProperties DEF TypeOK
    <2> QED
      BY <1>2, <2>1, TypeReadShort
  <1> QED
    BY <1>1, <1>2 DEF FallShort

LEMMA TypeAnswered ==
    ASSUME TypeOK, NEW t \in Threads, Answered(t)
    PROVE  TypeOK'
  <1>1. PICK a \in Replies : SendCommand(t, a, Reply(a))
    BY DEF Answered, Reply
  <1>2. Reply(a) \in Seq(Byte)
    BY ReplyParts
  <1>3. disturbed' \in BOOLEAN
    BY DEF Answered
  <1> QED
    BY <1>1, <1>2, <1>3, TypeSend

LEMMA TypeFault ==
    ASSUME TypeOK, NEW t \in Threads, Fault(t)
    PROVE  TypeOK'
  <1>1. disturbed' \in BOOLEAN
    BY DEF Fault
  <1>2. CASE SendCommand(t, Silence, <<>>)
    <2>1. <<>> \in Seq(Byte)
      BY EmptySeq
    <2> QED
      BY <1>1, <1>2, <2>1, TypeSend
  <1>3. CASE \E a \in Replies, x \in Noise :
                \E i \in DOMAIN Reply(a) : SendCommand(t, a, [Reply(a) EXCEPT ![i] = x])
    <2>1. PICK a \in Replies, x \in Noise :
                \E i \in DOMAIN Reply(a) : SendCommand(t, a, [Reply(a) EXCEPT ![i] = x])
      BY <1>3
    <2>2. PICK i \in DOMAIN Reply(a) : SendCommand(t, a, [Reply(a) EXCEPT ![i] = x])
      BY <2>1
    <2>3. Reply(a) \in Seq(Byte)
      BY ReplyParts
    <2>4. i \in 1 .. Len(Reply(a)) /\ x \in Byte
      BY <2>3, LenProperties, BoundFacts
    <2>5. [Reply(a) EXCEPT ![i] = x] \in Seq(Byte)
      BY <2>3, <2>4, Changed
    <2> QED
      BY <1>1, <2>2, <2>5, TypeSend
  <1> QED
    BY <1>2, <1>3 DEF Fault, Reply

LEMMA TypeNext == TypeOK /\ [Next]_vars => TypeOK'
  <1> SUFFICES ASSUME TypeOK, [Next]_vars PROVE TypeOK'
    OBVIOUS
  <1>1. CASE UNCHANGED vars
    BY <1>1 DEF TypeOK, vars, bounds
  <1>2. CASE Next
    <2>1. PICK t \in Threads :
            Answered(t) \/ Fault(t) \/ ReadHeader(t) \/ ReadBody(t) \/ FallShort(t)
      BY <1>2 DEF Next
    <2> QED
      BY <2>1, TypeAnswered, TypeFault, TypeReadHeader, TypeReadBody, TypeFallShort
  <1> QED
    BY <1>1, <1>2

\* The variables keep their types for every set of threads and replies, and the
\* count of reads is set back whenever a command returns, in whatever way
\* (retries_UART_read, UART.c:92).
THEOREM TypeCorrect == Spec => []TypeOK
  <1> QED
    BY TypeInit, TypeNext, PTL DEF Spec

-----------------------------------------------------------------------------
(* A command that nothing disturbs takes its own reply *)

\* While nothing has disturbed it, the line holds the rest of the reply to the one
\* thread that asks, and nothing when none does.
Tuned ==
    ~disturbed =>
        /\ \A s, t \in Threads : s \in asking /\ t \in asking => s = t
        /\ asking = {} => line = <<>>
        /\ \A t \in Threads : place[t] = "header" =>
              answer[t] \in Replies /\ line = Reply(answer[t])
        /\ \A t \in Threads : place[t] = "body" =>
              /\ answer[t] \in Replies
              /\ header[t] = Head9(answer[t]) /\ line = Body(answer[t])

HeardOf == heard = [t \in Threads |-> heard[t]]

IInv == TypeOK /\ Tuned /\ HeardOf

LEMMA TunedInit == Init => Tuned /\ HeardOf
  <1> SUFFICES ASSUME Init PROVE Tuned /\ HeardOf
    OBVIOUS
  <1>1. \A t \in Threads : place[t] = "idle"
    BY DEF Init
  <1>2. HeardOf
    BY DEF Init, HeardOf
  <1>3. Tuned
    BY <1>1 DEF Init, Tuned, asking
  <1> QED
    BY <1>2, <1>3

\* A command on a quiet line: its reply is all there is.
LEMMA TunedAnswered ==
    ASSUME IInv, NEW t \in Threads, Answered(t)
    PROVE  Tuned'
  <1>1. PICK a \in Replies : SendCommand(t, a, Reply(a))
    BY DEF Answered, Reply
  <1>2. disturbed' = ~Quiet
    BY DEF Answered
  <1> SUFFICES ASSUME ~disturbed' PROVE Tuned'
    BY DEF Tuned
  <1>3. asking = {} /\ line = <<>>
    BY <1>2 DEF Quiet
  <1>4. /\ place' = [place EXCEPT ![t] = "header"]
        /\ line' = line \o Reply(a)
        /\ answer' = [answer EXCEPT ![t] = a]
    BY <1>1 DEF SendCommand
  <1>5. \A u \in Threads : place'[u] = IF u = t THEN "header" ELSE "idle"
    BY <1>3, <1>4 DEF asking, IInv, TypeOK
  <1>6. line' = Reply(a)
    <2>1. Reply(a) \in Seq(Byte)
      BY ReplyParts
    <2> QED
      BY <1>3, <1>4, <2>1, ConcatEmptySeq
  <1>7. answer'[t] = a
    BY <1>4 DEF IInv, TypeOK
  <1>8. asking' = {t}
    BY <1>5 DEF asking
  <1> QED
    BY <1>5, <1>6, <1>7, <1>8 DEF Tuned

LEMMA BytesOfReply ==
    ASSUME NEW r \in Replies, line = Reply(r)
    PROVE  /\ Received(MIN_SIZE_PACKET) = Head9(r)
           /\ Rest(MIN_SIZE_PACKET) = Body(r)
           /\ Fits(Length(Head9(r)))
  <1>1. /\ SubSeq(line, 1, 9) = Head9(r) /\ SubSeq(line, 10, Len(line)) = Body(r)
    BY ReplyParts
  <1>2. Received(MIN_SIZE_PACKET) = SubSeq(line, 1, 9)
    BY DEF Received, MIN_SIZE_PACKET
  <1>3. Rest(MIN_SIZE_PACKET) = SubSeq(line, 10, Len(line))
    <2>1. MIN_SIZE_PACKET + 1 = 10
      BY DEF MIN_SIZE_PACKET
    <2> QED
      BY <2>1 DEF Rest
  <1>4. Fits(Length(Head9(r)))
    <2>1. Length(Head9(r)) = Len(r) + 2 /\ Len(r) \in Nat /\ Len(r) <= 53
      BY HeadParts, ReplyFacts
    <2>2. \A n \in Nat : n <= 53 => Fits(n + 2)
      BY DEF Fits, SIZE, MIN_SIZE_PACKET
    <2> QED
      BY <2>1, <2>2
  <1> QED
    BY <1>1, <1>2, <1>3, <1>4

LEMMA TunedReadHeader ==
    ASSUME IInv, NEW t \in Threads, ReadHeader(t)
    PROVE  Tuned'
  <1>1. /\ place[t] = "header" /\ line' = Rest(MIN_SIZE_PACKET) /\ disturbed' = disturbed
    BY DEF ReadHeader
  <1> SUFFICES ASSUME ~disturbed, ~disturbed' PROVE Tuned'
    BY <1>1 DEF Tuned
  <1> DEFINE r == answer[t]
  <1>2. r \in Replies /\ line = Reply(r)
    BY <1>1 DEF IInv, Tuned
  <1>3. /\ Received(MIN_SIZE_PACKET) = Head9(r)
        /\ Rest(MIN_SIZE_PACKET) = Body(r)
        /\ Fits(Length(Head9(r)))
    BY <1>2, BytesOfReply
  <1>4. /\ place' = [place EXCEPT ![t] = "body"]
        /\ header' = [header EXCEPT ![t] = Head9(r)]
        /\ answer' = answer
    BY <1>3 DEF ReadHeader
  <1>5. t \in asking /\ \A u \in Threads : u # t => place[u] = "idle"
    BY <1>1 DEF IInv, Tuned, asking
  <1>6. \A u \in Threads : place'[u] = IF u = t THEN "body" ELSE "idle"
    BY <1>4, <1>5 DEF IInv, TypeOK
  <1>7. header'[t] = Head9(r)
    BY <1>4 DEF IInv, TypeOK
  <1>8. asking' = {t}
    BY <1>6 DEF asking
  <1> QED
    BY <1>1, <1>2, <1>3, <1>4, <1>6, <1>7, <1>8 DEF Tuned

\* The second read takes the rest of the reply, and the command returns its data.
LEMMA OwnBody ==
    ASSUME IInv, NEW t \in Threads, ReadBody(t), ~disturbed
    PROVE  /\ line' = <<>> /\ asking' = {}
           /\ Return(t, answer[t])
  <1> DEFINE r == answer[t]
  <1>1. /\ place[t] = "body"
        /\ line' = Rest(Wanted(t))
        /\ Return(t, Accepted(header[t], Received(Wanted(t))))
    BY DEF ReadBody, BodyRead
  <1>2. r \in Replies /\ header[t] = Head9(r) /\ line = Body(r)
    BY <1>1 DEF IInv, Tuned
  <1>3. Wanted(t) = Len(line)
    <2>1. Length(Head9(r)) = Len(r) + 2 /\ Len(Body(r)) = Len(r) + 2
      BY <1>2, HeadParts, BodyParts
    <2> QED
      BY <1>1, <1>2, <2>1 DEF Wanted
  <1>4. Received(Wanted(t)) = Body(r)
    <2>1. Body(r) \in Seq(Byte)
      BY <1>2, BodyParts
    <2> QED
      BY <1>2, <1>3, <2>1, Whole DEF Received
  <1>5. Accepted(header[t], Received(Wanted(t))) = r
    BY <1>2, <1>4, AcceptedReply
  <1>6. line' = <<>>
    <2>1. Len(line) \in Int /\ Len(line) + 1 \in Int /\ Len(line) < Len(line) + 1
      BY LenProperties DEF IInv, TypeOK
    <2> QED
      BY <1>1, <1>3, <2>1, SubSeqEmpty DEF Rest
  <1>7. asking' = {}
    <2>1. place' = [place EXCEPT ![t] = "idle"]
      BY <1>1 DEF Return
    <2>2. t \in asking /\ \A u \in Threads : u # t => place[u] = "idle"
      BY <1>1 DEF IInv, Tuned, asking
    <2> QED
      BY <2>1, <2>2 DEF asking, IInv, TypeOK
  <1> QED
    BY <1>1, <1>5, <1>6, <1>7

LEMMA TunedReadBody ==
    ASSUME IInv, NEW t \in Threads, ReadBody(t)
    PROVE  Tuned'
  <1>1. disturbed' = disturbed
    BY DEF ReadBody
  <1> SUFFICES ASSUME ~disturbed PROVE Tuned'
    BY <1>1 DEF Tuned
  <1>2. line' = <<>> /\ asking' = {}
    BY OwnBody
  <1> QED
    BY <1>2 DEF Tuned, asking

LEMMA HeardNext ==
    ASSUME IInv, [Next]_vars
    PROVE  HeardOf'
  <1>1. \A t \in Threads : \A r : Return(t, r) => HeardOf'
    BY DEF Return, HeardOf, IInv
  <1>2. UNCHANGED heard => HeardOf'
    BY DEF HeardOf, IInv
  <1>3. \A t \in Threads : \A a, bytes : SendCommand(t, a, bytes) => HeardOf'
    BY DEF SendCommand, HeardOf, IInv
  <1>4. ASSUME NEW t \in Threads, Answered(t) \/ Fault(t) PROVE HeardOf'
    BY <1>3, <1>4 DEF Answered, Fault
  <1>5. ASSUME NEW t \in Threads, ReadHeader(t) PROVE HeardOf'
    BY <1>1, <1>2, <1>5 DEF ReadHeader
  <1>6. ASSUME NEW t \in Threads, ReadBody(t) PROVE HeardOf'
    BY <1>1, <1>6 DEF ReadBody
  <1>7. ASSUME NEW t \in Threads, FallShort(t) PROVE HeardOf'
    BY <1>1, <1>2, <1>7 DEF FallShort, ReadShort
  <1>8. CASE UNCHANGED vars
    BY <1>2, <1>8 DEF vars
  <1> QED
    BY <1>4, <1>5, <1>6, <1>7, <1>8 DEF Next

LEMMA Invariance == IInv /\ [Next]_vars => IInv'
  <1> SUFFICES ASSUME IInv, [Next]_vars PROVE IInv'
    OBVIOUS
  <1>1. TypeOK'
    BY TypeNext DEF IInv
  <1>2. HeardOf'
    BY HeardNext
  <1>3. Tuned'
    <2>1. CASE UNCHANGED vars
      BY <2>1 DEF IInv, Tuned, asking, vars
    <2>2. ASSUME NEW t \in Threads, Fault(t) \/ FallShort(t) PROVE Tuned'
      <3>1. disturbed' = TRUE
        BY <2>2 DEF Fault, FallShort, ReadShort
      <3> QED
        BY <3>1 DEF Tuned
    <2> QED
      BY <2>1, <2>2, TunedAnswered, TunedReadHeader, TunedReadBody DEF Next
  <1> QED
    BY <1>1, <1>2, <1>3 DEF IInv

\* After a command that nothing has disturbed no byte is left on the line, whatever
\* the sensor answers and however many threads send commands (packet.c:327).
THEOREM StaysInStep == Spec => []InStep
  <1>1. IInv => InStep
    BY DEF IInv, Tuned, InStep
  <1> QED
    BY <1>1, TypeInit, TunedInit, Invariance, PTL DEF Spec, IInv

LEMMA OwnAnswerStep ==
    ASSUME IInv, [Next]_vars, NEW t \in Threads, t \in asking, t \notin asking', ~disturbed'
    PROVE  heard'[t] = answer[t]
  <1>1. ASSUME NEW u \in Threads, ReadBody(u) PROVE heard'[t] = answer[t]
    <2>1. ~disturbed
      BY <1>1 DEF ReadBody
    <2>2. t = u
      <3>1. u \in asking
        BY <1>1 DEF ReadBody, asking
      <3> QED
        BY <2>1, <3>1 DEF IInv, Tuned
    <2>3. Return(t, answer[t])
      BY <1>1, <2>1, <2>2, OwnBody
    <2>4. heard' = [heard EXCEPT ![t] = answer[t]]
      BY <2>3 DEF Return
    <2> QED
      BY <2>4 DEF IInv, HeardOf
  <1>2. ASSUME NEW u \in Threads, ReadHeader(u) PROVE FALSE
    <2>1. ~disturbed
      BY <1>2 DEF ReadHeader
    <2>2. place[u] = "header" /\ answer[u] \in Replies /\ line = Reply(answer[u])
      BY <1>2, <2>1 DEF ReadHeader, IInv, Tuned
    <2>3. place' = [place EXCEPT ![u] = "body"]
      BY <1>2, <2>2, BytesOfReply DEF ReadHeader
    <2> QED
      BY <2>3 DEF asking, IInv, TypeOK
  <1>3. ASSUME NEW u \in Threads, Answered(u) \/ Fault(u) PROVE FALSE
    <2>1. place' = [place EXCEPT ![u] = "header"]
      BY <1>3 DEF Answered, Fault, SendCommand
    <2> QED
      BY <2>1 DEF asking, IInv, TypeOK
  <1>4. ASSUME NEW u \in Threads, FallShort(u) PROVE FALSE
    BY <1>4 DEF FallShort, ReadShort
  <1>5. ~ UNCHANGED vars
    BY DEF vars, asking
  <1> QED
    BY <1>1, <1>2, <1>3, <1>4, <1>5 DEF Next

\* A command that nothing has disturbed returns the sensor's answer to it: its two
\* reads fit the reply, and the reply passes the tests of GetFromUart.
THEOREM OwnAnswers == Spec => OwnAnswer
  <1>1. IInv /\ [Next]_vars =>
          [\A t \in Threads :
             t \in asking /\ t \notin asking' /\ ~disturbed' => heard'[t] = answer[t]]_vars
    BY OwnAnswerStep
  <1> QED
    BY <1>1, TypeInit, TunedInit, Invariance, PTL DEF Spec, IInv, OwnAnswer

-----------------------------------------------------------------------------
(* The line carries out CommandLink *)

\* A thread that asks has heard nothing yet.
Listening == \A t \in Threads : t \in asking => heard[t] = Silence

LEMMA ListeningInit == Init => Listening
  BY DEF Init, Listening, asking

LEMMA ListeningNext == IInv /\ Listening /\ [Next]_vars => Listening'
  <1> SUFFICES ASSUME IInv, Listening, [Next]_vars PROVE Listening'
    OBVIOUS
  <1>1. ASSUME NEW t \in Threads, Answered(t) \/ Fault(t) PROVE Listening'
    <2>1. /\ place' = [place EXCEPT ![t] = "header"]
          /\ heard' = [heard EXCEPT ![t] = Silence]
      BY <1>1 DEF Answered, Fault, SendCommand
    <2> QED
      BY <2>1 DEF Listening, asking, IInv, TypeOK, HeardOf
  <1>2. ASSUME NEW t \in Threads, NEW r, Return(t, r) PROVE Listening'
    <2>1. /\ place' = [place EXCEPT ![t] = "idle"]
          /\ heard' = [heard EXCEPT ![t] = r]
      BY <1>2 DEF Return
    <2> QED
      BY <2>1 DEF Listening, asking, IInv, TypeOK, HeardOf
  <1>3. ASSUME NEW t \in Threads, ReadHeader(t) PROVE Listening'
    <2>1. CASE heard' = heard /\ place' = [place EXCEPT ![t] = "body"]
      <3>1. t \in asking
        BY <1>3 DEF ReadHeader, asking
      <3> QED
        BY <2>1, <3>1 DEF Listening, asking, IInv, TypeOK
    <2> QED
      BY <1>2, <1>3, <2>1 DEF ReadHeader
  <1>4. ASSUME NEW t \in Threads, ReadBody(t) PROVE Listening'
    BY <1>2, <1>4 DEF ReadBody
  <1>5. UNCHANGED <<place, heard>> => Listening'
    BY DEF Listening, asking
  <1>6. ASSUME NEW t \in Threads, FallShort(t) PROVE Listening'
    BY <1>2, <1>5, <1>6 DEF FallShort, ReadShort
  <1>7. CASE UNCHANGED vars
    BY <1>5, <1>7 DEF vars
  <1> QED
    BY <1>1, <1>3, <1>4, <1>6, <1>7 DEF Next

\* What GetFromUart returns is never mistaken for silence.
LEMMA NoSilence ==
    ASSUME IInv, NEW t \in Threads, ReadBody(t)
    PROVE  Accepted(header[t], Received(Wanted(t))) # Silence
  <1>1. /\ place[t] = "body" /\ t \in asking /\ Wanted(t) = Length(header[t])
        /\ Len(line) >= Wanted(t) /\ line \in Seq(Byte)
    BY DEF ReadBody, IInv, TypeOK, asking, Wanted
  <1>2. Wanted(t) \in Nat /\ Wanted(t) <= Len(line)
    <2>1. Wanted(t) \in Nat /\ Len(line) \in Nat
      BY <1>1, WantedFacts, LenProperties DEF IInv
    <2> QED
      BY <1>1, <2>1
  <1> DEFINE body == SubSeq(line, 1, Wanted(t))
  <1>3. body \in Seq(Byte) /\ Len(body) = Wanted(t)
    BY <1>1, <1>2, PartOfLine
  <1>4. SubSeq(body, 1, Wanted(t) - 2) \in Seq(Byte)
    <2>1. CASE Wanted(t) < 2
      <3>1. 1 \in Int /\ Wanted(t) - 2 \in Int /\ Wanted(t) - 2 < 1
        BY <1>2, <2>1
      <3> QED
        BY <1>3, <3>1, SubSeqEmpty, EmptySeq
    <2>2. CASE Wanted(t) >= 2
      <3>1. Wanted(t) - 2 \in Nat /\ Wanted(t) - 2 <= Len(body)
        BY <1>2, <1>3, <2>2
      <3> HIDE DEF body
      <3> QED
        BY <1>3, <3>1, PartOfLine
    <2> QED
      BY <1>2, <2>1, <2>2
  <1>5. <<FINGERPRINT_BADPACKET>> \in Seq(Byte) /\ <<FINGERPRINT_PACKETRECIEVER>> \in Seq(Byte)
    BY DEF FINGERPRINT_BADPACKET, FINGERPRINT_PACKETRECIEVER, Byte
  <1>6. Accepted(header[t], Received(Wanted(t))) \in Seq(Byte)
    BY <1>1, <1>4, <1>5 DEF Accepted, Received
  <1> QED
    BY <1>6, BoundFacts

\* RepliesAreReal, of one step.
RealStep ==
    \A t \in Threads : heard'[t] # heard[t] => heard'[t] \in sent \cup Errors \cup {Silence}

\* A command that returns is CommandLink's Return, when nothing made up is heard.
LEMMA ReturnMaps ==
    ASSUME IInv, Listening, RealStep, NEW t \in Threads, t \in asking,
           NEW r, r # Silence, Return(t, r), disturbed' = TRUE
    PROVE  Commands!Return(t, heard'[t])
  <1>1. asking' = asking \ {t}
    <2>1. place' = [place EXCEPT ![t] = "idle"]
      BY DEF Return
    <2> QED
      BY <2>1 DEF asking, IInv, TypeOK
  <1>2. heard'[t] = r /\ heard[t] = Silence
    BY DEF Return, IInv, HeardOf, Listening
  <1>3. heard'[t] \in Replies \cup Errors
    BY <1>2 DEF RealStep, IInv, TypeOK
  <1> QED
    BY <1>1, <1>3 DEF Commands!Return, Return

LEMMA SendMaps ==
    ASSUME IInv, NEW t \in Threads, NEW a \in Replies \cup {Silence}, NEW bytes,
           SendCommand(t, a, bytes), disturbed' \in BOOLEAN,
           asking # {} \/ a = Silence => disturbed' = TRUE
    PROVE  Commands!Command(t, a)
  <1>1. /\ place[t] = "idle" /\ place' = [place EXCEPT ![t] = "header"]
        /\ answer' = [answer EXCEPT ![t] = a]
    BY DEF SendCommand
  <1>2. t \notin asking /\ asking' = asking \cup {t}
    BY <1>1 DEF asking, IInv, TypeOK
  <1> QED
    BY <1>1, <1>2 DEF Commands!Command

LEMMA StepMaps ==
    IInv /\ Listening /\ [Next]_vars /\ [RealStep]_vars => [CommandStep]_(Commands!linkVars)
  <1> SUFFICES ASSUME IInv, Listening, [Next]_vars, [RealStep]_vars
               PROVE  CommandStep \/ UNCHANGED <<asking, answer, disturbed>>
    BY DEF Commands!linkVars
  <1>1. CASE UNCHANGED vars
    BY <1>1 DEF vars, asking
  <1>2. RealStep
    BY DEF RealStep, vars
  <1>3. ASSUME NEW t \in Threads, Answered(t) PROVE CommandStep
    <2>1. PICK a \in Replies : SendCommand(t, a, Reply(a))
      BY <1>3 DEF Answered, Reply
    <2>2. a # Silence
      BY BoundFacts, ReplyFacts
    <2>3. disturbed' = ~ Quiet
      BY <1>3 DEF Answered
    <2>4. disturbed' \in BOOLEAN
      BY <2>3, Zenon
    <2>5. asking # {} => disturbed' = TRUE
      BY <2>3, Zenon DEF Quiet
    <2>6. Commands!Command(t, a)
      BY <2>1, <2>2, <2>4, <2>5, SendMaps
    <2> QED
      BY <2>6 DEF CommandStep
  <1>4. ASSUME NEW t \in Threads, Fault(t) PROVE CommandStep
    <2>1. PICK a \in Replies \cup {Silence} : \E bytes : SendCommand(t, a, bytes)
      BY <1>4 DEF Fault
    <2>2. disturbed' = TRUE
      BY <1>4 DEF Fault
    <2>3. Commands!Command(t, a)
      BY <2>1, <2>2, SendMaps
    <2> QED
      BY <2>3 DEF CommandStep
  <1>5. <<FINGERPRINT_TIMEOUT>> # Silence
    <2>1. <<FINGERPRINT_TIMEOUT>> \in Seq(Byte)
      BY DEF FINGERPRINT_TIMEOUT, Byte
    <2> QED
      BY <2>1, BoundFacts
  <1>6. ASSUME NEW t \in Threads, ReadHeader(t)
        PROVE  CommandStep \/ UNCHANGED <<asking, answer, disturbed>>
    <2>1. place[t] = "header" /\ t \in asking /\ disturbed' = disturbed
      BY <1>6 DEF ReadHeader, asking
    <2>2. CASE Fits(Length(Received(MIN_SIZE_PACKET)))
      <3>1. place' = [place EXCEPT ![t] = "body"] /\ answer' = answer
        BY <1>6, <2>2 DEF ReadHeader
      <3> QED
        BY <2>1, <3>1 DEF asking, IInv, TypeOK
    <2>3. CASE ~ Fits(Length(Received(MIN_SIZE_PACKET)))
      <3>1. Return(t, <<FINGERPRINT_TIMEOUT>>)
        BY <1>6, <2>3 DEF ReadHeader
      <3>2. disturbed' = TRUE
        BY <2>1, <2>3, BytesOfReply DEF IInv, Tuned, TypeOK
      <3>3. Commands!Return(t, heard'[t])
        BY <1>2, <1>5, <2>1, <3>1, <3>2, ReturnMaps
      <3> QED
        BY <3>3 DEF CommandStep
    <2> QED
      BY <2>2, <2>3
  <1>7. ASSUME NEW t \in Threads, ReadBody(t) PROVE CommandStep
    <2>1. t \in asking /\ disturbed' = disturbed /\ disturbed \in BOOLEAN
      BY <1>7 DEF ReadBody, asking, IInv, TypeOK
    <2>2. CASE ~ disturbed
      <3>1. Return(t, answer[t])
        BY <1>7, <2>2, OwnBody
      <3>2. asking' = asking \ {t}
        <4>1. place' = [place EXCEPT ![t] = "idle"]
          BY <3>1 DEF Return
        <4> QED
          BY <4>1 DEF asking, IInv, TypeOK
      <3>3. heard'[t] = answer[t]
        BY <3>1 DEF Return, IInv, HeardOf
      <3>4. Commands!Return(t, heard'[t])
        BY <2>1, <2>2, <3>1, <3>2, <3>3 DEF Commands!Return, Return
      <3> QED
        BY <3>4 DEF CommandStep
    <2>3. CASE disturbed
      <3>1. Return(t, Accepted(header[t], Received(Wanted(t))))
        BY <1>7 DEF ReadBody
      <3>2. Commands!Return(t, heard'[t])
        BY <1>2, <1>7, <2>1, <2>3, <3>1, NoSilence, ReturnMaps
      <3> QED
        BY <3>2 DEF CommandStep
    <2> QED
      BY <2>1, <2>2, <2>3
  <1>8. ASSUME NEW t \in Threads, NEW n, ReadShort(t, n) PROVE CommandStep
    <2>1. t \in asking /\ disturbed' = TRUE
      BY <1>8 DEF ReadShort
    <2>2. CASE tries[t] + 1 = MaxRetries
      <3>1. Return(t, <<FINGERPRINT_TIMEOUT>>)
        BY <1>8, <2>2 DEF ReadShort
      <3>2. Commands!Return(t, heard'[t])
        BY <1>2, <1>5, <2>1, <3>1, ReturnMaps
      <3> QED
        BY <3>2 DEF CommandStep
    <2>3. CASE tries[t] + 1 # MaxRetries
      <3>1. place' = place /\ answer' = answer
        BY <1>8, <2>3 DEF ReadShort
      <3>2. Commands!Disturb
        BY <2>1, <3>1 DEF Commands!Disturb, asking
      <3> QED
        BY <3>2 DEF CommandStep
    <2> QED
      BY <2>2, <2>3
  <1>9. ASSUME NEW t \in Threads, FallShort(t) PROVE CommandStep
    BY <1>8, <1>9 DEF FallShort
  <1> QED
    BY <1>1, <1>3, <1>4, <1>6, <1>7, <1>9 DEF Next

LEMMA InitMaps == Init => Commands!LinkInit
  BY DEF Init, Commands!LinkInit, asking

\* The line carries out what CommandLink promises of commands, for any number of
\* threads, as long as no error of the sum makes up a reply.
THEOREM ImplementsLink == Spec /\ RepliesAreReal => CommandSpec
  <1>1. RepliesAreReal => [][RealStep]_vars
    BY PTL DEF RepliesAreReal, RealStep
  <1> QED
    BY <1>1, TypeInit, TunedInit, ListeningInit, InitMaps, Invariance, ListeningNext, StepMaps, PTL
    DEF Spec, IInv, CommandSpec


-----------------------------------------------------------------------------
(* What the sum notices *)

\* The sum over a sequence, one byte after the other.
Adds(f, s) ==
    /\ f[0] = 0 /\ f[Len(s)] = Total(s)
    /\ \A k \in 1 .. Len(s) : f[k] = f[k - 1] + s[k]

LEMMA TotalAdds ==
    ASSUME NEW s \in Seq(Byte)
    PROVE  \E f : Adds(f, s)
  <1> DEFINE sum == CHOOSE f : f = [i \in 0 .. Len(s) |-> IF i = 0 THEN 0 ELSE f[i - 1] + s[i]]
  <1>1. Len(s) \in Nat
    BY LenProperties
  <1>2. sum = [i \in 0 .. Len(s) |-> IF i = 0 THEN 0 ELSE sum[i - 1] + s[i]]
    <2>1. \E f : f = [i \in 0 .. Len(s) |-> IF i = 0 THEN 0 ELSE f[i - 1] + s[i]]
      BY <1>1, SumsExist DEF Sums
    <2> QED
      BY <2>1
  <1>3. Total(s) = sum[Len(s)]
    BY DEF Total
  <1> HIDE DEF sum
  <1>4. sum[0] = 0
    BY <1>1, <1>2
  <1>5. ASSUME NEW k \in 1 .. Len(s) PROVE sum[k] = sum[k - 1] + s[k]
    <2>1. k \in 0 .. Len(s) /\ k # 0
      BY <1>1
    <2> QED
      BY <1>2, <2>1
  <1> QED
    BY <1>3, <1>4, <1>5 DEF Adds

\* Two sequences that differ in byte i alone differ in their sums by as much.
Apart(s, t, i) ==
    /\ Len(t) = Len(s)
    /\ \A k \in 1 .. Len(s) : k # i => t[k] = s[k]

LEMMA TotalApart ==
    ASSUME NEW s \in Seq(Byte), NEW t \in Seq(Byte), NEW i \in 1 .. Len(s), Apart(s, t, i)
    PROVE  Total(t) = Total(s) - s[i] + t[i]
  <1>1. Len(s) \in Nat /\ Len(t) = Len(s)
    BY LenProperties DEF Apart
  <1>2. PICK f : Adds(f, s)
    BY TotalAdds
  <1>3. PICK g : Adds(g, t)
    BY TotalAdds
  <1>4. \A k \in 1 .. Len(s) : s[k] \in Nat /\ t[k] \in Nat
    <2> TAKE k \in 1 .. Len(s)
    <2>1. s[k] \in Byte /\ t[k] \in Byte
      BY <1>1, ElementOfSeq
    <2>2. \A b \in Byte : b \in Nat
      BY DEF Byte
    <2> QED
      BY <2>1, <2>2
  <1> DEFINE Right(n) == /\ f[n] \in Nat
                         /\ g[n] = IF n < i THEN f[n] ELSE f[n] - s[i] + t[i]
             T == {n \in Nat : n <= Len(s) => Right(n)}
  <1>5. 0 \in T
    BY <1>2, <1>3 DEF Adds
  <1>6. ASSUME NEW n \in Nat, n \in T PROVE n + 1 \in T
    <2> SUFFICES ASSUME n + 1 <= Len(s) PROVE Right(n + 1)
      OBVIOUS
    <2>1. n + 1 \in 1 .. Len(s) /\ (n + 1) - 1 = n
      BY <1>1
    <2>2. f[n] \in Nat /\ g[n] = IF n < i THEN f[n] ELSE f[n] - s[i] + t[i]
      BY <1>1, <1>6
    <2>3. f[n + 1] = f[n] + s[n + 1] /\ g[n + 1] = g[n] + t[n + 1]
      BY <1>1, <1>2, <1>3, <2>1 DEF Adds
    <2>4. s[n + 1] \in Nat /\ t[n + 1] \in Nat /\ s[i] \in Nat /\ t[i] \in Nat
      BY <1>4, <2>1
    <2>5. CASE n + 1 = i
      BY <2>2, <2>3, <2>4, <2>5
    <2>6. CASE n + 1 # i
      <3>1. t[n + 1] = s[n + 1]
        BY <2>1, <2>6 DEF Apart
      <3>2. (n + 1 < i) = (n < i)
        BY <2>6
      <3> QED
        BY <2>2, <2>3, <2>4, <3>1, <3>2, SMTT(30)
    <2> QED
      BY <2>5, <2>6
  <1> HIDE DEF T
  <1>7. Len(s) \in T
    BY <1>1, <1>5, <1>6, Induct
  <1>8. Right(Len(s))
    BY <1>1, <1>7 DEF T
  <1> QED
    BY <1>1, <1>2, <1>3, <1>8 DEF Adds

\* What GetFromUart makes of a packet whose header is in order.
LEMMA AcceptedBySum ==
    ASSUME NEW a \in Replies, NEW h, NEW b,
           SubSeq(h, 1, 2) = StartCode, h[7] = FINGERPRINT_ACKPACKET, Length(h) = Len(a) + 2
    PROVE  Accepted(h, b) =
               IF Len(a) + 2 + FINGERPRINT_ACKPACKET + Total(SubSeq(b, 1, Len(a)))
                      = Word(b[Len(a) + 1], b[Len(a) + 2])
               THEN SubSeq(b, 1, Len(a)) ELSE <<FINGERPRINT_BADPACKET>>
  <1>1. Len(a) \in Nat
    BY ReplyFacts
  <1>2. (Len(a) + 2) - 2 = Len(a) /\ (Len(a) + 2) - 1 = Len(a) + 1
    BY <1>1
  <1>3. Accepted(h, b) = IF ChecksumRight(Len(a) + 2, FINGERPRINT_ACKPACKET, b)
                         THEN SubSeq(b, 1, Len(a)) ELSE <<FINGERPRINT_BADPACKET>>
    BY <1>2 DEF Accepted
  <1> QED
    BY <1>2, <1>3 DEF ChecksumRight


LEMMA Window ==
    ASSUME NEW s \in Seq(Byte), NEW m \in Nat \ {0}, NEW n \in Nat, m <= n, n <= Len(s)
    PROVE  /\ SubSeq(s, m, n) \in Seq(Byte) /\ Len(SubSeq(s, m, n)) = n - m + 1
           /\ \A k \in 1 .. n - m + 1 : SubSeq(s, m, n)[k] = s[m + k - 1]
  <1>1. \A k \in m .. n : s[k] \in Byte
    <2> TAKE k \in m .. n
    <2>1. Len(s) \in Nat
      BY LenProperties
    <2>2. k \in 1 .. Len(s)
      BY <2>1
    <2> QED
      BY <2>2, ElementOfSeq
  <1>2. m \in Int /\ n \in Int
    OBVIOUS
  <1>3. SubSeq(s, m, n) \in Seq(Byte)
    BY <1>1, <1>2, SubSeqProperties, Zenon
  <1>4. Len(SubSeq(s, m, n)) = n - m + 1
    BY <1>1, <1>2, SubSeqProperties
  <1>5. \A k \in 1 .. n - m + 1 : SubSeq(s, m, n)[k] = s[m + k - 1]
    BY <1>1, <1>2, SubSeqProperties
  <1> QED
    BY <1>3, <1>4, <1>5

\* The reply a with byte i replaced, as Fault sends it, and its header and body.
Spoilt(a, i, x) == [SendToUart(FINGERPRINT_ACKPACKET, a) EXCEPT ![i] = x]

SpoiltHead(a, i, x) == SubSeq(Spoilt(a, i, x), 1, MIN_SIZE_PACKET)
SpoiltBody(a, i, x) == SubSeq(Spoilt(a, i, x), MIN_SIZE_PACKET + 1, Len(Spoilt(a, i, x)))

\* Where they differ from those of the reply.
InHead(h, a, i, x) == \A k \in 1 .. 9 : h[k] = IF k = i THEN x ELSE Head9(a)[k]
InBody(b, a, i, x) == \A k \in 1 .. Len(a) + 2 : b[k] = IF k + 9 = i THEN x ELSE Body(a)[k]

LEMMA SpoiltParts ==
    ASSUME NEW a \in Replies, NEW x \in Byte, NEW i \in 1 .. Len(Reply(a))
    PROVE  /\ SpoiltHead(a, i, x) \in Seq(Byte) /\ Len(SpoiltHead(a, i, x)) = 9
           /\ SpoiltBody(a, i, x) \in Seq(Byte) /\ Len(SpoiltBody(a, i, x)) = Len(a) + 2
           /\ InHead(SpoiltHead(a, i, x), a, i, x)
           /\ InBody(SpoiltBody(a, i, x), a, i, x)
  <1> DEFINE s == Reply(a)
             d == Spoilt(a, i, x)
             n == Len(a)
  <1>1. n \in Nat /\ n >= 1
    BY ReplyFacts
  <1>2. /\ s \in Seq(Byte) /\ Len(s) = n + 11
        /\ SubSeq(s, 1, 9) = Head9(a) /\ SubSeq(s, 10, n + 11) = Body(a)
    BY ReplyParts
  <1>3. /\ d \in Seq(Byte) /\ Len(d) = n + 11
        /\ \A k \in 1 .. n + 11 : d[k] = IF k = i THEN x ELSE s[k]
    <2>1. d = [s EXCEPT ![i] = x]
      BY DEF Spoilt, Reply
    <2> QED
      BY <1>2, <2>1, ExceptSeq
  <1>4. SpoiltHead(a, i, x) = SubSeq(d, 1, 9) /\ SpoiltBody(a, i, x) = SubSeq(d, 10, n + 11)
    BY <1>3 DEF SpoiltHead, SpoiltBody, MIN_SIZE_PACKET
  <1> HIDE DEF s, d, n
  <1>5. /\ SubSeq(d, 1, 9) \in Seq(Byte) /\ Len(SubSeq(d, 1, 9)) = 9
        /\ \A k \in 1 .. 9 : SubSeq(d, 1, 9)[k] = d[k] /\ SubSeq(s, 1, 9)[k] = s[k]
    <2>1. 1 \in Nat \ {0} /\ 9 \in Nat /\ 1 <= 9 /\ 9 <= n + 11 /\ 9 - 1 + 1 = 9
      BY <1>1
    <2>2. \A k \in 1 .. 9 : 1 + k - 1 = k
      OBVIOUS
    <2> QED
      BY <1>2, <1>3, <2>1, <2>2, Window, SMTT(30)
  <1>6. /\ SubSeq(d, 10, n + 11) \in Seq(Byte) /\ Len(SubSeq(d, 10, n + 11)) = n + 2
        /\ \A k \in 1 .. n + 2 :
              SubSeq(d, 10, n + 11)[k] = d[k + 9] /\ SubSeq(s, 10, n + 11)[k] = s[k + 9]
    <2>1. /\ 10 \in Nat \ {0} /\ n + 11 \in Nat /\ 10 <= n + 11 /\ n + 11 <= n + 11
          /\ (n + 11) - 10 + 1 = n + 2
      BY <1>1
    <2>2. \A k \in 1 .. n + 2 : 10 + k - 1 = k + 9
      BY <1>1
    <2> QED
      BY <1>2, <1>3, <2>1, <2>2, Window, SMTT(30)
  <1>7. ASSUME NEW k \in 1 .. 9
        PROVE  SpoiltHead(a, i, x)[k] = IF k = i THEN x ELSE Head9(a)[k]
    <2>1. k \in 1 .. n + 11
      BY <1>1
    <2> QED
      BY <1>2, <1>3, <1>4, <1>5, <2>1
  <1>8. ASSUME NEW k \in 1 .. n + 2
        PROVE  SpoiltBody(a, i, x)[k] = IF k + 9 = i THEN x ELSE Body(a)[k]
    <2>1. k + 9 \in 1 .. n + 11
      BY <1>1
    <2> QED
      BY <1>2, <1>3, <1>4, <1>6, <2>1
  <1> QED
    BY <1>4, <1>5, <1>6, <1>7, <1>8 DEF n, InHead, InBody


\* The first two bytes of a header are those of the start code, if they look so.
LEMMA SpoiltStart ==
    ASSUME NEW a \in Replies, NEW x \in Byte, NEW i \in 1 .. Len(Reply(a))
    PROVE  IF i \in {1, 2} /\ x # Head9(a)[i]
           THEN SubSeq(SpoiltHead(a, i, x), 1, 2) # StartCode
           ELSE SubSeq(SpoiltHead(a, i, x), 1, 2) = StartCode
  <1> DEFINE h == SpoiltHead(a, i, x)
  <1>1. /\ h \in Seq(Byte) /\ Len(h) = 9
        /\ \A k \in 1 .. 9 : h[k] = IF k = i THEN x ELSE Head9(a)[k]
    <2>1. h \in Seq(Byte) /\ Len(h) = 9 /\ InHead(h, a, i, x)
      BY SpoiltParts
    <2> QED
      BY <2>1 DEF InHead
  <1>2. Head9(a) \in Seq(Byte) /\ Len(Head9(a)) = 9 /\ SubSeq(Head9(a), 1, 2) = StartCode
    BY HeadParts
  <1> HIDE DEF h
  <1>3. /\ SubSeq(h, 1, 2) \in Seq(Byte) /\ Len(SubSeq(h, 1, 2)) = 2
        /\ StartCode \in Seq(Byte) /\ Len(StartCode) = 2
        /\ \A k \in 1 .. 2 : SubSeq(h, 1, 2)[k] = h[k] /\ StartCode[k] = Head9(a)[k]
    <2>1. 1 \in Nat \ {0} /\ 2 \in Nat /\ 1 <= 2 /\ 2 <= 9 /\ 2 - 1 + 1 = 2
      OBVIOUS
    <2>2. \A k \in 1 .. 2 : 1 + k - 1 = k
      OBVIOUS
    <2>3. /\ SubSeq(h, 1, 2) \in Seq(Byte) /\ Len(SubSeq(h, 1, 2)) = 2
          /\ \A k \in 1 .. 2 : SubSeq(h, 1, 2)[k] = h[k]
      BY <1>1, <2>1, <2>2, Window, SMTT(30)
    <2>4. /\ StartCode \in Seq(Byte) /\ Len(StartCode) = 2
          /\ \A k \in 1 .. 2 : StartCode[k] = Head9(a)[k]
      <3>1. /\ SubSeq(Head9(a), 1, 2) \in Seq(Byte) /\ Len(SubSeq(Head9(a), 1, 2)) = 2
            /\ \A k \in 1 .. 2 : SubSeq(Head9(a), 1, 2)[k] = Head9(a)[k]
        BY <1>2, <2>1, <2>2, Window
      <3> QED
        BY <1>2, <3>1
    <2> QED
      BY <2>3, <2>4
  <1>4. CASE i \in {1, 2} /\ x # Head9(a)[i]
    <2>1. i \in 1 .. 2 /\ i \in 1 .. 9
      BY <1>4
    <2>2. SubSeq(h, 1, 2)[i] # StartCode[i]
      BY <1>1, <1>3, <1>4, <2>1
    <2> QED
      BY <1>4, <2>2 DEF h
  <1>5. CASE ~ (i \in {1, 2} /\ x # Head9(a)[i])
    <2>1. ASSUME NEW k \in 1 .. 2 PROVE SubSeq(h, 1, 2)[k] = StartCode[k]
      <3>1. k \in 1 .. 9 /\ k \in {1, 2}
        OBVIOUS
      <3> QED
        BY <1>1, <1>3, <1>5, <3>1
    <2>2. SubSeq(h, 1, 2) = StartCode
      BY <1>3, <2>1, SeqEqual
    <2> QED
      BY <1>5, <2>2 DEF h
  <1> QED
    BY <1>4, <1>5

\* A byte of the data, or of the sum, makes the sum wrong.
LEMMA SpoiltSum ==
    ASSUME NEW a \in Replies, NEW x \in Byte, NEW i \in 10 .. Len(a) + 11, x # Body(a)[i - 9]
    PROVE  LET b == SpoiltBody(a, i, x)
           IN  Len(a) + 2 + FINGERPRINT_ACKPACKET + Total(SubSeq(b, 1, Len(a)))
                   # Word(b[Len(a) + 1], b[Len(a) + 2])
  <1> DEFINE b == SpoiltBody(a, i, x)
             n == Len(a)
             e == SubSeq(b, 1, n)
  <1>1. /\ n \in Nat /\ n >= 1 /\ a \in Seq(Byte) /\ Total(a) \in Nat
    BY ReplyFacts
  <1>2. /\ b \in Seq(Byte) /\ Len(b) = n + 2
        /\ \A k \in 1 .. n + 2 : b[k] = IF k + 9 = i THEN x ELSE Body(a)[k]
    <2>1. i \in 1 .. Len(Reply(a))
      BY <1>1, ReplyParts
    <2>2. b \in Seq(Byte) /\ Len(b) = n + 2 /\ InBody(b, a, i, x)
      BY <2>1, SpoiltParts
    <2> QED
      BY <2>2 DEF InBody
  <1>3. /\ Body(a) \in Seq(Byte) /\ Len(Body(a)) = n + 2 /\ SubSeq(Body(a), 1, n) = a
        /\ Word(Body(a)[n + 1], Body(a)[n + 2]) = n + 2 + FINGERPRINT_ACKPACKET + Total(a)
    BY BodyParts, SumParts
  <1> HIDE DEF b, n
  <1>4. /\ e \in Seq(Byte) /\ Len(e) = n
        /\ \A k \in 1 .. n : e[k] = b[k] /\ a[k] = Body(a)[k]
    <2>1. 1 \in Nat \ {0} /\ 1 <= n /\ n <= n + 2 /\ n - 1 + 1 = n
      BY <1>1
    <2>2. \A k \in 1 .. n : 1 + k - 1 = k
      BY <1>1
    <2> QED
      BY <1>1, <1>2, <1>3, <2>1, <2>2, Window
  <1> HIDE DEF e
  <1>5. \A y \in Byte : y \in Nat /\ y <= 255
    BY DEF Byte
  <1>6. /\ b[n + 1] \in Byte /\ b[n + 2] \in Byte
        /\ Body(a)[n + 1] \in Byte /\ Body(a)[n + 2] \in Byte
    <2>1. n + 1 \in 1 .. n + 2 /\ n + 2 \in 1 .. n + 2
      BY <1>1
    <2> QED
      BY <1>2, <1>3, <2>1, ElementOfSeq
  <1>7. CASE i - 9 <= n
    <2>1. i - 9 \in 1 .. n /\ i \in Int /\ (i - 9) + 9 = i
      BY <1>1, <1>7 DEF n
    <2>2. Apart(a, e, i - 9)
      <3>1. ASSUME NEW k \in 1 .. n, k # i - 9 PROVE e[k] = a[k]
        <4>1. k \in 1 .. n + 2 /\ k + 9 # i
          BY <1>1, <2>1, <3>1
        <4> QED
          BY <1>2, <1>4, <4>1
      <3> QED
        BY <1>4, <3>1 DEF Apart, n
    <2>3. Total(e) = Total(a) - a[i - 9] + e[i - 9]
      BY <1>1, <1>4, <2>1, <2>2, TotalApart DEF n
    <2>4. e[i - 9] = x /\ a[i - 9] = Body(a)[i - 9] /\ a[i - 9] \in Byte
      <3>1. i - 9 \in 1 .. n + 2
        BY <1>1, <2>1
      <3>2. a[i - 9] \in Byte
        BY <1>1, <2>1, ElementOfSeq DEF n
      <3> QED
        BY <1>2, <1>4, <2>1, <3>1, <3>2
    <2>5. Total(e) # Total(a)
      BY <1>1, <1>5, <2>3, <2>4
    <2>6. b[n + 1] = Body(a)[n + 1] /\ b[n + 2] = Body(a)[n + 2]
      <3>1. n + 1 \in 1 .. n + 2 /\ n + 2 \in 1 .. n + 2 /\ (n + 1) + 9 # i /\ (n + 2) + 9 # i
        BY <1>1, <1>7, <2>1
      <3> QED
        BY <1>2, <3>1
    <2>7. Total(e) \in Nat
      BY <1>4, TotalFacts
    <2>8. n + 2 + FINGERPRINT_ACKPACKET + Total(e) # n + 2 + FINGERPRINT_ACKPACKET + Total(a)
      BY <1>1, <2>5, <2>7 DEF FINGERPRINT_ACKPACKET
    <2> QED
      BY <1>3, <2>6, <2>8 DEF b, n, e
  <1>8. CASE i - 9 > n
    <2>1. i \in Int /\ (i = n + 10 \/ i = n + 11)
      BY <1>1, <1>8 DEF n
    <2>2. e = a
      <3>1. ASSUME NEW k \in 1 .. n PROVE e[k] = a[k]
        <4>1. k \in 1 .. n + 2 /\ k + 9 # i
          BY <1>1, <2>1
        <4> QED
          BY <1>2, <1>4, <4>1
      <3> QED
        BY <1>1, <1>4, <3>1, SeqEqual DEF n
    <2>3. /\ n + 1 \in 1 .. n + 2 /\ n + 2 \in 1 .. n + 2
          /\ (n + 1) + 9 = n + 10 /\ (n + 2) + 9 = n + 11
      BY <1>1
    <2>4. Word(b[n + 1], b[n + 2]) # Word(Body(a)[n + 1], Body(a)[n + 2])
      <3>1. CASE i = n + 10
        <4>1. b[n + 1] = x /\ b[n + 2] = Body(a)[n + 2] /\ x # Body(a)[n + 1]
          <5>1. n + 11 # i /\ i - 9 = n + 1
            BY <1>1, <3>1
          <5> QED
            BY <1>2, <2>3, <3>1, <5>1
        <4> QED
          BY <1>5, <1>6, <4>1 DEF Word
      <3>2. CASE i = n + 11
        <4>1. b[n + 1] = Body(a)[n + 1] /\ b[n + 2] = x /\ x # Body(a)[n + 2]
          <5>1. n + 10 # i /\ i - 9 = n + 2
            BY <1>1, <3>2
          <5> QED
            BY <1>2, <2>3, <3>2, <5>1
        <4> QED
          BY <1>5, <1>6, <4>1 DEF Word
      <3> QED
        BY <2>1, <3>1, <3>2
    <2> QED
      BY <1>3, <2>2, <2>4 DEF b, n, e
  <1> QED
    BY <1>1, <1>7, <1>8


\* A reply with one byte replaced is never taken for another answer, if the byte is not
\* one of the two that announce the length: the start code, the type and the sum notice
\* it, or it is in the address, which GetFromUart does not read (packet.c:353, 360, 383).
THEOREM SpoiltByteNoticed ==
    ASSUME NEW a \in Replies, NEW x \in Byte,
           NEW i \in 1 .. Len(SendToUart(FINGERPRINT_ACKPACKET, a)), i \notin {8, 9}
    PROVE  Accepted(SpoiltHead(a, i, x), SpoiltBody(a, i, x)) \in {a} \cup Errors
  <1> DEFINE h == SpoiltHead(a, i, x)
             b == SpoiltBody(a, i, x)
  <1>1. Len(a) \in Nat /\ i \in 1 .. Len(Reply(a)) /\ i \in 1 .. Len(a) + 11
    BY ReplyFacts, ReplyParts DEF Reply
  <1>2. /\ h \in Seq(Byte) /\ Len(h) = 9
        /\ b \in Seq(Byte) /\ Len(b) = Len(a) + 2
        /\ \A k \in 1 .. 9 : h[k] = IF k = i THEN x ELSE Head9(a)[k]
        /\ \A k \in 1 .. Len(a) + 2 : b[k] = IF k + 9 = i THEN x ELSE Body(a)[k]
    <2>1. h \in Seq(Byte) /\ Len(h) = 9 /\ InHead(h, a, i, x)
      BY <1>1, SpoiltParts
    <2>2. b \in Seq(Byte) /\ Len(b) = Len(a) + 2 /\ InBody(b, a, i, x)
      BY <1>1, SpoiltParts
    <2> QED
      BY <2>1, <2>2 DEF InHead, InBody
  <1>3. /\ Head9(a) \in Seq(Byte) /\ Len(Head9(a)) = 9
        /\ Head9(a)[7] = FINGERPRINT_ACKPACKET /\ Length(Head9(a)) = Len(a) + 2
        /\ Body(a) \in Seq(Byte) /\ Len(Body(a)) = Len(a) + 2
    BY HeadParts, BodyParts
  <1>4. IF i \in {1, 2} /\ x # Head9(a)[i]
        THEN SubSeq(h, 1, 2) # StartCode ELSE SubSeq(h, 1, 2) = StartCode
    BY <1>1, SpoiltStart
  <1> HIDE DEF h, b
  <1>5. Length(h) = Len(a) + 2
    <2>1. h[8] = Head9(a)[8] /\ h[9] = Head9(a)[9]
      BY <1>2
    <2> QED
      BY <1>3, <2>1 DEF Length
  <1>6. CASE i \in {1, 2} /\ x # Head9(a)[i]
    BY <1>4, <1>6 DEF Accepted, Errors, h, b
  <1>7. CASE i = 7 /\ x # FINGERPRINT_ACKPACKET
    <2>1. h[7] # FINGERPRINT_ACKPACKET /\ SubSeq(h, 1, 2) = StartCode
      BY <1>2, <1>4, <1>7
    <2> QED
      BY <2>1 DEF Accepted, Errors, h, b
  <1>8. CASE ~ (i \in {1, 2} /\ x # Head9(a)[i]) /\ ~ (i = 7 /\ x # FINGERPRINT_ACKPACKET)
    <2>1. SubSeq(h, 1, 2) = StartCode /\ h[7] = FINGERPRINT_ACKPACKET
      BY <1>2, <1>3, <1>4, <1>8
    <2>2. CASE i >= 10 /\ x # Body(a)[i - 9]
      <3>1. i \in 10 .. Len(a) + 11
        BY <1>1, <2>2
      <3>2. Accepted(h, b) = <<FINGERPRINT_BADPACKET>>
        BY <1>5, <2>1, <2>2, <3>1, AcceptedBySum, SpoiltSum DEF b
      <3> QED
        BY <3>2 DEF Errors, h, b
    <2>3. CASE ~ (i >= 10 /\ x # Body(a)[i - 9])
      <3>1. b = Body(a)
        <4>1. ASSUME NEW k \in 1 .. Len(a) + 2 PROVE b[k] = Body(a)[k]
          <5>1. CASE k + 9 = i
            <6>1. i >= 10 /\ i - 9 = k
              BY <1>1, <5>1
            <6> QED
              BY <1>2, <2>3, <5>1, <6>1
          <5>2. CASE k + 9 # i
            BY <1>2, <5>2
          <5> QED
            BY <5>1, <5>2
        <4> QED
          BY <1>2, <1>3, <4>1, SeqEqual
      <3>2. Accepted(h, b) = Accepted(Head9(a), Body(a))
        <4>1. SubSeq(Head9(a), 1, 2) = StartCode
          BY HeadParts
        <4>2. Accepted(h, Body(a)) =
                  IF Len(a) + 2 + FINGERPRINT_ACKPACKET + Total(SubSeq(Body(a), 1, Len(a)))
                         = Word(Body(a)[Len(a) + 1], Body(a)[Len(a) + 2])
                  THEN SubSeq(Body(a), 1, Len(a)) ELSE <<FINGERPRINT_BADPACKET>>
          BY <1>5, <2>1, AcceptedBySum
        <4>3. Accepted(Head9(a), Body(a)) =
                  IF Len(a) + 2 + FINGERPRINT_ACKPACKET + Total(SubSeq(Body(a), 1, Len(a)))
                         = Word(Body(a)[Len(a) + 1], Body(a)[Len(a) + 2])
                  THEN SubSeq(Body(a), 1, Len(a)) ELSE <<FINGERPRINT_BADPACKET>>
          BY <1>3, <4>1, AcceptedBySum
        <4> QED
          BY <3>1, <4>2, <4>3
      <3> QED
        BY <3>2, AcceptedReply DEF h, b
    <2> QED
      BY <2>2, <2>3
  <1> QED
    BY <1>6, <1>7, <1>8
=============================================================================
