-------------------------- MODULE PackCodecProofs --------------------------
(***************************************************************************)
(* No bit of a pack is lost on its way to the NetMsg and to the file, for  *)
(* any size of half byte.                                                  *)
(***************************************************************************)
EXTENDS PackCodec, Integers, TLAPS

\* A number is its high digit times the base n and its low digit.
LEMMA Division ==
  ASSUME NEW n \in Nat \ {0}, NEW a \in Nat
  PROVE  /\ a = (n * (a \div n)) + (a % n)
         /\ a \div n \in Nat
         /\ a % n \in 0 .. n - 1
  BY SMT

LEMMA Halves == \A b \in Byte : /\ Hi(b) \in 0 .. R - 1 /\ Lo(b) \in 0 .. R - 1
                                /\ b = Hi(b) * R + Lo(b)
<1> SUFFICES ASSUME NEW b \in Byte
             PROVE  /\ Hi(b) \in 0 .. R - 1 /\ Lo(b) \in 0 .. R - 1
                    /\ b = Hi(b) * R + Lo(b)
  OBVIOUS
<1>1. b \in Nat /\ b < R * R /\ R \in Nat \ {0}
  BY HalfByte DEF Byte, R2
<1>2. /\ b = (R * (b \div R)) + (b % R) /\ b \div R \in Nat
      /\ b % R \in 0 .. R - 1
  BY <1>1, Division
<1> DEFINE h == b \div R
           l == b % R
<1>3. h \in Nat /\ l \in Nat /\ b = R * h + l
  BY <1>2
<1> HIDE DEF h, l
<1>4. h < R
  <2>1. SUFFICES ASSUME h >= R PROVE FALSE
    BY <1>1, <1>3
  <2>2. R * h >= R * R
    BY <2>1, <1>1, <1>3
  <2> QED
    BY <2>2, <1>1, <1>3
<1>5. h * R = R * h
  BY <1>1, <1>3
<1> QED
  BY <1>1, <1>2, <1>3, <1>4, <1>5 DEF h, l, Hi, Lo

\* A high digit below m and a low one below n make a number below m * n.
LEMMA Digits ==
  ASSUME NEW m \in Nat \ {0}, NEW n \in Nat \ {0},
         NEW h \in 0 .. m - 1, NEW l \in 0 .. n - 1
  PROVE  h * n + l \in 0 .. (m * n) - 1
<1>1. h * n <= (m - 1) * n
  OBVIOUS
<1>2. (m - 1) * n = m * n - n
  OBVIOUS
<1>3. h * n \in Nat /\ m * n \in Nat
  OBVIOUS
<1> QED
  BY <1>1, <1>2, <1>3

LEMMA Fits == ASSUME NEW n \in Nat \ {0}, NEW x \in 0 .. n - 1 PROVE x % n = x
<1> DEFINE q == x \div n
<1> x \in Nat
  OBVIOUS
<1>1. x = (n * q) + (x % n) /\ q \in Nat /\ x % n \in 0 .. n - 1
  BY Division
<1> HIDE DEF q
<1>2. CASE q >= 1
  <2>1. n * q >= n
    BY <1>1, <1>2
  <2> QED
    BY <1>1, <2>1
<1>3. CASE q = 0
  BY <1>1, <1>3
<1> QED
  BY <1>1, <1>2, <1>3

LEMMA Radix == /\ R \in Nat \ {0} /\ R2 \in Nat \ {0} /\ R4 \in Nat \ {0}
               /\ R2 * R \in Nat \ {0} /\ R8 \in Nat /\ R * (R2 * R) = R4
               /\ R2 <= R4
<1>1. R \in Nat \ {0} /\ R2 \in Nat \ {0} /\ R2 >= 1
  BY HalfByte DEF R2
<1>2. R2 * R2 \in Nat \ {0} /\ R2 * R2 >= R2 /\ R2 * R \in Nat \ {0}
  BY <1>1
<1>3. R * (R2 * R) = R2 * R2
  BY <1>1 DEF R2
<1> QED
  BY <1>1, <1>2, <1>3 DEF R4, R8

\* The fields have the widths of the variables they are kept in.
LEMMA Widths ==
  \A r \in [1 .. 8 -> Byte] :
    /\ decode_pack(r).headM \in 0 .. R - 1
    /\ decode_pack(r).wireN \in 0 .. R2 - 1
    /\ decode_pack(r).hitN \in 0 .. R4 - 1
<1> SUFFICES ASSUME NEW r \in [1 .. 8 -> Byte]
             PROVE  /\ decode_pack(r).headM \in 0 .. R - 1
                    /\ decode_pack(r).wireN \in 0 .. R2 - 1
                    /\ decode_pack(r).hitN \in 0 .. R4 - 1
  OBVIOUS
<1>1. Len(r) = 8
  OBVIOUS
<1>2. /\ Hi(r[1]) \in 0 .. R - 1 /\ Lo(r[1]) \in 0 .. R - 1
      /\ Hi(r[2]) \in 0 .. R - 1 /\ Lo(r[2]) \in 0 .. R - 1
      /\ Hi(r[4]) \in 0 .. R - 1 /\ r[3] \in 0 .. R2 - 1
  BY Halves DEF Byte
<1>3. Lo(r[1]) * R + Hi(r[2]) \in 0 .. R2 - 1
  BY <1>2, Radix, Digits DEF R2
<1>4. r[3] * R + Hi(r[4]) \in 0 .. (R2 * R) - 1
  BY <1>2, Radix, Digits
<1>5. Lo(r[2]) * (R2 * R) + (r[3] * R + Hi(r[4])) \in 0 .. (R * (R2 * R)) - 1
  BY <1>2, <1>4, Radix, Digits
<1> DEFINE a == Lo(r[2]) * (R2 * R)
           b == r[3] * R
           c == Hi(r[4])
<1>6. a \in Int /\ b \in Int /\ c \in Int
  BY <1>2, Radix
<1> HIDE DEF a, b, c
<1>7. a + b + c = a + (b + c)
  BY <1>6
<1>8. a + b + c \in 0 .. R4 - 1
  BY <1>5, <1>7, Radix DEF a, b, c
<1> QED
  BY <1>1, <1>2, <1>3, <1>8 DEF decode_pack, a, b, c

\* The fields, put together again, are the pack: each line of the proof joins
\* the two halves of one byte that a field boundary has cut.
LEMMA Lossless == \A r \in [1 .. 8 -> Byte] : Joined(decode_pack(r)) = Number(r)
<1> SUFFICES ASSUME NEW r \in [1 .. 8 -> Byte]
             PROVE  Joined(decode_pack(r)) = Number(r)
  OBVIOUS
<1> DEFINE h1 == Hi(r[1])
           l1 == Lo(r[1])
           h2 == Hi(r[2])
           l2 == Lo(r[2])
           h4 == Hi(r[4])
           l4 == Lo(r[4])
           wire == l1 * R + h2
           hit == l2 * (R2 * R) + r[3] * R + h4
           low == r[5] * (R4 * R2) + r[6] * R4 + r[7] * R2 + r[8]
           time == l4 * R8 + r[5] * (R4 * R2) + r[6] * R4 + r[7] * R2 + r[8]
           n2 == r[1] * R2 + r[2]
           n3 == n2 * R2 + r[3]
           n4 == n3 * R2 + r[4]
<1>1. /\ r[1] \in Nat /\ r[2] \in Nat /\ r[3] \in Nat /\ r[4] \in Nat
      /\ r[5] \in Nat /\ r[6] \in Nat /\ r[7] \in Nat /\ r[8] \in Nat
  BY DEF Byte
<1>2. /\ h1 \in Nat /\ l1 \in Nat /\ r[1] = h1 * R + l1
      /\ h2 \in Nat /\ l2 \in Nat /\ r[2] = h2 * R + l2
      /\ h4 \in Nat /\ l4 \in Nat /\ r[4] = h4 * R + l4
  BY Halves
<1>3. R \in Nat /\ R2 \in Nat /\ R4 \in Nat /\ R8 \in Nat
  BY Radix
<1>4. Joined(decode_pack(r)) = ((h1 * R2 + wire) * R4 + hit) * (R8 * R) + time
  BY DEF decode_pack, Joined
<1>5. Number(r) = ((((n4 * R2 + r[5]) * R2 + r[6]) * R2 + r[7]) * R2) + r[8]
  BY DEF Number
<1> HIDE DEF h1, l1, h2, l2, h4, l4
<1>6. h1 * R2 + wire = r[1] * R + h2
  BY <1>1, <1>2, <1>3 DEF R2
<1>7. (r[1] * R + h2) * R4 + hit = n3 * R + h4
  <2>1. (r[1] * R + h2) * R4 = r[1] * (R * R4) + h2 * R4
    BY <1>1, <1>2, <1>3
  <2>2. h2 * R4 + l2 * (R2 * R) = r[2] * (R2 * R)
    BY <1>1, <1>2, <1>3 DEF R4, R2
  <2>3. n3 * R = r[1] * (R * R4) + r[2] * (R2 * R) + r[3] * R
    BY <1>1, <1>3 DEF R4, R2
  <2> DEFINE a == r[1] * (R * R4)
             b == h2 * R4
             c == l2 * (R2 * R)
             e == r[2] * (R2 * R)
             f == r[3] * R
             g == n3 * R
             k == (r[1] * R + h2) * R4
  <2>4. /\ a \in Nat /\ b \in Nat /\ c \in Nat /\ e \in Nat /\ f \in Nat
        /\ g \in Nat /\ k \in Nat
    BY <1>1, <1>2, <1>3
  <2>5. k = a + b /\ b + c = e /\ g = a + e + f /\ hit = c + f + h4
    BY <2>1, <2>2, <2>3
  <2> HIDE DEF a, b, c, e, f, g, k, hit
  <2>6. k + hit = g + h4
    BY <2>4, <2>5, <1>2
  <2> QED
    BY <2>6 DEF k, g
<1> HIDE DEF wire, hit
<1>8. (n3 * R + h4) * (R8 * R) + l4 * R8 = n4 * R8
  <2> n3 \in Nat
    BY <1>1, <1>3
  <2> HIDE DEF n3
  <2>1. n4 = (n3 * R + h4) * R + l4
    BY <1>1, <1>2, <1>3 DEF R2
  <2>2. n3 * R + h4 \in Nat
    BY <1>2, <1>3
  <2> DEFINE m == n3 * R + h4
  <2> HIDE DEF m
  <2>3. m * (R8 * R) + l4 * R8 = (m * R + l4) * R8
    BY <2>2, <1>2, <1>3 DEF m
  <2> QED
    BY <2>1, <2>3 DEF m
<1>9. time = l4 * R8 + low /\ low \in Nat
  BY <1>1, <1>2, <1>3
<1>10. n4 \in Nat /\ n3 \in Nat
  BY <1>1, <1>3
<1> HIDE DEF n4, n3, time
<1>11. Joined(decode_pack(r)) = n4 * R8 + low
  <2>1. Joined(decode_pack(r)) = (n3 * R + h4) * (R8 * R) + time
    BY <1>4, <1>6, <1>7
  <2> DEFINE a == (n3 * R + h4) * (R8 * R)
             b == l4 * R8
             c == n4 * R8
  <2>2. a \in Nat /\ b \in Nat /\ c \in Nat
    BY <1>2, <1>3, <1>10
  <2>3. a + b = c
    BY <1>8
  <2> HIDE DEF a, b, c, low
  <2>4. a + (b + low) = c + low
    BY <2>2, <2>3, <1>9
  <2> QED
    BY <2>1, <2>4, <1>9 DEF a, b, c
<1>12. Number(r) = n4 * R8 + low
  BY <1>1, <1>3, <1>5, <1>10 DEF R8, R4
<1> QED
  BY <1>11, <1>12
----------------------------------------------------------------------------
\* A record of four fields is what its fields are, and none of them is cut by
\* a variable it is kept in.
LEMMA SameFields ==
  \A r \in Pack8 :
    LET d == decode_pack(r)
    IN /\ d = [headM |-> d.headM, wireN |-> d.wireN, hitN |-> d.hitN,
               timeV |-> d.timeV]
       /\ d.headM % R2 = d.headM /\ d.wireN % R2 = d.wireN
       /\ d.headM % R4 = d.headM /\ d.wireN % R4 = d.wireN
       /\ d.hitN % R4 = d.hitN
<1> SUFFICES ASSUME NEW r \in Pack8
             PROVE  LET d == decode_pack(r)
                    IN /\ d = [headM |-> d.headM, wireN |-> d.wireN,
                               hitN |-> d.hitN, timeV |-> d.timeV]
                       /\ d.headM % R2 = d.headM /\ d.wireN % R2 = d.wireN
                       /\ d.headM % R4 = d.headM /\ d.wireN % R4 = d.wireN
                       /\ d.hitN % R4 = d.hitN
  OBVIOUS
<1> DEFINE d == decode_pack(r)
<1>1. d = [headM |-> d.headM, wireN |-> d.wireN, hitN |-> d.hitN,
           timeV |-> d.timeV]
  <2>1. Len(r) = 8
    BY DEF Pack8
  <2> QED
    BY <2>1 DEF decode_pack
<1>2. d.headM \in 0 .. R - 1 /\ d.wireN \in 0 .. R2 - 1 /\ d.hitN \in 0 .. R4 - 1
  BY Widths DEF Pack8
<1> HIDE DEF d
<1>3. R <= R2
  BY HalfByte DEF R2
<1>4. /\ d.headM \in 0 .. R2 - 1 /\ d.headM \in 0 .. R4 - 1
      /\ d.wireN \in 0 .. R4 - 1
  BY <1>2, <1>3, Radix
<1> QED
  BY <1>1, <1>2, <1>4, Radix, Fits DEF d

\* The message and the ring hold the decoded fields.
LEMMA Carried ==
  \A r \in Pack8 : Sent(r) = decode_pack(r) /\ Stored(Sent(r)) = decode_pack(r)
<1> SUFFICES ASSUME NEW r \in Pack8
             PROVE  Sent(r) = decode_pack(r) /\ Stored(Sent(r)) = decode_pack(r)
  OBVIOUS
<1> DEFINE d == decode_pack(r)
<1>1. /\ d = [headM |-> d.headM, wireN |-> d.wireN, hitN |-> d.hitN,
              timeV |-> d.timeV]
      /\ d.headM % R2 = d.headM /\ d.wireN % R2 = d.wireN
      /\ d.headM % R4 = d.headM /\ d.wireN % R4 = d.wireN
      /\ d.hitN % R4 = d.hitN
  BY SameFields
<1>2. Sent(r) = [d EXCEPT !.headM = @ % R2, !.wireN = @ % R2, !.hitN = @ % R4]
  BY DEF Sent
<1> HIDE DEF d
<1>3. Sent(r) = d
  BY <1>1, <1>2
<1>4. Stored(d) = d
  BY <1>1 DEF Stored
<1> QED
  BY <1>3, <1>4 DEF d

\* The four fields of the message are the 64 bits of the pack.
THEOREM MessageLossless == MsgIsPack
  BY Carried, Lossless DEF MsgIsPack, Pack8

\* The line of either file lacks only the head of the pack.
THEOREM LineLossless == LineIsPack
<1> SUFFICES ASSUME NEW r \in Pack8
             PROVE  /\ WithHead(r, Saved(Stored(Sent(r)))) = Number(r)
                    /\ WithHead(r, Dumped(r)) = Number(r)
  BY DEF LineIsPack
<1> DEFINE d == decode_pack(r)
<1>1. /\ d.wireN % R2 = d.wireN /\ d.wireN % R4 = d.wireN
      /\ d.hitN % R4 = d.hitN
  BY SameFields
<1>2. Dumped(r) = <<(d.wireN % R2) % R2, (d.hitN % R4) % R4, d.timeV>>
  BY DEF Dumped
<1>3. d.headM = Hi(r[1])
  <2>1. Len(r) = 8
    BY DEF Pack8
  <2> QED
    BY <2>1 DEF decode_pack
<1>4. Stored(Sent(r)) = d
  BY Carried
<1> HIDE DEF d
<1>5. Saved(d) = <<d.wireN, d.hitN, d.timeV>>
  BY <1>1 DEF Saved
<1>6. Dumped(r) = <<d.wireN, d.hitN, d.timeV>>
  BY <1>1, <1>2
<1>7. WithHead(r, <<d.wireN, d.hitN, d.timeV>>) = Joined(d)
  BY <1>3 DEF WithHead, Joined
<1>8. Joined(d) = Number(r)
  BY Lossless DEF d, Pack8
<1> QED
  BY <1>4, <1>5, <1>6, <1>7, <1>8
=============================================================================
