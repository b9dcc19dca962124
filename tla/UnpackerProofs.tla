--------------------------- MODULE UnpackerProofs ---------------------------
(***************************************************************************)
(* The receive thread of a TcpConnection, proved for every stream of       *)
(* messages, every size of the buffers and however recv cuts the stream:   *)
(* the reference counts of the buffers, that what is still to be parsed is *)
(* a piece of the stream, that the parser keeps in step with it, that the  *)
(* handler is given every message whole and in order, and that messages    *)
(* with small elements always fit.                                         *)
(*                                                                         *)
(* Stream is put together by recursion over the messages.  Where its bytes *)
(* lie follows by induction, for which the library's theorems cannot be    *)
(* used (they have an operator as a parameter): Induction is proved from   *)
(* the well-foundedness of < instead, for sets.                            *)
(***************************************************************************)
EXTENDS Unpacker, FiniteSetTheorems, SequenceTheorems, WellFoundedInduction, TLAPS

----------------------------------------------------------------------------
\* Induction, and what FlattenSeq makes of a sequence of sequences

LEMMA Least ==
  ASSUME NEW T, T \subseteq Nat, T # {}
  PROVE  \E x \in T : \A y \in T : x <= y
<1> DEFINE R == OpToRel(<, Nat)
<1>1. IsWellFoundedOn(R, Nat)
  BY NatLessThanWellFounded
<1> HIDE DEF R
<1>2. PICK x \in T : \A y \in T : ~(<<y, x>> \in R)
  BY <1>1, WFMin
<1>3. ASSUME NEW y \in T PROVE x <= y
  <2>1. x \in Nat /\ y \in Nat
    OBVIOUS
  <2>2. y < x => <<y, x>> \in R
    BY <2>1 DEF R, OpToRel
  <2> QED
    BY <1>2, <2>1, <2>2
<1> QED
  BY <1>3

LEMMA Induction ==
  ASSUME NEW S, 0 \in S, \A n \in Nat : n \in S => n + 1 \in S
  PROVE  \A n \in Nat : n \in S
<1> DEFINE T == {n \in Nat : n \notin S}
<1> SUFFICES ASSUME T # {} PROVE FALSE
  OBVIOUS
<1>1. PICK x \in T : \A y \in T : x <= y
  BY Least
<1>2. x # 0 /\ x \in Nat
  OBVIOUS
<1>3. x - 1 \in Nat /\ x - 1 \in S
  BY <1>1, <1>2
<1>4. (x - 1) + 1 \in S
  BY <1>3
<1> QED
  BY <1>2, <1>4

\* The function by which FlattenSeq is defined
IsFlat(g, n, s) ==
  g = [i \in 1 .. n |-> IF i = 1 THEN s[i] ELSE g[i - 1] \o s[i]]

LEMMA FlatExists == ASSUME NEW s, NEW n \in Nat PROVE \E g : IsFlat(g, n, s)
<1> DEFINE S == {k \in Nat : \E g : IsFlat(g, k, s)}
<1>1. 0 \in S
  <2> DEFINE g == [i \in 1 .. 0 |-> 0]
  <2>1. IsFlat(g, 0, s)
    BY DEF IsFlat
  <2> QED
    BY <2>1
<1>2. ASSUME NEW k \in Nat, k \in S PROVE k + 1 \in S
  <2>1. PICK g : IsFlat(g, k, s)
    BY <1>2
  <2> DEFINE h == [i \in 1 .. k + 1 |-> IF i \in 1 .. k THEN g[i]
                                        ELSE IF i = 1 THEN s[i] ELSE g[k] \o s[i]]
  <2>2. ASSUME NEW i \in 1 .. k + 1
        PROVE  h[i] = IF i = 1 THEN s[i] ELSE h[i - 1] \o s[i]
    <3>1. CASE i = 1
      BY <2>1, <3>1 DEF IsFlat
    <3>2. CASE i # 1
      <4>1. i - 1 \in 1 .. k /\ i - 1 \in 1 .. k + 1
        BY <3>2
      <4>2. h[i - 1] = g[i - 1]
        BY <4>1
      <4>3. CASE i \in 1 .. k
        <5>1. g[i] = g[i - 1] \o s[i]
          BY <2>1, <3>2, <4>3 DEF IsFlat
        <5> QED
          BY <3>2, <4>2, <4>3, <5>1
      <4>4. CASE i = k + 1
        <5>1. i \notin 1 .. k /\ i - 1 = k
          BY <4>4
        <5> QED
          BY <3>2, <4>2, <5>1
      <4> QED
        BY <4>3, <4>4
    <3> QED
      BY <3>1, <3>2
  <2>3. h = [i \in 1 .. k + 1 |-> IF i = 1 THEN s[i] ELSE h[i - 1] \o s[i]]
    <3>1. h = [i \in 1 .. k + 1 |-> h[i]]
      OBVIOUS
    <3> HIDE DEF h
    <3> QED
      BY <2>2, <3>1
  <2>4. IsFlat(h, k + 1, s)
    BY <2>3 DEF IsFlat
  <2> HIDE DEF h
  <2> QED
    BY <2>4
<1> HIDE DEF S
<1>3. n \in S
  BY <1>1, <1>2, Induction
<1> QED
  BY <1>3 DEF S

LEMMA FlatUnique ==
  ASSUME NEW s, NEW t, NEW g, NEW h, NEW n \in Nat, NEW k \in Nat,
         IsFlat(g, n, s), IsFlat(h, k, t), k <= n,
         \A i \in 1 .. k : s[i] = t[i]
  PROVE  \A i \in 1 .. k : g[i] = h[i]
<1> DEFINE S == {j \in Nat : j \in 1 .. k => g[j] = h[j]}
<1>1. 0 \in S
  OBVIOUS
<1>2. ASSUME NEW j \in Nat, j \in S PROVE j + 1 \in S
  <2> SUFFICES ASSUME j + 1 \in 1 .. k PROVE g[j + 1] = h[j + 1]
    OBVIOUS
  <2>1. j + 1 \in 1 .. n /\ (j + 1) - 1 = j
    OBVIOUS
  <2>2. /\ g[j + 1] = IF j + 1 = 1 THEN s[j + 1] ELSE g[(j + 1) - 1] \o s[j + 1]
        /\ h[j + 1] = IF j + 1 = 1 THEN t[j + 1] ELSE h[(j + 1) - 1] \o t[j + 1]
    BY <2>1 DEF IsFlat
  <2>3. s[j + 1] = t[j + 1]
    OBVIOUS
  <2>4. j # 0 => g[j] = h[j]
    BY <1>2
  <2> QED
    BY <2>1, <2>2, <2>3, <2>4
<1> HIDE DEF S
<1>3. \A j \in Nat : j \in S
  BY <1>1, <1>2, Induction
<1> QED
  BY <1>3 DEF S

LEMMA FlattenIsFlat ==
  ASSUME NEW seqs, Len(seqs) # 0
  PROVE  FlattenSeq(seqs) = (CHOOSE g : IsFlat(g, Len(seqs), seqs))[Len(seqs)]
  BY Zenon DEF FlattenSeq, IsFlat

Upto(s, n) == [k \in 1 .. n |-> s[k]]
Flat(s, n) == FlattenSeq(Upto(s, n))

LEMMA FlatZero == ASSUME NEW s PROVE Flat(s, 0) = << >>
<1>1. Len(Upto(s, 0)) = 0
  BY DEF Upto
<1> QED
  BY <1>1 DEF FlattenSeq, Upto, Flat

LEMMA FlatLast ==
  ASSUME NEW s, NEW n \in Nat, n > 0
  PROVE  \E g : IsFlat(g, n, Upto(s, n)) /\ Flat(s, n) = g[n]
<1>1. Len(Upto(s, n)) = n
  BY DEF Upto
<1> DEFINE f == Upto(s, n)
           g == CHOOSE h : IsFlat(h, Len(f), f)
<1>2. Len(f) \in Nat /\ Len(f) # 0
  BY <1>1
<1>3. \E h : IsFlat(h, Len(f), f)
  BY <1>2, FlatExists
<1> HIDE DEF f
<1>4. IsFlat(g, Len(f), f)
  BY <1>3
<1>5. FlattenSeq(f) = g[Len(f)]
  BY <1>2, FlattenIsFlat
<1> QED
  BY <1>1, <1>4, <1>5 DEF Flat, f

LEMMA FlatStep ==
  ASSUME NEW S, NEW s, NEW n \in Nat, s[n + 1] \in Seq(S)
  PROVE  Flat(s, n + 1) = Flat(s, n) \o s[n + 1]
<1> DEFINE e == n + 1
<1>0. e \in Nat /\ e > 0 /\ e \in 1 .. e /\ e - 1 = n
  OBVIOUS
<1>1. PICK g : IsFlat(g, e, Upto(s, e)) /\ Flat(s, e) = g[e]
  BY <1>0, FlatLast
<1>2. Upto(s, e)[e] = s[e]
  BY <1>0 DEF Upto
<1>3. g[e] = IF e = 1 THEN s[e] ELSE g[n] \o s[e]
  <2> HIDE DEF e
  <2> QED
    BY <1>0, <1>1, <1>2 DEF IsFlat
<1>4. CASE n = 0
  BY <1>1, <1>3, <1>4, FlatZero, ConcatEmptySeq
<1>5. CASE n > 0
  <2>1. PICK h : IsFlat(h, n, Upto(s, n)) /\ Flat(s, n) = h[n]
    BY <1>5, FlatLast
  <2>2. \A i \in 1 .. n : Upto(s, n)[i] = Upto(s, e)[i]
    BY DEF Upto
  <2>3. \A i \in 1 .. n : g[i] = h[i]
    <3>1. n <= n /\ n <= e
      OBVIOUS
    <3>2. \A i \in 1 .. n : Upto(s, e)[i] = Upto(s, n)[i]
      BY <2>2
    <3> DEFINE se == Upto(s, e)
               sn == Upto(s, n)
    <3>3. IsFlat(g, e, se) /\ IsFlat(h, n, sn) /\ \A i \in 1 .. n : se[i] = sn[i]
      BY <1>1, <2>1, <3>2
    <3> HIDE DEF e, se, sn
    <3>4. e \in Nat /\ n <= e
      BY <1>0, <3>1
    <3> QED
      BY <3>1, <3>3, <3>4, FlatUnique
  <2>4. n \in 1 .. n /\ e # 1
    BY <1>5
  <2>5. g[n] = h[n]
    BY <2>3, <2>4
  <2> HIDE DEF e
  <2>6. Flat(s, e) = Flat(s, n) \o s[e]
    BY <1>1, <1>3, <2>1, <2>4, <2>5
  <2> QED
    BY <2>6 DEF e
<1> QED
  BY <1>4, <1>5

\* What the pieces of a flattened sequence are, and where they lie in it.
LEMMA FlatSeq ==
  ASSUME NEW S, NEW s, NEW N \in Nat, \A i \in 1 .. N : s[i] \in Seq(S)
  PROVE  /\ \A n \in 0 .. N : Flat(s, n) \in Seq(S)
         /\ \A n \in 0 .. N - 1 :
              Len(Flat(s, n + 1)) = Len(Flat(s, n)) + Len(s[n + 1])
<1> DEFINE T == {n \in Nat : n <= N => Flat(s, n) \in Seq(S)}
<1>0. ASSUME NEW n \in Nat, n < N, Flat(s, n) \in Seq(S)
      PROVE  /\ Flat(s, n + 1) \in Seq(S)
             /\ Len(Flat(s, n + 1)) = Len(Flat(s, n)) + Len(s[n + 1])
  <2>1. s[n + 1] \in Seq(S)
    BY <1>0
  <2>2. Flat(s, n + 1) = Flat(s, n) \o s[n + 1]
    BY <2>1, FlatStep
  <2> QED
    BY <1>0, <2>1, <2>2, ConcatProperties
<1>1. 0 \in T
  <2>1. << >> \in Seq(S)
    OBVIOUS
  <2> QED
    BY <2>1, FlatZero
<1>2. ASSUME NEW n \in Nat, n \in T PROVE n + 1 \in T
  BY <1>0, <1>2
<1> HIDE DEF T
<1>3. \A n \in Nat : n \in T
  BY <1>1, <1>2, Induction
<1>4. \A n \in 0 .. N : Flat(s, n) \in Seq(S)
  BY <1>3 DEF T
<1>5. \A n \in 0 .. N - 1 : n \in Nat /\ n < N /\ n \in 0 .. N
  OBVIOUS
<1> QED
  BY <1>0, <1>4, <1>5

Pieces(s, n) ==
  \A e \in 0 .. n - 1 : \A j \in 1 .. Len(s[e + 1]) :
    /\ Len(Flat(s, e)) + j \in 1 .. Len(Flat(s, n))
    /\ Flat(s, n)[Len(Flat(s, e)) + j] = s[e + 1][j]

LEMMA FlatPiece ==
  ASSUME NEW S, NEW s, NEW N \in Nat, \A i \in 1 .. N : s[i] \in Seq(S)
  PROVE  \A n \in 0 .. N : Pieces(s, n)
<1> DEFINE Lies(n, e, j) ==
             /\ Len(Flat(s, e)) + j \in 1 .. Len(Flat(s, n))
             /\ Flat(s, n)[Len(Flat(s, e)) + j] = s[e + 1][j]
           P(n) == \A e \in 0 .. n - 1 : \A j \in 1 .. Len(s[e + 1]) : Lies(n, e, j)
           T == {n \in Nat : n <= N => P(n)}
<1> HIDE DEF Lies, P, T
<1>1. 0 \in T
  BY DEF P, T
<1>2. ASSUME NEW n \in Nat, n \in T PROVE n + 1 \in T
  <2> SUFFICES ASSUME n + 1 <= N PROVE P(n + 1)
    BY DEF T
  <2>a. P(n)
    BY <1>2 DEF T
  <2>1. \A e \in 0 .. n - 1 : \A j \in 1 .. Len(s[e + 1]) : Lies(n, e, j)
    BY <2>a DEF P
  <2> SUFFICES ASSUME NEW e \in 0 .. n, NEW j \in 1 .. Len(s[e + 1])
               PROVE  Lies(n + 1, e, j)
    <3>1. 0 .. (n + 1) - 1 = 0 .. n
      OBVIOUS
    <3> HIDE DEF Lies
    <3> QED
      BY <3>1 DEF P
  <2>2. /\ s[n + 1] \in Seq(S) /\ s[e + 1] \in Seq(S)
        /\ n \in 0 .. N /\ e \in 0 .. N /\ n \in 0 .. N - 1
    OBVIOUS
  <2>3. Flat(s, n) \in Seq(S) /\ Flat(s, e) \in Seq(S)
        /\ Len(Flat(s, n + 1)) = Len(Flat(s, n)) + Len(s[n + 1])
    BY <2>2, FlatSeq
  <2>4. Flat(s, n + 1) = Flat(s, n) \o s[n + 1]
    BY <2>2, FlatStep
  <2>5. /\ Len(Flat(s, n)) \in Nat /\ Len(Flat(s, e)) \in Nat
        /\ Len(s[n + 1]) \in Nat /\ Len(s[e + 1]) \in Nat
    BY SMTT(30), <2>2, <2>3
  <2>6. \A i \in 1 .. Len(Flat(s, n)) + Len(s[n + 1]) :
          Flat(s, n + 1)[i] = IF i <= Len(Flat(s, n)) THEN Flat(s, n)[i]
                              ELSE s[n + 1][i - Len(Flat(s, n))]
    BY <2>2, <2>3, <2>4, ConcatProperties
  <2>7. CASE e = n
    <3>1. Len(Flat(s, e)) + j \in 1 .. Len(Flat(s, n)) + Len(s[n + 1])
          /\ ~(Len(Flat(s, e)) + j <= Len(Flat(s, n)))
          /\ (Len(Flat(s, e)) + j) - Len(Flat(s, n)) = j
      BY <2>5, <2>7
    <3> QED
      BY <2>3, <2>6, <2>7, <3>1 DEF Lies
  <2>8. CASE e # n
    <3>1. e \in 0 .. n - 1
      BY <2>8
    <3>2. /\ Len(Flat(s, e)) + j \in 1 .. Len(Flat(s, n))
          /\ Flat(s, n)[Len(Flat(s, e)) + j] = s[e + 1][j]
      BY <2>1, <3>1 DEF Lies
    <3>3. Len(Flat(s, e)) + j \in 1 .. Len(Flat(s, n)) + Len(s[n + 1])
          /\ Len(Flat(s, e)) + j <= Len(Flat(s, n))
      BY <2>5, <3>2
    <3> QED
      BY <2>3, <2>6, <3>2, <3>3 DEF Lies
  <2> QED
    BY <2>7, <2>8
<1>3. \A n \in Nat : n \in T
  BY <1>1, <1>2, Induction
<1>4. \A n \in 0 .. N : P(n)
  BY <1>3 DEF T
<1> QED
  BY <1>4 DEF P, Lies, Pieces

----------------------------------------------------------------------------
\* How the stream is laid out: where each message, and each element of it,
\* begins, and what the bytes there are.

Kinds == {"array", "int", "more", "bin", "size", "data", "none"}
Bytes == [msg : Nat, kind : Kinds, val : Nat]

Parts == Len(Ints) + 1
IntBytes(m) ==
  [i \in DOMAIN Ints |->
     <<Byte(m, "int", Ints[i])>> \o [k \in 1 .. Ints[i] |-> Byte(m, "more", k)]]
Sent == [m \in Nat |-> Message(m)]

\* Bytes before the i-th element of message m; the last one is its bin
Start(m, i) == End(m - 1) + 1 + Len(Flat(IntBytes(m), i - 1))

LEMMA Lengths ==
  /\ Len(Ints) \in Nat /\ Len(Bins) \in Nat /\ Parts \in Nat
  /\ DOMAIN Ints = 1 .. Len(Ints) /\ Messages = 1 .. Len(Bins)
  /\ \A i \in 1 .. Len(Ints) : Ints[i] \in Nat
  /\ \A m \in 1 .. Len(Bins) : Bins[m] \in Nat
  BY Sizes DEF Parts, Messages

LEMMA ByteType ==
  ASSUME NEW m \in Nat, NEW k \in Nat, NEW kind \in Kinds
  PROVE  Byte(m, kind, k) \in Bytes
  BY DEF Byte, Bytes

LEMMA Repeated ==
  ASSUME NEW m \in Nat, NEW kind \in Kinds, NEW N \in Nat
  PROVE  LET s == [k \in 1 .. N |-> Byte(m, kind, k)]
         IN  s \in Seq(Bytes) /\ Len(s) = N
<1>1. \A k \in 1 .. N : Byte(m, kind, k) \in Bytes
  BY ByteType
<1> QED
  BY <1>1

LEMMA IntPieces ==
  ASSUME NEW m \in Nat, NEW i \in 1 .. Len(Ints)
  PROVE  /\ IntBytes(m)[i] \in Seq(Bytes) /\ Len(IntBytes(m)[i]) = 1 + Ints[i]
         /\ IntBytes(m)[i][1] = Byte(m, "int", Ints[i])
         /\ \A k \in 1 .. Ints[i] : IntBytes(m)[i][1 + k] = Byte(m, "more", k)
<1> DEFINE h == Byte(m, "int", Ints[i])
           r == [k \in 1 .. Ints[i] |-> Byte(m, "more", k)]
<1>1. Ints[i] \in Nat /\ i \in DOMAIN Ints
  BY Lengths
<1>2. r \in Seq(Bytes) /\ Len(r) = Ints[i]
  BY <1>1, Repeated DEF Kinds
<1>3. h \in Bytes
  BY <1>1, ByteType DEF Kinds
<1>4. IntBytes(m)[i] = <<h>> \o r
  BY <1>1 DEF IntBytes
<1>5. \A k \in 1 .. Ints[i] : r[k] = Byte(m, "more", k)
  OBVIOUS
<1> HIDE DEF h, r
<1>6. <<h>> \in Seq(Bytes) /\ Len(<<h>>) = 1 /\ <<h>>[1] = h
  BY <1>3
<1>7. /\ <<h>> \o r \in Seq(Bytes) /\ Len(<<h>> \o r) = 1 + Ints[i]
      /\ \A k \in 1 .. 1 + Ints[i] :
           (<<h>> \o r)[k] = IF k <= 1 THEN <<h>>[k] ELSE r[k - 1]
  BY <1>2, <1>6, ConcatProperties
<1>8. (<<h>> \o r)[1] = h
  BY <1>1, <1>6, <1>7
<1>9. ASSUME NEW k \in 1 .. Ints[i] PROVE (<<h>> \o r)[1 + k] = r[k]
  <2>1. 1 + k \in 1 .. 1 + Ints[i] /\ ~(1 + k <= 1) /\ (1 + k) - 1 = k
    BY <1>1
  <2> QED
    BY <1>7, <2>1
<1> QED
  BY <1>4, <1>5, <1>7, <1>8, <1>9 DEF h

\* w is A, B, C and D one after the other.
Joined(S, w, A, B, C, D) ==
  /\ w \in Seq(S)
  /\ Len(w) = Len(A) + Len(B) + Len(C) + Len(D)
  /\ \A k \in 1 .. Len(A) : w[k] = A[k]
  /\ \A k \in 1 .. Len(B) : w[Len(A) + k] = B[k]
  /\ \A k \in 1 .. Len(C) : w[Len(A) + Len(B) + k] = C[k]
  /\ \A k \in 1 .. Len(D) : w[Len(A) + Len(B) + Len(C) + k] = D[k]

LEMMA FourPieces ==
  ASSUME NEW S, NEW A \in Seq(S), NEW B \in Seq(S), NEW C \in Seq(S), NEW D \in Seq(S)
  PROVE  Joined(S, A \o B \o C \o D, A, B, C, D)
<1>0. ASSUME NEW X \in Seq(S), NEW Y \in Seq(S)
      PROVE  /\ X \o Y \in Seq(S) /\ Len(X \o Y) = Len(X) + Len(Y)
             /\ \A k \in 1 .. Len(X) : (X \o Y)[k] = X[k]
             /\ \A k \in 1 .. Len(Y) : (X \o Y)[Len(X) + k] = Y[k]
  <2>1. /\ X \o Y \in Seq(S) /\ Len(X \o Y) = Len(X) + Len(Y)
        /\ \A k \in 1 .. Len(X) + Len(Y) :
             (X \o Y)[k] = IF k <= Len(X) THEN X[k] ELSE Y[k - Len(X)]
    BY ConcatProperties
  <2>2. Len(X) \in Nat /\ Len(Y) \in Nat
    OBVIOUS
  <2>3. ASSUME NEW k \in 1 .. Len(X) PROVE (X \o Y)[k] = X[k]
    BY <2>1, <2>2
  <2>4. ASSUME NEW k \in 1 .. Len(Y) PROVE (X \o Y)[Len(X) + k] = Y[k]
    <3>1. /\ Len(X) + k \in 1 .. Len(X) + Len(Y) /\ ~(Len(X) + k <= Len(X))
          /\ (Len(X) + k) - Len(X) = k
      BY <2>2
    <3> QED
      BY <2>1, <3>1
  <2> QED
    BY <2>1, <2>3, <2>4
<1> DEFINE E == A \o B
           F == E \o C
           G == F \o D
<1>1. /\ E \in Seq(S) /\ Len(E) = Len(A) + Len(B)
      /\ \A k \in 1 .. Len(A) : E[k] = A[k]
      /\ \A k \in 1 .. Len(B) : E[Len(A) + k] = B[k]
  BY <1>0
<1> HIDE DEF E
<1>2. /\ F \in Seq(S) /\ Len(F) = Len(E) + Len(C)
      /\ \A k \in 1 .. Len(E) : F[k] = E[k]
      /\ \A k \in 1 .. Len(C) : F[Len(E) + k] = C[k]
  BY <1>0, <1>1
<1> HIDE DEF F
<1>3. /\ G \in Seq(S) /\ Len(G) = Len(F) + Len(D)
      /\ \A k \in 1 .. Len(F) : G[k] = F[k]
      /\ \A k \in 1 .. Len(D) : G[Len(F) + k] = D[k]
  BY <1>0, <1>2
<1>4. Len(A) \in Nat /\ Len(B) \in Nat /\ Len(C) \in Nat /\ Len(D) \in Nat
  OBVIOUS
<1>5. A \o B \o C \o D = G
  BY DEF E, F
<1> HIDE DEF G
<1>6. ASSUME NEW k \in 1 .. Len(A) PROVE G[k] = A[k]
  <2>1. k \in 1 .. Len(E) /\ k \in 1 .. Len(F)
    BY <1>1, <1>2, <1>4
  <2> QED
    BY <1>1, <1>2, <1>3, <2>1
<1>7. ASSUME NEW k \in 1 .. Len(B) PROVE G[Len(A) + k] = B[k]
  <2>1. Len(A) + k \in 1 .. Len(E) /\ Len(A) + k \in 1 .. Len(F)
    BY <1>1, <1>2, <1>4
  <2> QED
    BY <1>1, <1>2, <1>3, <2>1
<1>8. ASSUME NEW k \in 1 .. Len(C) PROVE G[Len(A) + Len(B) + k] = C[k]
  <2>1. Len(E) + k \in 1 .. Len(F) /\ Len(A) + Len(B) + k = Len(E) + k
    BY <1>1, <1>2, <1>4
  <2> QED
    BY <1>2, <1>3, <2>1
<1>9. ASSUME NEW k \in 1 .. Len(D) PROVE G[Len(A) + Len(B) + Len(C) + k] = D[k]
  <2>1. Len(A) + Len(B) + Len(C) + k = Len(F) + k
    BY <1>1, <1>2, <1>4
  <2> QED
    BY <1>3, <2>1
<1>10. G \in Seq(S) /\ Len(G) = Len(A) + Len(B) + Len(C) + Len(D)
  BY <1>1, <1>2, <1>3, <1>4
<1> QED
  BY <1>5, <1>6, <1>7, <1>8, <1>9, <1>10 DEF Joined

LEMMA MessageForm ==
  ASSUME NEW m \in 1 .. Len(Bins)
  PROVE  LET I == Flat(IntBytes(m), Len(Ints))
         IN  /\ Message(m) \in Seq(Bytes) /\ I \in Seq(Bytes)
             /\ Len(Message(m)) = 1 + Len(I) + 2 + Bins[m]
             /\ Message(m)[1] = Byte(m, "array", Parts)
             /\ \A j \in 1 .. Len(I) : Message(m)[1 + j] = I[j]
             /\ Message(m)[1 + Len(I) + 1] = Byte(m, "bin", 1)
             /\ Message(m)[1 + Len(I) + 2] = Byte(m, "size", Bins[m])
             /\ \A k \in 1 .. Bins[m] :
                  Message(m)[1 + Len(I) + 2 + k] = Byte(m, "data", k)
<1> DEFINE I == Flat(IntBytes(m), Len(Ints))
           A == <<Byte(m, "array", Parts)>>
           C == <<Byte(m, "bin", 1), Byte(m, "size", Bins[m])>>
           D == [k \in 1 .. Bins[m] |-> Byte(m, "data", k)]
<1>1. m \in Nat /\ Bins[m] \in Nat /\ Parts \in Nat /\ Len(Ints) \in Nat
      /\ 1 \in Nat /\ Len(Ints) \in 0 .. Len(Ints)
  BY Lengths
<1>2. I \in Seq(Bytes)
  <2>1. \A i \in 1 .. Len(Ints) : IntBytes(m)[i] \in Seq(Bytes)
    BY <1>1, IntPieces
  <2> QED
    BY <1>1, <2>1, FlatSeq
<1>3. I = FlattenSeq(IntBytes(m))
  <2>1. Upto(IntBytes(m), Len(Ints)) = IntBytes(m)
    BY Lengths DEF Upto, IntBytes
  <2> QED
    BY <2>1 DEF Flat
<1>4. Message(m) = A \o I \o C \o D
  BY <1>3 DEF Message, IntBytes, Parts
<1>5. D \in Seq(Bytes) /\ Len(D) = Bins[m]
  BY <1>1, Repeated DEF Kinds
<1>6. /\ Byte(m, "array", Parts) \in Bytes /\ Byte(m, "bin", 1) \in Bytes
      /\ Byte(m, "size", Bins[m]) \in Bytes
  BY <1>1, ByteType DEF Kinds
<1>7. /\ A \in Seq(Bytes) /\ Len(A) = 1 /\ A[1] = Byte(m, "array", Parts)
      /\ C \in Seq(Bytes) /\ Len(C) = 2 /\ C[1] = Byte(m, "bin", 1)
      /\ C[2] = Byte(m, "size", Bins[m])
  BY <1>6
<1>8. \A k \in 1 .. Bins[m] : D[k] = Byte(m, "data", k)
  OBVIOUS
<1> HIDE DEF A, C, D, I
<1>9. /\ Message(m) \in Seq(Bytes)
      /\ Len(Message(m)) = 1 + Len(I) + 2 + Bins[m]
      /\ \A k \in 1 .. 1 : Message(m)[k] = A[k]
      /\ \A k \in 1 .. Len(I) : Message(m)[1 + k] = I[k]
      /\ \A k \in 1 .. 2 : Message(m)[1 + Len(I) + k] = C[k]
      /\ \A k \in 1 .. Bins[m] : Message(m)[1 + Len(I) + 2 + k] = D[k]
  <2>1. Joined(Bytes, A \o I \o C \o D, A, I, C, D)
    <3>1. A \in Seq(Bytes) /\ I \in Seq(Bytes) /\ C \in Seq(Bytes) /\ D \in Seq(Bytes)
      BY <1>2, <1>5, <1>7
    <3> QED
      BY <3>1, FourPieces
  <2> QED
    BY <1>4, <1>5, <1>7, <2>1 DEF Joined
<1>10. 1 \in 1 .. 1 /\ 1 \in 1 .. 2 /\ 2 \in 1 .. 2
  OBVIOUS
<1> QED
  BY <1>2, <1>7, <1>8, <1>9, <1>10 DEF I

LEMMA Ends ==
  /\ Stream \in Seq(Bytes) /\ Len(Stream) = End(Len(Bins)) /\ End(0) = 0
  /\ \A m \in 0 .. Len(Bins) : End(m) \in Nat
  /\ \A m \in 1 .. Len(Bins) :
       /\ End(m) = End(m - 1) + Len(Message(m))
       /\ \A j \in 1 .. Len(Message(m)) : Stream[End(m - 1) + j] = Message(m)[j]
<1> DEFINE M == Len(Bins)
<1>1. M \in Nat
  BY Lengths
<1>2. ASSUME NEW m \in Nat PROVE End(m) = Len(Flat(Sent, m))
  <2>1. \A k \in 1 .. m : Sent[k] = Message(k)
    BY DEF Sent
  <2>2. Upto(Sent, m) = [k \in 1 .. m |-> Message(k)]
    BY <2>1 DEF Upto
  <2> QED
    BY <2>2 DEF End, Flat
<1>3. Stream = Flat(Sent, M)
  <2>1. \A k \in 1 .. M : Sent[k] = Message(k)
    BY DEF Sent
  <2>2. Upto(Sent, M) = [k \in Messages |-> Message(k)]
    BY <2>1, Lengths DEF Upto
  <2> QED
    BY <2>2 DEF Stream, Flat
<1>4. \A m \in 1 .. M : Sent[m] \in Seq(Bytes) /\ Sent[m] = Message(m)
  BY MessageForm DEF Sent
<1> HIDE DEF M
<1>5. /\ \A m \in 0 .. M : Flat(Sent, m) \in Seq(Bytes)
      /\ \A m \in 0 .. M - 1 :
           Len(Flat(Sent, m + 1)) = Len(Flat(Sent, m)) + Len(Sent[m + 1])
  BY <1>1, <1>4, FlatSeq
<1>6. \A m \in 0 .. M : \A e \in 0 .. m - 1 : \A j \in 1 .. Len(Sent[e + 1]) :
        Flat(Sent, m)[Len(Flat(Sent, e)) + j] = Sent[e + 1][j]
  <2>1. \A i \in 1 .. M : Sent[i] \in Seq(Bytes)
    BY <1>4
  <2> QED
    <3>1. \A m \in 0 .. M : Pieces(Sent, m)
      BY <1>1, <2>1, FlatPiece, Zenon
    <3> QED
      BY <3>1 DEF Pieces
<1>7. 0 \in 0 .. M /\ M \in 0 .. M
  BY <1>1
<1>8. Stream \in Seq(Bytes) /\ Len(Stream) = End(M)
  BY <1>1, <1>2, <1>3, <1>5, <1>7
<1>9. End(0) = 0
  BY <1>2, FlatZero
<1>10. \A m \in 0 .. M : End(m) \in Nat
  BY <1>2, <1>5
<1>11. ASSUME NEW m \in 1 .. M
       PROVE  /\ End(m) = End(m - 1) + Len(Message(m))
              /\ \A j \in 1 .. Len(Message(m)) :
                   Stream[End(m - 1) + j] = Message(m)[j]
  <2> DEFINE e == m - 1
  <2>1. e \in 0 .. M - 1 /\ e \in Nat /\ m \in Nat /\ e + 1 = m
    BY <1>1
  <2> HIDE DEF e
  <2>2. Sent[m] = Message(m)
    BY <1>4
  <2>3. Len(Flat(Sent, m)) = Len(Flat(Sent, e)) + Len(Message(m))
    BY <1>5, <2>1, <2>2
  <2>4. \A j \in 1 .. Len(Message(m)) :
          Flat(Sent, M)[Len(Flat(Sent, e)) + j] = Message(m)[j]
    BY ZenonT(60), <1>6, <1>7, <2>1, <2>2
  <2>5. End(m) = Len(Flat(Sent, m)) /\ End(e) = Len(Flat(Sent, e))
    BY <1>2, <2>1
  <2>6. /\ End(m) = End(e) + Len(Message(m))
        /\ \A j \in 1 .. Len(Message(m)) : Stream[End(e) + j] = Message(m)[j]
    BY <1>3, <2>3, <2>4, <2>5
  <2> QED
    BY <2>6 DEF e
<1> QED
  BY <1>8, <1>9, <1>10, <1>11 DEF M

\* All that the parser needs to know of the stream
LEMMA Layout ==
  ASSUME NEW m \in 1 .. Len(Bins)
  PROVE  /\ \A i \in 1 .. Parts : Start(m, i) \in Nat
         /\ Start(m, 1) = End(m - 1) + 1
         /\ \A i \in 1 .. Len(Ints) : Start(m, i + 1) = Start(m, i) + 1 + Ints[i]
         /\ End(m) = Start(m, Parts) + 2 + Bins[m]
         /\ Stream[End(m - 1) + 1] = Byte(m, "array", Parts)
         /\ \A i \in 1 .. Len(Ints) :
              /\ Stream[Start(m, i) + 1] = Byte(m, "int", Ints[i])
              /\ \A k \in 1 .. Ints[i] :
                   Stream[Start(m, i) + 1 + k] = Byte(m, "more", k)
         /\ Stream[Start(m, Parts) + 1] = Byte(m, "bin", 1)
         /\ Stream[Start(m, Parts) + 2] = Byte(m, "size", Bins[m])
         /\ \A k \in 1 .. Bins[m] : Stream[Start(m, Parts) + 2 + k] = Byte(m, "data", k)
<1> DEFINE L == Len(Ints)
           s == IntBytes(m)
           I == Flat(s, L)
           b == End(m - 1)
           B == Bins[m]
<1>1. /\ L \in Nat /\ B \in Nat /\ b \in Nat /\ Parts = L + 1 /\ Parts \in Nat
      /\ \A i \in 1 .. L : Ints[i] \in Nat
      /\ m - 1 \in 0 .. Len(Bins)
  <2>1. m - 1 \in 0 .. Len(Bins)
    BY Lengths
  <2> QED
    BY <2>1, Lengths, Ends DEF Parts
<1>2. /\ I \in Seq(Bytes) /\ Len(I) \in Nat
      /\ Len(Message(m)) = 1 + Len(I) + 2 + B
      /\ Message(m)[1] = Byte(m, "array", Parts)
      /\ \A j \in 1 .. Len(I) : Message(m)[1 + j] = I[j]
      /\ Message(m)[1 + Len(I) + 1] = Byte(m, "bin", 1)
      /\ Message(m)[1 + Len(I) + 2] = Byte(m, "size", B)
      /\ \A k \in 1 .. B : Message(m)[1 + Len(I) + 2 + k] = Byte(m, "data", k)
  BY MessageForm
<1>3. /\ End(m) = b + Len(Message(m))
      /\ \A j \in 1 .. Len(Message(m)) : Stream[b + j] = Message(m)[j]
  BY Ends
<1>4. \A i \in 1 .. L : /\ s[i] \in Seq(Bytes) /\ Len(s[i]) = 1 + Ints[i]
                        /\ s[i][1] = Byte(m, "int", Ints[i])
                        /\ \A k \in 1 .. Ints[i] : s[i][1 + k] = Byte(m, "more", k)
  BY IntPieces, Lengths
<1> HIDE DEF L, s, b, B
<1>5. /\ \A i \in 0 .. L : Flat(s, i) \in Seq(Bytes)
      /\ \A i \in 0 .. L - 1 : Len(Flat(s, i + 1)) = Len(Flat(s, i)) + Len(s[i + 1])
  <2>1. L \in Nat /\ \A i \in 1 .. L : s[i] \in Seq(Bytes)
    BY <1>1, <1>4
  <2> QED
    BY <2>1, FlatSeq
<1>6. \A e \in 0 .. L - 1 : \A j \in 1 .. Len(s[e + 1]) :
        /\ Len(Flat(s, e)) + j \in 1 .. Len(I)
        /\ I[Len(Flat(s, e)) + j] = s[e + 1][j]
  <2>1. L \in Nat /\ \A i \in 1 .. L : s[i] \in Seq(Bytes)
    BY <1>1, <1>4
  <2>2. \A k \in 0 .. L : \A e \in 0 .. k - 1 : \A j \in 1 .. Len(s[e + 1]) :
          /\ Len(Flat(s, e)) + j \in 1 .. Len(Flat(s, k))
          /\ Flat(s, k)[Len(Flat(s, e)) + j] = s[e + 1][j]
    <3>1. \A k \in 0 .. L : Pieces(s, k)
      BY <2>1, FlatPiece, Zenon
    <3> QED
      BY <3>1 DEF Pieces
  <2>3. L \in 0 .. L
    BY <1>1
  <2> QED
    BY <2>2, <2>3
<1>7. \A i \in 1 .. Parts : Start(m, i) = b + 1 + Len(Flat(s, i - 1))
  BY DEF Start, b, s
<1>8. Start(m, Parts) = b + 1 + Len(I)
  BY <1>1, <1>7
<1>9. \A i \in 1 .. Parts : Start(m, i) \in Nat
  <2>1. \A i \in 1 .. Parts : Len(Flat(s, i - 1)) \in Nat
    BY <1>1, <1>5
  <2> QED
    BY <1>1, <1>7, <2>1
<1>10. Start(m, 1) = b + 1
  <2>1. Start(m, 1) = b + 1 + Len(Flat(s, 0))
    BY <1>1, <1>7
  <2> QED
    BY <1>1, <2>1, FlatZero
<1>11. ASSUME NEW i \in 1 .. L
       PROVE  /\ Start(m, i + 1) = Start(m, i) + 1 + Ints[i]
              /\ Stream[Start(m, i) + 1] = Byte(m, "int", Ints[i])
              /\ \A k \in 1 .. Ints[i] : Stream[Start(m, i) + 1 + k] = Byte(m, "more", k)
  <2> DEFINE e == i - 1
             F == Len(Flat(s, e))
  <2>1. /\ e \in 0 .. L - 1 /\ e + 1 = i /\ i \in 1 .. Parts /\ i + 1 \in 1 .. Parts
        /\ (i + 1) - 1 = i /\ Ints[i] \in Nat
    BY <1>1
  <2>2. F \in Nat
    BY <1>1, <1>5, <2>1
  <2>3. Start(m, i) = b + 1 + F /\ Start(m, i + 1) = b + 1 + Len(Flat(s, i))
    BY <1>7, <2>1
  <2> HIDE DEF e
  <2>4. Len(Flat(s, i)) = F + 1 + Ints[i]
    <3>1. Len(Flat(s, e + 1)) = F + Len(s[e + 1])
      BY <1>5, <2>1
    <3>2. Len(s[i]) = 1 + Ints[i]
      BY <1>4
    <3> HIDE DEF F
    <3> QED
      BY SMTT(30), <2>1, <2>2, <3>1, <3>2
  <2>5. ASSUME NEW j \in 1 .. 1 + Ints[i]
        PROVE  Stream[Start(m, i) + j] = s[i][j]
    <3>1. F + j \in 1 .. Len(I) /\ I[F + j] = s[i][j]
      BY <1>4, <1>6, <2>1
    <3>2. 1 + (F + j) \in 1 .. Len(Message(m)) /\ Start(m, i) + j = b + (1 + (F + j))
      BY SMTT(30), <1>1, <1>2, <2>2, <2>3, <3>1
    <3> HIDE DEF F, I
    <3>3. Stream[b + (1 + (F + j))] = Message(m)[1 + (F + j)]
      BY <1>3, <3>2
    <3>4. Message(m)[1 + (F + j)] = I[F + j]
      BY <1>2, <3>1
    <3> QED
      BY <3>1, <3>2, <3>3, <3>4
  <2>6. 1 \in 1 .. 1 + Ints[i] /\ \A k \in 1 .. Ints[i] : 1 + k \in 1 .. 1 + Ints[i]
    BY <2>1
  <2>7. Start(m, i + 1) = Start(m, i) + 1 + Ints[i]
    <3> HIDE DEF F
    <3> QED
      BY SMTT(30), <1>1, <2>1, <2>2, <2>3, <2>4
  <2>8. Start(m, i) \in Nat
    BY <1>9, <2>1
  <2>9. ASSUME NEW k \in 1 .. Ints[i]
        PROVE  Stream[Start(m, i) + 1 + k] = Byte(m, "more", k)
    <3>1. Start(m, i) + 1 + k = Start(m, i) + (1 + k)
      BY <2>1, <2>8
    <3> QED
      BY <1>4, <2>5, <2>6, <3>1
  <2>10. Stream[Start(m, i) + 1] = Byte(m, "int", Ints[i])
    BY <1>4, <2>5, <2>6
  <2> QED
    BY <2>7, <2>9, <2>10
<1>12. ASSUME NEW j \in 1 .. 2 + B
       PROVE  Stream[Start(m, Parts) + j] = Message(m)[1 + Len(I) + j]
  <2>1. /\ 1 + Len(I) + j \in 1 .. Len(Message(m))
        /\ Start(m, Parts) + j = b + (1 + Len(I) + j)
    BY <1>1, <1>2, <1>8
  <2> QED
    BY <1>3, <2>1
<1>13. ASSUME NEW k \in 1 .. B PROVE Stream[Start(m, Parts) + 2 + k] = Byte(m, "data", k)
  <2>1. /\ 2 + k \in 1 .. 2 + B /\ Start(m, Parts) + 2 + k = Start(m, Parts) + (2 + k)
        /\ 1 + Len(I) + (2 + k) = 1 + Len(I) + 2 + k
    BY <1>1, <1>2, <1>8
  <2> QED
    BY <1>2, <1>12, <2>1
<1>14. /\ Stream[Start(m, Parts) + 1] = Byte(m, "bin", 1)
       /\ Stream[Start(m, Parts) + 2] = Byte(m, "size", B)
  <2>1. 1 \in 1 .. 2 + B /\ 2 \in 1 .. 2 + B
    BY <1>1
  <2> QED
    BY <1>2, <1>12, <2>1
<1>15. Stream[b + 1] = Byte(m, "array", Parts)
  <2>1. 1 \in 1 .. Len(Message(m))
    BY <1>1, <1>2
  <2> QED
    BY <1>2, <1>3, <2>1
<1>16. End(m) = Start(m, Parts) + 2 + B
  BY <1>1, <1>2, <1>3, <1>8
<1> QED
  BY <1>9, <1>10, <1>11, <1>13, <1>14, <1>15, <1>16 DEF L, b, B

----------------------------------------------------------------------------
\* The reference counts need nothing of the stream.

\* The buffer in use is not yet in the zone: it goes there when it is replaced.
CountInv ==
  /\ buf \in Buffers /\ count \in [Buffers -> Int]
  /\ zone \subseteq Buffers /\ oh.zone \subseteq Buffers
  /\ pc # "ended" => buf \notin zone
  /\ pc \in {"top", "recv", "check", "leave", "ended"} => oh = Nothing
  /\ pc = "ended" => zone = {}
  /\ \A b \in Buffers :
       count[b] = IF pc = "ended" THEN 0
                  ELSE (IF b = buf THEN 1 ELSE 0) + (IF b \in zone THEN 1 ELSE 0)
                         + (IF b \in oh.zone THEN 1 ELSE 0)

\* A set of three owners, each there or not, has as many as are there.
LEMMA Owners ==
  ASSUME NEW A \in BOOLEAN, NEW B \in BOOLEAN, NEW C \in BOOLEAN
  PROVE  Cardinality({o \in {"parser", "zone", "handle"} :
                        \/ o = "parser" /\ A
                        \/ o = "zone" /\ B
                        \/ o = "handle" /\ C})
           = (IF A THEN 1 ELSE 0) + (IF B THEN 1 ELSE 0) + (IF C THEN 1 ELSE 0)
<1> DEFINE c == IF C THEN {"handle"} ELSE {}
           d == IF B THEN c \cup {"zone"} ELSE c
           e == IF A THEN d \cup {"parser"} ELSE d
<1>1. {o \in {"parser", "zone", "handle"} : \/ o = "parser" /\ A
                                            \/ o = "zone" /\ B
                                            \/ o = "handle" /\ C} = e
  OBVIOUS
<1>2. IsFiniteSet(c) /\ Cardinality(c) = (IF C THEN 1 ELSE 0) /\ "zone" \notin c
  BY FS_EmptySet, FS_Singleton
<1>3. "parser" \notin d
  OBVIOUS
<1> HIDE DEF c
<1>4. /\ IsFiniteSet(d)
      /\ Cardinality(d) = (IF B THEN 1 ELSE 0) + (IF C THEN 1 ELSE 0)
  <2>1. CASE B
    <3>1. d = c \cup {"zone"}
      BY <2>1
    <3>2. IsFiniteSet(d) /\ Cardinality(d) = Cardinality(c) + 1
      BY <1>2, <3>1, FS_AddElement
    <3> QED
      BY <1>2, <2>1, <3>2
  <2>2. CASE ~B
    BY <1>2, <2>2
  <2> QED
    BY <2>1, <2>2
<1> HIDE DEF d
<1>5. Cardinality(e) = (IF A THEN 1 ELSE 0) + (IF B THEN 1 ELSE 0) + (IF C THEN 1 ELSE 0)
  <2>1. CASE A
    <3>1. e = d \cup {"parser"}
      BY <2>1
    <3>2. Cardinality(e) = Cardinality(d) + 1
      BY <1>3, <1>4, <3>1, FS_AddElement
    <3> QED
      BY <1>4, <2>1, <3>2
  <2>2. CASE ~A
    BY <1>4, <2>2
  <2> QED
    BY <2>1, <2>2
<1> QED
  BY <1>1, <1>5

LEMMA InitCounts == Init => CountInv
  BY DEF Init, CountInv, Buffers, Nothing

LEMMA NextCounts == CountInv /\ [Next]_vars => CountInv'
<1> SUFFICES ASSUME CountInv, [Next]_vars PROVE CountInv'
  OBVIOUS
<1> USE DEF Buffers
<1>1. CASE Leave
  <2>1. /\ count' = Released(Released(Released(count, oh.zone), zone), {buf})
        /\ pc # "ended" /\ pc' = "ended" /\ buf' = buf /\ oh' = Nothing /\ zone' = {}
    BY <1>1 DEF Leave, space
  <2>2. count' \in [Buffers -> Int] /\ \A b \in Buffers : count'[b] = 0
    BY <2>1 DEF Released, CountInv
  <2> QED
    BY <2>1, <2>2 DEF CountInv, Nothing
<1>2. CASE Keep
  <2>1. UNCHANGED <<buf, count, zone, oh>> /\ pc = "top" /\ pc' = "recv"
    BY <1>2 DEF Keep, parse
  <2> QED
    BY <2>1 DEF CountInv
\* The new buffer was free, so that nothing refers to it.
<1>3. CASE Move
  <2>1. PICK b \in Buffers :
          /\ count[b] = 0 /\ buf' = b
          /\ count' = [Released(count, IF referenced THEN {} ELSE {buf})
                         EXCEPT ![b] = 1]
    BY <1>3 DEF Move
  <2>2. /\ zone' = IF referenced THEN zone \cup {buf} ELSE zone
        /\ oh' = oh /\ oh = Nothing /\ pc = "top" /\ pc' = "recv"
    BY <1>3 DEF Move, CountInv
  <2>3. b # buf /\ b \notin zone
    BY <2>1, <2>2 DEF CountInv
  <2>4. /\ count' \in [Buffers -> Int] /\ count'[b] = 1
        /\ \A d \in Buffers : d # b =>
             count'[d] = count[d] - (IF ~referenced /\ d = buf THEN 1 ELSE 0)
    BY <2>1 DEF Released, CountInv
  <2>5. \A d \in Buffers : d # b => d = buf
    BY <2>1, <2>3 DEF CountInv
  <2>6. CASE referenced
    BY <2>1, <2>2, <2>3, <2>4, <2>5, <2>6 DEF CountInv, Nothing
  <2>7. CASE ~referenced
    <3>1. buf \in Buffers /\ count[buf] = 1 /\ buf \notin zone
      BY <2>2 DEF CountInv, Nothing
    <3>2. count'[buf] = 0
      BY <2>3, <2>4, <2>7, <3>1
    <3>3. \A d \in Buffers : count'[d] = IF d = b THEN 1 ELSE 0
      BY <2>4, <2>5, <3>2
    <3>4. zone' = zone /\ oh'.zone = {} /\ \A d \in Buffers : d \notin zone
      BY <2>2, <2>3, <2>5, <2>7, <3>1 DEF CountInv, Nothing
    <3>5. \A d \in Buffers :
            count'[d] = (IF d = buf' THEN 1 ELSE 0) + (IF d \in zone' THEN 1 ELSE 0)
                          + (IF d \in oh'.zone THEN 1 ELSE 0)
      BY <2>1, <3>3, <3>4
    <3>6. /\ buf' \in Buffers /\ buf' \notin zone' /\ pc' = "recv" /\ oh' = Nothing
          /\ zone' \subseteq Buffers /\ oh'.zone \subseteq Buffers
      BY <2>1, <2>2, <2>3, <3>4 DEF CountInv
    <3> QED
      BY <2>4, <3>5, <3>6 DEF CountInv
  <2> QED
    BY <2>6, <2>7
<1>4. CASE Recv \/ RecvError
  <2>1. /\ UNCHANGED <<buf, count, zone, oh>> /\ pc = "recv"
        /\ pc' \in {"next", "wild"}
    BY <1>4 DEF Recv, RecvError, parse
  <2> QED
    BY <2>1 DEF CountInv
<1>5. CASE Parse
  <2>1. /\ UNCHANGED <<buf, count, zone, oh>> /\ pc = "next"
        /\ pc' \in {"next", "finish"}
    BY <1>5 DEF Parse, ParseArray, ParseHeader, ParseInt, ParseSize,
         ParseData, Element, Visited, space
  <2> QED
    BY <2>1 DEF CountInv
\* A reference moves from the zone to the handle; the buffer in use gets one.
<1>6. CASE Finish
  <2>1. /\ oh'.zone = IF referenced THEN zone \cup {buf} ELSE zone
        /\ count' = [Released(count, oh.zone)
                       EXCEPT ![buf] = @ + IF referenced THEN 1 ELSE 0]
        /\ zone' = {} /\ buf' = buf /\ pc = "finish" /\ pc' = "handle"
    BY <1>6 DEF Finish, space
  <2>2. /\ count' \in [Buffers -> Int]
        /\ \A b \in Buffers :
             count'[b] = count[b] - (IF b \in oh.zone THEN 1 ELSE 0)
                           + (IF referenced /\ b = buf THEN 1 ELSE 0)
    BY <2>1 DEF Released, CountInv
  <2>3. /\ buf \in Buffers /\ buf \notin zone
        /\ zone \subseteq Buffers /\ oh.zone \subseteq Buffers
        /\ \A b \in Buffers :
             count[b] = (IF b = buf THEN 1 ELSE 0) + (IF b \in zone THEN 1 ELSE 0)
                          + (IF b \in oh.zone THEN 1 ELSE 0)
    BY <2>1 DEF CountInv
  <2>4. ASSUME NEW b \in Buffers
        PROVE  count'[b] = (IF b = buf THEN 1 ELSE 0)
                             + (IF b \in oh'.zone THEN 1 ELSE 0)
    <3>1. count'[b] = (IF b = buf THEN 1 ELSE 0) + (IF b \in zone THEN 1 ELSE 0)
                        + (IF referenced /\ b = buf THEN 1 ELSE 0)
      BY <2>2, <2>3
    <3>2. CASE referenced
      BY <2>1, <2>3, <3>1, <3>2
    <3>3. CASE ~referenced
      BY <2>1, <3>1, <3>3
    <3> QED
      BY <3>2, <3>3
  <2>5. oh'.zone \subseteq Buffers
    BY <2>1, <2>3
  <2> HIDE DEF Buffers
  <2> QED
    BY <2>1, <2>2, <2>3, <2>4, <2>5 DEF CountInv
<1>7. CASE Handle \/ Check
  <2>1. /\ UNCHANGED <<buf, count, zone, oh>>
        /\ \/ pc = "handle" /\ pc' = "next"
           \/ pc = "check" /\ pc' \in {"leave", "top"}
    BY <1>7 DEF Handle, Check, parse, space
  <2> QED
    BY <2>1 DEF CountInv
<1>8. CASE More
  <2>1. /\ count' = Released(count, oh.zone) /\ oh' = Nothing
        /\ UNCHANGED <<buf, zone>> /\ pc = "next" /\ pc' = "check"
    BY <1>8 DEF More, parse, space
  <2>2. /\ count' \in [Buffers -> Int]
        /\ \A b \in Buffers :
             count'[b] = count[b] - (IF b \in oh.zone THEN 1 ELSE 0)
    BY <2>1 DEF Released, CountInv
  <2> QED
    BY <2>1, <2>2 DEF CountInv, Nothing
<1>9. CASE UNCHANGED vars
  BY <1>9 DEF vars, parse, space, CountInv
<1> QED
  BY <1>1, <1>2, <1>3, <1>4, <1>5, <1>6, <1>7, <1>8, <1>9 DEF Next, Work

\* A receive buffer is counted once for the parser and once for each zone that
\* will release it: none is released while an object points into it, and none
\* is kept when the thread has ended.
THEOREM BuffersCounted == Spec => []CountsRight
<1>1. CountInv => CountsRight
  <2> SUFFICES ASSUME CountInv, NEW b \in Buffers
               PROVE  count[b] = IF pc = "ended" THEN 0
                        ELSE Cardinality({o \in {"parser", "zone", "handle"} :
                               \/ o = "parser" /\ b = buf
                               \/ o = "zone" /\ b \in zone
                               \/ o = "handle" /\ b \in oh.zone})
    BY DEF CountsRight
  <2>1. Cardinality({o \in {"parser", "zone", "handle"} :
                       \/ o = "parser" /\ b = buf
                       \/ o = "zone" /\ b \in zone
                       \/ o = "handle" /\ b \in oh.zone})
          = (IF b = buf THEN 1 ELSE 0) + (IF b \in zone THEN 1 ELSE 0)
              + (IF b \in oh.zone THEN 1 ELSE 0)
    BY Owners
  <2> QED
    BY <2>1 DEF CountInv
<1> QED
  BY <1>1, InitCounts, NextCounts, PTL DEF Spec
----------------------------------------------------------------------------
\* What is in the buffer.

\* The bytes received and not yet parsed are in the buffer in use, in order,
\* wherever it was rewound or replaced; a reset connection took back one.
InPlace ==
  \A i \in off .. used - 1 :
    mem[buf][i] = Stream[got - (IF up THEN 0 ELSE 1) - used + i + 1]

SpaceInv ==
  /\ pc \in {"top", "recv", "next", "finish", "handle", "check", "leave",
             "ended", "wild"}
  /\ got \in 0 .. Len(Stream) /\ up \in BOOLEAN
  /\ mem \in [Buffers -> [Offsets -> Bytes]] /\ buf \in Buffers
  /\ used \in Int /\ off \in Int /\ Counter <= off /\ used <= Initial
  /\ pc # "wild" => off <= used
  /\ trail \in Nat
  /\ pc = "top" => used - off <= Reserve
  /\ InPlace

LEMMA Constants ==
  /\ Counter \in Nat \ {0} /\ Reserve \in Nat \ {0} /\ Initial \in Int
  /\ Initial >= Counter + 2 * Reserve
  /\ NoByte \in Bytes
  BY Room DEF NoByte, Byte, Bytes, Kinds

LEMMA InitSpace == Init => SpaceInv
<1> SUFFICES ASSUME Init PROVE SpaceInv
  OBVIOUS
<1>1. 0 \in 0 .. Len(Stream)
  <2>1. Len(Stream) \in Nat
    BY Ends
  <2> QED
    BY <2>1
<1>2. mem \in [Buffers -> [Offsets -> Bytes]]
  BY Constants DEF Init
<1>3. InPlace
  BY Constants DEF Init, InPlace
<1> QED
  BY <1>1, <1>2, <1>3, Constants DEF Init, SpaceInv, Buffers

LEMMA NextSpace == SpaceInv /\ [Next]_vars => SpaceInv'
<1> SUFFICES ASSUME SpaceInv, [Next]_vars PROVE SpaceInv'
  OBVIOUS
<1>a. Len(Stream) \in Nat /\ \A j \in 1 .. Len(Stream) : Stream[j] \in Bytes
  <2>1. Stream \in Seq(Bytes)
    BY Ends
  <2> QED
    BY <2>1
\* An element that is parsed is in the buffer.
<1>b. Element => off \in Offsets /\ byte \in Bytes /\ byte.val \in Nat
  <2>1. Element => off \in Offsets /\ buf \in Buffers
    BY Constants DEF Element, SpaceInv, Offsets
  <2>2. Element => byte \in Bytes
    BY <2>1 DEF byte, SpaceInv
  <2> QED
    BY <2>1, <2>2 DEF Bytes
\* What only moves off ahead leaves the rest in place.
<1>c. ASSUME UNCHANGED <<got, up, mem, buf, used>>,
             off' \in Int, off <= off', off' <= used, trail' \in Nat,
             pc' \in {"next", "finish", "handle", "check"}
      PROVE  SpaceInv'
  <2>1. InPlace'
    <3> SUFFICES ASSUME NEW i \in off' .. used - 1
                 PROVE  mem[buf][i] = Stream[got - (IF up THEN 0 ELSE 1) - used + i + 1]
      BY <1>c DEF InPlace
    <3>1. i \in off .. used - 1
      BY <1>c DEF SpaceInv
    <3> QED
      BY <3>1 DEF SpaceInv, InPlace
  <2>2. Counter <= off'
    BY <1>c, Constants DEF SpaceInv
  <2> QED
    BY <1>c, <2>1, <2>2 DEF SpaceInv
<1>1. CASE Leave
  <2>1. UNCHANGED <<got, up, mem, buf, used, off, trail>> /\ pc' = "ended"
        /\ pc # "wild"
    BY <1>1 DEF Leave, space
  <2> QED
    BY <2>1 DEF SpaceInv, InPlace
<1>2. CASE Keep
  <2>1. UNCHANGED <<got, up, mem, buf, trail>> /\ pc = "top" /\ pc' = "recv"
    BY <1>2 DEF Keep, parse
  <2>2. CASE UNCHANGED <<used, off>>
    BY <2>1, <2>2 DEF SpaceInv, InPlace
  <2>3. CASE used' = Counter /\ off' = Counter
    <3>1. InPlace'
      BY <2>3, Constants DEF InPlace
    <3> QED
      BY <2>1, <2>3, <3>1, Constants DEF SpaceInv
  <2> QED
    BY <1>2, <2>2, <2>3 DEF Keep
<1>3. CASE Move
  <2>1. PICK b \in Buffers :
          /\ buf' = b
          /\ mem' = [mem EXCEPT ![b] = [i \in Offsets |->
                       IF i \in Counter .. Counter + used - off - 1
                       THEN mem[buf][off + i - Counter] ELSE NoByte]]
    BY <1>3 DEF Move
  <2>2. /\ UNCHANGED <<got, up, trail>> /\ pc = "top" /\ pc' = "recv"
        /\ used' = Counter + used - off /\ off' = Counter
    BY <1>3 DEF Move
  <2>3. ASSUME NEW i \in Counter .. Counter + used - off - 1
        PROVE  /\ i \in Offsets /\ off + i - Counter \in Offsets
               /\ off + i - Counter \in off .. used - 1
    BY <2>2, Constants DEF SpaceInv, Offsets
  <2> DEFINE new == [i \in Offsets |->
                       IF i \in Counter .. Counter + used - off - 1
                       THEN mem[buf][off + i - Counter] ELSE NoByte]
  <2>4. new \in [Offsets -> Bytes]
    <3>1. ASSUME NEW i \in Offsets
          PROVE  (IF i \in Counter .. Counter + used - off - 1
                  THEN mem[buf][off + i - Counter] ELSE NoByte) \in Bytes
      <4>1. CASE i \in Counter .. Counter + used - off - 1
        <5>1. off + i - Counter \in Offsets
          BY <2>3, <4>1
        <5> QED
          BY <4>1, <5>1 DEF SpaceInv
      <4>2. CASE i \notin Counter .. Counter + used - off - 1
        BY <4>2, Constants
      <4> QED
        BY <4>1, <4>2
    <3> QED
      BY <3>1
  <2>5. /\ \A i \in Counter .. Counter + used - off - 1 :
             new[i] = mem[buf][off + i - Counter]
    BY <2>3
  <2> HIDE DEF new
  <2>6. mem' \in [Buffers -> [Offsets -> Bytes]] /\ mem'[buf'] = new
    BY <2>1, <2>4 DEF SpaceInv, new
  <2>7. InPlace'
    <3> SUFFICES ASSUME NEW i \in off' .. used' - 1
                 PROVE  mem'[buf'][i] = Stream[got' - (IF up' THEN 0 ELSE 1) - used' + i + 1]
      BY DEF InPlace
    <3>4. i \in Counter .. Counter + used - off - 1
      BY <2>2, Constants DEF SpaceInv
    <3> DEFINE l == IF up THEN 0 ELSE 1
               j == off + i - Counter
    <3>1. new[i] = mem[buf][j] /\ j \in off .. used - 1
      BY <2>3, <2>5, <3>4
    <3>2. mem[buf][j] = Stream[got - l - used + j + 1]
      BY <3>1 DEF SpaceInv, InPlace
    <3>3. got - l - used + j + 1 = got - l - (Counter + used - off) + i + 1
      BY <1>a, <3>4, Constants DEF SpaceInv
    <3>5. got' - (IF up' THEN 0 ELSE 1) - used' + i + 1 = got - l - used + j + 1
      BY <2>2, <3>3
    <3> QED
      BY <2>6, <3>1, <3>2, <3>5
  <2> QED
    BY <2>1, <2>2, <2>6, <2>7, Constants DEF SpaceInv
<1>4. CASE Recv
  <2>1. PICK n \in 1 .. free :
          /\ got + n <= Len(Stream) /\ got' = got + n /\ used' = used + n
          /\ mem' = [mem EXCEPT ![buf] = [i \in Offsets |->
                    IF i \in used .. used + n - 1
                    THEN Stream[got + i - used + 1] ELSE @[i]]]
    BY <1>4 DEF Recv
  <2>2. /\ up /\ UNCHANGED <<up, buf, off, trail>> /\ pc = "recv" /\ pc' = "next"
    BY <1>4 DEF Recv, parse
  <2>3. /\ n \in Nat /\ n >= 1 /\ used + n <= Initial
        /\ got \in Nat /\ used \in Int /\ off \in Int
        /\ Counter <= off /\ off <= used
    BY <2>1, <2>2, <1>a, Constants DEF free, SpaceInv
  <2> DEFINE new == [i \in Offsets |->
                      IF i \in used .. used + n - 1
                      THEN Stream[got + i - used + 1] ELSE mem[buf][i]]
  <2>4. new \in [Offsets -> Bytes]
    <3>1. ASSUME NEW i \in Offsets
          PROVE  (IF i \in used .. used + n - 1
                  THEN Stream[got + i - used + 1] ELSE mem[buf][i]) \in Bytes
      <4>1. CASE i \in used .. used + n - 1
        <5>1. got + i - used + 1 \in 1 .. Len(Stream)
          BY <4>1, <2>1, <2>3, <1>a
        <5> QED
          BY <4>1, <5>1, <1>a
      <4>2. CASE i \notin used .. used + n - 1
        BY <4>2 DEF SpaceInv
      <4> QED
        BY <4>1, <4>2
    <3> QED
      BY <3>1
  <2>5. \A i \in off .. used + n - 1 :
          /\ i \in used .. used + n - 1 => new[i] = Stream[got + i - used + 1]
          /\ i \notin used .. used + n - 1 =>
               new[i] = mem[buf][i] /\ i \in off .. used - 1
    <3>1. \A i \in off .. used + n - 1 : i \in Offsets
      BY <2>3, Constants DEF Offsets
    <3>2. \A i \in off .. used + n - 1 :
            i \notin used .. used + n - 1 => i \in off .. used - 1
      BY <2>3
    <3> QED
      BY <3>1, <3>2
  <2> HIDE DEF new
  <2>6. mem' \in [Buffers -> [Offsets -> Bytes]] /\ mem'[buf'] = new
    BY <2>1, <2>2, <2>4 DEF SpaceInv, new
  <2>7. InPlace'
    <3> SUFFICES ASSUME NEW i \in off' .. used' - 1
                 PROVE  mem'[buf'][i] = Stream[got' - (IF up' THEN 0 ELSE 1) - used' + i + 1]
      BY DEF InPlace
    <3>4. i \in off .. used + n - 1
      BY <2>1, <2>2, <2>3
    <3>1. got' - (IF up' THEN 0 ELSE 1) - used' + i + 1 = got + i - used + 1
      BY <2>1, <2>2, <2>3, <3>4
    <3>2. CASE i \notin used .. used + n - 1
      <4>1. new[i] = mem[buf][i] /\ i \in off .. used - 1
        BY <2>5, <3>2, <3>4
      <4>2. mem[buf][i] = Stream[got - 0 - used + i + 1]
        BY <2>2, <4>1 DEF SpaceInv, InPlace
      <4>3. got - 0 - used + i + 1 = got + i - used + 1
        BY <2>3, <3>4
      <4> QED
        BY <2>6, <3>1, <4>1, <4>2, <4>3
    <3>3. CASE i \in used .. used + n - 1
      BY <2>5, <2>6, <3>1, <3>3, <3>4
    <3> QED
      BY <3>2, <3>3
  <2>8. got + n \in 0 .. Len(Stream)
    BY <2>1, <2>3, <1>a
  <2> QED
    BY <2>1, <2>2, <2>3, <2>6, <2>7, <2>8 DEF SpaceInv
\* -1 bytes: the last one received is lost.
<1>5. CASE RecvError
  <2>1. /\ UNCHANGED <<got, mem, buf, off, trail>> /\ pc = "recv" /\ up /\ up' = FALSE
        /\ used' = used - 1
        /\ pc' = IF used = off THEN "wild" ELSE "next"
    BY <1>5 DEF RecvError, parse
  <2>2. /\ used \in Int /\ off \in Int /\ off <= used /\ got \in Int /\ used <= Initial
    BY <2>1, <1>a DEF SpaceInv
  <2>3. InPlace'
    <3> SUFFICES ASSUME NEW i \in off .. used - 1 - 1
                 PROVE  mem[buf][i] = Stream[got - 1 - (used - 1) + i + 1]
      BY <2>1 DEF InPlace
    <3>1. i \in off .. used - 1
          /\ got - 1 - (used - 1) + i + 1 = got - 0 - used + i + 1
      BY <2>2
    <3>2. mem[buf][i] = Stream[got - 0 - used + i + 1]
      BY <2>1, <3>1 DEF SpaceInv, InPlace
    <3> QED
      BY <3>1, <3>2
  <2>4. pc' \in {"wild", "next"} /\ (pc' # "wild" => off <= used - 1)
    BY <2>1, <2>2
  <2>5. used - 1 \in Int /\ used - 1 <= Initial
    BY <2>2, Constants
  <2> QED
    BY <2>1, <2>3, <2>4, <2>5 DEF SpaceInv
<1>6. CASE Parse
  <2>1. /\ UNCHANGED <<got, up, mem, buf, used>> /\ pc' \in {"next", "finish"}
        /\ Element
    BY <1>6 DEF Parse, ParseArray, ParseHeader, ParseInt, ParseSize,
         ParseData, Element, Visited, space
  <2>2. /\ off < used /\ off \in Int /\ used \in Int /\ trail \in Nat
    BY <2>1 DEF Element, SpaceInv
  <2>3. CASE ParseArray \/ ParseHeader \/ ParseSize
    <3>1. off' = off + 1 /\ trail' \in {trail, byte.val}
      BY <2>3 DEF ParseArray, ParseHeader, ParseSize
    <3> QED
      BY <1>b, <1>c, <2>1, <2>2, <3>1
  <2>4. CASE ParseInt \/ ParseData
    <3>1. off' = off + trail /\ trail' = trail /\ used - off >= trail
      BY <2>4 DEF ParseInt, ParseData
    <3> QED
      BY <1>c, <2>1, <2>2, <3>1, Constants
  <2> QED
    BY <1>6, <2>3, <2>4 DEF Parse
<1>7. CASE Finish \/ Handle
  <2>1. /\ UNCHANGED <<got, up, mem, buf, used, off>> /\ trail' \in {0, trail}
        /\ pc' \in {"handle", "next"} /\ pc # "wild"
    BY <1>7 DEF Finish, Handle, parse, space
  <2> QED
    BY <1>c, <2>1, Constants DEF SpaceInv
<1>8. CASE More
  <2>1. /\ UNCHANGED <<got, up, mem, buf, used, off, trail>>
        /\ pc' = "check" /\ pc = "next"
    BY <1>8 DEF More, parse, space
  <2> QED
    BY <1>c, <2>1 DEF SpaceInv
<1>9. CASE Check
  <2>1. /\ UNCHANGED <<got, up, mem, buf, used, off, trail>> /\ pc = "check"
        /\ pc' = IF used - off > Reserve THEN "leave" ELSE "top"
    BY <1>9 DEF Check, parse, space
  <2> QED
    BY <2>1, Constants DEF SpaceInv, InPlace
<1>10. CASE UNCHANGED vars
  BY <1>10 DEF vars, parse, space, SpaceInv, InPlace
<1> QED
  BY <1>1, <1>2, <1>3, <1>4, <1>5, <1>6, <1>7, <1>8, <1>9, <1>10 DEF Next, Work

\* What threadConnRecv has received and not yet parsed lies in the buffer in
\* use just as it was sent, however reserve_buffer and expand_buffer moved it.
THEOREM BytesInPlace == Spec => []InPlace
<1>1. SpaceInv => InPlace
  BY DEF SpaceInv
<1> QED
  BY <1>1, InitSpace, NextSpace, PTL DEF Spec
----------------------------------------------------------------------------
\* Where the parser is in the stream.

Elements == Nat \cup [buf : Buffers, at : Int, size : Nat]

\* Bytes of the stream that were parsed, and the element that is next
Lost == IF up THEN 0 ELSE 1
Pos == got - Lost - used + off
Current == Parts + 1 - rest

Between == rest = 0 /\ cs = "header" /\ Pos = End(done)
Midway ==
  /\ rest > 0 /\ done < Len(Bins) /\ Len(obj) = Parts - rest
  /\ \A i \in 1 .. Len(obj) : obj[i] = done + 1
  /\ cs = "header" => Pos = Start(done + 1, Current)
  /\ cs = "int" => /\ Current <= Len(Ints) /\ trail = Ints[Current] /\ trail > 0
                   /\ Pos = Start(done + 1, Current) + 1
  /\ cs = "bin" => Current = Parts /\ trail = 1 /\ Pos = Start(done + 1, Parts) + 1
  /\ cs = "data" => /\ Current = Parts /\ trail = Bins[done + 1] /\ trail > 0
                    /\ Pos = Start(done + 1, Parts) + 2

\* o is the next message; its bin lies in the buffer in use.
Complete(o) ==
  /\ \A i \in 1 .. Len(Ints) : o[i] = done + 1
  /\ o[Parts].buf = buf
  /\ At(o[Parts].buf, o[Parts].at, o[Parts].size)
       = [k \in 1 .. Bins[done + 1] |-> Byte(done + 1, "data", k)]

ParseInv ==
  /\ cs \in {"header", "int", "bin", "data"} /\ rest \in 0 .. Parts
  /\ done \in 0 .. Len(Bins) /\ referenced \in BOOLEAN
  /\ obj \in Seq(Elements) /\ Len(obj) <= Parts
  /\ pc \in {"top", "recv", "next", "check"} => Between \/ Midway
  /\ pc \in {"finish", "handle"} =>
       rest = 0 /\ cs = "header" /\ done < Len(Bins) /\ Pos = End(done + 1)
  /\ pc = "finish" => Complete(obj)
  /\ pc = "handle" => Complete(oh.obj)

LEMMA InitParse == Init => ParseInv
<1> SUFFICES ASSUME Init PROVE ParseInv
  OBVIOUS
<1>1. /\ pc = "top" /\ got = 0 /\ up /\ done = 0 /\ used = Counter
      /\ off = Counter /\ cs = "header" /\ rest = 0 /\ obj = << >> /\ referenced = FALSE
  BY DEF Init
<1>2. Pos = 0 /\ End(0) = 0
  <2>1. Lost = 0 /\ Counter \in Int
    BY <1>1, Constants DEF Lost
  <2>2. Pos = 0
    BY <1>1, <2>1 DEF Pos
  <2> QED
    BY <2>2, Ends
<1>3. Between
  BY <1>1, <1>2 DEF Between
<1>4. obj \in Seq(Elements) /\ Len(obj) <= Parts /\ rest \in 0 .. Parts
      /\ done \in 0 .. Len(Bins)
  BY <1>1, Lengths
<1> QED
  BY <1>1, <1>3, <1>4 DEF ParseInv

\* The byte that is parsed next, in the stream; there is none after the last
\* message.
LEMMA NextByte ==
  ASSUME SpaceInv, ParseInv, Element
  PROVE  /\ Pos \in Int /\ off \in Int /\ used \in Int /\ byte = Stream[Pos + 1]
         /\ Between => done + 1 \in 1 .. Len(Bins)
         /\ \A k \in 1 .. used - off : mem[buf][off + k - 1] = Stream[Pos + k]
<1>1. /\ got \in Int /\ off \in Int /\ used \in Int /\ off < used /\ Lost \in 0 .. 1
      /\ got <= Len(Stream) /\ Len(Stream) \in Int
  <2>1. Len(Stream) \in Nat
    BY Ends
  <2> QED
    BY <2>1 DEF SpaceInv, Element, Lost
<1>2. ASSUME NEW k \in 1 .. used - off
      PROVE  mem[buf][off + k - 1] = Stream[Pos + k]
  <2> DEFINE i == off + k - 1
  <2>1. i \in off .. used - 1
    BY <1>1
  <2>2. mem[buf][i] = Stream[got - Lost - used + i + 1]
    BY <2>1 DEF SpaceInv, InPlace, Lost
  <2>3. got - Lost - used + i + 1 = Pos + k
    BY <1>1, <2>1 DEF Pos
  <2> QED
    BY <2>2, <2>3
<1>3. 1 \in 1 .. used - off /\ off + 1 - 1 = off
  BY <1>1
<1>4. byte = Stream[Pos + 1]
  BY <1>2, <1>3 DEF byte
<1>5. Pos \in Int /\ Pos < Len(Stream)
  BY <1>1 DEF Pos
<1>6. Between => done + 1 \in 1 .. Len(Bins)
  BY <1>5, Ends, Lengths DEF Between, ParseInv
<1> QED
  BY <1>1, <1>2, <1>4, <1>5, <1>6

\* What the next byte is, by the state of the parser
LEMMA Expected ==
  ASSUME SpaceInv, ParseInv, Element
  PROVE  /\ Between => byte = Byte(done + 1, "array", Parts)
         /\ Midway /\ cs = "header" /\ Current <= Len(Ints) =>
              byte = Byte(done + 1, "int", Ints[Current])
         /\ Midway /\ cs = "header" /\ Current = Parts => byte = Byte(done + 1, "bin", 1)
         /\ Midway /\ cs = "int" => byte = Byte(done + 1, "more", 1)
         /\ Midway /\ cs = "bin" => byte = Byte(done + 1, "size", Bins[done + 1])
<1> DEFINE m == done + 1
<1>1. byte = Stream[Pos + 1] /\ (Between => m \in 1 .. Len(Bins))
  BY NextByte
<1>2. done \in Int /\ rest \in 0 .. Parts /\ Len(Ints) \in Nat /\ Parts = Len(Ints) + 1
  BY Lengths DEF ParseInv, Parts
<1>3. Midway => m \in 1 .. Len(Bins) /\ Current \in 1 .. Parts
  BY <1>2, Lengths DEF Midway, ParseInv, Current
<1>4. m - 1 = done
  BY <1>2
<1>5. Between => byte = Byte(m, "array", Parts)
  BY <1>1, <1>4, Layout DEF Between
<1> HIDE DEF m
<1>6. ASSUME Midway, cs = "header", Current <= Len(Ints)
      PROVE  byte = Byte(m, "int", Ints[Current])
  <2>1. Current \in 1 .. Len(Ints) /\ m \in 1 .. Len(Bins)
    BY <1>2, <1>3, <1>6
  <2>2. Pos = Start(m, Current)
    BY <1>6 DEF Midway, m
  <2> QED
    BY <1>1, <2>1, <2>2, Layout
<1>7. ASSUME Midway, cs = "header", Current = Parts PROVE byte = Byte(m, "bin", 1)
  <2>1. Pos = Start(m, Parts)
    BY <1>7 DEF Midway, m
  <2> QED
    BY <1>1, <1>3, <1>7, <2>1, Layout
<1>8. ASSUME Midway, cs = "int" PROVE byte = Byte(m, "more", 1)
  <2>1. /\ Current \in 1 .. Len(Ints) /\ m \in 1 .. Len(Bins)
        /\ Pos = Start(m, Current) + 1 /\ Ints[Current] > 0
    BY <1>2, <1>3, <1>8 DEF Midway, m
  <2>2. 1 \in 1 .. Ints[Current]
    BY <2>1, Lengths
  <2> QED
    BY <1>1, <2>1, <2>2, Layout
<1>9. ASSUME Midway, cs = "bin" PROVE byte = Byte(m, "size", Bins[m])
  <2>1. /\ m \in 1 .. Len(Bins) /\ Pos = Start(m, Parts) + 1
    BY <1>3, <1>9 DEF Midway, m
  <2>2. Start(m, Parts) \in Nat
    BY <1>2, <2>1, Layout
  <2>3. Pos + 1 = Start(m, Parts) + 2
    BY <2>1, <2>2
  <2> QED
    BY <1>1, <2>1, <2>3, Layout
<1> QED
  BY <1>5, <1>6, <1>7, <1>8, <1>9 DEF m

\* An element that is complete but not the last leads to the next one.
LEMMA VisitedInt ==
  ASSUME SpaceInv, ParseInv, Midway, Current <= Len(Ints), Visited(done + 1),
         Pos' = Start(done + 1, Current) + 1 + Ints[Current],
         UNCHANGED <<done, referenced>>, pc = "next"
  PROVE  ParseInv'
<1> DEFINE m == done + 1
<1>1. /\ done \in Nat /\ m \in Nat /\ m \in 1 .. Len(Bins) /\ rest \in 0 .. Parts
      /\ Len(Ints) \in Nat /\ Parts = Len(Ints) + 1 /\ done \in 0 .. Len(Bins)
  BY Lengths DEF Midway, ParseInv, Parts
<1>2. Current \in 1 .. Len(Ints) /\ rest > 1
  BY <1>1 DEF Current, Midway
<1>3. /\ obj' = Append(obj, m) /\ cs' = "header" /\ rest' = rest - 1
  BY DEF Visited
<1>4. pc' = "next" /\ rest' > 0 /\ rest' \in 0 .. Parts /\ Current' = Current + 1
  BY <1>1, <1>2, <1>3 DEF Visited, Current, Parts
<1>5. m \in Elements /\ obj \in Seq(Elements) /\ Len(obj) = Parts - rest
  BY <1>1 DEF Elements, ParseInv, Midway
<1>6. /\ obj' \in Seq(Elements) /\ Len(obj') = Len(obj) + 1
      /\ \A i \in 1 .. Len(obj) + 1 : obj'[i] = IF i <= Len(obj) THEN obj[i] ELSE m
  BY <1>3, <1>5, AppendProperties
<1>7. \A i \in 1 .. Len(obj') : obj'[i] = m
  BY <1>5, <1>6 DEF Midway
<1>8. Pos' = Start(m, Current + 1)
  BY <1>1, <1>2, Layout
<1> HIDE DEF m
<1>9. Len(obj') = Parts - rest' /\ Len(obj') <= Parts
  BY <1>1, <1>3, <1>4, <1>5, <1>6
<1>10. Midway'
  BY <1>1, <1>3, <1>4, <1>7, <1>8, <1>9 DEF Midway, Parts, m, Start, End
<1> QED
  BY <1>1, <1>3, <1>4, <1>6, <1>9, <1>10 DEF ParseInv, Parts

\* The bin is the last element: the object is complete.
LEMMA VisitedBin ==
  ASSUME SpaceInv, ParseInv, Midway, Current = Parts, Visited(Bin(off, Bins[done + 1])),
         Pos' = Start(done + 1, Parts) + 2 + Bins[done + 1],
         \A k \in 1 .. Bins[done + 1] :
           mem[buf][off + k - 1] = Byte(done + 1, "data", k),
         referenced' \in BOOLEAN, UNCHANGED <<done, mem, buf>>
  PROVE  ParseInv'
<1> DEFINE m == done + 1
           o == Bin(off, Bins[m])
<1>1. /\ done \in Nat /\ m \in Nat /\ m \in 1 .. Len(Bins) /\ rest \in 0 .. Parts
      /\ Len(Ints) \in Nat /\ Parts = Len(Ints) + 1 /\ done \in 0 .. Len(Bins)
      /\ Bins[m] \in Nat
  BY Lengths DEF Midway, ParseInv, Parts
<1>2. rest = 1
  BY <1>1 DEF Current, Midway
<1>3. /\ obj' = Append(obj, o) /\ cs' = "header" /\ rest' = 0 /\ pc' = "finish"
  BY <1>2 DEF Visited
<1>4. obj \in Seq(Elements) /\ Len(obj) = Len(Ints)
  BY <1>1, <1>2 DEF ParseInv, Midway
<1>5. /\ o \in Elements /\ o.buf = buf /\ o.at = off /\ o.size = Bins[m]
  BY <1>1 DEF Elements, Bin, SpaceInv
<1> HIDE DEF o
<1>6. /\ obj' \in Seq(Elements) /\ Len(obj') = Len(Ints) + 1
      /\ \A i \in 1 .. Len(Ints) + 1 : obj'[i] = IF i <= Len(Ints) THEN obj[i] ELSE o
  BY <1>3, <1>4, <1>5, AppendProperties
<1>7. obj'[Parts] = o /\ \A i \in 1 .. Len(Ints) : obj'[i] = m
  BY SMTT(30), <1>1, <1>4, <1>6 DEF Midway
<1>8. Pos' = End(m)
  BY <1>1, Layout
<1>9. At(buf, off, Bins[m]) = [k \in 1 .. Bins[m] |-> Byte(m, "data", k)]
  BY DEF At
<1>10. Complete(obj)'
  <2>1. obj'[Parts].buf = buf /\ obj'[Parts].at = off /\ obj'[Parts].size = Bins[m]
    BY <1>5, <1>7
  <2>2. mem' = mem /\ buf' = buf /\ done' = done
    OBVIOUS
  <2> QED
    BY <1>7, <1>9, <2>1, <2>2 DEF Complete, Parts, At
<1> QED
  BY <1>1, <1>3, <1>6, <1>8, <1>10 DEF ParseInv, Parts, End

LEMMA NextParse == SpaceInv /\ ParseInv /\ [Next]_vars => ParseInv'
<1> SUFFICES ASSUME SpaceInv, ParseInv, [Next]_vars PROVE ParseInv'
  OBVIOUS
<1> DEFINE m == done + 1
<1>a. /\ got \in Int /\ off \in Int /\ used \in Int /\ Counter \in Int /\ Lost \in Int
      /\ done \in 0 .. Len(Bins) /\ rest \in 0 .. Parts /\ Len(Bins) \in Nat
      /\ Len(Ints) \in Nat /\ Parts = Len(Ints) + 1 /\ Parts \in Nat
      /\ cs \in {"header", "int", "bin", "data"} /\ obj \in Seq(Elements)
  <2>1. Len(Stream) \in Nat
    BY Ends
  <2> QED
    BY <2>1, Lengths, Constants DEF SpaceInv, ParseInv, Parts, Lost
\* The bytes are moved, but not parsed.
<1>b. ASSUME UNCHANGED <<cs, trail, rest, obj, done>>, Pos' = Pos,
             referenced' \in BOOLEAN, pc \in {"top", "recv", "next", "check"},
             pc' \in {"top", "recv", "next", "check", "leave", "wild"}
      PROVE  ParseInv'
  <2>1. Len(obj) <= Parts /\ (Between \/ Midway)
    BY <1>b DEF ParseInv
  <2>2. (Between => Between') /\ (Midway => Midway')
    BY <1>b DEF Between, Midway, Current, Parts, End, Start
  <2>3. pc' \notin {"finish", "handle"}
    BY <1>b
  <2> QED
    BY <1>a, <1>b, <2>1, <2>2, <2>3 DEF ParseInv, Parts
\* The state of the parser within an element
<1>c. ASSUME Midway, Midway', UNCHANGED <<rest, obj, done, pc, referenced>>,
             cs' \in {"header", "int", "bin", "data"}, pc = "next"
      PROVE  ParseInv'
  BY <1>a, <1>c DEF ParseInv, Parts
<1>d. Midway => /\ m \in 1 .. Len(Bins) /\ m \in Nat /\ done < Len(Bins)
                /\ Current \in 1 .. Parts /\ Bins[m] \in Nat
                /\ Start(m, Current) \in Nat /\ Start(m, Parts) \in Nat
                /\ \A i \in 1 .. Len(Ints) : Ints[i] \in Nat
  <2> SUFFICES ASSUME Midway PROVE /\ m \in 1 .. Len(Bins) /\ m \in Nat /\ done < Len(Bins)
                                   /\ Current \in 1 .. Parts /\ Bins[m] \in Nat
                                   /\ Start(m, Current) \in Nat /\ Start(m, Parts) \in Nat
                                   /\ \A i \in 1 .. Len(Ints) : Ints[i] \in Nat
    OBVIOUS
  <2>1. /\ m \in 1 .. Len(Bins) /\ m \in Nat /\ done < Len(Bins)
        /\ Current \in 1 .. Parts /\ Parts \in 1 .. Parts
    BY <1>a DEF Midway, Current
  <2>2. \A i \in 1 .. Parts : Start(m, i) \in Nat
    BY <2>1, Layout
  <2> QED
    BY <2>1, <2>2, Lengths
<1>e. up' = up => Lost' = Lost
  BY DEF Lost
<1>1. CASE Leave
  <2>1. UNCHANGED <<cs, rest, obj, done, referenced>> /\ pc' = "ended"
    BY <1>1 DEF Leave
  <2> QED
    BY <1>a, <2>1 DEF ParseInv, Parts
<1>2. CASE Keep
  <2>1. /\ UNCHANGED <<cs, trail, rest, obj, done, referenced, got, up>>
        /\ pc = "top" /\ pc' = "recv"
        /\ UNCHANGED <<used, off>> \/ (used = off /\ used' = Counter /\ off' = Counter)
    BY <1>2 DEF Keep, Rewinds, parse
  <2>2. Pos' = Pos
    BY <1>a, <1>e, <2>1 DEF Pos
  <2>3. referenced' \in BOOLEAN
    BY <2>1 DEF ParseInv
  <2> QED
    BY <1>b, <2>1, <2>2, <2>3
<1>3. CASE Move
  <2>1. /\ UNCHANGED <<cs, trail, rest, obj, done, got, up>>
        /\ pc = "top" /\ pc' = "recv" /\ referenced' = FALSE
        /\ used' = Counter + used - off /\ off' = Counter
    BY <1>3 DEF Move
  <2>2. Pos' = Pos
    BY <1>a, <1>e, <2>1 DEF Pos
  <2> QED
    BY <1>b, <2>1, <2>2
<1>4. CASE Recv
  <2>1. /\ UNCHANGED <<cs, trail, rest, obj, done, referenced, up, off>>
        /\ pc = "recv" /\ pc' = "next"
        /\ \E k \in 1 .. free : got' = got + k /\ used' = used + k
    BY <1>4 DEF Recv, parse
  <2>2. free \in Int
    BY <1>a, Constants DEF free
  <2>3. Pos' = Pos
    BY <1>a, <1>e, <2>1, <2>2 DEF Pos
  <2>4. referenced' \in BOOLEAN
    BY <2>1 DEF ParseInv
  <2> QED
    BY <1>b, <2>1, <2>3, <2>4
<1>5. CASE RecvError
  <2>1. /\ UNCHANGED <<cs, trail, rest, obj, done, referenced, off, got>>
        /\ pc = "recv" /\ pc' \in {"wild", "next"}
        /\ Lost = 0 /\ Lost' = 1 /\ used' = used - 1
    BY <1>5 DEF RecvError, parse, Lost
  <2>2. Pos' = Pos
    BY <1>a, <2>1 DEF Pos
  <2>3. referenced' \in BOOLEAN
    BY <2>1 DEF ParseInv
  <2> QED
    BY <1>b, <2>1, <2>2, <2>3
<1>6. CASE Parse
  <2>1. /\ UNCHANGED <<got, up, mem, buf, used, done>> /\ Element /\ pc = "next"
    BY <1>6 DEF Parse, ParseArray, ParseHeader, ParseInt, ParseSize,
         ParseData, Element, space
  <2>2. Between \/ Midway
    BY <2>1 DEF ParseInv
  <2>3. off' \in Int => Pos' = Pos + (off' - off)
    BY <1>a, <1>e, <2>1 DEF Pos
  <2>4. Pos \in Int
    BY <2>1, NextByte
  <2>5. CASE ParseArray
    <3>1. /\ cs = "header" /\ byte.kind = "array" /\ off' = off + 1 /\ rest' = byte.val
          /\ obj' = << >> /\ UNCHANGED <<pc, cs, referenced>>
      BY <2>5 DEF ParseArray
    <3>2. Between
      <4> SUFFICES ASSUME Midway PROVE FALSE
        BY <2>2
      <4>1. Current <= Len(Ints) \/ Current = Parts
        BY <1>a, <1>d
      <4>2. byte \in {Byte(m, "int", Ints[Current]), Byte(m, "bin", 1)}
        BY <2>1, <3>1, <4>1, Expected
      <4> QED
        BY <3>1, <4>2 DEF Byte
    <3>3. byte = Byte(m, "array", Parts) /\ m \in 1 .. Len(Bins) /\ done < Len(Bins)
      BY <1>a, <2>1, <3>2, Expected, NextByte
    <3>4. rest' = Parts /\ Current' = 1
      BY <1>a, <3>1, <3>3 DEF Byte, Current, Parts
    <3>5. Pos' = Start(m, 1)
      <4>1. Pos' = End(done) + 1
        BY <1>a, <2>3, <2>4, <3>1, <3>2 DEF Between
      <4>2. m - 1 = done
        BY <1>a
      <4> QED
        BY <3>3, <4>1, <4>2, Layout
    <3>6. obj' \in Seq(Elements) /\ Len(obj') = 0
      BY <3>1
    <3>7. Midway'
      BY <1>a, <2>1, <3>1, <3>3, <3>4, <3>5, <3>6 DEF Midway, Parts, Start, End
    <3> QED
      BY <1>a, <2>1, <3>1, <3>4, <3>6, <3>7 DEF ParseInv, Parts
  <2>6. CASE ParseHeader
    <3>1. /\ cs = "header" /\ rest > 0 /\ off' = off + 1
          /\ UNCHANGED <<referenced>>
          /\ IF byte.val = 0 THEN Visited(byte.msg) /\ UNCHANGED trail
             ELSE /\ cs' = byte.kind /\ trail' = byte.val
                  /\ UNCHANGED <<pc, rest, obj>>
      BY <2>6 DEF ParseHeader
    <3>2. Midway
      BY <2>2, <3>1 DEF Between
    <3>3. Pos = Start(m, Current) /\ Pos' = Start(m, Current) + 1
      BY <1>a, <2>3, <2>4, <3>1, <3>2 DEF Midway
    <3>4. CASE Current <= Len(Ints)
      <4>1. byte = Byte(m, "int", Ints[Current])
        BY <2>1, <3>1, <3>2, <3>4, Expected
      <4>2. byte.msg = m /\ byte.kind = "int" /\ byte.val = Ints[Current]
            /\ Ints[Current] \in Nat
        BY <1>a, <1>d, <3>2, <3>4, <4>1 DEF Byte
      <4>3. CASE Ints[Current] = 0
        <5>1. Visited(m)
          BY <3>1, <4>2, <4>3
        <5>2. Pos' = Start(m, Current) + 1 + Ints[Current]
          BY <1>d, <3>2, <3>3, <4>3
        <5> QED
          BY <2>1, <3>1, <3>2, <3>4, <5>1, <5>2, VisitedInt
      <4>4. CASE Ints[Current] # 0
        <5>1. /\ cs' = "int" /\ trail' = Ints[Current] /\ UNCHANGED <<pc, rest, obj>>
          BY <3>1, <4>2, <4>4
        <5>2. Midway'
          BY <2>1, <3>2, <3>3, <3>4, <4>2, <4>4, <5>1
             DEF Midway, Current, Parts, Start, End
        <5> QED
          BY <1>c, <2>1, <3>1, <3>2, <5>1, <5>2
      <4> QED
        BY <4>3, <4>4
    <3>5. CASE Current = Parts
      <4>1. byte = Byte(m, "bin", 1)
        BY <2>1, <3>1, <3>2, <3>5, Expected
      <4>2. byte.kind = "bin" /\ byte.val = 1
        BY <4>1 DEF Byte
      <4>3. /\ cs' = "bin" /\ trail' = 1 /\ UNCHANGED <<pc, rest, obj>>
        BY <3>1, <4>2
      <4>4. Midway'
        BY <2>1, <3>2, <3>3, <3>5, <4>3 DEF Midway, Current, Parts, Start, End
      <4> QED
        BY <1>c, <2>1, <3>1, <3>2, <4>3, <4>4
    <3> QED
      BY <1>a, <1>d, <3>2, <3>4, <3>5
  <2>7. CASE ParseInt
    <3>1. /\ cs = "int" /\ off' = off + trail /\ Visited(byte.msg)
          /\ UNCHANGED referenced
      BY <2>7 DEF ParseInt
    <3>2. Midway
      BY <2>2, <3>1 DEF Between
    <3>3. /\ Current <= Len(Ints) /\ trail = Ints[Current]
          /\ Pos = Start(m, Current) + 1
      BY <3>1, <3>2 DEF Midway
    <3>4. byte.msg = m
      <4>1. byte = Byte(m, "more", 1)
        BY <2>1, <3>1, <3>2, Expected
      <4> QED
        BY <4>1 DEF Byte
    <3>5. Pos' = Start(m, Current) + 1 + Ints[Current]
      <4>1. trail \in Int /\ Start(m, Current) \in Nat /\ Current \in 1 .. Len(Ints)
        BY <1>a, <1>d, <3>2, <3>3
      <4>2. Pos' = Pos + trail
        BY <1>a, <2>3, <2>4, <3>1, <4>1
      <4> QED
        BY <3>3, <4>1, <4>2
    <3> QED
      BY <2>1, <3>1, <3>2, <3>3, <3>4, <3>5, VisitedInt
  <2>8. CASE ParseSize
    <3>1. /\ cs = "bin" /\ off' = off + 1
          /\ IF byte.val = 0
             THEN Visited(Bin(off, 0)) /\ referenced' = TRUE /\ UNCHANGED trail
             ELSE /\ cs' = "data" /\ trail' = byte.val
                  /\ UNCHANGED <<pc, rest, obj, referenced>>
      BY <2>8 DEF ParseSize
    <3>2. Midway
      BY <2>2, <3>1 DEF Between
    <3>3. /\ Current = Parts /\ Pos = Start(m, Parts) + 1
      BY <3>1, <3>2 DEF Midway
    <3>4. byte.val = Bins[m]
      <4>1. byte = Byte(m, "size", Bins[m])
        BY <2>1, <3>1, <3>2, Expected
      <4> QED
        BY <4>1 DEF Byte
    <3>5. Pos' = Start(m, Parts) + 2
      BY <1>a, <1>d, <2>3, <2>4, <3>1, <3>2, <3>3
    <3>6. CASE Bins[m] = 0
      <4>1. Visited(Bin(off, Bins[m])) /\ referenced' \in BOOLEAN
        BY <3>1, <3>4, <3>6
      <4>2. Pos' = Start(m, Parts) + 2 + Bins[m]
        BY <1>d, <3>2, <3>5, <3>6
      <4>3. \A k \in 1 .. Bins[m] : mem[buf][off + k - 1] = Byte(m, "data", k)
        BY <3>6
      <4> QED
        BY <2>1, <3>2, <3>3, <4>1, <4>2, <4>3, VisitedBin
    <3>7. CASE Bins[m] # 0
      <4>1. /\ cs' = "data" /\ trail' = Bins[m] /\ UNCHANGED <<pc, rest, obj, referenced>>
        BY <3>1, <3>4, <3>7
      <4>2. Midway'
        BY SMTT(30), <1>d, <2>1, <3>2, <3>3, <3>5, <3>7, <4>1
           DEF Midway, Current, Parts, Start, End
      <4> QED
        BY <1>c, <2>1, <3>2, <4>1, <4>2
    <3> QED
      BY <3>6, <3>7
  <2>9. CASE ParseData
    <3>1. /\ cs = "data" /\ off' = off + trail /\ used - off >= trail
          /\ Visited(Bin(off, trail)) /\ referenced' = TRUE
      BY <2>9 DEF ParseData
    <3>2. Midway
      BY <2>2, <3>1 DEF Between
    <3>3. /\ Current = Parts /\ trail = Bins[m] /\ Pos = Start(m, Parts) + 2
      BY <3>1, <3>2 DEF Midway
    <3>4. Pos' = Start(m, Parts) + 2 + Bins[m]
      <4>1. trail \in Int /\ Start(m, Parts) \in Nat
        BY <1>d, <3>2, <3>3
      <4>2. Pos' = Pos + trail
        BY <1>a, <2>3, <2>4, <3>1, <4>1
      <4> QED
        BY <3>3, <4>1, <4>2
    <3>5. ASSUME NEW k \in 1 .. Bins[m]
          PROVE  mem[buf][off + k - 1] = Byte(m, "data", k)
      <4>1. k \in 1 .. used - off
        BY SMTT(30), <1>a, <1>d, <3>1, <3>2, <3>3
      <4>2. mem[buf][off + k - 1] = Stream[Start(m, Parts) + 2 + k]
        BY <2>1, <3>3, <4>1, NextByte
      <4> QED
        BY <1>d, <3>2, <4>2, Layout
    <3>6. Visited(Bin(off, Bins[m])) /\ referenced' \in BOOLEAN
      BY <3>1, <3>3
    <3> QED
      BY <2>1, <3>2, <3>3, <3>4, <3>5, <3>6, VisitedBin
  <2> QED
    BY <1>6, <2>5, <2>6, <2>7, <2>8, <2>9 DEF Parse
<1>7. CASE Finish
  <2>1. /\ UNCHANGED <<cs, rest, done, got, up, used, off, mem, buf>>
        /\ pc = "finish" /\ pc' = "handle" /\ oh'.obj = obj
        /\ referenced' = FALSE /\ obj' = << >>
    BY <1>7 DEF Finish, space
  <2>2. Pos' = Pos
    BY <1>e, <2>1 DEF Pos
  <2>3. /\ rest = 0 /\ cs = "header" /\ done < Len(Bins) /\ Pos = End(done + 1)
        /\ Complete(obj)
    BY <2>1 DEF ParseInv
  <2>4. Complete(oh.obj)'
    BY <2>1, <2>3 DEF Complete, At, Parts
  <2>5. obj' \in Seq(Elements) /\ Len(obj') = 0
    BY <2>1
  <2>6. Pos' = End(done + 1)'
    BY <2>1, <2>2, <2>3 DEF End
  <2>7. /\ cs' = "header" /\ rest' = 0 /\ rest' \in 0 .. Parts /\ done' < Len(Bins)
        /\ done' \in 0 .. Len(Bins) /\ Len(obj') <= Parts
    BY <1>a, <2>1, <2>3, <2>5
  <2> QED
    BY <2>1, <2>4, <2>5, <2>6, <2>7 DEF ParseInv, Parts
<1>8. CASE Handle
  <2>1. /\ UNCHANGED <<cs, rest, obj, referenced, got, up, used, off>>
        /\ pc = "handle" /\ pc' = "next" /\ done' = done + 1
    BY <1>8 DEF Handle, parse, space
  <2>2. /\ rest = 0 /\ cs = "header" /\ done < Len(Bins) /\ Pos = End(done + 1)
        /\ Len(obj) <= Parts /\ referenced \in BOOLEAN
    BY <2>1 DEF ParseInv
  <2>3. Pos' = Pos
    BY <1>e, <2>1 DEF Pos
  <2>4. Between'
    BY <2>1, <2>2, <2>3 DEF Between, End
  <2> QED
    BY <1>a, <2>1, <2>2, <2>4 DEF ParseInv, Parts
<1>9. CASE More \/ Check
  <2>1. /\ UNCHANGED <<cs, trail, rest, obj, done, referenced, got, up, used, off>>
        /\ pc \in {"next", "check"} /\ pc' \in {"check", "top", "leave"}
    BY <1>9 DEF More, Check, parse, space
  <2>2. Pos' = Pos
    BY <1>e, <2>1 DEF Pos
  <2>3. referenced' \in BOOLEAN
    BY <2>1 DEF ParseInv
  <2> QED
    BY <1>b, <2>1, <2>2, <2>3
<1>10. CASE UNCHANGED vars
  BY <1>10 DEF vars, parse, space, ParseInv, Between, Midway, Complete, Pos, Lost,
       Current, Parts, Start, End, At
<1> QED
  BY <1>1, <1>2, <1>3, <1>4, <1>5, <1>6, <1>7, <1>8, <1>9, <1>10 DEF Next, Work

Inv == CountInv /\ SpaceInv /\ ParseInv

LEMMA Invariance == Spec => []Inv
<1>1. Init => Inv
  BY InitCounts, InitSpace, InitParse DEF Inv
<1>2. Inv /\ [Next]_vars => Inv'
  BY NextCounts, NextSpace, NextParse DEF Inv
<1> QED
  BY <1>1, <1>2, PTL DEF Spec

\* The state of the receive thread and of the unpacker stays in its ranges;
\* in particular no message of the stream is handled twice, no buffer has more
\* than two owners and the parser never runs past the bytes received, except
\* where a reset connection took back a byte that was parsed.
THEOREM TypeCorrect == Spec => []TypeOK
<1>1. Inv => TypeOK
  <2> SUFFICES ASSUME Inv PROVE TypeOK
    OBVIOUS
  <2>1. count \in [Buffers -> 0 .. 2]
    <3>1. \A b \in Buffers : count[b] \in 0 .. 2
      BY DEF Inv, CountInv
    <3> QED
      BY <3>1 DEF Inv, CountInv
  <2> QED
    BY <2>1, Lengths DEF Inv, CountInv, SpaceInv, ParseInv, Parts, TypeOK
<1> QED
  BY <1>1, Invariance, PTL

\* The handler is given every message once, in order and whole: the integers
\* of the next message, and a bin that points into a buffer that is still
\* counted and still holds the bytes that were sent.
THEOREM MessagesWhole == Spec => []HandleGood
<1>1. Inv => HandleGood
  <2> SUFFICES ASSUME Inv, pc = "handle" PROVE HandleGood
    BY DEF HandleGood
  <2>1. done < Len(Bins) /\ done \in Nat /\ Complete(oh.obj)
    BY Lengths DEF Inv, ParseInv
  <2>2. count[buf] > 0
    BY DEF Inv, CountInv
  <2>3. done + 1 <= Len(Bins)
    BY <2>1, Lengths
  <2> QED
    BY <2>1, <2>2, <2>3, Lengths DEF HandleGood, Complete, Parts
<1> QED
  BY <1>1, Invariance, PTL

\* The parser takes no byte for a header that was not sent as one.
THEOREM ParserInStep == Spec => []InStep
<1>1. Inv => InStep
  <2> SUFFICES ASSUME Inv, pc = "next", off < used, cs = "header"
               PROVE  byte.kind \in IF rest = 0 THEN {"array"} ELSE {"int", "bin"}
    BY DEF InStep
  <2>1. SpaceInv /\ ParseInv /\ Element /\ (Between \/ Midway)
    BY DEF Inv, ParseInv, Element
  <2>2. CASE Between
    <3>1. byte = Byte(done + 1, "array", Parts)
      BY <2>1, <2>2, Expected
    <3> QED
      BY <2>2, <3>1 DEF Byte, Between
  <2>3. CASE Midway
    <3>1. Current <= Len(Ints) \/ Current = Parts
      <4>1. rest \in 0 .. Parts /\ rest > 0 /\ Len(Ints) \in Nat /\ Parts = Len(Ints) + 1
        BY <2>1, <2>3, Lengths DEF Midway, ParseInv, Parts
      <4> QED
        BY <4>1 DEF Current
    <3>2. byte \in {Byte(done + 1, "int", Ints[Current]), Byte(done + 1, "bin", 1)}
      BY <2>1, <2>3, <3>1, Expected
    <3>3. rest # 0
      BY <2>1, <2>3 DEF Midway, ParseInv
    <3> QED
      BY <3>2, <3>3 DEF Byte
  <2> QED
    BY <2>1, <2>2, <2>3
<1> QED
  BY <1>1, Invariance, PTL
----------------------------------------------------------------------------
\* No element of a message is larger than what threadConnRecv reserves.
Small ==
  /\ \A i \in 1 .. Len(Ints) : Ints[i] <= Reserve
  /\ \A m \in 1 .. Len(Bins) : Bins[m] <= Reserve

\* What an element lacks when the bytes run out is then at most Reserve.
FitInv == pc # "leave" /\ (pc = "check" => used - off <= Reserve)

LEMMA NextFit == Small /\ Inv /\ FitInv /\ [Next]_vars => FitInv'
<1> SUFFICES ASSUME Small, Inv, FitInv, [Next]_vars PROVE FitInv'
  OBVIOUS
<1>1. CASE More
  <2>1. /\ UNCHANGED <<used, off>> /\ pc = "next" /\ pc' = "check"
        /\ off = used \/ (cs # "header" /\ used - off < trail)
    BY <1>1 DEF More, parse, space
  <2>2. /\ used \in Int /\ off \in Int /\ Reserve \in Nat
    BY Constants DEF Inv, SpaceInv
  <2>3. CASE off = used
    BY <2>1, <2>2, <2>3 DEF FitInv
  <2>4. CASE cs # "header" /\ used - off < trail
    <3>1. Midway /\ cs \in {"int", "bin", "data"}
      BY <2>1, <2>4 DEF Inv, ParseInv, Between
    <3>2. done + 1 \in 1 .. Len(Bins) /\ (cs = "int" => Current \in 1 .. Len(Ints))
      BY <3>1, Lengths DEF Midway, Inv, ParseInv, Current, Parts
    <3>3. trail \in Nat /\ trail <= Reserve
      BY Constants, <2>2, <3>1, <3>2, Lengths DEF Midway, Small
    <3> QED
      BY <2>1, <2>2, <2>4, <3>3 DEF FitInv
  <2> QED
    BY <2>1, <2>3, <2>4
<1>2. CASE Check
  <2>1. pc = "check" /\ pc' = IF used - off > Reserve THEN "leave" ELSE "top"
    BY <1>2 DEF Check
  <2>2. used \in Int /\ off \in Int /\ Reserve \in Nat
    BY Constants DEF Inv, SpaceInv
  <2> QED
    BY <2>1, <2>2 DEF FitInv
<1>3. CASE Leave \/ Keep \/ Move \/ Recv \/ RecvError \/ Parse \/ Finish \/ Handle
  <2>1. pc' \in {"ended", "recv", "next", "wild", "finish", "handle"}
    BY <1>3 DEF Leave, Keep, Move, Recv, RecvError, Parse, ParseArray, ParseHeader,
         ParseInt, ParseSize, ParseData, Element, Visited, Finish, Handle
  <2> QED
    BY <2>1 DEF FitInv
<1>4. CASE UNCHANGED vars
  BY <1>4 DEF vars, space, FitInv
<1> QED
  BY <1>1, <1>2, <1>3, <1>4 DEF Next, Work

\* A peer that sends such messages is never given up for its unparsed bytes,
\* and the buffer never has to grow.
THEOREM SmallMessagesFit == Small /\ Spec => []Fits
<1>1. Init => FitInv
  BY DEF Init, FitInv
<1>2. Small /\ FitInv /\ []Inv /\ [][Next]_vars => []FitInv
  <2> SUFFICES ASSUME Small PROVE FitInv /\ []Inv /\ [][Next]_vars => []FitInv
    OBVIOUS
  <2>1. Inv /\ FitInv /\ [Next]_vars => FitInv'
    BY NextFit
  <2> QED
    BY <2>1, PTL
<1>3. Inv /\ FitInv => Fits
  <2> SUFFICES ASSUME Inv, FitInv, pc = "top", free < Reserve PROVE off > Counter
    BY DEF Fits, FitInv
  <2> QED
    BY Constants DEF Inv, SpaceInv, free
<1> QED
  BY <1>1, <1>2, <1>3, Invariance, PTL DEF Spec
=============================================================================
