---------------------------- MODULE RoundTripProofs ----------------------------
(***************************************************************************)
(* Parsing inverts encoding, for every base, word size and credential.     *)
(* Both the encoding and the reference are recursive functions; that they  *)
(* satisfy their own equations is proved here from the least number on     *)
(* which they would not.                                                   *)
(***************************************************************************)
EXTENDS CredentialEncoding, CredentialParserProofs, WellFoundedInduction

Digits == 0 .. Base - 1

LEMMA LeastNatural ==
    ASSUME NEW T, T \subseteq Nat, T # {}
    PROVE  \E m \in T : \A k \in T : m <= k
  <1> DEFINE R == OpToRel(<, Nat)
  <1>1. IsWellFoundedOn(R, Nat) BY NatLessThanWellFounded
  <1>2. \A k, m \in Nat : k < m => <<k, m>> \in R BY DEF OpToRel
  <1> HIDE DEF R
  <1>3. \E m \in T : \A k \in T : ~(<<k, m>> \in R) BY <1>1, WFMin
  <1>4. PICK m \in T : \A k \in T : ~(<<k, m>> \in R) BY <1>3
  <1>5. ASSUME NEW k \in T PROVE m <= k
    <2>1. k \in Nat /\ m \in Nat OBVIOUS
    <2>2. ~(k < m) BY <1>2, <1>4, <2>1
    <2> QED BY <2>1, <2>2
  <1> QED BY <1>5

-----------------------------------------------------------------------------
(* Four digits and the number they stand for. *)

\* The quotient and the remainder are the only ones.
LEMMA Division ==
    ASSUME NEW m \in Nat, m > 0, NEW q \in Nat, NEW r \in 0 .. m - 1
    PROVE  (q * m + r) \div m = q /\ (q * m + r) % m = r
  <1> DEFINE n == q * m + r
             d == n \div m
             s == n % m
  <1>0. q * m \in Nat OBVIOUS
  <1>1. n \in Nat BY <1>0
  <1>2. d \in Int /\ s \in 0 .. m - 1 /\ n = m * d + s
    <2> HIDE DEF n
    <2> QED BY <1>1
  <1>3. m * d + s = q * m + r BY <1>2
  <1> HIDE DEF n, d, s
  <1>4. ~(d > q)
    <2> SUFFICES ASSUME d >= q + 1 PROVE FALSE BY <1>2
    <2>1. m * d >= m * (q + 1) BY <1>2
    <2>2. m * (q + 1) = q * m + m OBVIOUS
    <2> QED BY <1>2, <1>3, <2>1, <2>2, <1>0
  <1>5. ~(q > d)
    <2> SUFFICES ASSUME q >= d + 1 PROVE FALSE BY <1>2
    <2>1. m * q >= m * (d + 1) BY <1>2
    <2>2. m * (d + 1) = m * d + m /\ m * d \in Int BY <1>2
    <2>3. m * q = q * m OBVIOUS
    <2> QED BY <1>2, <1>3, <2>1, <2>2, <2>3, <1>0
  <1>6. d = q BY <1>2, <1>4, <1>5
  <1>7. s = r
    <2>1. m * d = q * m BY <1>6
    <2> QED BY <1>2, <1>3, <2>1, <1>0
  <1> QED BY <1>6, <1>7 DEF n, d, s

Value(a, b, c, d) == ((a * Base + b) * Base + c) * Base + d

\* The encoder writes the digits of the number.
LEMMA DigitsWritten ==
    ASSUME NEW a \in Digits, NEW b \in Digits, NEW c \in Digits, NEW d \in Digits
    PROVE  BigEndian(Value(a, b, c, d)) = <<a, b, c, d>>
  <1> DEFINE n2 == a * Base + b
             n3 == n2 * Base + c
             n4 == n3 * Base + d
             B2 == Base * Base
             B3 == Base * Base * Base
  <1>1. Base \in Nat /\ Base >= 2 BY BaseAssumption
  <1>2. a \in Nat /\ n2 \in Nat /\ n3 \in Nat BY <1>1 DEF Digits
  <1>3. B2 \in Nat /\ B2 > 0 /\ B3 \in Nat /\ B3 > 0
    <2>1. B2 \in Nat /\ B2 >= Base BY <1>1
    <2> QED BY <1>1, <2>1
  <1>4. c * Base + d \in 0 .. B2 - 1
    <2>1. c \in Nat /\ d \in Nat /\ d < Base /\ c + 1 <= Base BY <1>1 DEF Digits
    <2>2. (c + 1) * Base <= Base * Base BY <1>1, <2>1
    <2>3. (c + 1) * Base = c * Base + Base /\ c * Base \in Nat BY <1>1, <2>1
    <2> QED BY <1>1, <1>3, <2>1, <2>2, <2>3
  <1>5. (b * Base + c) * Base + d \in 0 .. B3 - 1
    <2>1. b \in Nat /\ b + 1 <= Base /\ c \in Nat /\ c * Base + d \in 0 .. B2 - 1
      BY <1>1, <1>4 DEF Digits
    <2>2. (b + 1) * B2 <= Base * B2 BY <1>1, <1>3, <2>1
    <2>3. (b + 1) * B2 = b * B2 + B2 /\ b * B2 \in Nat BY <1>3, <2>1
    <2>4. Base * B2 = B3 BY <1>1
    <2>5. (b * Base + c) * Base + d = b * B2 + (c * Base + d) BY <1>1, <2>1 DEF Digits
    <2> HIDE DEF B2, B3
    <2> QED BY <1>3, <2>1, <2>2, <2>3, <2>4, <2>5
  <1>6. n4 % Base = d /\ n4 \div Base = n3
    <2> HIDE DEF n3
    <2> QED BY <1>1, <1>2, Division DEF Digits
  <1>7. n3 % Base = c
    <2> HIDE DEF n2
    <2> QED BY <1>1, <1>2, Division DEF Digits
  <1>8. n4 \div B2 = n2
    <2>1. n4 = n2 * B2 + (c * Base + d) BY <1>1, <1>2 DEF Digits
    <2> HIDE DEF n2, n4, B2
    <2> QED BY <1>2, <1>3, <1>4, <2>1, Division
  <1>9. n2 % Base = b BY <1>1, <1>2, Division DEF Digits
  <1>10. n4 \div B3 = a
    <2>1. n4 = a * B3 + ((b * Base + c) * Base + d) BY <1>1, <1>2 DEF Digits
    <2> HIDE DEF n4, B3
    <2> QED BY <1>2, <1>3, <1>5, <2>1, Division
  <1>11. a % Base = a
    <2>1. a = 0 * Base + a BY <1>1, <1>2
    <2> QED BY <1>1, <2>1, Division DEF Digits
  <1>12. BigEndian(n4) = <<a, b, c, d>>
    <2> HIDE DEF n4, n3, n2
    <2> QED BY <1>6, <1>7, <1>8, <1>9, <1>10, <1>11 DEF BigEndian
  <1> QED BY <1>12 DEF Value

\* Every number below U32Mod has four digits.
LEMMA DigitsExist ==
    ASSUME NEW n \in Nat, n < U32Mod
    PROVE  \E a, b, c, d \in Digits : n = Value(a, b, c, d)
  <1> DEFINE q1 == n \div Base
             q2 == q1 \div Base
             q3 == q2 \div Base
  <1>1. Base \in Nat /\ Base >= 2 BY BaseAssumption
  <1>2. \A x \in Nat : /\ x \div Base \in Nat /\ x % Base \in Digits
                       /\ x = (x \div Base) * Base + (x % Base)
    BY <1>1 DEF Digits
  <1>3. q1 \in Nat /\ n = q1 * Base + (n % Base) /\ n % Base \in Digits BY <1>2
  <1>4. q2 \in Nat /\ q1 = q2 * Base + (q1 % Base) /\ q1 % Base \in Digits
    BY <1>2, <1>3
  <1>5. q3 \in Nat /\ q2 = q3 * Base + (q2 % Base) /\ q2 % Base \in Digits
    BY <1>2, <1>4
  <1> HIDE DEF q1, q2, q3
  <1>6. q3 < Base
    <2> SUFFICES ASSUME q3 >= Base PROVE FALSE BY <1>1, <1>5
    <2>1. \A x, y \in Nat : x >= y => x * Base >= y * Base BY <1>1
    <2>2. Base * Base \in Nat /\ Base * Base * Base \in Nat BY <1>1
    <2>3. q2 >= Base * Base BY <1>1, <1>5, <2>1 DEF Digits
    <2>4. q1 >= Base * Base * Base BY <1>1, <1>4, <1>5, <2>1, <2>2, <2>3 DEF Digits
    <2>5. n >= Base * Base * Base * Base BY <1>1, <1>3, <1>4, <2>1, <2>2, <2>4 DEF Digits
    <2>6. n >= U32Mod BY <2>5 DEF U32Mod
    <2>7. U32Mod \in Nat BY U32ModBounds
    <2> QED BY <2>6, <2>7
  <1>7. q3 \in Digits BY <1>1, <1>5, <1>6 DEF Digits
  <1>8. n = Value(q3, q2 % Base, q1 % Base, n % Base) BY <1>3, <1>4, <1>5 DEF Value
  <1> QED BY <1>3, <1>4, <1>5, <1>7, <1>8

\* What the encoder writes in front of a message of n bytes, the parser reads as
\* n, and there is only one n that it can have been written for.
LEMMA PrefixRead ==
    ASSUME NEW c \in Seq(Digits), NEW at \in Nat, at + 4 <= Len(c)
    PROVE  /\ SubSeq(c, at + 1, at + 4) = BigEndian(U32At(c, at))
           /\ \A n \in Nat :
                n < U32Mod /\ SubSeq(c, at + 1, at + 4) = BigEndian(n) => U32At(c, at) = n
  <1> DEFINE s == SubSeq(c, at + 1, at + 4)
             w == <<c[at + 1], c[at + 2], c[at + 3], c[at + 4]>>
  <1>1. \A i \in 1 .. 4 : at + i \in 1 .. Len(c) /\ c[at + i] \in Digits
    BY ElementOfSeq
  <1>2. /\ c[at + 1] \in Digits /\ c[at + 2] \in Digits
        /\ c[at + 3] \in Digits /\ c[at + 4] \in Digits
    BY <1>1
  <1>3. s = w
    <2>1. \A i \in at + 1 .. at + 4 : c[i] \in Digits BY ElementOfSeq
    <2>2. s \in Seq(Digits) /\ Len(s) = 4 /\ \A i \in 1 .. 4 : s[i] = c[at + 1 + i - 1]
      BY <2>1, SubSeqProperties
    <2>3. w \in Seq(Digits) /\ Len(w) = 4 BY <1>2
    <2>4. \A i \in 1 .. 4 : s[i] = w[i] BY <2>2
    <2> QED BY <2>2, <2>3, <2>4, SeqEqual
  <1>4. U32At(c, at) = Value(c[at + 1], c[at + 2], c[at + 3], c[at + 4])
    BY DEF U32At, Value
  <1>5. s = BigEndian(U32At(c, at))
    <2>1. BigEndian(Value(c[at + 1], c[at + 2], c[at + 3], c[at + 4])) = w
      BY <1>2, DigitsWritten
    <2> HIDE DEF s, w
    <2> QED BY <1>3, <1>4, <2>1
  <1>6. ASSUME NEW n \in Nat, n < U32Mod, s = BigEndian(n)
        PROVE  U32At(c, at) = n
    <2>1. PICK e1, e2, e3, e4 \in Digits : n = Value(e1, e2, e3, e4)
      BY <1>6, DigitsExist
    <2>2. w = <<e1, e2, e3, e4>> BY <1>3, <1>6, <2>1, DigitsWritten
    <2>3. c[at + 1] = e1 /\ c[at + 2] = e2 /\ c[at + 3] = e3 /\ c[at + 4] = e4 BY <2>2
    <2> QED BY <1>4, <2>1, <2>3
  <1> QED BY <1>5, <1>6
-----------------------------------------------------------------------------
(* FlattenSeq, whose definition is a recursive function of the index. *)

\* f[i] is the first i elements of s, one after the other.
IsFlatten(f, s, n) == f = [i \in 1 .. n |-> IF i = 1 THEN s[i] ELSE f[i - 1] \o s[i]]

\* There is such a function.
LEMMA FlattenExists ==
    ASSUME NEW s, NEW n \in Nat
    PROVE  \E f : IsFlatten(f, s, n)
  <1> DEFINE T == {m \in Nat : ~ \E f : IsFlatten(f, s, m)}
  <1> SUFFICES ASSUME T # {} PROVE FALSE OBVIOUS
  <1>1. PICK m \in T : \A k \in T : m <= k BY LeastNatural
  <1>2. m # 0
    <2>1. IsFlatten([i \in 1 .. 0 |-> 0], s, 0) BY DEF IsFlatten
    <2> QED BY <2>1
  <1>3. m - 1 \in Nat /\ ~(m - 1 \in T) BY <1>1, <1>2
  <1>4. PICK f : IsFlatten(f, s, m - 1) BY <1>3
  <1> DEFINE g == [i \in 1 .. m |->
                     IF i < m THEN f[i] ELSE IF i = 1 THEN s[i] ELSE f[i - 1] \o s[i]]
  <1>5. ASSUME NEW i \in 1 .. m
        PROVE  g[i] = IF i = 1 THEN s[i] ELSE g[i - 1] \o s[i]
    <2>1. CASE i < m
      <3>1. i \in 1 .. m - 1 BY <2>1
      <3>2. f[i] = IF i = 1 THEN s[i] ELSE f[i - 1] \o s[i] BY <1>4, <3>1 DEF IsFlatten
      <3>3. i # 1 => g[i - 1] = f[i - 1] BY <3>1
      <3> QED BY <2>1, <3>2, <3>3
    <2>2. CASE i = m
      <3>1. i # 1 => g[i - 1] = f[i - 1] BY <1>3, <2>2
      <3> QED BY <2>2, <3>1
    <2> QED BY <2>1, <2>2
  <1>6. IsFlatten(g, s, m) BY <1>5 DEF IsFlatten
  <1> QED BY <1>1, <1>6

\* Two of them agree wherever the sequences do.
LEMMA FlattenAgree ==
    ASSUME NEW s, NEW t, NEW n \in Nat, NEW m \in Nat, m >= n,
           NEW f, NEW g, IsFlatten(f, s, n), IsFlatten(g, t, m),
           \A i \in 1 .. n : s[i] = t[i]
    PROVE  \A i \in 1 .. n : f[i] = g[i]
  <1> DEFINE T == {i \in 1 .. n : f[i] # g[i]}
  <1> SUFFICES ASSUME T # {} PROVE FALSE OBVIOUS
  <1>1. PICK i \in T : \A k \in T : i <= k
    <2>1. T \subseteq Nat OBVIOUS
    <2> HIDE DEF T
    <2> QED BY <2>1, LeastNatural
  <1>2. i \in 1 .. n /\ i \in 1 .. m OBVIOUS
  <1>3. f[i] = IF i = 1 THEN s[i] ELSE f[i - 1] \o s[i] BY <1>2 DEF IsFlatten
  <1>4. g[i] = IF i = 1 THEN t[i] ELSE g[i - 1] \o t[i] BY <1>2 DEF IsFlatten
  <1>5. i # 1 => f[i - 1] = g[i - 1]
    <2> SUFFICES ASSUME i # 1 PROVE f[i - 1] = g[i - 1] OBVIOUS
    <2>1. i - 1 \in 1 .. n /\ ~(i - 1 \in T) BY <1>1, <1>2
    <2> QED BY <2>1
  <1> QED BY <1>2, <1>3, <1>4, <1>5

\* Flattening takes the last element off and puts it behind the rest.
LEMMA FlattenAppend ==
    ASSUME NEW D, NEW s \in Seq(D), NEW t \in Seq(D), Len(t) = Len(s) + 1,
           \A i \in 1 .. Len(s) : t[i] = s[i]
    PROVE  FlattenSeq(t) = IF s = <<>> THEN t[1] ELSE FlattenSeq(s) \o t[Len(t)]
  <1> DEFINE n == Len(s)
             f == CHOOSE f : IsFlatten(f, s, n)
             g == CHOOSE g : IsFlatten(g, t, n + 1)
  <1>1. n \in Nat /\ n + 1 \in Nat /\ Len(t) = n + 1 OBVIOUS
  <1>2. IsFlatten(f, s, n) /\ IsFlatten(g, t, n + 1) BY <1>1, FlattenExists
  <1>3. FlattenSeq(t) = g[n + 1] BY <1>1 DEF FlattenSeq, IsFlatten
  <1>4. n # 0 => FlattenSeq(s) = f[n] BY <1>1 DEF FlattenSeq, IsFlatten
  <1> HIDE DEF f, g
  <1>5. g[n + 1] = IF n + 1 = 1 THEN t[n + 1] ELSE g[n + 1 - 1] \o t[n + 1]
    <2>1. n + 1 \in 1 .. n + 1 BY <1>1
    <2>2. \A i \in 1 .. n + 1 : g[i] = IF i = 1 THEN t[i] ELSE g[i - 1] \o t[i]
      BY <1>2 DEF IsFlatten
    <2> DEFINE i == n + 1
    <2>3. g[i] = IF i = 1 THEN t[i] ELSE g[i - 1] \o t[i]
      <3>1. i \in 1 .. n + 1 BY <2>1
      <3> HIDE DEF i
      <3> QED BY <2>2, <3>1
    <2> QED BY <2>3
  <1>6. \A i \in 1 .. n : f[i] = g[i]
    <2>1. n + 1 >= n /\ \A i \in 1 .. n : s[i] = t[i] BY <1>1
    <2> HIDE DEF n
    <2> QED BY <1>1, <1>2, <2>1, FlattenAgree
  <1>7. n # 0 => g[n] = f[n] BY <1>1, <1>6
  <1>8. s = <<>> <=> n = 0 OBVIOUS
  <1> QED BY <1>1, <1>3, <1>4, <1>5, <1>7, <1>8

-----------------------------------------------------------------------------
(* The reference, a recursive function of the position. *)

\* EncodingFrom[k] from the values e at the positions after k.
Continues(c, e, k) ==
    \/ k = Len(c)
    \/ \E n \in 0 .. Len(c) - k - 4 :
         /\ n < U32Mod
         /\ SubSeq(c, k + 1, k + 4) = BigEndian(n)
         /\ e[k + 4 + n]

IsEncodingFrom(c, e, first) == e = [k \in first .. Len(c) |-> Continues(c, e, k)]

\* Only the positions after k matter.
LEMMA ContinuesAgree ==
    ASSUME NEW c, Len(c) \in Nat, NEW k \in Nat, NEW d, NEW e,
           \A j \in k + 1 .. Len(c) : d[j] = e[j]
    PROVE  Continues(c, d, k) = Continues(c, e, k)
  <1>1. \A n \in 0 .. Len(c) - k - 4 : k + 4 + n \in k + 1 .. Len(c) OBVIOUS
  <1>2. \A n \in 0 .. Len(c) - k - 4 : d[k + 4 + n] = e[k + 4 + n] BY <1>1
  <1> QED BY <1>2 DEF Continues

LEMMA EncodingExists ==
    ASSUME NEW c, Len(c) \in Nat, NEW first \in 0 .. Len(c)
    PROVE  \E e : IsEncodingFrom(c, e, first)
  <1> DEFINE N == Len(c)
             T == {m \in 0 .. N : ~ \E e : IsEncodingFrom(c, e, N - m)}
  <1>0. N \in Nat OBVIOUS
  <1> HIDE DEF N
  <1> SUFFICES ASSUME T # {} PROVE FALSE
    <2>1. N - first \in 0 .. N /\ N - (N - first) = first BY <1>0 DEF N
    <2> QED BY <2>1
  <1>1. PICK m \in T : \A k \in T : m <= k
    <2>1. T \subseteq Nat BY <1>0
    <2> HIDE DEF T
    <2> QED BY <2>1, LeastNatural
  <1>2. m \in 0 .. N /\ m \in Nat BY <1>0
  <1>3. m # 0
    <2> DEFINE e == [k \in N .. N |-> TRUE]
    <2>1. \A k \in N .. N : Continues(c, e, k) = TRUE BY <1>0 DEF Continues, N
    <2>2. IsEncodingFrom(c, e, N)
      <3> HIDE DEF e
      <3>1. e = [k \in N .. N |-> TRUE] BY DEF e
      <3> QED BY <2>1, <3>1 DEF IsEncodingFrom, N
    <2>3. N - 0 = N BY <1>0
    <2> HIDE DEF e
    <2> QED BY <1>2, <2>2, <2>3
  <1>4. m - 1 \in 0 .. N /\ ~(m - 1 \in T) /\ N - (m - 1) = N - m + 1
    <2>1. m - 1 \in 0 .. N /\ ~(m <= m - 1) /\ N - (m - 1) = N - m + 1
      BY <1>0, <1>2, <1>3
    <2> HIDE DEF T
    <2> QED BY <1>1, <2>1
  <1>5. PICK d : IsEncodingFrom(c, d, N - m + 1) BY <1>4
  <1> DEFINE e == [k \in N - m .. N |-> IF k = N - m THEN Continues(c, d, k) ELSE d[k]]
  <1>6. ASSUME NEW k \in N - m .. N PROVE e[k] = Continues(c, e, k)
    <2>1. k \in Nat BY <1>0, <1>2
    <2>2. \A j \in k + 1 .. N : d[j] = e[j] BY <1>0, <1>2, <2>1
    <2>3. Continues(c, d, k) = Continues(c, e, k)
      <3> HIDE DEF e
      <3> QED BY <1>0, <2>1, <2>2, ContinuesAgree DEF N
    <2>4. e[k] = Continues(c, d, k)
      <3>1. CASE k = N - m BY <3>1
      <3>2. CASE k # N - m
        <4>1. k \in N - m + 1 .. N BY <1>0, <1>2, <3>2
        <4>2. e[k] = d[k] BY <3>2
        <4>3. d[k] = Continues(c, d, k) BY <1>5, <4>1 DEF IsEncodingFrom, N
        <4> QED BY <4>2, <4>3
      <3> QED BY <3>1, <3>2
    <2> HIDE DEF e
    <2> QED BY <2>3, <2>4
  <1>7. IsEncodingFrom(c, e, N - m)
    <2>1. DOMAIN e = N - m .. N /\ e = [k \in N - m .. N |-> e[k]] OBVIOUS
    <2> HIDE DEF e
    <2> QED BY <1>6, <2>1 DEF IsEncodingFrom, N
  <1> HIDE DEF e
  <1> QED BY <1>1, <1>7

\* The reference satisfies the equation it is defined by.
LEMMA EncodingEquation ==
    ASSUME TypeOK, SigLen <= Len(cred), NEW k \in SigLen .. Len(cred)
    PROVE  EncodingFrom[k] = Continues(cred, EncodingFrom, k)
  <1>1. Len(cred) \in Nat /\ SigLen \in 0 .. Len(cred)
    BY CredFacts, SigLenAssumption
  <1>2. \E e : IsEncodingFrom(cred, e, SigLen) BY <1>1, EncodingExists
  <1>3. EncodingFrom = CHOOSE e : IsEncodingFrom(cred, e, SigLen)
    BY DEF EncodingFrom, IsEncodingFrom, Continues
  <1>4. IsEncodingFrom(cred, EncodingFrom, SigLen) BY <1>2, <1>3
  <1> QED BY <1>4 DEF IsEncodingFrom
-----------------------------------------------------------------------------
(* The inductive invariant: what was consumed is the encoding of what was  *)
(* pushed, and the whole tail is an encoding exactly if the rest is one.   *)

Pushed == status \in {"loop", "Ok"} =>
              SigLen <= offset /\ SubSeq(cred, SigLen + 1, offset) = Encoded

Rest == status \in {"loop", "Ok"} => (WellFormed <=> EncodingFrom[offset])

Refused == status \in {"Err", "Panic"} /\ SigLen <= offset => ~WellFormed

NotStarted == status = "start" => offset = 0

DecodeInv == IInv /\ Pushed /\ Rest /\ Refused /\ NotStarted
\* One turn of the loop reads the reference's next message, the only one it can be.
LEMMA Turn ==
    ASSUME TypeOK, InLoop, SigLen <= offset
    PROVE  EncodingFrom[offset] <=>
             /\ HasLength
             /\ offset + 4 + U32At(cred, offset) <= Len(cred)
             /\ EncodingFrom[offset + 4 + U32At(cred, offset)]
  <1> DEFINE u == U32At(cred, offset)
  <1>1. /\ cred \in Seq(Digits) /\ Len(cred) \in Nat /\ offset \in Nat
        /\ offset < Len(cred) /\ SigLen \in Nat
    BY CredFacts, SigLenAssumption DEF InLoop, Digits
  <1>2. HasLength <=> offset + 4 <= Len(cred) BY LoopArithmetic
  <1>3. EncodingFrom[offset] = Continues(cred, EncodingFrom, offset)
    BY <1>1, EncodingEquation
  <1>4. EncodingFrom[offset] <=>
          \E n \in 0 .. Len(cred) - offset - 4 :
             /\ n < U32Mod
             /\ SubSeq(cred, offset + 1, offset + 4) = BigEndian(n)
             /\ EncodingFrom[offset + 4 + n]
    BY <1>1, <1>3 DEF Continues
  <1>5. CASE ~HasLength
    <2>1. \A n \in Nat : ~(n \in 0 .. Len(cred) - offset - 4) BY <1>1, <1>2, <1>5
    <2>2. \A n \in 0 .. Len(cred) - offset - 4 : n \in Nat BY <1>1
    <2> QED BY <1>4, <1>5, <2>1, <2>2
  <1>6. CASE HasLength
    <2>1. /\ u \in Nat /\ u < U32Mod
          /\ SubSeq(cred, offset + 1, offset + 4) = BigEndian(u)
          /\ \A n \in Nat :
               n < U32Mod /\ SubSeq(cred, offset + 1, offset + 4) = BigEndian(n) => u = n
      <3>1. offset + 4 <= Len(cred) BY <1>2, <1>6
      <3>2. U32At(cred, offset) \in Nat /\ U32At(cred, offset) < U32Mod
        BY <1>1, <3>1, U32Bounded DEF Digits
      <3> QED BY <1>1, <3>1, <3>2, PrefixRead
    <2>2. \A n \in 0 .. Len(cred) - offset - 4 : n \in Nat BY <1>1
    <2>3. u \in 0 .. Len(cred) - offset - 4 <=> offset + 4 + u <= Len(cred)
      <3> HIDE DEF u
      <3> QED BY <1>1, <2>1
    <2>4. EncodingFrom[offset] <=>
            u \in 0 .. Len(cred) - offset - 4 /\ EncodingFrom[offset + 4 + u]
      <3> HIDE DEF u
      <3> QED BY <1>4, <2>1, <2>2
    <2> QED BY <1>6, <2>3, <2>4 DEF u
  <1> QED BY <1>5, <1>6

\* What the parser pushes is the encoding it has just walked over.
LEMMA PushedBytes ==
    ASSUME TypeOK, InLoop, HasLength, DataEnd <= Len(cred), DataStart <= DataEnd
    PROVE  Encode(Bytes([from |-> DataStart, to |-> DataEnd]))
             = SubSeq(cred, offset + 1, DataEnd)
  <1> DEFINE u == U32At(cred, offset)
             data == SubSeq(cred, offset + 5, DataEnd)
  <1>1. /\ cred \in Seq(Digits) /\ Len(cred) \in Nat /\ offset \in Nat
        /\ offset < Len(cred)
    BY CredFacts DEF InLoop, Digits
  <1>2. /\ DataStart = offset + 4 /\ offset + 4 <= Len(cred)
        /\ u \in Nat /\ DataEnd \in Nat /\ DataEnd = offset + 4 + u
    BY <1>1, LoopArithmetic
  <1>3. Bytes([from |-> DataStart, to |-> DataEnd]) = data
    <2>1. DataStart + 1 = offset + 5 BY <1>1, <1>2
    <2> QED BY <2>1 DEF Bytes
  <1>4. Len(data) = u
    <2>1. \A i \in offset + 5 .. DataEnd : cred[i] \in Digits
      <3>1. \A i \in offset + 5 .. DataEnd : i \in 1 .. Len(cred) BY <1>1, <1>2
      <3> QED BY <1>1, <3>1, ElementOfSeq
    <2>2. Len(data) = IF offset + 5 <= DataEnd THEN DataEnd - (offset + 5) + 1 ELSE 0
      BY <1>1, <1>2, <2>1, SubSeqProperties
    <2> HIDE DEF u, data
    <2> QED BY <1>1, <1>2, <2>2
  <1>5. BigEndian(u) = SubSeq(cred, offset + 1, offset + 4)
    BY <1>1, <1>2, PrefixRead
  <1>6. SubSeq(cred, offset + 1, offset + 4) \o SubSeq(cred, offset + 4 + 1, DataEnd)
          = SubSeq(cred, offset + 1, DataEnd)
    <2>1. /\ offset + 1 \in 1 .. Len(cred) + 1
          /\ offset + 4 \in offset + 1 - 1 .. Len(cred)
          /\ DataEnd \in offset + 4 .. Len(cred)
      <3> HIDE DEF u
      <3> QED BY <1>1, <1>2
    <2> QED BY <1>1, <2>1, ConcatAdjacentSubSeq
  <1>7. data = SubSeq(cred, offset + 4 + 1, DataEnd)
    <2>1. offset + 5 = offset + 4 + 1 BY <1>1
    <2> QED BY <2>1
  <1> HIDE DEF u, data
  <1> QED BY <1>3, <1>4, <1>5, <1>6, <1>7 DEF Encode

\* Encoded, with the state it reads as arguments.
Piece(c, m) == BigEndian(Len(SubSeq(c, m.from + 1, m.to))) \o SubSeq(c, m.from + 1, m.to)
EncodingOf(c, ms) == FlattenSeq([i \in DOMAIN ms |-> Piece(c, ms[i])])

LEMMA EncodedNowAndNext ==
    Encoded = EncodingOf(cred, messages) /\ Encoded' = EncodingOf(cred', messages')
  BY DEF Encoded, EncodingOf, Piece, Encode, Bytes, BigEndian

LEMMA TakeMessagePushed ==
    ASSUME IInv, Pushed, TakeMessage
    PROVE  Pushed'
  <1> DEFINE slice == [from |-> DataStart, to |-> DataEnd]
             n == Len(messages)
             s == [i \in DOMAIN messages |-> Piece(cred, messages[i])]
             t == [i \in DOMAIN messages' |-> Piece(cred, messages'[i])]
             D == {t[i] : i \in 1 .. n + 1}
  <1>1. TypeOK /\ Tiling BY DEF IInv
  <1>2. /\ InLoop /\ HasLength
        /\ messages' = Append(messages, slice)
        /\ offset' = DataEnd
        /\ cred' = cred /\ status' = status /\ status = "loop"
        /\ DataStart <= DataEnd /\ DataEnd <= Len(cred)
    BY DEF TakeMessage, InLoop
  <1>3. /\ DataStart = offset + 4 /\ offset \in Nat
        /\ DataStart \in Nat /\ DataEnd \in Nat /\ Len(cred) \in Nat
        /\ cred \in Seq(Digits) /\ SigLen \in Nat
    BY <1>1, <1>2, LoopArithmetic, CredFacts, SigLenAssumption DEF Digits
  <1>4. slice \in Slices BY <1>3 DEF Slices
  <1>5. messages \in Seq(Slices) BY <1>1 DEF TypeOK
  <1>6. /\ \A i \in 1 .. n : messages'[i] = messages[i]
        /\ messages'[n + 1] = slice
        /\ DOMAIN messages = 1 .. n /\ DOMAIN messages' = 1 .. n + 1
        /\ n \in Nat
    BY <1>2, <1>4, <1>5, AppendProperties, LenProperties
  <1>7. /\ s \in Seq(D) /\ Len(s) = n /\ t \in Seq(D) /\ Len(t) = n + 1
        /\ \A i \in 1 .. n : t[i] = s[i]
    <2>1. \A i \in 1 .. n : t[i] = s[i] BY <1>6
    <2>2. s \in [1 .. n -> D] /\ t \in [1 .. n + 1 -> D] BY <1>6, <2>1
    <2> HIDE DEF s, t, D, n
    <2> QED BY <1>6, <2>1, <2>2
  <1>8. t[n + 1] = SubSeq(cred, offset + 1, DataEnd)
    <2>1. t[n + 1] = Piece(cred, slice) BY <1>6
    <2>2. Piece(cred, slice) = Encode(Bytes(slice)) BY DEF Piece, Encode, Bytes
    <2> QED BY <1>1, <1>2, <2>1, <2>2, PushedBytes
  <1>9. Encoded = FlattenSeq(s) BY EncodedNowAndNext DEF EncodingOf
  <1>10. Encoded' = FlattenSeq(t) BY <1>2, EncodedNowAndNext DEF EncodingOf
  <1>11. FlattenSeq(t) = IF s = <<>> THEN t[1] ELSE FlattenSeq(s) \o t[n + 1]
    <2>1. Len(t) = Len(s) + 1 /\ \A i \in 1 .. Len(s) : t[i] = s[i] BY <1>7
    <2> HIDE DEF s, t, D, n
    <2>2. FlattenSeq(t) = IF s = <<>> THEN t[1] ELSE FlattenSeq(s) \o t[Len(t)]
      BY <1>7, <2>1, FlattenAppend
    <2> QED BY <1>7, <2>2
  <1> HIDE DEF s, t, D
  <1>12. SigLen <= offset /\ SubSeq(cred, SigLen + 1, offset) = FlattenSeq(s)
    BY <1>2, <1>9 DEF Pushed
  <1>13. SubSeq(cred, SigLen + 1, DataEnd) = FlattenSeq(t)
    <2>1. CASE n = 0
      <3>1. offset = SigLen BY <1>1, <1>2, <2>1 DEF Tiling, Consumed, PrefixStart
      <3>2. s = <<>> BY <1>7, <2>1
      <3> QED BY <1>8, <1>11, <2>1, <3>1, <3>2
    <2>2. CASE n # 0
      <3>1. s # <<>> BY <1>7, <2>2
      <3>2. /\ SigLen + 1 \in 1 .. Len(cred) + 1
            /\ offset \in SigLen + 1 - 1 .. Len(cred)
            /\ DataEnd \in offset .. Len(cred)
        BY <1>2, <1>3, <1>12
      <3>3. SubSeq(cred, SigLen + 1, offset) \o SubSeq(cred, offset + 1, DataEnd)
              = SubSeq(cred, SigLen + 1, DataEnd)
        BY <1>3, <3>2, ConcatAdjacentSubSeq
      <3> QED BY <1>8, <1>11, <1>12, <3>1, <3>3
    <2> QED BY <2>1, <2>2
  <1>14. SigLen <= DataEnd BY <1>2, <1>3, <1>12
  <1> QED BY <1>2, <1>10, <1>13, <1>14 DEF Pushed
\* A step that leaves the credential alone leaves the reference alone.
LEMMA ReferenceUnchanged ==
    ASSUME UNCHANGED cred
    PROVE  EncodingFrom' = EncodingFrom /\ WellFormed' = WellFormed
  <1> DEFINE Reference(c) == CHOOSE e : IsEncodingFrom(c, e, SigLen)
  <1>1. EncodingFrom = Reference(cred)
    BY DEF EncodingFrom, IsEncodingFrom, Continues, BigEndian
  <1>2. EncodingFrom' = Reference(cred')
    BY DEF EncodingFrom, IsEncodingFrom, Continues, BigEndian
  <1>3. EncodingFrom' = EncodingFrom
    <2> HIDE DEF Reference
    <2> QED BY <1>1, <1>2
  <1> QED BY <1>3 DEF WellFormed

LEMMA InitDecodeInv == Init => DecodeInv
  BY InitIInv, SigLenAssumption
     DEF Init, DecodeInv, Pushed, Rest, Refused, NotStarted

LEMMA NextDecodeInv == DecodeInv /\ [Next]_vars => DecodeInv'
  <1> SUFFICES ASSUME DecodeInv, [Next]_vars PROVE DecodeInv' OBVIOUS
  <1> USE DEF DecodeInv
  <1>1. IInv /\ IInv' /\ TypeOK BY NextIInv DEF IInv
  <1>2. /\ SigLen \in Nat /\ SigLen >= 1 /\ Len(cred) \in Nat
        /\ offset \in Nat /\ offset <= Len(cred)
    BY <1>1, CredFacts, SigLenAssumption DEF TypeOK
  <1>3. ASSUME UNCHANGED <<cred, messages>>
        PROVE  /\ Encoded' = Encoded
               /\ EncodingFrom' = EncodingFrom /\ WellFormed' = WellFormed
    BY <1>3, EncodedNowAndNext, ReferenceUnchanged
  \* A turn that ends in an error or a panic.
  <1>4. ASSUME InLoop, ~EncodingFrom[offset], status' \in {"Err", "Panic"},
               UNCHANGED <<cred, messages>>
        PROVE  DecodeInv'
    <2>1. ~WellFormed BY <1>4 DEF InLoop, Rest
    <2> QED BY <1>1, <1>3, <1>4, <2>1 DEF Pushed, Rest, Refused, NotStarted
  <1>5. InLoop => SigLen <= offset BY DEF InLoop, Pushed
  <1>6. CASE TooShort
    BY <1>1, <1>2, <1>6 DEF TooShort, Pushed, Rest, Refused, NotStarted
  <1>7. CASE BadSignature
    BY <1>1, <1>2, <1>7 DEF BadSignature, Pushed, Rest, Refused, NotStarted
  <1>8. CASE GoodSignature
    <2>1. messages = <<>> BY <1>1, <1>8 DEF GoodSignature, IInv, NothingYet
    <2>2. Encoded = <<>>
      <3>1. [i \in DOMAIN messages |-> Piece(cred, messages[i])] = <<>> BY <2>1
      <3>2. Len(<<>>) = 0 OBVIOUS
      <3> QED BY <3>1, <3>2, EncodedNowAndNext DEF EncodingOf, FlattenSeq
    <2>3. SubSeq(cred, SigLen + 1, SigLen) = <<>> BY <1>2, SubSeqEmpty
    <2>4. UNCHANGED <<cred, messages>> /\ status' = "loop" /\ offset' = SigLen
      BY <1>8 DEF GoodSignature
    <2>5. Pushed' BY <1>2, <1>3, <2>2, <2>3, <2>4 DEF Pushed
    <2>6. Rest' BY <1>3, <2>4 DEF Rest, WellFormed
    <2> QED BY <1>1, <2>4, <2>5, <2>6 DEF Refused, NotStarted
  <1>9. CASE Finish
    BY <1>1, <1>3, <1>9 DEF Finish, Pushed, Rest, Refused, NotStarted
  <1>10. CASE TruncatedLength
    <2>1. ~EncodingFrom[offset] BY <1>1, <1>5, <1>10, Turn DEF TruncatedLength
    <2> QED BY <1>4, <1>10, <2>1 DEF TruncatedLength
  <1>11. CASE TruncatedData
    <2>1. InLoop /\ HasLength /\ DataEnd > Len(cred) BY <1>11 DEF TruncatedData
    <2>2. /\ DataStart = offset + 4 /\ offset + 4 <= Len(cred)
          /\ U32At(cred, offset) \in Nat /\ DataEnd \in Nat
          /\ DataEnd = DataStart + U32At(cred, offset) \/ DataEnd < DataStart
      BY <1>1, <2>1, LoopArithmetic
    <2>3. offset + 4 + U32At(cred, offset) > Len(cred) BY <1>2, <2>1, <2>2
    <2>4. ~EncodingFrom[offset] BY <1>1, <1>2, <1>5, <2>1, <2>2, <2>3, Turn
    <2> QED BY <1>4, <1>11, <2>4 DEF TruncatedData
  <1>12. CASE BadSlice
    <2>1. InLoop /\ HasLength /\ DataStart > DataEnd BY <1>12 DEF BadSlice
    <2>2. /\ DataStart = offset + 4 /\ U32At(cred, offset) \in Nat /\ DataEnd \in Nat
          /\ \/ DataEnd = DataStart + U32At(cred, offset)
             \/ DataStart + U32At(cred, offset) >= UsizeMod
          /\ UsizeMod \in Nat /\ UsizeMod > Len(cred)
      BY <1>1, <2>1, LoopArithmetic, CredFacts, UsizeAssumption
    <2>3. offset + 4 + U32At(cred, offset) > Len(cred) BY <1>2, <2>1, <2>2
    <2>4. ~EncodingFrom[offset] BY <1>1, <1>2, <1>5, <2>1, <2>2, <2>3, Turn
    <2> QED BY <1>4, <1>12, <2>4 DEF BadSlice
  <1>13. CASE TakeMessage
    <2>1. /\ InLoop /\ HasLength /\ DataEnd <= Len(cred) /\ DataStart <= DataEnd
          /\ offset' = DataEnd /\ UNCHANGED <<cred, status>> /\ status = "loop"
      BY <1>13 DEF TakeMessage, InLoop
    <2>2. /\ DataStart = offset + 4 /\ U32At(cred, offset) \in Nat
          /\ DataEnd = offset + 4 + U32At(cred, offset)
      BY <1>1, <1>2, <2>1, LoopArithmetic
    <2>3. EncodingFrom[offset] <=> EncodingFrom[DataEnd]
      BY <1>1, <1>5, <2>1, <2>2, Turn
    <2>4. Rest' BY <2>1, <2>3, ReferenceUnchanged DEF Rest
    <2>5. Pushed' BY <1>1, <1>13, TakeMessagePushed
    <2> QED BY <1>1, <2>1, <2>4, <2>5 DEF Refused, NotStarted
  <1>14. CASE UNCHANGED vars
    BY <1>1, <1>3, <1>14 DEF vars, Pushed, Rest, Refused, NotStarted
  <1> QED
    BY <1>6, <1>7, <1>8, <1>9, <1>10, <1>11, <1>12, <1>13, <1>14 DEF Next

-----------------------------------------------------------------------------
\* A successful parse returns the messages whose encoding the credential is, and
\* a parse that fails behind the signature does so on a credential that is no
\* encoding at all, on 32-bit builds too.
THEOREM RoundTripHolds == Spec => []RoundTrip
  <1>1. DecodeInv => RoundTrip
    BY DEF DecodeInv, IInv, Tiling, Consumed, Pushed, Refused, RoundTrip
  <1> QED BY <1>1, InitDecodeInv, NextDecodeInv, PTL DEF Spec

\* Nothing is accepted that the reference rejects: with RoundTripHolds, behind a
\* good signature success and failure tell encodings from everything else.
THEOREM AcceptsOnlyEncodings == Spec => [](status = "Ok" => WellFormed)
  <1>1. DecodeInv => (status = "Ok" => WellFormed)
    <2> SUFFICES ASSUME DecodeInv, status = "Ok" PROVE WellFormed OBVIOUS
    <2>1. TypeOK /\ offset = Len(cred) /\ SigLen <= offset
      BY DEF DecodeInv, IInv, Tiling, Consumed, Pushed
    <2>2. Len(cred) \in Nat /\ SigLen \in Nat BY <2>1, CredFacts, SigLenAssumption
    <2>3. EncodingFrom[Len(cred)] = Continues(cred, EncodingFrom, Len(cred))
      BY <2>1, <2>2, EncodingEquation
    <2>4. EncodingFrom[Len(cred)] BY <2>3 DEF Continues
    <2> QED BY <2>1, <2>4 DEF DecodeInv, Rest
  <1> QED BY <1>1, InitDecodeInv, NextDecodeInv, PTL DEF Spec

-----------------------------------------------------------------------------
(* No credential has two readings. *)

\* The list m of slices tiles credential c completely.
PrefixOf(m, i) == IF i = 1 THEN SigLen ELSE m[i - 1].to

Reads(c, m) ==
    /\ \A i \in DOMAIN m :
         /\ m[i].from = PrefixOf(m, i) + 4
         /\ m[i].to = m[i].from + U32At(c, PrefixOf(m, i))
         /\ m[i].from <= m[i].to /\ m[i].to <= Len(c)
    /\ Len(c) = PrefixOf(m, Len(m) + 1)

\* As far as both lists go they are the same.
LEMMA ReadAlike ==
    ASSUME NEW c \in Seq(Digits), NEW m \in Seq(Slices), NEW k \in Seq(Slices),
           Reads(c, m), Reads(c, k), Len(m) <= Len(k)
    PROVE  \A i \in 1 .. Len(m) : m[i] = k[i]
  <1> DEFINE T == {i \in 1 .. Len(m) : m[i] # k[i]}
  <1> SUFFICES ASSUME T # {} PROVE FALSE OBVIOUS
  <1>1. PICK i \in T : \A j \in T : i <= j
    <2>1. T \subseteq Nat OBVIOUS
    <2> HIDE DEF T
    <2> QED BY <2>1, LeastNatural
  <1>2. i \in 1 .. Len(m) /\ i \in 1 .. Len(k) /\ m[i] # k[i] OBVIOUS
  <1>3. PrefixOf(m, i) = PrefixOf(k, i)
    <2>1. CASE i = 1 BY <2>1 DEF PrefixOf
    <2>2. CASE i # 1
      <3>1. i - 1 \in 1 .. Len(m) /\ ~(i <= i - 1) BY <1>2, <2>2
      <3>2. m[i - 1] = k[i - 1] BY <1>1, <3>1
      <3> QED BY <2>2, <3>2 DEF PrefixOf
    <2> QED BY <2>1, <2>2
  <1>4. DOMAIN m = 1 .. Len(m) /\ DOMAIN k = 1 .. Len(k) OBVIOUS
  <1>5. m[i].from = k[i].from /\ m[i].to = k[i].to BY <1>2, <1>3, <1>4 DEF Reads
  <1>6. m[i] \in Slices /\ k[i] \in Slices BY <1>2, ElementOfSeq
  <1>7. \A x \in Slices : x = [from |-> x.from, to |-> x.to] BY DEF Slices
  <1>8. m[i] = k[i] BY <1>5, <1>6, <1>7
  <1> QED BY <1>2, <1>8

\* And neither goes further, for what lies behind the other's end is not there.
LEMMA OneReading ==
    ASSUME NEW c \in Seq(Digits), NEW m \in Seq(Slices), NEW k \in Seq(Slices),
           Reads(c, m), Reads(c, k), Len(m) <= Len(k)
    PROVE  m = k
  <1>1. \A i \in 1 .. Len(m) : m[i] = k[i] BY ReadAlike
  <1>2. ~(Len(m) < Len(k))
    <2> SUFFICES ASSUME Len(m) < Len(k) PROVE FALSE OBVIOUS
    <2> DEFINE next == Len(m) + 1
    <2>1. next \in 1 .. Len(k) /\ next \in DOMAIN k /\ next \in Nat OBVIOUS
    <2>2. PrefixOf(k, next) = PrefixOf(m, next)
      <3>1. CASE Len(m) = 0 BY <3>1 DEF PrefixOf
      <3>2. CASE Len(m) # 0
        <4>1. next - 1 = Len(m) /\ next - 1 \in 1 .. Len(m) /\ next # 1 BY <3>2
        <4> QED BY <1>1, <4>1 DEF PrefixOf
      <3> QED BY <3>1, <3>2
    <2>3. PrefixOf(m, next) = Len(c) BY DEF Reads
    <2> HIDE DEF next
    <2>4. /\ k[next].from = Len(c) + 4
          /\ k[next].from <= k[next].to /\ k[next].to <= Len(c)
      BY <2>1, <2>2, <2>3 DEF Reads
    <2>5. k[next].from \in Nat /\ k[next].to \in Nat /\ Len(c) \in Nat
      <3>1. k[next] \in Slices BY <2>1, ElementOfSeq
      <3> QED BY <3>1 DEF Slices
    <2> QED BY <2>4, <2>5
  <1> QED BY <1>1, <1>2, SeqEqual

OnlyReading ==
    status = "Ok" =>
        /\ Reads(cred, messages)
        /\ \A m \in Seq(Slices) : Reads(cred, m) => m = messages

\* What a successful parse returns is the only list of messages that the
\* credential can be read as: none lies in the credential twice or differently.
THEOREM ReadingUnique == Spec => []OnlyReading
  <1> DEFINE Proper == \A i \in DOMAIN messages : messages[i].from <= messages[i].to
             Inv == IInv /\ Proper
  <1>1. Init => Inv BY InitIInv DEF Init
  <1>2. Inv /\ [Next]_vars => Inv'
    <2> SUFFICES ASSUME Inv, [Next]_vars PROVE Proper' BY NextIInv
    <2>1. CASE TakeMessage
      <3> DEFINE slice == [from |-> DataStart, to |-> DataEnd]
      <3>1. /\ InLoop /\ HasLength /\ messages' = Append(messages, slice)
            /\ DataStart <= DataEnd
        BY <2>1 DEF TakeMessage
      <3>2. slice.from <= slice.to BY <3>1
      <3>3. messages \in Seq(Slices) BY DEF IInv, TypeOK
      <3>4. slice \in Slices
        <4>1. DataStart \in Nat /\ DataEnd \in Nat
          BY <3>1, LoopArithmetic, CredFacts DEF IInv
        <4> QED BY <4>1 DEF Slices
      <3>5. /\ DOMAIN messages = 1 .. Len(messages) /\ Len(messages) \in Nat
            /\ DOMAIN messages' = 1 .. Len(messages) + 1
            /\ \A i \in 1 .. Len(messages) : messages'[i] = messages[i]
            /\ messages'[Len(messages) + 1] = slice
        BY <3>1, <3>3, <3>4, AppendProperties, LenProperties
      <3> HIDE DEF slice
      <3>6. ASSUME NEW i \in DOMAIN messages' PROVE messages'[i].from <= messages'[i].to
        <4>1. CASE i \in 1 .. Len(messages) BY <3>5, <4>1
        <4>2. CASE i = Len(messages) + 1 BY <3>2, <3>5, <4>2
        <4> QED BY <3>5, <4>1, <4>2
      <3> QED BY <3>6
    <2>2. CASE UNCHANGED messages BY <2>2
    <2> QED
      BY <2>1, <2>2 DEF Next, vars, TooShort, BadSignature, GoodSignature, Finish,
                       TruncatedLength, TruncatedData, BadSlice
  <1>3. Inv => OnlyReading
    <2> SUFFICES ASSUME Inv, status = "Ok" PROVE OnlyReading BY DEF OnlyReading
    <2>1. /\ messages \in Seq(Slices) /\ cred \in Seq(Digits)
          /\ \A m \in Seq(Slices) : Len(m) \in Nat
      BY CredFacts, LenProperties DEF IInv, TypeOK, Digits
    <2>2. Reads(cred, messages)
      BY DEF IInv, Tiling, Tiles, Consumed, PrefixStart, Reads, PrefixOf
    <2>3. ASSUME NEW m \in Seq(Slices), Reads(cred, m) PROVE m = messages
      <3>1. Len(m) <= Len(messages) \/ Len(messages) <= Len(m) BY <2>1
      <3> QED BY <2>1, <2>2, <2>3, <3>1, OneReading
    <2> QED BY <2>2, <2>3 DEF OnlyReading
  <1> QED BY <1>1, <1>2, <1>3, PTL DEF Spec
=============================================================================
