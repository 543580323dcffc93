------------------------ MODULE QueryExchangeProofs ------------------------
(***************************************************************************)
(* What QueryExchange guarantees for any clients, any strings and player   *)
(* counts of the game, any buffer and however often the network fails.     *)
(***************************************************************************)
EXTENDS QueryExchange, SequenceTheorems, WellFoundedInduction, TLAPS

-----------------------------------------------------------------------------
(* Induction, in the form of sets: the library's theorems take predicates, *)
(* which no prover here can be given. A set of numbers has a least one.    *)
LEMMA LeastNumber ==
  ASSUME NEW T \in SUBSET Nat, T # {}
  PROVE  \E n \in T : \A m \in T : n <= m
<1> DEFINE R == {ss \in Nat \X Nat : ss[1] < ss[2]}
<1>1. IsWellFoundedOn(R, Nat)
  BY NatLessThanWellFounded DEF OpToRel
<1> HIDE DEF R
<1>2. PICK n \in T : \A m \in T : ~(<<m, n>> \in R)
  BY <1>1, WFMin
<1>3. \A m \in T : ~(m < n) /\ m \in Nat /\ n \in Nat
  BY <1>2 DEF R
<1>4. QED
  BY <1>3

(* A set with zero and the successors of its elements is all of Nat.       *)
LEMMA Induction ==
  ASSUME NEW T \in SUBSET Nat, 0 \in T, \A n \in T : n + 1 \in T
  PROVE  T = Nat
<1> SUFFICES ASSUME Nat \ T # {} PROVE FALSE
  OBVIOUS
<1>1. PICK n \in Nat \ T : \A m \in Nat \ T : n <= m
  BY LeastNumber
<1>2. n # 0 /\ n - 1 \in Nat /\ n - 1 < n /\ n - 1 + 1 = n
  OBVIOUS
<1>3. n - 1 \in T
  BY <1>1, <1>2
<1>4. QED
  BY <1>1, <1>2, <1>3

-----------------------------------------------------------------------------
(* WireWrite. FlattenSeq is a recursive function: that there is one with   *)
(* its equation has to be shown before the equation can be used.           *)
Flattens(f, seqs) ==
  f = [i \in 1 .. Len(seqs) |-> IF i = 1 THEN seqs[i] ELSE f[i - 1] \o seqs[i]]

(* There is one for every sequence of sequences, by induction.             *)
LEMMA FlattenExists ==
  ASSUME NEW S, NEW seqs \in Seq(Seq(S))
  PROVE  \E g : Flattens(g, seqs)
<1> DEFINE F(n) == {g \in [1 .. n -> Seq(S)] :
                      \A i \in 1 .. n : g[i] = IF i = 1 THEN seqs[i] ELSE g[i - 1] \o seqs[i]}
           T == {n \in Nat : n <= Len(seqs) => F(n) # {}}
<1>1. Len(seqs) \in Nat /\ \A i \in 1 .. Len(seqs) : seqs[i] \in Seq(S)
  BY LenProperties, ElementOfSeq
<1>2. 0 \in T
  <2>1. <<>> \in [1 .. 0 -> Seq(S)] /\ 1 .. 0 = {}
    OBVIOUS
  <2>2. <<>> \in F(0)
    BY <2>1
  <2>3. QED
    BY <2>2
<1>3. ASSUME NEW n \in T PROVE n + 1 \in T
  <2>0. n + 1 \in Nat
    OBVIOUS
  <2> SUFFICES ASSUME n + 1 <= Len(seqs) PROVE F(n + 1) # {}
    BY <2>0
  <2>1. n <= Len(seqs) /\ n + 1 \in 1 .. Len(seqs) /\ n \in Nat
    BY <1>1
  <2>2. PICK g \in [1 .. n -> Seq(S)] :
          \A i \in 1 .. n : g[i] = IF i = 1 THEN seqs[i] ELSE g[i - 1] \o seqs[i]
    BY <2>1
  <2> DEFINE next == IF n = 0 THEN seqs[1] ELSE g[n] \o seqs[n + 1]
             h == [i \in 1 .. n + 1 |-> IF i = n + 1 THEN next ELSE g[i]]
  <2>3. next \in Seq(S)
    <3>1. CASE n = 0
      BY <1>1, <2>1, <3>1
    <3>2. CASE n # 0
      <4>1. g[n] \in Seq(S) /\ seqs[n + 1] \in Seq(S)
        BY <1>1, <2>1, <3>2
      <4>2. g[n] \o seqs[n + 1] \in Seq(S)
        BY <4>1
      <4>3. QED
        BY <3>2, <4>2
    <3>3. QED
      BY <3>1, <3>2
  <2>4. next = IF n + 1 = 1 THEN seqs[n + 1] ELSE g[n + 1 - 1] \o seqs[n + 1]
    BY <2>1
  <2> HIDE DEF next
  <2>5. h \in [1 .. n + 1 -> Seq(S)]
    BY <2>1, <2>3
  <2>6. ASSUME NEW i \in 1 .. n + 1
        PROVE  h[i] = IF i = 1 THEN seqs[i] ELSE h[i - 1] \o seqs[i]
    <3>1. CASE i = n + 1
      BY <2>1, <2>4, <3>1
    <3>2. CASE i # n + 1
      <4>1. i \in 1 .. n /\ (i # 1 => i - 1 \in 1 .. n)
        BY <2>1, <3>2
      <4>2. h[i] = g[i] /\ (i # 1 => h[i - 1] = g[i - 1])
        BY <2>1, <4>1
      <4>3. QED
        BY <2>2, <4>1, <4>2
    <3>3. QED
      BY <3>1, <3>2
  <2> HIDE DEF h
  <2>7. h \in F(n + 1)
    BY <2>5, <2>6
  <2>8. QED
    BY <2>7
<1> HIDE DEF T
<1>4. T = Nat
  BY <1>2, <1>3, Induction DEF T
<1>5. F(Len(seqs)) # {}
  <2> HIDE DEF F
  <2>1. Len(seqs) \in T /\ Len(seqs) <= Len(seqs)
    BY <1>1, <1>4
  <2>2. QED
    BY <2>1 DEF T
<1>6. PICK g \in [1 .. Len(seqs) -> Seq(S)] :
        \A i \in 1 .. Len(seqs) : g[i] = IF i = 1 THEN seqs[i] ELSE g[i - 1] \o seqs[i]
  BY <1>5
<1>7. g = [i \in 1 .. Len(seqs) |-> IF i = 1 THEN seqs[i] ELSE g[i - 1] \o seqs[i]]
  BY <1>6
<1>8. QED
  BY <1>7 DEF Flattens

(* FlattenSeq is the value of some function that flattens, if there is one.*)
LEMMA FlattenIs ==
  ASSUME NEW seqs, NEW g, Len(seqs) # 0, Flattens(g, seqs)
  PROVE  \E f : FlattenSeq(seqs) = f[Len(seqs)] /\ Flattens(f, seqs)
<1> DEFINE fl[i \in 1 .. Len(seqs)] == IF i = 1 THEN seqs[i] ELSE fl[i - 1] \o seqs[i]
<1>1. FlattenSeq(seqs) = fl[Len(seqs)]
  <2>1. FlattenSeq(seqs) = IF Len(seqs) = 0 THEN seqs ELSE fl[Len(seqs)]
    BY Zenon DEF FlattenSeq
  <2> HIDE DEF fl
  <2>2. QED
    BY <2>1, Zenon
<1>2. Flattens(fl, seqs)
  BY Zenon DEF Flattens
<1> HIDE DEF fl
<1>3. QED
  BY <1>1, <1>2

(* What comes of it is a sequence of the same things, and the first of the *)
(* sequences is its front.                                                 *)
LEMMA FlattenStarts ==
  ASSUME NEW S, NEW seqs \in Seq(Seq(S)), Len(seqs) # 0
  PROVE  /\ FlattenSeq(seqs) \in Seq(S)
         /\ Len(seqs[1]) <= Len(FlattenSeq(seqs))
         /\ \A i \in 1 .. Len(seqs[1]) : FlattenSeq(seqs)[i] = seqs[1][i]
<1>1. Len(seqs) \in Nat /\ \A i \in 1 .. Len(seqs) : seqs[i] \in Seq(S)
  BY LenProperties, ElementOfSeq
<1>2. PICK f : FlattenSeq(seqs) = f[Len(seqs)] /\ Flattens(f, seqs)
  BY FlattenExists, FlattenIs, Zenon
<1>3. \A i \in 1 .. Len(seqs) : f[i] = IF i = 1 THEN seqs[i] ELSE f[i - 1] \o seqs[i]
  BY <1>2 DEF Flattens
<1> DEFINE Good(s) == /\ s \in Seq(S) /\ Len(seqs[1]) <= Len(s)
                      /\ \A i \in 1 .. Len(seqs[1]) : s[i] = seqs[1][i]
           T == {n \in Nat : n + 1 <= Len(seqs) => Good(f[n + 1])}
<1>4. seqs[1] \in Seq(S) /\ Len(seqs[1]) \in Nat
  BY <1>1, LenProperties
<1>5. 0 \in T
  <2>1. f[1] = seqs[1]
    BY <1>1, <1>3
  <2>2. QED
    BY <1>4, <2>1
<1>6. ASSUME NEW n \in T PROVE n + 1 \in T
  <2>0. n + 1 \in Nat /\ n \in Nat
    OBVIOUS
  <2> SUFFICES ASSUME n + 1 + 1 <= Len(seqs) PROVE Good(f[n + 1 + 1])
    BY <2>0
  <2>1. n + 1 + 1 \in 1 .. Len(seqs) /\ n + 1 + 1 # 1 /\ n + 1 + 1 - 1 = n + 1
    BY <1>1, <2>0
  <2>2. f[n + 1 + 1] = f[n + 1] \o seqs[n + 1 + 1]
    <3> DEFINE k == n + 1 + 1
    <3>1. k \in 1 .. Len(seqs) /\ k # 1 /\ k - 1 = n + 1
      BY <2>1
    <3> HIDE DEF k, T
    <3>2. f[k] = f[k - 1] \o seqs[k]
      BY <1>3, <3>1, Zenon
    <3>3. QED
      BY <3>1, <3>2, Zenon DEF k
  <2>3. Good(f[n + 1]) /\ seqs[n + 1 + 1] \in Seq(S)
    BY <1>1, <2>0, <2>1
  <2> DEFINE s == f[n + 1]
             t == seqs[n + 1 + 1]
  <2> HIDE DEF s, t
  <2>4. s \in Seq(S) /\ t \in Seq(S) /\ Len(seqs[1]) <= Len(s)
    BY <2>3 DEF s, t
  <2>5. /\ s \o t \in Seq(S) /\ Len(s \o t) = Len(s) + Len(t)
        /\ \A i \in 1 .. Len(s) + Len(t) : (s \o t)[i] = IF i <= Len(s) THEN s[i] ELSE t[i - Len(s)]
    BY <2>4, ConcatProperties
  <2>6. Len(s) \in Nat /\ Len(t) \in Nat
    BY <2>4, LenProperties
  <2>7. \A i \in 1 .. Len(seqs[1]) : i \in 1 .. Len(s) + Len(t) /\ i <= Len(s)
    BY <1>4, <2>4, <2>6
  <2>8. \A i \in 1 .. Len(seqs[1]) : s[i] = seqs[1][i]
    BY <2>3 DEF s
  <2>9. Good(s \o t)
    BY <1>4, <2>4, <2>5, <2>6, <2>7, <2>8
  <2>10. QED
    BY <2>2, <2>9 DEF s, t
<1> HIDE DEF Good, T
<1>7. T = Nat
  BY <1>5, <1>6, Induction DEF T
<1>8. Len(seqs) - 1 \in T /\ Len(seqs) - 1 + 1 = Len(seqs)
  BY <1>1, <1>7
<1>9. Good(f[Len(seqs)])
  BY <1>1, <1>8 DEF T
<1>10. QED
  BY <1>2, <1>9 DEF Good

-----------------------------------------------------------------------------
(* How a number is read: FromBigEndian is a recursive function, too.       *)
Values(v, s) == v = [i \in 0 .. Len(s) |-> IF i = 0 THEN 0 ELSE 256 * v[i - 1] + s[i]]

(* It is the value of some function with its equation, if there is one.    *)
LEMMA ValueIs ==
  ASSUME NEW s, NEW g, Values(g, s)
  PROVE  \E v : FromBigEndian(s) = v[Len(s)] /\ Values(v, s)
<1> DEFINE value[i \in 0 .. Len(s)] == IF i = 0 THEN 0 ELSE 256 * value[i - 1] + s[i]
<1>1. FromBigEndian(s) = value[Len(s)]
  BY Zenon DEF FromBigEndian
<1>2. Values(value, s)
  BY ZenonT(30) DEF Values
<1> HIDE DEF value
<1>3. QED
  BY <1>1, <1>2

(* The number that four bytes stand for.                                   *)
LEMMA ValueOfFour ==
  ASSUME NEW s, Len(s) = 4
  PROVE  FromBigEndian(s) = 256 * (256 * (256 * (256 * 0 + s[1]) + s[2]) + s[3]) + s[4]
<1> DEFINE v1 == 256 * 0 + s[1]
           v2 == 256 * v1 + s[2]
           v3 == 256 * v2 + s[3]
           v4 == 256 * v3 + s[4]
           g == [i \in 0 .. 4 |-> IF i = 0 THEN 0 ELSE IF i = 1 THEN v1 ELSE IF i = 2 THEN v2
                                  ELSE IF i = 3 THEN v3 ELSE v4]
<1>1. v1 = 256 * 0 + s[1] /\ v2 = 256 * v1 + s[2] /\ v3 = 256 * v2 + s[3] /\ v4 = 256 * v3 + s[4]
  OBVIOUS
<1> HIDE DEF v1, v2, v3, v4
<1>2. g[0] = 0 /\ g[1] = v1 /\ g[2] = v2 /\ g[3] = v3 /\ g[4] = v4 /\ DOMAIN g = 0 .. 4
      /\ g = [i \in 0 .. 4 |-> g[i]]
  OBVIOUS
<1> HIDE DEF g
<1>3. \A i \in 0 .. 4 : g[i] = IF i = 0 THEN 0 ELSE 256 * g[i - 1] + s[i]
  <2>1. \A i \in 0 .. 4 : i = 0 \/ i = 1 \/ i = 2 \/ i = 3 \/ i = 4
    OBVIOUS
  <2>2. 1 - 1 = 0 /\ 2 - 1 = 1 /\ 3 - 1 = 2 /\ 4 - 1 = 3
    OBVIOUS
  <2>3. QED
    BY <1>1, <1>2, <2>1, <2>2
<1>4. Values(g, s)
  BY <1>2, <1>3 DEF Values
<1>5. PICK v : FromBigEndian(s) = v[4] /\ Values(v, s)
  BY <1>4, ValueIs, Zenon
<1>6. \A i \in 0 .. 4 : v[i] = IF i = 0 THEN 0 ELSE 256 * v[i - 1] + s[i]
  BY <1>5 DEF Values
<1>7. /\ 0 \in 0 .. 4 /\ 1 \in 0 .. 4 /\ 2 \in 0 .. 4 /\ 3 \in 0 .. 4 /\ 4 \in 0 .. 4
      /\ 1 - 1 = 0 /\ 2 - 1 = 1 /\ 3 - 1 = 2 /\ 4 - 1 = 3
      /\ 1 # 0 /\ 2 # 0 /\ 3 # 0 /\ 4 # 0
  OBVIOUS
<1>8. v[0] = 0 /\ v[1] = 256 * v[0] + s[1]
  BY <1>6, <1>7
<1>9. v[2] = 256 * v[1] + s[2]
  BY <1>6, <1>7
<1>10. v[3] = 256 * v[2] + s[3]
  BY <1>6, <1>7
<1>11. v[4] = 256 * v[3] + s[4]
  BY <1>6, <1>7
<1>12. QED
  BY <1>5, <1>8, <1>9, <1>10, <1>11

(* The places of a number of 32 bits.                                      *)
LEMMA Powers == 256^0 = 1 /\ 256^1 = 256 /\ 256^2 = 65536 /\ 256^3 = 16777216
<1>1. 256^0 = 1
  BY SMT
<1>2. 256^1 = 256
  BY SMT
<1>3. 256^2 = 65536
  BY SMT
<1>4. 256^3 = 16777216
  BY SMT
<1>5. QED
  BY <1>1, <1>2, <1>3, <1>4, Z3

(* A number without its last bytes is a number.                            *)
LEMMA Quotients ==
  ASSUME NEW n \in Nat, NEW k \in 0 .. 3
  PROVE  n \div 256^k \in Nat
<1>1. CASE k = 0
  BY <1>1, SMT
<1>2. CASE k = 1
  BY <1>2, SMT
<1>3. CASE k = 2
  BY <1>3, SMT
<1>4. CASE k = 3
  BY <1>4, SMT
<1>5. QED
  BY <1>1, <1>2, <1>3, <1>4

(* What goes out of a number are bytes, as many as the field is wide.      *)
LEMMA BytesOf ==
  ASSUME NEW n \in Nat, NEW width \in 1 .. 4
  PROVE  /\ BigEndian(n, width) \in Seq(0 .. 255) /\ Len(BigEndian(n, width)) = width
         /\ LittleEndian(n, width) \in Seq(0 .. 255) /\ Len(LittleEndian(n, width)) = width
<1>1. \A k \in 0 .. 3 : Byte(n \div 256^k) \in 0 .. 255
  <2>1. \A m \in Nat : m % 256 \in 0 .. 255
    BY SMT
  <2>2. QED
    BY <2>1, Quotients DEF Byte
<1>2. \A i \in 1 .. width : width - i \in 0 .. 3 /\ i - 1 \in 0 .. 3
  OBVIOUS
<1>3. /\ BigEndian(n, width) \in [1 .. width -> 0 .. 255]
      /\ LittleEndian(n, width) \in [1 .. width -> 0 .. 255]
  BY <1>1, <1>2, Zenon DEF BigEndian, LittleEndian
<1>4. QED
  BY <1>3, SMT

(* A uint32 reads back as what was written, in either byte order.          *)
LEMMA ReadsBack ==
  ASSUME NEW n \in Nat, n \div 256^3 < 256
  PROVE  FromBigEndian(BigEndian(n, 4)) = n /\ FromLittleEndian(LittleEndian(n, 4)) = n
<1> DEFINE q1 == n \div 256
           q2 == n \div 65536
           q3 == n \div 16777216
           b == BigEndian(n, 4)
           l == LittleEndian(n, 4)
           r == Reverse(l)
<1>1. q1 \in Nat /\ q2 \in Nat /\ q3 \in Nat
  BY SMT
<1>2. q1 \div 256 = q2
  BY SMT
<1>3. q2 \div 256 = q3
  BY SMT
<1>4. q3 < 256
  BY Powers
<1>5. n \div 1 = n
  BY SMT
<1>6. /\ b[1] = q3 % 256 /\ b[2] = q2 % 256 /\ b[3] = q1 % 256 /\ b[4] = n % 256
      /\ l[4] = q3 % 256 /\ l[3] = q2 % 256 /\ l[2] = q1 % 256 /\ l[1] = n % 256
  <2>1. 4 - 1 = 3 /\ 4 - 2 = 2 /\ 4 - 3 = 1 /\ 4 - 4 = 0 /\ 1 - 1 = 0 /\ 2 - 1 = 1 /\ 3 - 1 = 2
    OBVIOUS
  <2>2. QED
    BY <1>5, <2>1, Powers, SMT DEF BigEndian, LittleEndian, Byte
<1> HIDE DEF q1, q2, q3
<1>7. n = 256 * q1 + (n % 256)
  BY SMT DEF q1
<1>8. q1 = 256 * q2 + (q1 % 256)
  BY <1>1, <1>2, SMT
<1>9. q2 = 256 * q3 + (q2 % 256)
  BY <1>1, <1>3, SMT
<1>10. q3 % 256 = q3
  BY <1>1, <1>4, SMT
<1>11. Len(b) = 4 /\ Len(l) = 4
  BY BytesOf, 4 \in 1 .. 4
<1> HIDE DEF b, l
<1>12. Len(r) = 4 /\ r[1] = l[4] /\ r[2] = l[3] /\ r[3] = l[2] /\ r[4] = l[1]
  BY <1>11 DEF Reverse
<1> HIDE DEF r
<1>13. 256 * (256 * (256 * (256 * 0 + (q3 % 256)) + (q2 % 256)) + (q1 % 256)) + (n % 256) = n
  <2> DEFINE x1 == q1 % 256
             x2 == q2 % 256
             x0 == n % 256
  <2>1. x0 \in Nat /\ x1 \in Nat /\ x2 \in Nat
    BY <1>1, SMT
  <2>2. n = 256 * q1 + x0 /\ q1 = 256 * q2 + x1 /\ q2 = 256 * q3 + x2
    BY <1>7, <1>8, <1>9
  <2> HIDE DEF x0, x1, x2
  <2>3. 256 * (256 * (256 * (256 * 0 + q3) + x2) + x1) + x0 = n
    BY <1>1, <2>1, <2>2, SMT
  <2>4. QED
    BY <1>10, <2>3 DEF x0, x1, x2
<1>14. FromBigEndian(b) = n
  BY <1>6, <1>11, <1>13, ValueOfFour
<1>15. FromBigEndian(r) = n
  BY <1>6, <1>12, <1>13, ValueOfFour
<1>16. QED
  BY <1>14, <1>15 DEF b, l, r, FromLittleEndian

(* What is written of sequences of bytes is one.                           *)
LEMMA WireWriteBytes ==
  ASSUME NEW S, NEW fields \in Seq(Seq(S))
  PROVE  WireWrite(fields) \in Seq(S)
<1>1. CASE Len(fields) = 0
  <2>1. fields = <<>>
    BY <1>1, EmptySeq
  <2>2. FlattenSeq(fields) = fields
    BY <1>1 DEF FlattenSeq
  <2>3. QED
    BY <2>1, <2>2, EmptySeq DEF WireWrite
<1>2. CASE Len(fields) # 0
  BY <1>2, FlattenStarts DEF WireWrite
<1>3. QED
  BY <1>1, <1>2

(* Two fields go out one after the other.                                  *)
LEMMA WireWriteOfTwo ==
  ASSUME NEW s, NEW t
  PROVE  WireWrite(<<s, t>>) = s \o t
<1> DEFINE seqs == <<s, t>>
           g == [i \in 1 .. 2 |-> IF i = 1 THEN s ELSE s \o t]
<1>1. Len(seqs) = 2 /\ seqs[1] = s /\ seqs[2] = t
  OBVIOUS
<1>2. \A i \in 1 .. 2 : IF i = 1 THEN g[i] = s ELSE i = 2 /\ g[i - 1] = s
  OBVIOUS
<1> HIDE DEF seqs
<1>3. g = [i \in 1 .. 2 |-> IF i = 1 THEN seqs[i] ELSE g[i - 1] \o seqs[i]]
  BY <1>1, <1>2
<1> HIDE DEF g
<1>4. Len(seqs) # 0 /\ Flattens(g, seqs)
  BY <1>1, <1>3 DEF Flattens
<1>5. PICK f : FlattenSeq(seqs) = f[Len(seqs)] /\ Flattens(f, seqs)
  BY <1>4, FlattenIs, Zenon
<1>6. \A i \in 1 .. 2 : f[i] = IF i = 1 THEN seqs[i] ELSE f[i - 1] \o seqs[i]
  BY <1>1, <1>5 DEF Flattens
<1>7. 1 \in 1 .. 2 /\ 2 \in 1 .. 2 /\ 2 - 1 = 1 /\ 2 # 1
  OBVIOUS
<1>8. f[1] = s
  BY <1>1, <1>6, <1>7
<1>9. f[2] = f[1] \o seqs[2]
  BY <1>6, <1>7
<1>10. QED
  BY <1>1, <1>5, <1>8, <1>9 DEF seqs, WireWrite

(* The front of what is put before something else.                         *)
LEMMA FrontOfConcat ==
  ASSUME NEW S, NEW T, NEW s \in Seq(S), NEW t \in Seq(T), NEW i \in 1 .. Len(s)
  PROVE  (s \o t)[i] = s[i]
<1>1. s \in Seq(S \cup T) /\ t \in Seq(S \cup T)
  BY SeqMonotonic
<1>2. Len(s) \in Nat /\ Len(t) \in Nat
  BY <1>1, LenProperties
<1>3. i \in 1 .. Len(s) + Len(t) /\ i <= Len(s)
  BY <1>2
<1>4. QED
  BY <1>1, <1>3, ConcatProperties

(* A function from the first numbers is a sequence.                        *)
LEMMA FunctionIsSeq ==
  ASSUME NEW S, NEW n \in Nat, NEW f \in [1 .. n -> S]
  PROVE  f \in Seq(S)
OBVIOUS

(* What carries a challenge says so, in either format.                     *)
LEMMA ChallengesAreMarked ==
  ASSUME NEW v
  PROVE  SqpChallenge(v)[1] = 0 /\ A2sChallenge(v)[5] = 65
<1> DEFINE Bytes == {Byte(v \div 256^k) : k \in 0 .. 3}
<1>1. BigEndian(v, 4) \in [1 .. 4 -> Bytes] /\ LittleEndian(v, 4) \in [1 .. 4 -> Bytes]
  <2>1. \A i \in 1 .. 4 : 4 - i \in 0 .. 3 /\ i - 1 \in 0 .. 3
    OBVIOUS
  <2>2. QED
    BY <2>1 DEF BigEndian, LittleEndian
<1> HIDE DEF Bytes
<1>2. BigEndian(v, 4) \in Seq(Bytes) /\ LittleEndian(v, 4) \in Seq(Bytes)
  BY <1>1, FunctionIsSeq, 4 \in Nat
<1>3. SqpChallenge(v)[1] = 0
  <2>1. SqpChallenge(v) = <<0>> \o BigEndian(v, 4)
    BY WireWriteOfTwo DEF SqpChallenge
  <2>2. <<0>> \in Seq(Nat) /\ 1 \in 1 .. Len(<<0>>) /\ <<0>>[1] = 0
    OBVIOUS
  <2>3. QED
    BY <1>2, <2>1, <2>2, FrontOfConcat
<1>4. A2sChallenge(v)[5] = 65
  <2> DEFINE front == <<255, 255, 255, 255, 65>>
  <2>1. A2sChallenge(v) = front \o LittleEndian(v, 4)
    <3> DEFINE last == LittleEndian(v, 4)
    <3>1. A2sChallenge(v) = WireWrite(<<front, last>>)
      BY Zenon DEF A2sChallenge
    <3> HIDE DEF front, last
    <3>2. WireWrite(<<front, last>>) = front \o last
      BY WireWriteOfTwo, Zenon
    <3>3. QED
      BY <3>1, <3>2, Zenon DEF last
  <2>2. front \in Seq(Nat) /\ 5 \in 1 .. Len(front) /\ front[5] = 65
    OBVIOUS
  <2> HIDE DEF front
  <2>3. QED
    BY <1>2, <2>1, <2>2, FrontOfConcat
<1>5. QED
  BY <1>3, <1>4

-----------------------------------------------------------------------------
(* A datagram stays what it is on its way, and comes from a client.        *)
IsRequest(m) ==
  m = [from |-> m.from, buf |-> m.buf, copy |-> m.copy] /\ m.from \in Addr
IsResponse(r) == r = [to |-> r.to, packet |-> r.packet, of |-> r.of, copy |-> r.copy]
Datagrams ==
  /\ \A m \in requests : IsRequest(m)
  /\ \A r \in responses : IsResponse(r)

(* A client with a challenge is owed an answer.                            *)
Paid ==
  /\ challenges \in [Addr -> SUBSET Randoms]
  /\ \A a \in Addr : challenges[a] # {} => a \in owed

IInv == Datagrams /\ Paid

(* The inductive invariant holds at the start.                             *)
LEMMA InitIInv == Init => IInv
BY DEF Init, IInv, Datagrams, Paid

(* The datagrams of a step that puts no response on the way but copies.    *)
Copied ==
  \A r \in responses' : r \in responses \/ \E q \in responses : r = [q EXCEPT !.copy = 2]

(* Such a step sends nobody a packet that was not on the way to it.        *)
LEMMA CopiesAreNotNew ==
  ASSUME IInv, Copied
  PROVE  /\ \A r \in responses' : IsResponse(r)
         /\ \A a \in Addr : Sent(a)' \subseteq Sent(a)
<1>1. ASSUME NEW r \in responses'
      PROVE  IsResponse(r) /\ \E q \in responses : q.to = r.to /\ q.packet = r.packet
  <2>1. CASE r \in responses
    BY <2>1 DEF IInv, Datagrams
  <2>2. ASSUME NEW q \in responses, r = [q EXCEPT !.copy = 2]
        PROVE  IsResponse(r) /\ q.to = r.to /\ q.packet = r.packet
    <3>1. q = [to |-> q.to, packet |-> q.packet, of |-> q.of, copy |-> q.copy]
      BY DEF IInv, Datagrams, IsResponse
    <3>2. r = [to |-> q.to, packet |-> q.packet, of |-> q.of, copy |-> 2]
      BY <2>2, <3>1
    <3>3. QED
      BY <3>2 DEF IsResponse
  <2>3. QED
    BY <2>1, <2>2 DEF Copied
<1>2. ASSUME NEW a \in Addr, NEW p \in Sent(a)' PROVE p \in Sent(a)
  <2>1. PICK r \in responses' : r.to = a /\ p = r.packet
    BY DEF Sent
  <2>2. PICK q \in responses : q.to = r.to /\ q.packet = r.packet
    BY <1>1
  <2>3. QED
    BY <2>1, <2>2 DEF Sent
<1>3. QED
  BY <1>1, <1>2

(* A request on the way is one that was, its copy, or a client's new one.  *)
LEMMA RequestsStay ==
  ASSUME IInv,
         \A m \in requests' :
           \/ m \in requests
           \/ \E q \in requests : m = [q EXCEPT !.copy = 2]
           \/ \E a \in Addr : \E b : m = [from |-> a, buf |-> b, copy |-> 1]
  PROVE  \A m \in requests' : IsRequest(m)
<1> SUFFICES ASSUME NEW m \in requests' PROVE IsRequest(m)
  OBVIOUS
<1>1. CASE m \in requests
  BY <1>1 DEF IInv, Datagrams
<1>2. ASSUME NEW q \in requests, m = [q EXCEPT !.copy = 2] PROVE IsRequest(m)
  <2>1. q = [from |-> q.from, buf |-> q.buf, copy |-> q.copy] /\ q.from \in Addr
    BY DEF IInv, Datagrams, IsRequest
  <2>2. m = [from |-> q.from, buf |-> q.buf, copy |-> 2]
    BY <1>2, <2>1
  <2>3. QED
    BY <2>1, <2>2 DEF IsRequest
<1>3. ASSUME NEW a \in Addr, NEW b, m = [from |-> a, buf |-> b, copy |-> 1]
      PROVE  IsRequest(m)
  BY <1>3 DEF IsRequest
<1>4. QED
  BY <1>1, <1>2, <1>3

(* A challenge that is taken out, or none, leaves the others paid for.     *)
LEMMA PaidStays ==
  ASSUME IInv, owed' = owed,
         UNCHANGED challenges \/ \E a : challenges' = [challenges EXCEPT ![a] = {}]
  PROVE  Paid'
BY DEF IInv, Paid

(* A reply adds one packet to what is sent to the one that asked.          *)
LEMMA ReplyAdds ==
  ASSUME IInv, NEW m \in requests, NEW packet, NEW of, Reply(m, packet, of)
  PROVE  /\ \A r \in responses' : IsResponse(r)
         /\ \A a \in Addr : \A p \in Sent(a)' \ Sent(a) : a = m.from /\ p = packet
<1> DEFINE new == [to |-> m.from, packet |-> packet, of |-> of, copy |-> m.copy]
<1>1. responses' = responses \cup {new} /\ new.to = m.from /\ new.packet = packet
  BY DEF Reply
<1>2. IsResponse(new)
  BY DEF IsResponse
<1> HIDE DEF new
<1>3. \A r \in responses' : IsResponse(r)
  BY <1>1, <1>2 DEF IInv, Datagrams
<1>4. ASSUME NEW a \in Addr, NEW p \in Sent(a)' \ Sent(a) PROVE a = m.from /\ p = packet
  <2>1. PICK r \in responses' : r.to = a /\ p = r.packet
    BY DEF Sent
  <2>2. r \notin responses
    BY <1>4, <2>1 DEF Sent
  <2>3. QED
    BY <1>1, <2>1, <2>2
<1>5. QED
  BY <1>3, <1>4

(* A new answer on the way is to a client that was owed one.               *)
Earned == \A a \in Addr : \A p \in Sent(a)' \ Sent(a) : ~HoldsChallenge(p) => a \in owed

(* Giving a challenge makes the server owe an answer.                      *)
LEMMA ChallengeStep ==
  ASSUME IInv, NEW m \in requests, NEW v \in Randoms, NEW packet,
         requests' = requests \ {m}, GenerateChallenge(m.from, v), HoldsChallenge(packet),
         Reply(m, packet, <<>>)
  PROVE  IInv' /\ Earned
<1>1. m.from \in Addr
  BY DEF IInv, Datagrams, IsRequest
<1>2. /\ challenges' = [challenges EXCEPT ![m.from] = {v}]
      /\ owed' = owed \cup {m.from}
  BY DEF GenerateChallenge
<1>3. Paid'
  BY <1>1, <1>2 DEF IInv, Paid
<1>4. \A q \in requests' : IsRequest(q)
  BY DEF IInv, Datagrams
<1>5. QED
  BY <1>3, <1>4, ReplyAdds DEF IInv, Datagrams, Earned

(* An answer takes the challenge it was paid with.                         *)
LEMMA AnswerStep ==
  ASSUME IInv, NEW m \in requests, NEW c, NEW packet, NEW of,
         requests' = requests \ {m}, Consume(m.from, c), ChallengeMatches(m.from, c),
         Answer(m, packet, of)
  PROVE  IInv' /\ Earned
<1>1. m.from \in Addr
  BY DEF IInv, Datagrams, IsRequest
<1>2. /\ challenges' = [challenges EXCEPT ![m.from] = {}]
      /\ owed' = owed \ {m.from}
      /\ Reply(m, packet, of)
  BY DEF Consume, Answer
<1>3. m.from \in owed
  BY <1>1 DEF ChallengeMatches, IInv, Paid
<1>4. Paid'
  BY <1>1, <1>2 DEF IInv, Paid
<1>5. \A q \in requests' : IsRequest(q)
  BY DEF IInv, Datagrams
<1>6. QED
  BY <1>2, <1>3, <1>4, <1>5, ReplyAdds DEF IInv, Datagrams, Earned

(* A step that makes no response of its own.                               *)
LEMMA SilentStep ==
  ASSUME IInv, Copied, owed' = owed,
         UNCHANGED challenges \/ \E a : challenges' = [challenges EXCEPT ![a] = {}],
         \A m \in requests' :
           \/ m \in requests
           \/ \E q \in requests : m = [q EXCEPT !.copy = 2]
           \/ \E a \in Addr : \E b : m = [from |-> a, buf |-> b, copy |-> 1]
  PROVE  IInv' /\ Earned
<1>1. Paid'
  BY PaidStays
<1>2. \A m \in requests' : IsRequest(m)
  BY RequestsStay
<1>3. QED
  BY <1>1, <1>2, CopiesAreNotNew DEF IInv, Datagrams, Earned

(* The server's steps, one per kind of request and outcome.                *)
LEMMA RespondStep ==
  ASSUME IInv, NEW m \in requests, Respond(m)
  PROVE  IInv' /\ Earned
<1>1. requests' = requests \ {m}
  BY DEF Respond, handleChallenge, handleQuery, handleInfoRequest, Unsupported, IsFor
<1>2. ASSUME NoReply, owed' = owed,
             UNCHANGED challenges \/ \E a : challenges' = [challenges EXCEPT ![a] = {}]
      PROVE  IInv' /\ Earned
  <2>1. Copied
    BY <1>2 DEF NoReply, Copied
  <2>2. QED
    BY <1>1, <1>2, <2>1, SilentStep
<1>3. CASE handleChallenge(m)
  <2>1. PICK v \in Randoms :
          GenerateChallenge(m.from, v) /\ Reply(m, SqpChallenge(v), <<>>)
    BY <1>3 DEF handleChallenge
  <2>2. queryProto = "sqp"
    BY <1>3 DEF handleChallenge, IsFor
  <2>3. HoldsChallenge(SqpChallenge(v))
    BY <2>2, ChallengesAreMarked DEF HoldsChallenge
  <2>4. QED
    BY <1>1, <2>1, <2>3, ChallengeStep
<1>4. CASE handleQuery(m)
  <2> DEFINE query == ParseQuery(m.buf)
             packet == SqpAnswer(query, state)
             of == [state |-> state, query |-> query]
             right == ChallengeMatches(m.from, query.challenge)
  <2>1. /\ Consume(m.from, query.challenge)
        /\ IF right /\ query.version <= 2
             THEN Answer(m, packet, of)
             ELSE NoReply /\ UNCHANGED owed
    BY <1>4 DEF handleQuery
  <2> HIDE DEF query, packet, of
  <2>2. CASE Answer(m, packet, of) /\ right
    BY <1>1, <2>1, <2>2, AnswerStep
  <2>3. CASE NoReply /\ UNCHANGED owed
    BY <1>2, <2>1, <2>3 DEF Consume
  <2>4. QED
    BY <2>1, <2>2, <2>3
<1>5. CASE handleInfoRequest(m)
  <2> DEFINE info == parseInfoRequest(m.buf)
             packet == A2sInfo(state)
             of == [state |-> state]
             right == ChallengeMatches(m.from, info.challenge)
  <2>1. \/ \E v \in Randoms : GenerateChallenge(m.from, v) /\ Reply(m, A2sChallenge(v), <<>>)
        \/ /\ Consume(m.from, info.challenge)
           /\ IF right THEN Answer(m, packet, of) ELSE NoReply /\ UNCHANGED owed
    BY <1>5 DEF handleInfoRequest
  <2>2. queryProto = "a2s"
    BY <1>5 DEF handleInfoRequest, IsFor
  <2> HIDE DEF info, packet, of
  <2>3. ASSUME NEW v \in Randoms, GenerateChallenge(m.from, v), Reply(m, A2sChallenge(v), <<>>)
        PROVE  IInv' /\ Earned
    <3>1. HoldsChallenge(A2sChallenge(v))
      BY <2>2, ChallengesAreMarked DEF HoldsChallenge
    <3>2. QED
      BY <1>1, <2>3, <3>1, ChallengeStep
  <2>4. CASE Consume(m.from, info.challenge) /\ Answer(m, packet, of) /\ right
    BY <1>1, <2>4, AnswerStep
  <2>5. CASE Consume(m.from, info.challenge) /\ NoReply /\ UNCHANGED owed
    BY <1>2, <2>5 DEF Consume
  <2>6. QED
    BY <2>1, <2>3, <2>4, <2>5
<1>6. CASE Unsupported(m)
  BY <1>2, <1>6 DEF Unsupported, Unanswered, serverVars
<1>7. QED
  BY <1>3, <1>4, <1>5, <1>6 DEF Respond

(* The setters, the faults and the clients make no response.               *)
LEMMA OtherStep ==
  ASSUME IInv,
         \/ Setters \/ Faults \/ UNCHANGED vars
         \/ \E a \in Addr : ClientBegins(a) \/ ClientReceives(a) \/ ClientTimesOut(a)
  PROVE  IInv' /\ Earned
<1>1. owed' = owed /\ (UNCHANGED challenges
                       \/ \E a : challenges' = [challenges EXCEPT ![a] = {}])
  BY DEF Setters, SetMaxPlayers, SetCurrentPlayers, PlayerJoined, PlayerLeft, SetMetric,
         SetServerName, SetGameType, SetGameMap, Set, Faults, Lose, Repeat, RandFails,
         NoReply, Expires, StrayArrives, ClientBegins, ClientReceives, ClientTimesOut, vars,
         serverVars
<1>2. Copied
  BY DEF Copied, Setters, SetMaxPlayers, SetCurrentPlayers, PlayerJoined, PlayerLeft,
         SetMetric, SetServerName, SetGameType, SetGameMap, Set, Faults, Lose, Repeat,
         RandFails, NoReply, Expires, StrayArrives, ClientBegins, ClientReceives,
         ClientTimesOut, vars, serverVars
<1>3. ASSUME NEW m \in requests'
      PROVE  \/ m \in requests
             \/ \E q \in requests : m = [q EXCEPT !.copy = 2]
             \/ \E a \in Addr : \E b : m = [from |-> a, buf |-> b, copy |-> 1]
  BY <1>3 DEF Setters, SetMaxPlayers, SetCurrentPlayers, PlayerJoined, PlayerLeft,
         SetMetric, SetServerName, SetGameType, SetGameMap, Set, Faults, Lose, Repeat,
         RandFails, IsFor, Expires, StrayArrives, ClientBegins, ClientReceives,
         ClientTimesOut, Send, vars, serverVars
<1>4. QED
  BY <1>1, <1>2, <1>3, SilentStep

(* Every step preserves the invariant, and earns the answer it makes.      *)
LEMMA StepIInv == IInv /\ [Next]_vars => IInv' /\ Earned
BY RespondStep, OtherStep DEF Next, handleQueries

(* Every answer is paid for with a challenge of its own, for any clients,  *)
(* whatever the network loses and repeats, whatever arrives beside.        *)
THEOREM AnswersEarnedHolds == Spec => AnswersEarned
<1>1. IInv /\ [Next]_vars => [Earned]_vars
  BY StepIInv
<1>2. QED
  BY <1>1, InitIInv, StepIInv, PTL DEF Spec, AnswersEarned, Earned

-----------------------------------------------------------------------------
(* The types. They rest on the bytes: a client asks with the number it has *)
(* read from a packet, and that is one the server has drawn.               *)
Bytes == 0 .. 255
Ports == 0 .. 256^2 - 1
MetricLists ==
  {m \in Seq(Nat) : Len(m) <= 255 /\ \A i \in 1 .. Len(m) : m[i] \div 256^3 < 256}
States == [players : Int, maxPlayers : Int, name : Seq(Bytes), gameType : Seq(Bytes),
           map : Seq(Bytes), port : Ports, metrics : MetricLists]
Challenge(v) == IF queryProto = "sqp" THEN SqpChallenge(v) ELSE A2sChallenge(v)

(* The fields of a packet are bytes, as many as they are wide.             *)
LEMMA FieldBytes ==
  ASSUME NEW n \in Nat
  PROVE  /\ BigEndian(n, 2) \in Seq(Bytes) /\ Len(BigEndian(n, 2)) = 2
         /\ BigEndian(n, 4) \in Seq(Bytes) /\ Len(BigEndian(n, 4)) = 4
         /\ LittleEndian(n, 1) \in Seq(Bytes) /\ Len(LittleEndian(n, 1)) = 1
         /\ LittleEndian(n, 2) \in Seq(Bytes) /\ Len(LittleEndian(n, 2)) = 2
         /\ LittleEndian(n, 4) \in Seq(Bytes) /\ Len(LittleEndian(n, 4)) = 4
<1>1. 1 \in 1 .. 4 /\ 2 \in 1 .. 4 /\ 4 \in 1 .. 4
  BY SMT
<1>2. BigEndian(n, 2) \in Seq(Bytes) /\ Len(BigEndian(n, 2)) = 2
  BY <1>1, BytesOf, Zenon DEF Bytes
<1>3. BigEndian(n, 4) \in Seq(Bytes) /\ Len(BigEndian(n, 4)) = 4
  BY <1>1, BytesOf, Zenon DEF Bytes
<1>4. LittleEndian(n, 1) \in Seq(Bytes) /\ Len(LittleEndian(n, 1)) = 1
  BY <1>1, BytesOf, Zenon DEF Bytes
<1>5. LittleEndian(n, 2) \in Seq(Bytes) /\ Len(LittleEndian(n, 2)) = 2
  BY <1>1, BytesOf, Zenon DEF Bytes
<1>6. LittleEndian(n, 4) \in Seq(Bytes) /\ Len(LittleEndian(n, 4)) = 4
  BY <1>1, BytesOf, Zenon DEF Bytes
<1>7. QED
  BY <1>2, <1>3, <1>4, <1>5, <1>6, Zenon

(* Two sequences of bytes on end are bytes, as many as both together.      *)
LEMMA JoinedLength ==
  ASSUME NEW x \in Seq(Bytes), NEW y \in Seq(Bytes)
  PROVE  x \o y \in Seq(Bytes) /\ Len(x \o y) = Len(x) + Len(y)
BY ConcatProperties, Zenon

(* What a state consists of.                                               *)
LEMMA StateFields ==
  ASSUME NEW s \in States
  PROVE  /\ s.players \in Int /\ s.maxPlayers \in Int
         /\ s.port \in Nat /\ s.port \div 256 < 256
         /\ s.name \in Seq(Bytes) /\ s.gameType \in Seq(Bytes) /\ s.map \in Seq(Bytes)
         /\ s.metrics \in Seq(Nat) /\ Len(s.metrics) <= 255
         /\ \A i \in 1 .. Len(s.metrics) : s.metrics[i] \in Nat /\ s.metrics[i] \div 256^3 < 256
<1>1. /\ s.players \in Int /\ s.maxPlayers \in Int /\ s.port \in Ports
      /\ s.name \in Seq(Bytes) /\ s.gameType \in Seq(Bytes) /\ s.map \in Seq(Bytes)
      /\ s.metrics \in MetricLists
  BY DEF States
<1>2. ASSUME NEW p \in Ports PROVE p \in Nat /\ p \div 256 < 256
  <2>1. p \in Nat /\ p < 65536
    BY Powers, SMT DEF Ports
  <2>2. QED
    BY <2>1, SMT
<1>3. ASSUME NEW m \in MetricLists
      PROVE  /\ m \in Seq(Nat) /\ Len(m) <= 255
             /\ \A i \in 1 .. Len(m) : m[i] \in Nat /\ m[i] \div 256^3 < 256
  BY ElementOfSeq DEF MetricLists
<1>4. QED
  BY <1>1, <1>2, <1>3, SMT

(* A count narrowed to two bytes.                                          *)
LEMMA NarrowedToTwo ==
  ASSUME NEW n \in Int
  PROVE  UInt16(n) \in Nat /\ UInt16(n) \div 256 < 256
<1>1. n % 65536 \in Nat /\ n % 65536 < 65536
  BY SMT
<1>2. ASSUME NEW m \in Nat, m < 65536 PROVE m \div 256 < 256
  BY <1>2, SMT
<1>3. UInt16(n) = n % 65536
  BY Powers, SMT DEF UInt16
<1>4. UInt16(n) \in Nat /\ UInt16(n) < 65536
  BY <1>1, <1>3, SMT
<1>5. QED
  BY <1>2, <1>4, SMT

(* A count narrowed to one byte.                                           *)
LEMMA NarrowedToOne ==
  ASSUME NEW n \in Int
  PROVE  Byte(n) \in Nat /\ Byte(n) % 256 = n % 256
<1>1. n % 256 \in Nat /\ n % 256 < 256
  BY SMT
<1>2. ASSUME NEW m \in Nat, m < 256 PROVE m % 256 = m
  BY <1>2, SMT
<1>3. Byte(n) \in Nat /\ Byte(n) < 256 /\ Byte(n) = n % 256
  BY <1>1, SMT DEF Byte
<1>4. QED
  BY <1>2, <1>3, SMT

(* The part of a packet after its front.                                   *)
LEMMA BackOfConcat ==
  ASSUME NEW S, NEW s \in Seq(S), NEW t \in Seq(S), t # <<>>
  PROVE  SubSeq(s \o t, Len(s) + 1, Len(s) + Len(t)) = t
<1>1. Len(s) \in Nat /\ Len(t) \in Nat /\ Len(t) # 0
  BY LenProperties, EmptySeq
<1>2. Len(s) + 1 \in Len(s) + 1 .. Len(s) + Len(t)
      /\ Len(s) + Len(t) \in Len(s) + 1 .. Len(s) + Len(t)
  BY <1>1
<1>3. SubSeq(s \o t, Len(s) + 1, Len(s) + Len(t))
        = SubSeq(t, Len(s) + 1 - Len(s), Len(s) + Len(t) - Len(s))
  BY <1>2, SubSeqOfConcat2
<1>4. Len(s) + 1 - Len(s) = 1 /\ Len(s) + Len(t) - Len(s) = Len(t)
  BY <1>1
<1>5. SubSeq(t, 1, Len(t)) = t
  BY SubSeqFull
<1>6. QED
  BY <1>3, <1>4, <1>5

(* A challenge goes out in bytes and is read back.                         *)
LEMMA ChallengeRead ==
  ASSUME NEW v \in Randoms
  PROVE  Challenge(v) \in Seq(Bytes) /\ ReadChallenge(Challenge(v)) = v
<1>1. v \in Nat /\ v \div 256^3 < 256
  BY ConstantsAssumption
<1> DEFINE b == BigEndian(v, 4)
           l == LittleEndian(v, 4)
           front == <<255, 255, 255, 255, 65>>
<1>2. b \in Seq(Bytes) /\ Len(b) = 4 /\ l \in Seq(Bytes) /\ Len(l) = 4
  BY <1>1, FieldBytes, Zenon
<1>3. FromBigEndian(b) = v /\ FromLittleEndian(l) = v
  BY <1>1, ReadsBack
<1>4. SqpChallenge(v) = <<0>> \o b /\ A2sChallenge(v) = front \o l
  <2>1. SqpChallenge(v) = WireWrite(<< <<0>>, b>>)
    BY Zenon DEF SqpChallenge
  <2>2. A2sChallenge(v) = WireWrite(<<front, l>>)
    BY Zenon DEF A2sChallenge
  <2> HIDE DEF b, l, front
  <2>3. WireWrite(<< <<0>>, b>>) = <<0>> \o b
    BY WireWriteOfTwo, Zenon
  <2>4. WireWrite(<<front, l>>) = front \o l
    BY WireWriteOfTwo, Zenon
  <2>5. QED
    BY <2>1, <2>2, <2>3, <2>4, Zenon
<1>5. /\ <<0>> \in Seq(Bytes) /\ Len(<<0>>) = 1
      /\ front \in Seq(Bytes) /\ Len(front) = 5
  BY DEF Bytes
<1> HIDE DEF b, l, front
<1>6. b # <<>> /\ l # <<>>
  BY <1>2, EmptySeq
<1>7. SubSeq(<<0>> \o b, 2, 5) = b
  <2>1. SubSeq(<<0>> \o b, Len(<<0>>) + 1, Len(<<0>>) + Len(b)) = b
    BY <1>2, <1>5, <1>6, BackOfConcat
  <2>2. Len(<<0>>) + 1 = 2 /\ Len(<<0>>) + Len(b) = 5
    BY <1>2, <1>5
  <2>3. QED
    BY <2>1, <2>2
<1>8. SubSeq(front \o l, 6, 9) = l
  <2>1. SubSeq(front \o l, Len(front) + 1, Len(front) + Len(l)) = l
    BY <1>2, <1>5, <1>6, BackOfConcat
  <2>2. Len(front) + 1 = 6 /\ Len(front) + Len(l) = 9
    BY <1>2, <1>5
  <2>3. QED
    BY <2>1, <2>2
<1>9. <<0>> \o b \in Seq(Bytes) /\ front \o l \in Seq(Bytes)
  BY <1>2, <1>5, ConcatProperties
<1>10. CASE queryProto = "sqp"
  BY <1>3, <1>4, <1>7, <1>9, <1>10 DEF Challenge, ReadChallenge
<1>11. CASE queryProto # "sqp"
  BY <1>3, <1>4, <1>8, <1>9, <1>11 DEF Challenge, ReadChallenge
<1>12. QED
  BY <1>10, <1>11

(* A string of the game goes out in bytes, in either format.               *)
LEMMA StringBytes ==
  ASSUME NEW s \in Seq(Bytes)
  PROVE  SqpString(s) \in Seq(Bytes) /\ A2sString(s) \in Seq(Bytes)
<1>1. Byte(Len(s)) \in Bytes
  <2>1. Len(s) \in Nat
    BY LenProperties
  <2>2. \A n \in Nat : n % 256 \in 0 .. 255
    BY SMT
  <2>3. QED
    BY <2>1, <2>2 DEF Byte, Bytes
<1>2. <<Byte(Len(s))>> \in Seq(Bytes)
  BY <1>1
<1>3. <<0>> \in Seq(Bytes)
  BY DEF Bytes
<1>4. QED
  BY <1>2, <1>3, ConcatProperties DEF SqpString, A2sString

(* The chunks of an answer in the sqp format are bytes.                    *)
LEMMA ChunkBytes ==
  ASSUME NEW s \in States
  PROVE  SqpServerInfo(s) \in Seq(Bytes) /\ SqpMetrics(s) \in Seq(Bytes)
<1>1. /\ UInt16(s.players) \in Nat /\ UInt16(s.maxPlayers) \in Nat /\ s.port \in Nat
      /\ s.name \in Seq(Bytes) /\ s.gameType \in Seq(Bytes) /\ s.map \in Seq(Bytes)
      /\ s.metrics \in Seq(Nat) /\ Len(s.metrics) <= 255
  <2>1. s.players \in Int /\ s.maxPlayers \in Int
    BY StateFields, Zenon
  <2>2. UInt16(s.players) \in Nat /\ UInt16(s.maxPlayers) \in Nat
    BY <2>1, NarrowedToTwo, Zenon
  <2>3. /\ s.port \in Nat /\ s.name \in Seq(Bytes) /\ s.gameType \in Seq(Bytes)
        /\ s.map \in Seq(Bytes) /\ s.metrics \in Seq(Nat) /\ Len(s.metrics) <= 255
    BY StateFields
  <2>4. QED
    BY <2>2, <2>3
<1>2. SqpServerInfo(s) \in Seq(Bytes)
  <2> DEFINE b1 == BigEndian(UInt16(s.players), 2)
             b2 == BigEndian(UInt16(s.maxPlayers), 2)
             b3 == SqpString(s.name)
             b4 == SqpString(s.gameType)
             b5 == SqpString(<<>>)
             b6 == SqpString(s.map)
             b7 == BigEndian(s.port, 2)
  <2>1. b1 \in Seq(Bytes) /\ b2 \in Seq(Bytes) /\ b7 \in Seq(Bytes)
    BY <1>1, FieldBytes, Zenon
  <2>2. b3 \in Seq(Bytes) /\ b4 \in Seq(Bytes) /\ b5 \in Seq(Bytes) /\ b6 \in Seq(Bytes)
    BY <1>1, StringBytes, EmptySeq
  <2>3. SqpServerInfo(s) = WireWrite(<<b1, b2, b3, b4, b5, b6, b7>>)
    BY DEF SqpServerInfo
  <2> HIDE DEF b1, b2, b3, b4, b5, b6, b7
  <2>4. <<b1, b2, b3, b4, b5, b6, b7>> \in Seq(Seq(Bytes))
    BY <2>1, <2>2
  <2>5. QED
    BY <2>3, <2>4, WireWriteBytes
<1>3. SqpMetrics(s) \in Seq(Bytes)
  <2> DEFINE n == Len(s.metrics)
             each == [i \in 1 .. n |-> BigEndian(s.metrics[i], 4)]
  <2>1. n \in Nat /\ n <= 255 /\ \A i \in 1 .. n : s.metrics[i] \in Nat
    BY <1>1, LenProperties, ElementOfSeq
  <2>2. \A i \in 1 .. n : BigEndian(s.metrics[i], 4) \in Seq(Bytes)
    BY <2>1, FieldBytes, Zenon
  <2>3. SqpMetrics(s) = WireWrite(<<<<n>>, FlattenSeq(each)>>)
    BY DEF SqpMetrics
  <2> HIDE DEF n
  <2>4. each \in Seq(Seq(Bytes))
    BY <2>1, <2>2
  <2> HIDE DEF each
  <2>5. FlattenSeq(each) \in Seq(Bytes)
    BY <2>4, WireWriteBytes DEF WireWrite
  <2>6. <<n>> \in Seq(Bytes)
    BY <2>1 DEF Bytes
  <2>7. <<<<n>>, FlattenSeq(each)>> \in Seq(Seq(Bytes))
    BY <2>5, <2>6
  <2>8. QED
    BY <2>3, <2>7, WireWriteBytes
<1>4. QED
  BY <1>2, <1>3

(* An answer in the sqp format is bytes, and says that it is one.          *)
LEMMA SqpAnswerBytes ==
  ASSUME NEW s \in States, NEW query, query.challenge \in Nat
  PROVE  SqpAnswer(query, s) \in Seq(Bytes) /\ SqpAnswer(query, s)[1] = 1
<1> DEFINE metrics == query.version >= 2 /\ query.wantsMetrics
           infoSize == SqpServerInfoSize(s)
           metricsSize == SqpMetricsSize(s)
           payload == (IF query.wantsServerInfo THEN infoSize + 4 ELSE 0)
                      + (IF metrics THEN metricsSize + 4 ELSE 0)
           b1 == BigEndian(query.challenge, 4)
           b2 == BigEndian(1, 2)
           b3 == BigEndian(payload, 2)
           c1 == IF query.wantsServerInfo THEN BigEndian(infoSize, 4) \o SqpServerInfo(s) ELSE <<>>
           c2 == IF metrics THEN BigEndian(metricsSize, 4) \o SqpMetrics(s) ELSE <<>>
           fields == <<<<1>>, b1, b2, <<0>>, <<0>>, b3, c1, c2>>
<1>1. infoSize \in Nat /\ metricsSize \in Nat
  <2>1. /\ s.name \in Seq(Bytes) /\ s.gameType \in Seq(Bytes) /\ s.map \in Seq(Bytes)
        /\ s.metrics \in Seq(Nat)
    BY StateFields
  <2>2. /\ Len(s.name) \in Nat /\ Len(s.gameType) \in Nat /\ Len(s.map) \in Nat
        /\ Len(s.metrics) \in Nat
    BY <2>1, LenProperties
  <2>3. ASSUME NEW k \in Nat, NEW l \in Nat, NEW m \in Nat
        PROVE  2 + 2 + k + 1 + l + 1 + 1 + m + 1 + 2 \in Nat /\ 1 + 4 * k \in Nat
    OBVIOUS
  <2>4. infoSize \in Nat
    BY <2>2, <2>3, Zenon DEF SqpServerInfoSize
  <2>5. metricsSize \in Nat
    BY <2>2, <2>3, Zenon DEF SqpMetricsSize
  <2>6. QED
    BY <2>4, <2>5
<1>2. SqpAnswer(query, s) = WireWrite(fields)
  BY DEF SqpAnswer
<1> HIDE DEF infoSize, metricsSize, metrics
<1>3. payload \in Nat
  BY <1>1
<1> HIDE DEF payload
<1>4. b1 \in Seq(Bytes) /\ b2 \in Seq(Bytes) /\ b3 \in Seq(Bytes)
  BY <1>3, FieldBytes, 1 \in Nat, Zenon
<1>5. BigEndian(infoSize, 4) \in Seq(Bytes) /\ BigEndian(metricsSize, 4) \in Seq(Bytes)
  BY <1>1, FieldBytes, Zenon
<1>6. /\ BigEndian(infoSize, 4) \o SqpServerInfo(s) \in Seq(Bytes)
      /\ BigEndian(metricsSize, 4) \o SqpMetrics(s) \in Seq(Bytes)
  BY <1>5, ChunkBytes, ConcatProperties
<1>7. c1 \in Seq(Bytes) /\ c2 \in Seq(Bytes)
  BY <1>6, EmptySeq
<1>8. <<0>> \in Seq(Bytes) /\ <<1>> \in Seq(Bytes)
  BY DEF Bytes
<1> HIDE DEF b1, b2, b3, c1, c2
<1>9. fields \in Seq(Seq(Bytes)) /\ fields[1] = <<1>> /\ Len(fields) = 8
  BY <1>4, <1>7, <1>8
<1> HIDE DEF fields
<1>10. 1 \in 1 .. Len(fields[1]) /\ fields[1][1] = 1
  BY <1>9
<1>11. QED
  BY <1>2, <1>9, <1>10, FlattenStarts DEF WireWrite

(* So is one in the a2s format.                                            *)
LEMMA A2sInfoBytes ==
  ASSUME NEW s \in States
  PROVE  A2sInfo(s) \in Seq(Bytes) /\ A2sInfo(s)[5] = 73
<1> DEFINE front == <<255, 255, 255, 255, 73>>
           b1 == A2sString(s.name)
           b2 == A2sString(s.map)
           b3 == A2sString(NotAvailable)
           b4 == A2sString(s.gameType)
           b5 == LittleEndian(0, 2)
           b6 == LittleEndian(Byte(s.players), 1)
           b7 == LittleEndian(Byte(s.maxPlayers), 1)
           b8 == A2sString(<<>>)
           fields == <<front, <<1>>, b1, b2, b3, b4, b5, b6, b7, <<0>>, <<100>>, <<108>>,
                       <<0>>, <<0>>, b8>>
<1>1. /\ Byte(s.players) \in Nat /\ Byte(s.maxPlayers) \in Nat
      /\ s.name \in Seq(Bytes) /\ s.gameType \in Seq(Bytes) /\ s.map \in Seq(Bytes)
  <2>1. s.players \in Int /\ s.maxPlayers \in Int
    BY StateFields, Zenon
  <2>2. Byte(s.players) \in Nat /\ Byte(s.maxPlayers) \in Nat
    BY <2>1, NarrowedToOne, Zenon
  <2>3. QED
    BY <2>2, StateFields, Zenon
<1>2. NotAvailable \in Seq(Bytes) /\ <<>> \in Seq(Bytes)
  BY DEF NotAvailable, Bytes
<1>3. b1 \in Seq(Bytes) /\ b2 \in Seq(Bytes) /\ b3 \in Seq(Bytes) /\ b4 \in Seq(Bytes)
      /\ b8 \in Seq(Bytes)
  BY <1>1, <1>2, StringBytes
<1>4. b5 \in Seq(Bytes) /\ b6 \in Seq(Bytes) /\ b7 \in Seq(Bytes)
  BY <1>1, FieldBytes, 0 \in Nat, Zenon
<1>5. /\ front \in Seq(Bytes) /\ <<1>> \in Seq(Bytes) /\ <<0>> \in Seq(Bytes)
      /\ <<100>> \in Seq(Bytes) /\ <<108>> \in Seq(Bytes)
      /\ Len(front) = 5 /\ front[5] = 73
  BY DEF Bytes
<1>6. A2sInfo(s) = WireWrite(fields)
  BY DEF A2sInfo
<1> HIDE DEF front, b1, b2, b3, b4, b5, b6, b7, b8
<1>7. fields \in Seq(Seq(Bytes)) /\ fields[1] = front /\ Len(fields) # 0
  BY <1>3, <1>4, <1>5
<1> HIDE DEF fields
<1>8. 5 \in 1 .. Len(fields[1]) /\ fields[1][5] = 73
  <2>1. 5 \in 1 .. Len(front)
    BY <1>5
  <2>2. QED
    BY <1>5, <1>7, <2>1, Zenon
<1>9. QED
  BY <1>6, <1>7, <1>8, FlattenStarts DEF WireWrite

(* What is on the way, and what a client does.                             *)
GoodPacket(p) ==
  p \in Seq(Bytes) /\ (HoldsChallenge(p) => \E v \in Randoms : p = Challenge(v))
GoodRequest(m) == IsRequest(m) /\ m.copy \in 1 .. 2
Made(packet, of) ==
  ~HoldsChallenge(packet) =>
    /\ of.state \in States
    /\ queryProto = "sqp" =>
         of.query.challenge \in Randoms /\ packet = SqpAnswer(of.query, of.state)
    /\ queryProto = "a2s" => packet = A2sInfo(of.state)
GoodResponse(r) ==
  /\ IsResponse(r) /\ r.to \in Addr /\ r.copy \in 1 .. 2
  /\ GoodPacket(r.packet) /\ Made(r.packet, r.of)
Clients == [at : {"idle", "challenging", "asking", "served"}, challenge : Randoms \cup {0}]

TypeInv ==
  /\ queryProto \in {"sqp", "a2s"} /\ sets \in 0 .. MaxSets /\ faults \in 0 .. MaxFaults
  /\ owed \subseteq Addr /\ challenges \in [Addr -> SUBSET Randoms]
  /\ state \in States /\ clients \in [Addr -> Clients]
  /\ \A m \in requests : GoodRequest(m)
  /\ \A r \in responses : GoodResponse(r)

(* The invariant holds at the start.                                       *)
LEMMA InitTypeInv == Init => TypeInv
<1> SUFFICES ASSUME Init PROVE TypeInv
  OBVIOUS
<1>1. state \in States
  <2> DEFINE name == <<103, 111>>
  <2>1. <<>> \in Seq(Nat) /\ Len(<<>>) = 0
    BY SMT
  <2>2. <<>> \in MetricLists
    BY <2>1, SMT DEF MetricLists
  <2>3. name \in Seq(Bytes) /\ <<>> \in Seq(Bytes) /\ <<109>> \in Seq(Bytes)
    BY DEF Bytes
  <2>4. state = [players |-> 0, maxPlayers |-> 0, name |-> name, gameType |-> <<>>,
                 map |-> <<109>>, port |-> 9000, metrics |-> <<>>]
    BY DEF Init
  <2>5. 9000 \in Ports
    BY Powers, SMT DEF Ports
  <2> HIDE DEF name
  <2>6. QED
    BY <2>2, <2>3, <2>4, <2>5, SMT DEF States
<1>2. clients \in [Addr -> Clients]
  BY DEF Init, NoClient, Clients
<1>3. challenges \in [Addr -> SUBSET Randoms]
  BY DEF Init
<1>4. sets \in 0 .. MaxSets /\ faults \in 0 .. MaxFaults
  BY ConstantsAssumption DEF Init
<1>5. QED
  BY <1>1, <1>2, <1>3, <1>4 DEF Init, TypeInv

(* What the datagrams are does not change under way.                       *)
LEMMA CopiesAreGood ==
  /\ \A r : GoodResponse(r) => GoodResponse([r EXCEPT !.copy = 2])
  /\ \A m : GoodRequest(m) => GoodRequest([m EXCEPT !.copy = 2])
<1>1. ASSUME NEW r, GoodResponse(r) PROVE GoodResponse([r EXCEPT !.copy = 2])
  <2>1. r = [to |-> r.to, packet |-> r.packet, of |-> r.of, copy |-> r.copy]
    BY <1>1 DEF GoodResponse, IsResponse
  <2>2. [r EXCEPT !.copy = 2] = [to |-> r.to, packet |-> r.packet, of |-> r.of, copy |-> 2]
    BY <2>1
  <2>3. QED
    BY <1>1, <2>2 DEF GoodResponse, IsResponse
<1>2. ASSUME NEW m, GoodRequest(m) PROVE GoodRequest([m EXCEPT !.copy = 2])
  <2>1. m = [from |-> m.from, buf |-> m.buf, copy |-> m.copy]
    BY <1>2 DEF GoodRequest, IsRequest
  <2>2. [m EXCEPT !.copy = 2] = [from |-> m.from, buf |-> m.buf, copy |-> 2]
    BY <2>1
  <2>3. QED
    BY <1>2, <2>2 DEF GoodRequest, IsRequest
<1>3. QED
  BY <1>1, <1>2

(* A packet stays what it is as long as the protocol does, and it does.    *)
LEMMA PacketsStayGood ==
  ASSUME queryProto' = queryProto
  PROVE  \A r : GoodResponse(r)' <=> GoodResponse(r)
BY DEF GoodResponse, IsResponse, GoodPacket, Made, HoldsChallenge, Challenge

(* A client's new request.                                                 *)
LEMMA SendIsGood ==
  ASSUME TypeInv, NEW a \in Addr, NEW d, Send(a, d)
  PROVE  \A m \in requests' : GoodRequest(m)
BY DEF TypeInv, Send, GoodRequest, IsRequest

(* The server's packets, of either kind.                                   *)
LEMMA ServerPackets ==
  ASSUME TypeInv
  PROVE  /\ \A v \in Randoms : GoodPacket(Challenge(v)) /\ Made(Challenge(v), <<>>)
         /\ queryProto = "sqp" =>
              \A query : query.challenge \in Randoms =>
                /\ GoodPacket(SqpAnswer(query, state))
                /\ Made(SqpAnswer(query, state), [state |-> state, query |-> query])
         /\ queryProto = "a2s" =>
              GoodPacket(A2sInfo(state)) /\ Made(A2sInfo(state), [state |-> state])
<1>1. \A v \in Randoms : GoodPacket(Challenge(v)) /\ Made(Challenge(v), <<>>)
  BY ChallengeRead, ChallengesAreMarked DEF GoodPacket, Made, HoldsChallenge, Challenge
<1>2. ASSUME queryProto = "sqp", NEW query, query.challenge \in Randoms
      PROVE  /\ GoodPacket(SqpAnswer(query, state))
             /\ Made(SqpAnswer(query, state), [state |-> state, query |-> query])
  <2>1. query.challenge \in Nat /\ state \in States
    BY <1>2, ConstantsAssumption DEF TypeInv
  <2>2. SqpAnswer(query, state) \in Seq(Bytes) /\ SqpAnswer(query, state)[1] = 1
    BY <2>1, SqpAnswerBytes
  <2>3. QED
    BY <1>2, <2>1, <2>2 DEF GoodPacket, Made, HoldsChallenge
<1>3. ASSUME queryProto = "a2s"
      PROVE  GoodPacket(A2sInfo(state)) /\ Made(A2sInfo(state), [state |-> state])
  <2>1. A2sInfo(state) \in Seq(Bytes) /\ A2sInfo(state)[5] = 73
    BY A2sInfoBytes DEF TypeInv
  <2>2. QED
    BY <1>3, <2>1 DEF GoodPacket, Made, HoldsChallenge, TypeInv
<1>4. QED
  BY <1>1, <1>2, <1>3

(* A reply that is good, with all else kept.                               *)
LEMMA ReplyTypes ==
  ASSUME TypeInv, NEW m \in requests, NEW packet, NEW of, GoodPacket(packet),
         Made(packet, of), Reply(m, packet, of), queryProto' = queryProto
  PROVE  \A r \in responses' : GoodResponse(r)'
<1> DEFINE new == [to |-> m.from, packet |-> packet, of |-> of, copy |-> m.copy]
<1>1. m.from \in Addr /\ m.copy \in 1 .. 2
  BY DEF TypeInv, GoodRequest, IsRequest
<1>2. new.to = m.from /\ new.packet = packet /\ new.of = of /\ new.copy = m.copy
      /\ IsResponse(new)
  BY DEF IsResponse
<1>3. responses' = responses \cup {new}
  BY DEF Reply
<1> HIDE DEF new
<1>4. GoodResponse(new)
  BY <1>1, <1>2 DEF GoodResponse
<1>5. \A r \in responses' : GoodResponse(r)
  BY <1>3, <1>4 DEF TypeInv
<1>6. QED
  BY <1>5, PacketsStayGood

(* The types, kept by the server.                                          *)
LEMMA RespondTypes ==
  ASSUME TypeInv, NEW m \in requests, Respond(m)
  PROVE  TypeInv'
<1>1. /\ requests' = requests \ {m} /\ queryProto' = queryProto /\ state' = state
      /\ sets' = sets /\ clients' = clients
  BY DEF Respond, handleChallenge, handleQuery, handleInfoRequest, Unsupported, IsFor,
         GenerateChallenge, Unanswered, serverVars
<1>2. m.from \in Addr
  BY DEF TypeInv, GoodRequest, IsRequest
<1>3. ASSUME faults' \in 0 .. MaxFaults, owed' \subseteq Addr,
             challenges' \in [Addr -> SUBSET Randoms],
             \A r \in responses' : GoodResponse(r)'
      PROVE  TypeInv'
  <2>1. /\ queryProto' \in {"sqp", "a2s"} /\ sets' \in 0 .. MaxSets
        /\ state' \in States /\ clients' \in [Addr -> Clients]
    BY <1>1 DEF TypeInv
  <2>2. \A q \in requests' : GoodRequest(q)'
    BY <1>1 DEF TypeInv, GoodRequest, IsRequest
  <2>3. QED
    BY <1>3, <2>1, <2>2 DEF TypeInv
<1>4. ASSUME NoReply PROVE \A r \in responses' : GoodResponse(r)'
  BY <1>1, <1>4, PacketsStayGood DEF NoReply, TypeInv
<1>5. ASSUME NEW v \in Randoms, GenerateChallenge(m.from, v), Reply(m, Challenge(v), <<>>)
      PROVE  TypeInv'
  <2>1. faults' \in 0 .. MaxFaults
    BY <1>5, ConstantsAssumption DEF GenerateChallenge, TypeInv
  <2>2. owed' \subseteq Addr /\ challenges' \in [Addr -> SUBSET Randoms]
    BY <1>2, <1>5 DEF GenerateChallenge, TypeInv
  <2>3. GoodPacket(Challenge(v)) /\ Made(Challenge(v), <<>>)
    BY ServerPackets
  <2>4. \A r \in responses' : GoodResponse(r)'
    BY <1>1, <1>5, <2>3, ReplyTypes
  <2>5. QED
    BY <1>3, <2>1, <2>2, <2>4
<1>6. ASSUME NEW c, Consume(m.from, c), faults' = faults,
             \/ \E packet, of :
                  GoodPacket(packet) /\ Made(packet, of) /\ Answer(m, packet, of)
             \/ NoReply /\ owed' = owed
      PROVE  TypeInv'
  <2>1. faults' \in 0 .. MaxFaults /\ challenges' \in [Addr -> SUBSET Randoms]
    BY <1>2, <1>6 DEF Consume, TypeInv
  <2>2. ASSUME NEW packet, NEW of, GoodPacket(packet), Made(packet, of), Answer(m, packet, of)
        PROVE  owed' \subseteq Addr /\ \A r \in responses' : GoodResponse(r)'
    <3>1. Reply(m, packet, of) /\ owed' = owed \ {m.from}
      BY <2>2 DEF Answer
    <3>2. QED
      BY <1>1, <2>2, <3>1, ReplyTypes DEF TypeInv
  <2>3. CASE NoReply /\ owed' = owed
    <3>1. owed' \subseteq Addr
      BY <2>3 DEF TypeInv
    <3>2. QED
      BY <1>3, <1>4, <2>1, <2>3, <3>1
  <2>4. QED
    BY <1>3, <1>6, <2>1, <2>2, <2>3
<1>7. CASE handleChallenge(m)
  <2>1. queryProto = "sqp"
        /\ \E v \in Randoms : GenerateChallenge(m.from, v) /\ Reply(m, SqpChallenge(v), <<>>)
    BY <1>7 DEF handleChallenge, IsFor
  <2>2. QED
    BY <1>5, <2>1 DEF Challenge
<1>8. CASE handleQuery(m)
  <2> DEFINE query == ParseQuery(m.buf)
             packet == SqpAnswer(query, state)
             of == [state |-> state, query |-> query]
             right == ChallengeMatches(m.from, query.challenge)
  <2>1. /\ Consume(m.from, query.challenge) /\ faults' = faults /\ queryProto = "sqp"
        /\ IF right /\ query.version <= 2
             THEN Answer(m, packet, of)
             ELSE NoReply /\ UNCHANGED owed
    BY <1>8 DEF handleQuery, IsFor
  <2> HIDE DEF query
  <2>2. right => query.challenge \in Randoms
    BY <1>2 DEF ChallengeMatches, TypeInv
  <2>3. right => GoodPacket(packet) /\ Made(packet, of)
    BY <2>1, <2>2, ServerPackets
  <2> HIDE DEF packet, of
  <2>4. QED
    BY <1>6, <2>1, <2>3
<1>9. CASE handleInfoRequest(m)
  <2> DEFINE info == parseInfoRequest(m.buf)
             packet == A2sInfo(state)
             of == [state |-> state]
  <2>1. /\ queryProto = "a2s"
        /\ \/ \E v \in Randoms :
                GenerateChallenge(m.from, v) /\ Reply(m, A2sChallenge(v), <<>>)
           \/ /\ Consume(m.from, info.challenge) /\ faults' = faults
              /\ Answer(m, packet, of) \/ (NoReply /\ UNCHANGED owed)
    BY <1>9 DEF handleInfoRequest, IsFor
  <2> HIDE DEF info
  <2>2. GoodPacket(packet) /\ Made(packet, of)
    BY <2>1, ServerPackets
  <2> HIDE DEF packet, of
  <2>3. QED
    BY <1>5, <1>6, <2>1, <2>2 DEF Challenge
<1>10. CASE Unsupported(m)
  BY <1>3, <1>4, <1>10 DEF Unsupported, Unanswered, serverVars, TypeInv
<1>11. QED
  BY <1>7, <1>8, <1>9, <1>10 DEF Respond

(* A metric stored: the list grows no longer than the metrics there are.   *)
LEMMA StoredIsList ==
  ASSUME NEW m \in MetricLists, NEW i \in 1 .. MaxMetrics, NEW v \in MetricValues
  PROVE  Stored(m, i, v) \in MetricLists
<1> DEFINE k == IF i <= Len(m) THEN Len(m) ELSE i
           s == Stored(m, i, v)
<1>1. /\ m \in Seq(Nat) /\ Len(m) \in Nat /\ Len(m) <= 255
      /\ \A j \in 1 .. Len(m) : m[j] \in Nat /\ m[j] \div 256^3 < 256
  BY ElementOfSeq DEF MetricLists
<1>2. MaxMetrics \in 0 .. 255 /\ v \in Nat /\ v \div 256^3 < 256
  BY ConstantsAssumption, Zenon
<1>3. k \in Nat /\ k <= 255
  BY <1>1, <1>2
<1>4. 0 \div 256^3 < 256
  BY SMT
<1>5. ASSUME NEW j \in 1 .. k PROVE s[j] \in Nat /\ s[j] \div 256^3 < 256
  <2>1. s[j] = IF j = i THEN v ELSE IF j <= Len(m) THEN m[j] ELSE 0
    BY DEF Stored
  <2>2. j <= Len(m) => j \in 1 .. Len(m)
    BY <1>1, <1>3
  <2>3. CASE j = i
    BY <1>2, <2>1, <2>3, Zenon
  <2>4. CASE j # i /\ j <= Len(m)
    BY <1>1, <2>1, <2>2, <2>4, Zenon
  <2>5. CASE j # i /\ ~(j <= Len(m))
    <3>1. s[j] = 0 /\ 0 \in Nat
      BY <2>1, <2>5, SMT
    <3>2. QED
      BY <1>4, <3>1, Zenon
  <2>6. QED
    BY <2>3, <2>4, <2>5, Zenon
<1>6. s \in [1 .. k -> Nat]
  BY <1>5, Zenon DEF Stored
<1>7. s \in Seq(Nat) /\ Len(s) = k
  BY <1>3, <1>6, FunctionIsSeq
<1>8. QED
  BY <1>3, <1>5, <1>7, Zenon DEF MetricLists

(* The bounds of an int32.                                                 *)
LEMMA CountsRange == MinInt32 \in Int /\ MaxInt32 \in Int
BY SMT DEF MinInt32, MaxInt32

(* By the game's setters.                                                  *)
LEMMA SetterTypes ==
  ASSUME TypeInv, Setters
  PROVE  TypeInv'
<1>1. PICK s : Set(s) /\ s \in States
  <2>1. state \in States /\ Counts \subseteq Int /\ \A t \in Texts : t \in Seq(Bytes)
    BY ConstantsAssumption, CountsRange DEF TypeInv, Bytes
  <2>2. ASSUME NEW n \in Counts
        PROVE  /\ [state EXCEPT !.maxPlayers = n] \in States
               /\ [state EXCEPT !.players = IF n < 0 THEN 0 ELSE n] \in States
    <3>1. n \in Int /\ (IF n < 0 THEN 0 ELSE n) \in Int
      BY <2>1
    <3>2. QED
      BY <2>1, <3>1 DEF States
  <2>3. ASSUME NEW t \in Texts
        PROVE  /\ [state EXCEPT !.name = t] \in States
               /\ [state EXCEPT !.gameType = t] \in States
               /\ [state EXCEPT !.map = t] \in States
    BY <2>1 DEF States
  <2>4. CASE PlayerJoined \/ PlayerLeft
    <3>1. state.players \in Int /\ MinInt32 \in Int
      BY <2>1, CountsRange DEF States
    <3>2. \A n \in Int : [state EXCEPT !.players = n] \in States
      BY <2>1 DEF States
    <3>3. CASE PlayerJoined
      <4>1. Set([state EXCEPT !.players =
                   IF state.players = MaxInt32 THEN MinInt32 ELSE state.players + 1])
        BY <3>3 DEF PlayerJoined
      <4>2. (IF state.players = MaxInt32 THEN MinInt32 ELSE state.players + 1) \in Int
        BY <3>1
      <4>3. QED
        BY <3>2, <4>1, <4>2
    <3>4. CASE PlayerLeft
      <4>1. Set([state EXCEPT !.players =
                   IF state.players > 0 THEN state.players - 1 ELSE state.players])
        BY <3>4 DEF PlayerLeft
      <4>2. (IF state.players > 0 THEN state.players - 1 ELSE state.players) \in Int
        BY <3>1
      <4>3. QED
        BY <3>2, <4>1, <4>2
    <3>5. QED
      BY <2>4, <3>3, <3>4
  <2>5. CASE SetMetric
    <3>1. PICK i \in 1 .. MaxMetrics, v \in MetricValues :
            Set([state EXCEPT !.metrics = Stored(state.metrics, i, v)])
      BY <2>5 DEF SetMetric
    <3>2. state.metrics \in MetricLists
      BY <2>1 DEF States
    <3>3. Stored(state.metrics, i, v) \in MetricLists
      BY <3>2, StoredIsList
    <3>4. [state EXCEPT !.metrics = Stored(state.metrics, i, v)] \in States
      BY <2>1, <3>3 DEF States
    <3>5. QED
      BY <3>1, <3>4
  <2>6. CASE SetMaxPlayers
    BY <2>2, <2>6 DEF SetMaxPlayers
  <2>7. CASE SetCurrentPlayers
    BY <2>2, <2>7 DEF SetCurrentPlayers
  <2>8. CASE SetServerName \/ SetGameType \/ SetGameMap
    BY <2>3, <2>8 DEF SetServerName, SetGameType, SetGameMap
  <2>9. QED
    BY <2>4, <2>5, <2>6, <2>7, <2>8 DEF Setters
<1>2. /\ sets < MaxSets /\ sets' = sets + 1 /\ state' = s
      /\ UNCHANGED <<queryProto, challenges, requests, responses, clients, faults, owed>>
  BY <1>1 DEF Set
<1>3. sets' \in 0 .. MaxSets
  BY <1>2, ConstantsAssumption DEF TypeInv
<1>4. \A r \in responses' : GoodResponse(r)'
  BY <1>2, PacketsStayGood DEF TypeInv
<1>5. QED
  BY <1>1, <1>2, <1>3, <1>4 DEF TypeInv, GoodRequest, IsRequest

(* By the faults.                                                          *)
LEMMA FaultTypes ==
  ASSUME TypeInv, Faults
  PROVE  TypeInv'
<1>1. /\ queryProto' = queryProto /\ state' = state /\ sets' = sets /\ clients' = clients
      /\ owed' = owed
  BY DEF Faults, Lose, Repeat, RandFails, Expires, StrayArrives, serverVars
<1>2. faults' \in 0 .. MaxFaults
  BY ConstantsAssumption DEF Faults, Lose, Repeat, RandFails, Expires, StrayArrives, Fault, TypeInv
<1>3. challenges' \in [Addr -> SUBSET Randoms]
  BY DEF Faults, Lose, Repeat, RandFails, Expires, StrayArrives, serverVars, TypeInv
<1>4. \A r \in responses' : GoodResponse(r)
  <2>1. ASSUME NEW r \in responses'
        PROVE  r \in responses \/ \E q \in responses : r = [q EXCEPT !.copy = 2]
    BY <2>1 DEF Faults, Lose, Repeat, RandFails, NoReply, Expires, StrayArrives
  <2>2. QED
    BY <2>1, CopiesAreGood DEF TypeInv
<1>5. \A m \in requests' : GoodRequest(m)
  <2>1. ASSUME NEW m \in requests'
        PROVE  \/ m \in requests \/ \E q \in requests : m = [q EXCEPT !.copy = 2]
               \/ \E a \in Addr : \E b : m = [from |-> a, buf |-> b, copy |-> 1]
    BY <2>1 DEF Faults, Lose, Repeat, RandFails, IsFor, Expires, StrayArrives, Send
  <2>2. QED
    BY <2>1, CopiesAreGood DEF TypeInv, GoodRequest, IsRequest
<1>6. \A r \in responses' : GoodResponse(r)'
  BY <1>1, <1>4, PacketsStayGood
<1>7. QED
  BY <1>1, <1>2, <1>3, <1>5, <1>6 DEF TypeInv, GoodRequest, IsRequest

(* By a client: it asks with what it has read.                             *)
LEMMA ClientTypes ==
  ASSUME TypeInv, NEW a \in Addr, ClientBegins(a) \/ ClientReceives(a) \/ ClientTimesOut(a)
  PROVE  TypeInv'
<1>1. UNCHANGED serverVars /\ UNCHANGED owed
  BY DEF ClientBegins, ClientReceives, ClientTimesOut
<1>2. responses' \subseteq responses
  BY DEF ClientBegins, ClientReceives, ClientTimesOut
<1>3. faults' \in 0 .. MaxFaults
  BY ConstantsAssumption DEF ClientBegins, ClientReceives, ClientTimesOut, Fault, TypeInv
<1>4. (\E d : Send(a, d)) \/ requests' = requests
  BY DEF ClientBegins, ClientReceives, ClientTimesOut
<1>5. \A m \in requests' : GoodRequest(m)
  BY <1>4, SendIsGood DEF TypeInv
<1>6. \A r \in responses' : GoodResponse(r)'
  BY <1>1, <1>2, PacketsStayGood DEF TypeInv, serverVars
<1>7. clients' \in [Addr -> Clients]
  <2>1. CASE ClientBegins(a)
    BY <2>1 DEF ClientBegins, TypeInv, Clients
  <2>2. CASE ClientTimesOut(a)
    BY <2>2 DEF ClientTimesOut, TypeInv, Clients, NoClient
  <2>3. CASE ClientReceives(a)
    <3>1. PICK r \in responses :
            \/ /\ HoldsChallenge(r.packet)
               /\ clients' = [clients EXCEPT ![a] =
                                [at |-> "asking", challenge |-> ReadChallenge(r.packet)]]
            \/ clients' = [clients EXCEPT ![a] = [at |-> "served", challenge |-> 0]]
            \/ clients' = clients
      BY <2>3 DEF ClientReceives
    <3>2. HoldsChallenge(r.packet) => ReadChallenge(r.packet) \in Randoms
      <4>1. GoodPacket(r.packet)
        BY DEF TypeInv, GoodResponse
      <4>2. QED
        BY <4>1, ChallengeRead DEF GoodPacket
    <3>3. [at |-> "served", challenge |-> 0] \in Clients
      BY DEF Clients
    <3>4. \A c \in Randoms : [at |-> "asking", challenge |-> c] \in Clients
      BY DEF Clients
    <3>5. clients \in [Addr -> Clients]
      BY DEF TypeInv
    <3> HIDE DEF Clients
    <3>6. QED
      BY <3>1, <3>2, <3>3, <3>4, <3>5
  <2>4. QED
    BY <2>1, <2>2, <2>3
<1>8. QED
  BY <1>1, <1>3, <1>5, <1>6, <1>7 DEF TypeInv, GoodRequest, IsRequest, serverVars

(* Every step keeps the types.                                             *)
LEMMA StepTypeInv == TypeInv /\ [Next]_vars => TypeInv'
<1>1. ASSUME TypeInv, UNCHANGED vars PROVE TypeInv'
  <2>1. \A r \in responses' : GoodResponse(r)'
    BY <1>1, PacketsStayGood DEF TypeInv, vars, serverVars
  <2>2. QED
    BY <1>1, <2>1 DEF TypeInv, vars, serverVars, GoodRequest, IsRequest
<1>2. QED
  BY <1>1, RespondTypes, SetterTypes, FaultTypes, ClientTypes DEF Next, handleQueries

(* The state keeps its types, for any clients, strings, counts, buffer and *)
(* faults: all that goes out is bytes, and a client only ever asks with a  *)
(* challenge the server has drawn.                                         *)
THEOREM TypeCorrect == Spec => []TypeOK
<1>1. TypeInv => TypeOK
  <2> SUFFICES ASSUME TypeInv PROVE TypeOK
    OBVIOUS
  <2>1. \A m \in requests : m.from \in Addr /\ m.copy \in 1 .. 2
    BY DEF TypeInv, GoodRequest, IsRequest
  <2>2. ASSUME NEW r \in responses
        PROVE  r.to \in Addr /\ r.copy \in 1 .. 2
               /\ \A i \in DOMAIN r.packet : r.packet[i] \in 0 .. 255
    <3>1. r.to \in Addr /\ r.copy \in 1 .. 2 /\ r.packet \in Seq(Bytes)
      BY DEF TypeInv, GoodResponse, GoodPacket
    <3>2. \A i \in DOMAIN r.packet : r.packet[i] \in Bytes
      BY <3>1, LenProperties, ElementOfSeq
    <3>3. QED
      BY <3>1, <3>2 DEF Bytes
  <2>3. \A a \in Addr : /\ clients[a].at \in {"idle", "challenging", "asking", "served"}
                        /\ clients[a].challenge \in Randoms \cup {0}
    BY DEF TypeInv, Clients
  <2>4. QED
    BY <2>1, <2>2, <2>3 DEF TypeInv, TypeOK
<1>2. QED
  BY <1>1, InitTypeInv, StepTypeInv, PTL DEF Spec

-----------------------------------------------------------------------------
(* Reading back. One field is written as it is.                            *)
LEMMA WireWriteOne ==
  ASSUME NEW S, NEW x \in Seq(S)
  PROVE  WireWrite(<<x>>) = x
<1> DEFINE seqs == <<x>>
<1>1. seqs \in Seq(Seq(S)) /\ Len(seqs) = 1 /\ seqs[1] = x /\ Len(seqs) # 0
  OBVIOUS
<1> HIDE DEF seqs
<1>2. PICK f : FlattenSeq(seqs) = f[Len(seqs)] /\ Flattens(f, seqs)
  BY <1>1, FlattenExists, FlattenIs, Zenon
<1>3. \A i \in 1 .. 1 : f[i] = IF i = 1 THEN seqs[i] ELSE f[i - 1] \o seqs[i]
  BY <1>1, <1>2 DEF Flattens
<1>4. f[1] = x
  BY <1>1, <1>3
<1>5. QED
  BY <1>1, <1>2, <1>4 DEF WireWrite, seqs

(* What is written of a field and others is the field and what is written  *)
(* of the others, by induction on their number.                            *)
LEMMA WireWriteFirst ==
  ASSUME NEW S, NEW x \in Seq(S), NEW rest \in Seq(Seq(S)), rest # <<>>
  PROVE  WireWrite(<<x>> \o rest) = x \o WireWrite(rest)
<1> DEFINE seqs == <<x>> \o rest
           n == Len(rest)
<1>1. n \in Nat /\ n # 0 /\ \A i \in 1 .. n : rest[i] \in Seq(S)
  BY LenProperties, ElementOfSeq, EmptySeq
<1>2. /\ seqs \in Seq(Seq(S)) /\ Len(seqs) = n + 1 /\ seqs[1] = x
      /\ \A i \in 1 .. n : seqs[i + 1] = rest[i]
  <2>1. <<x>> \in Seq(Seq(S)) /\ Len(<<x>>) = 1 /\ <<x>>[1] = x
    OBVIOUS
  <2>2. /\ seqs \in Seq(Seq(S)) /\ Len(seqs) = 1 + n
        /\ \A i \in 1 .. 1 + n : seqs[i] = IF i <= 1 THEN <<x>>[i] ELSE rest[i - 1]
    BY <2>1, ConcatProperties
  <2>3. 1 \in 1 .. 1 + n /\ \A i \in 1 .. n : i + 1 \in 1 .. 1 + n /\ ~(i + 1 <= 1) /\ i + 1 - 1 = i
    BY <1>1
  <2>4. QED
    BY <1>1, <2>1, <2>2, <2>3
<1> HIDE DEF seqs, n
<1>3. Len(rest) # 0 /\ Len(seqs) # 0
  BY <1>1, <1>2 DEF n
<1>4. PICK f : FlattenSeq(seqs) = f[Len(seqs)] /\ Flattens(f, seqs)
  BY <1>2, <1>3, FlattenExists, FlattenIs, Zenon
<1>5. PICK g : FlattenSeq(rest) = g[Len(rest)] /\ Flattens(g, rest)
  BY <1>3, FlattenExists, FlattenIs, Zenon
<1>6. \A i \in 1 .. n + 1 : f[i] = IF i = 1 THEN seqs[i] ELSE f[i - 1] \o seqs[i]
  BY <1>2, <1>4 DEF Flattens
<1>7. \A i \in 1 .. n : g[i] = IF i = 1 THEN rest[i] ELSE g[i - 1] \o rest[i]
  BY <1>5 DEF Flattens, n
<1> DEFINE Good(k) == g[k] \in Seq(S) /\ f[k + 1] = x \o g[k]
           T == {k \in Nat : k + 1 <= n => Good(k + 1)}
<1>8. 0 \in T
  <2>1. 1 \in 1 .. n /\ 1 \in 1 .. n + 1 /\ 2 \in 1 .. n + 1 /\ 2 # 1 /\ 2 - 1 = 1 /\ 1 + 1 = 2
    BY <1>1
  <2>2. g[1] = rest[1] /\ f[1] = x /\ f[2] = f[1] \o seqs[2] /\ seqs[2] = rest[1]
    BY <1>2, <1>6, <1>7, <2>1
  <2>3. rest[1] \in Seq(S)
    BY <1>1, <2>1
  <2>4. Good(1)
    BY <2>1, <2>2, <2>3
  <2>5. QED
    BY <2>4
<1>9. ASSUME NEW k \in T PROVE k + 1 \in T
  <2>0. k \in Nat /\ k + 1 \in Nat
    OBVIOUS
  <2> SUFFICES ASSUME k + 1 + 1 <= n PROVE Good(k + 1 + 1)
    BY <2>0
  <2> DEFINE i == k + 1
             j == k + 1 + 1
  <2>1. Good(i)
    BY <1>1, <2>0
  <2>2. /\ j \in 1 .. n /\ j # 1 /\ j - 1 = i
        /\ j + 1 \in 1 .. n + 1 /\ j + 1 # 1 /\ j + 1 - 1 = j /\ i + 1 = j
    BY <1>1, <2>0
  <2> HIDE DEF i, j, T
  <2>3. g[j] = g[i] \o rest[j]
    BY <1>7, <2>2
  <2>4. f[j + 1] = f[j] \o seqs[j + 1] /\ seqs[j + 1] = rest[j]
    <3> DEFINE l == j + 1
    <3>1. l \in 1 .. n + 1 /\ l # 1 /\ l - 1 = j /\ seqs[l] = rest[j]
      BY <1>2, <2>2
    <3> HIDE DEF l
    <3>2. f[l] = f[l - 1] \o seqs[l]
      BY <1>6, <3>1
    <3>3. QED
      BY <3>1, <3>2 DEF l
  <2>5. g[i] \in Seq(S) /\ f[j] = x \o g[i] /\ rest[j] \in Seq(S)
    BY <1>1, <2>1, <2>2
  <2>6. (x \o g[i]) \o rest[j] = x \o (g[i] \o rest[j])
    <3> DEFINE y == g[i]
               z == rest[j]
    <3>1. x \in Seq(S) /\ y \in Seq(S) /\ z \in Seq(S)
      BY <2>5
    <3> HIDE DEF y, z
    <3>2. (x \o y) \o z = x \o (y \o z)
      BY ONLY <3>1, ConcatAssociative, SMTT(20)
    <3>3. QED
      BY <3>2 DEF y, z
  <2>7. g[i] \o rest[j] \in Seq(S)
    BY <2>5, ConcatProperties
  <2>8. Good(j)
    BY <2>3, <2>4, <2>5, <2>6, <2>7
  <2>9. QED
    BY <2>8 DEF j
<1> HIDE DEF Good, T
<1>10. T = Nat
  BY <1>8, <1>9, Induction DEF T
<1>11. n - 1 \in T /\ n - 1 + 1 = n
  BY <1>1, <1>10
<1>12. Good(n)
  BY <1>1, <1>11 DEF T
<1>13. f[n + 1] = x \o g[n]
  BY <1>12 DEF Good
<1>14. QED
  BY <1>2, <1>4, <1>5, <1>13 DEF WireWrite, seqs, n

(* The two parts of a concatenation.                                       *)
LEMMA Split ==
  ASSUME NEW S, NEW x \in Seq(S), NEW t \in Seq(S)
  PROVE  SubSeq(x \o t, 1, Len(x)) = x /\ From(x \o t, Len(x) + 1) = t
<1> DEFINE s == x \o t
<1>1. Len(x) \in Nat /\ Len(t) \in Nat
  BY LenProperties
<1>2. /\ s \in Seq(S) /\ Len(s) = Len(x) + Len(t)
      /\ \A i \in 1 .. Len(x) + Len(t) : s[i] = IF i <= Len(x) THEN x[i] ELSE t[i - Len(x)]
  BY ConcatProperties
<1>3. /\ \A i \in 1 .. Len(x) : x[i] \in S
      /\ \A i \in 1 .. Len(t) : t[i] \in S
  BY ElementOfSeq
<1> HIDE DEF s
<1>4. \A i \in 1 .. Len(x) : s[i] = x[i]
  BY <1>1, <1>2
<1>5. \A i \in 1 .. Len(t) : s[Len(x) + i] = t[i]
  <2> SUFFICES ASSUME NEW i \in 1 .. Len(t) PROVE s[Len(x) + i] = t[i]
    OBVIOUS
  <2>1. Len(x) + i \in 1 .. Len(x) + Len(t) /\ ~(Len(x) + i <= Len(x)) /\ Len(x) + i - Len(x) = i
    BY <1>1
  <2>2. QED
    BY <1>2, <2>1
<1>6. SubSeq(s, 1, Len(x)) = x
  <2> DEFINE u == SubSeq(s, 1, Len(x))
  <2>1. \A i \in 1 .. Len(x) : s[i] \in S
    BY <1>3, <1>4
  <2>2. 1 \in Int /\ Len(x) \in Int
    BY <1>1
  <2>3. /\ u \in Seq(S) /\ Len(u) = IF 1 <= Len(x) THEN Len(x) - 1 + 1 ELSE 0
        /\ \A i \in 1 .. Len(x) - 1 + 1 : u[i] = s[1 + i - 1]
    BY <2>1, <2>2, SubSeqProperties
  <2> HIDE DEF u
  <2>4. Len(u) = Len(x)
    BY <1>1, <2>3
  <2>5. \A i \in 1 .. Len(u) : u[i] = x[i]
    <3>1. \A i \in 1 .. Len(x) : i \in 1 .. Len(x) - 1 + 1 /\ 1 + i - 1 = i
      BY <1>1
    <3>2. QED
      BY <1>4, <2>3, <2>4, <3>1
  <2>6. u = x
    BY <2>3, <2>4, <2>5, SeqEqual
  <2>7. QED
    BY <2>6 DEF u
<1>7. From(s, Len(x) + 1) = t
  <2> DEFINE m == Len(x) + 1
             n == Len(x) + Len(t)
             u == SubSeq(s, m, n)
  <2>1. \A i \in m .. n : s[i] \in S
    <3> SUFFICES ASSUME NEW i \in m .. n PROVE s[i] \in S
      OBVIOUS
    <3>1. i - Len(x) \in 1 .. Len(t) /\ Len(x) + (i - Len(x)) = i
      BY <1>1
    <3>2. QED
      BY <1>3, <1>5, <3>1
  <2>2. m \in Int /\ n \in Int /\ n - m + 1 = Len(t)
    BY <1>1
  <2> HIDE DEF m, n
  <2>3. /\ u \in Seq(S) /\ Len(u) = IF m <= n THEN n - m + 1 ELSE 0
        /\ \A i \in 1 .. n - m + 1 : u[i] = s[m + i - 1]
    BY <2>1, <2>2, SubSeqProperties
  <2> HIDE DEF u
  <2>4. Len(u) = Len(t)
    BY <1>1, <2>2, <2>3
  <2>5. \A i \in 1 .. Len(u) : u[i] = t[i]
    <3>1. \A i \in 1 .. Len(t) : m + i - 1 = Len(x) + i
      BY <1>1 DEF m
    <3>2. QED
      BY <1>5, <2>2, <2>3, <2>4, <3>1
  <2>6. u = t
    BY <2>3, <2>4, <2>5, SeqEqual
  <2>7. QED
    BY <1>2, <2>6 DEF u, m, n, From
<1>8. QED
  BY <1>6, <1>7 DEF s

(* A part within the first of two sequences.                               *)
LEMMA Within ==
  ASSUME NEW S, NEW x \in Seq(S), NEW t \in Seq(S), NEW m \in 1 .. Len(x), NEW n \in 1 .. Len(x)
  PROVE  SubSeq(x \o t, m, n) = SubSeq(x, m, n)
BY SubSeqOfConcat1

(* The middle one of three sequences.                                      *)
LEMMA Middle ==
  ASSUME NEW S, NEW x \in Seq(S), NEW y \in Seq(S), NEW t \in Seq(S)
  PROVE  SubSeq(x \o (y \o t), Len(x) + 1, Len(x) + Len(y)) = y
<1> DEFINE u == y \o t
<1>1. Len(x) \in Nat /\ Len(y) \in Nat /\ Len(t) \in Nat
  BY LenProperties
<1>2. u \in Seq(S) /\ Len(u) = Len(y) + Len(t)
  BY ConcatProperties
<1>3. SubSeq(u, 1, Len(y)) = y
  BY Split
<1> HIDE DEF u
<1>4. CASE Len(y) = 0
  <2>1. y = <<>>
    BY <1>4, EmptySeq
  <2>2. Len(x) + 1 \in Int /\ Len(x) + Len(y) \in Int /\ Len(x) + Len(y) < Len(x) + 1
    BY <1>1, <1>4
  <2>3. SubSeq(x \o u, Len(x) + 1, Len(x) + Len(y)) = <<>>
    BY <2>2, SubSeqEmpty
  <2>4. QED
    BY <2>1, <2>3 DEF u
<1>5. CASE Len(y) # 0
  <2>1. /\ Len(x) + 1 \in Len(x) + 1 .. Len(x) + Len(u)
        /\ Len(x) + Len(y) \in Len(x) + 1 .. Len(x) + Len(u)
        /\ Len(x) + 1 - Len(x) = 1 /\ Len(x) + Len(y) - Len(x) = Len(y)
    BY <1>1, <1>2, <1>5
  <2>2. SubSeq(x \o u, Len(x) + 1, Len(x) + Len(y))
          = SubSeq(u, Len(x) + 1 - Len(x), Len(x) + Len(y) - Len(x))
    BY <1>2, <2>1, SubSeqOfConcat2
  <2>3. QED
    BY <1>3, <2>1, <2>2 DEF u
<1>6. QED
  BY <1>4, <1>5

(* A byte of a sequence of one, in front.                                  *)
LEMMA FirstByte ==
  ASSUME NEW S, NEW b \in S, NEW t \in Seq(S)
  PROVE  /\ <<b>> \in Seq(S) /\ Len(<<b>>) = 1
         /\ (<<b>> \o t)[1] = b
<1>1. <<b>> \in Seq(S) /\ Len(<<b>>) = 1 /\ <<b>>[1] = b /\ 1 \in 1 .. Len(<<b>>)
  OBVIOUS
<1>2. (<<b>> \o t)[1] = <<b>>[1]
  BY <1>1, FrontOfConcat
<1>3. QED
  BY <1>1, <1>2

(* What is behind it.                                                      *)
LEMMA BehindByte ==
  ASSUME NEW S, NEW b \in S, NEW t \in Seq(S)
  PROVE  /\ Len(<<b>> \o t) = 1 + Len(t)
         /\ (<<b>> \o t)[1] = b
         /\ \A i \in 1 .. Len(t) : (<<b>> \o t)[i + 1] = t[i]
<1> DEFINE x == <<b>>
           p == x \o t
<1>1. x \in Seq(S) /\ Len(x) = 1 /\ Len(t) \in Nat
  BY FirstByte, LenProperties
<1>2. p[1] = b
  BY FirstByte, Zenon
<1> HIDE DEF x
<1>3. /\ Len(p) = Len(x) + Len(t)
      /\ \A i \in 1 .. Len(x) + Len(t) : p[i] = IF i <= Len(x) THEN x[i] ELSE t[i - Len(x)]
  BY <1>1, ConcatProperties
<1> HIDE DEF p
<1>4. \A i \in 1 .. Len(t) : p[i + 1] = t[i]
  <2> SUFFICES ASSUME NEW i \in 1 .. Len(t) PROVE p[i + 1] = t[i]
    OBVIOUS
  <2> DEFINE j == i + 1
  <2>1. j \in 1 .. Len(x) + Len(t) /\ ~(j <= Len(x)) /\ j - Len(x) = i
    BY <1>1
  <2> HIDE DEF j
  <2>2. p[j] = t[i]
    BY <1>3, <2>1, Zenon
  <2>3. QED
    BY <2>2 DEF j
<1>5. QED
  BY <1>1, <1>2, <1>3, <1>4, Zenon DEF p, x

(* A string in the sqp format takes one byte more than the string.         *)
LEMMA SqpStringLength ==
  ASSUME NEW s \in Seq(Bytes)
  PROVE  SqpString(s) \in Seq(Bytes) /\ Len(SqpString(s)) = 1 + Len(s)
<1> DEFINE b == <<Byte(Len(s))>>
<1>1. b \in Seq(Bytes) /\ Len(b) = 1
  <2>1. Len(s) \in Nat
    BY LenProperties
  <2>2. \A n \in Nat : n % 256 \in 0 .. 255
    BY SMT
  <2>3. Byte(Len(s)) \in Bytes
    BY <2>1, <2>2 DEF Byte, Bytes
  <2>4. QED
    BY <2>3
<1> HIDE DEF b
<1>2. b \o s \in Seq(Bytes) /\ Len(b \o s) = Len(b) + Len(s)
  BY <1>1, ConcatProperties
<1>3. QED
  BY <1>1, <1>2 DEF SqpString, b

(* A string in the sqp format, of at most 255 bytes, reads back.           *)
LEMMA SqpStringRead ==
  ASSUME NEW s \in Seq(Bytes), NEW t \in Seq(Bytes), Len(s) <= 255
  PROVE  TakeSqp(SqpString(s) \o t) = s /\ AfterSqp(SqpString(s) \o t) = t
<1> DEFINE b == <<Byte(Len(s))>>
           x == SqpString(s)
           p == x \o t
<1>1. Len(s) \in Nat
  BY LenProperties
<1>2. Byte(Len(s)) = Len(s) /\ Len(s) \in Bytes
  <2>1. ASSUME NEW n \in Nat, n <= 255 PROVE n % 256 = n /\ n \in 0 .. 255
    BY <2>1, SMT
  <2>2. QED
    BY <1>1, <2>1 DEF Byte, Bytes
<1>3. b \in Seq(Bytes) /\ Len(b) = 1
  BY <1>2, FirstByte
<1>4. x = b \o s /\ x \in Seq(Bytes) /\ Len(x) = 1 + Len(s)
  BY <1>3, ConcatProperties DEF SqpString
<1>5. p = b \o (s \o t) /\ s \o t \in Seq(Bytes)
  BY <1>3, <1>4, ConcatAssociative, ConcatProperties
<1>6. p[1] = Len(s)
  BY <1>2, <1>5, FirstByte
<1>7. SubSeq(p, Len(b) + 1, Len(b) + Len(s)) = s
  BY <1>3, <1>5, Middle
<1>8. From(p, Len(x) + 1) = t
  BY <1>4, Split
<1>9. Len(b) + 1 = 2 /\ Len(b) + Len(s) = 1 + Len(s) /\ Len(x) + 1 = 2 + Len(s)
  BY <1>1, <1>3, <1>4
<1> HIDE DEF b, x
<1>10. SubSeq(p, 2, 1 + Len(s)) = s /\ From(p, 2 + Len(s)) = t
  BY <1>7, <1>8, <1>9
<1> HIDE DEF p
<1>11. TakeSqp(p) = s /\ AfterSqp(p) = t
  BY <1>6, <1>10 DEF TakeSqp, AfterSqp
<1>12. QED
  BY <1>11 DEF p, x

(* A string in the a2s format without a zero byte reads back.              *)
LEMMA A2sStringRead ==
  ASSUME NEW s \in Seq(Bytes), NEW t \in Seq(Bytes), 0 \notin {s[i] : i \in DOMAIN s}
  PROVE  TakeA2s(A2sString(s) \o t) = s /\ AfterA2s(A2sString(s) \o t) = t
<1> DEFINE z == <<0>>
           x == A2sString(s)
           p == x \o t
           n == Len(s)
           Ends == {i \in 1 .. Len(p) : p[i] = 0}
<1>1. n \in Nat /\ Len(t) \in Nat /\ DOMAIN s = 1 .. n
  BY LenProperties
<1>2. z \in Seq(Bytes) /\ Len(z) = 1 /\ z[1] = 0
  BY DEF Bytes
<1>3. /\ x = s \o z /\ x \in Seq(Bytes) /\ Len(x) = n + 1
      /\ \A i \in 1 .. n + 1 : x[i] = IF i <= n THEN s[i] ELSE z[i - n]
  BY <1>2, ConcatProperties DEF A2sString
<1>4. /\ p \in Seq(Bytes) /\ Len(p) = n + 1 + Len(t)
      /\ \A i \in 1 .. n + 1 : p[i] = x[i]
  <2>1. /\ p \in Seq(Bytes) /\ Len(p) = Len(x) + Len(t)
        /\ \A i \in 1 .. Len(x) + Len(t) : p[i] = IF i <= Len(x) THEN x[i] ELSE t[i - Len(x)]
    BY <1>3, ConcatProperties
  <2>2. \A i \in 1 .. n + 1 : i \in 1 .. Len(x) + Len(t) /\ i <= Len(x)
    BY <1>1, <1>3
  <2>3. QED
    BY <1>3, <2>1, <2>2
<1>5. p = s \o (z \o t) /\ z \o t \in Seq(Bytes)
  BY <1>2, <1>3, ConcatAssociative, ConcatProperties
<1>6. SubSeq(p, 1, n) = s
  BY <1>5, Split
<1>7. From(p, Len(x) + 1) = t
  BY <1>3, Split
<1> HIDE DEF x, p, z
<1>8. n + 1 \in Ends /\ \A i \in Ends : n + 1 <= i
  <2>1. n + 1 \in 1 .. n + 1 /\ ~(n + 1 <= n) /\ n + 1 - n = 1 /\ n + 1 \in 1 .. n + 1 + Len(t)
    BY <1>1
  <2>2. p[n + 1] = 0
    BY <1>2, <1>3, <1>4, <2>1
  <2>3. ASSUME NEW i \in 1 .. n PROVE p[i] # 0
    <3>1. i \in 1 .. n + 1 /\ i <= n
      BY <1>1
    <3>2. p[i] = s[i]
      BY <1>3, <1>4, <3>1
    <3>3. QED
      BY <1>1, <3>2
  <2>4. ASSUME NEW i \in Ends PROVE n + 1 <= i
    <3>1. i \in Nat /\ i >= 1 /\ p[i] = 0
      BY <1>1, <1>4
    <3>2. i \notin 1 .. n
      BY <2>3, <3>1
    <3>3. QED
      BY <1>1, <3>1, <3>2
  <2>5. QED
    BY <1>4, <2>1, <2>2, <2>4
<1>9. SelectInSeq(p, LAMBDA b : b = 0) = n + 1
  <2>1. Ends \subseteq Nat
    BY <1>1, <1>4
  <2>2. SelectInSeq(p, LAMBDA b : b = 0) = IF Ends # {} THEN Min(Ends) ELSE 0
    BY DEF SelectInSeq
  <2> HIDE DEF Ends
  <2>3. \A i \in Ends : (\A j \in Ends : i <= j) => i = n + 1
    BY <1>1, <1>8, <2>1
  <2>4. Min(Ends) = n + 1
    BY <1>8, <2>3 DEF Min
  <2>5. QED
    BY <1>8, <2>2, <2>4
<1>10. n + 1 - 1 = n /\ Len(x) + 1 = n + 1 + 1
  BY <1>1, <1>3
<1> HIDE DEF Ends
<1>11. TakeA2s(p) = s /\ AfterA2s(p) = t
  <2> DEFINE at == SelectInSeq(p, LAMBDA b : b = 0)
  <2>1. TakeA2s(p) = SubSeq(p, 1, at - 1) /\ AfterA2s(p) = From(p, at + 1)
    BY DEF TakeA2s, AfterA2s
  <2>2. at = n + 1
    BY <1>9
  <2> HIDE DEF at
  <2>3. QED
    BY <1>6, <1>7, <1>10, <2>1, <2>2 DEF n
<1>12. QED
  BY <1>11 DEF p, x

(* A chunk behind its length reads back, and so does what is behind it.    *)
LEMMA ChunkBehindLength ==
  ASSUME NEW b \in Seq(Bytes), NEW c \in Seq(Bytes), NEW t \in Seq(Bytes),
         Len(b) = 4, FromBigEndian(b) = Len(c)
  PROVE  ReadChunk((b \o c) \o t) = c /\ AfterChunk((b \o c) \o t) = t
<1> DEFINE x == b \o c
           p == x \o t
<1>1. Len(c) \in Nat /\ Len(t) \in Nat
  BY LenProperties
<1>2. b \in Seq(Bytes) /\ Len(b) = 4 /\ FromBigEndian(b) = Len(c)
  OBVIOUS
<1>3. x \in Seq(Bytes) /\ Len(x) = 4 + Len(c)
  <2>1. x \in Seq(Bytes) /\ Len(x) = Len(b) + Len(c)
    BY ConcatProperties, Zenon
  <2>2. QED
    BY <1>2, <2>1, Zenon
<1>4. p = b \o (c \o t) /\ c \o t \in Seq(Bytes)
  <2>1. (b \o c) \o t = b \o (c \o t)
    BY ONLY b \in Seq(Bytes), c \in Seq(Bytes), t \in Seq(Bytes), ConcatAssociative, SMTT(20)
  <2>2. c \o t \in Seq(Bytes)
    BY ConcatProperties, Zenon
  <2>3. QED
    BY <2>1, <2>2, Zenon
<1>5. SubSeq(p, 1, Len(b)) = b
  BY <1>2, <1>4, Split
<1>6. SubSeq(p, Len(b) + 1, Len(b) + Len(c)) = c
  <2>1. SubSeq(b \o (c \o t), Len(b) + 1, Len(b) + Len(c)) = c
    BY Middle, Zenon
  <2> HIDE DEF p
  <2>2. QED
    BY <1>4, <2>1, Zenon
<1>7. From(p, Len(x) + 1) = t
  BY <1>3, Split
<1>8. Len(b) + 1 = 5 /\ Len(b) + Len(c) = 4 + Len(c) /\ Len(x) + 1 = 5 + Len(c)
  BY <1>1, <1>2, <1>3
<1> HIDE DEF x, p
<1>9. ChunkLength(p) = Len(c)
  BY <1>2, <1>5 DEF ChunkLength
<1>10. ReadChunk(p) = c /\ AfterChunk(p) = t
  BY <1>6, <1>7, <1>8, <1>9 DEF ReadChunk, AfterChunk
<1>11. QED
  BY <1>10 DEF p, x

(* The encoders put it behind its length in four bytes, if that fits.      *)
LEMMA ChunkRead ==
  ASSUME NEW c \in Seq(Bytes), NEW t \in Seq(Bytes), Len(c) \div 256^3 < 256
  PROVE  /\ ReadChunk((BigEndian(Len(c), 4) \o c) \o t) = c
         /\ AfterChunk((BigEndian(Len(c), 4) \o c) \o t) = t
<1>1. Len(c) \in Nat
  BY LenProperties
<1>2. /\ BigEndian(Len(c), 4) \in Seq(Bytes) /\ Len(BigEndian(Len(c), 4)) = 4
      /\ FromBigEndian(BigEndian(Len(c), 4)) = Len(c)
  BY <1>1, FieldBytes, ReadsBack, Zenon
<1>3. QED
  BY <1>2, ChunkBehindLength, Zenon

(* Two bytes carry a number without what is above them.                    *)
LEMMA ValueOfTwo ==
  ASSUME NEW s, Len(s) = 2
  PROVE  FromBigEndian(s) = 256 * (256 * 0 + s[1]) + s[2]
<1> DEFINE v1 == 256 * 0 + s[1]
           v2 == 256 * v1 + s[2]
           g == [i \in 0 .. 2 |-> IF i = 0 THEN 0 ELSE IF i = 1 THEN v1 ELSE v2]
<1>1. v1 = 256 * 0 + s[1] /\ v2 = 256 * v1 + s[2]
  OBVIOUS
<1> HIDE DEF v1, v2
<1>2. g[0] = 0 /\ g[1] = v1 /\ g[2] = v2 /\ g = [i \in 0 .. 2 |-> g[i]]
  OBVIOUS
<1> HIDE DEF g
<1>3. \A i \in 0 .. 2 : g[i] = IF i = 0 THEN 0 ELSE 256 * g[i - 1] + s[i]
  <2>1. \A i \in 0 .. 2 : i = 0 \/ i = 1 \/ i = 2
    OBVIOUS
  <2>2. 1 - 1 = 0 /\ 2 - 1 = 1
    OBVIOUS
  <2>3. QED
    BY <1>1, <1>2, <2>1, <2>2
<1>4. Values(g, s)
  BY <1>2, <1>3 DEF Values
<1>5. PICK v : FromBigEndian(s) = v[2] /\ Values(v, s)
  BY <1>4, ValueIs, Zenon
<1>6. \A i \in 0 .. 2 : v[i] = IF i = 0 THEN 0 ELSE 256 * v[i - 1] + s[i]
  BY <1>5 DEF Values
<1>7. /\ 0 \in 0 .. 2 /\ 1 \in 0 .. 2 /\ 2 \in 0 .. 2
      /\ 1 - 1 = 0 /\ 2 - 1 = 1 /\ 1 # 0 /\ 2 # 0
  OBVIOUS
<1>8. v[0] = 0 /\ v[1] = 256 * v[0] + s[1]
  BY <1>6, <1>7
<1>9. v[2] = 256 * v[1] + s[2]
  BY <1>6, <1>7
<1>10. QED
  BY <1>5, <1>8, <1>9

(* So a count that is written in two bytes reads back cut to them.         *)
LEMMA ReadsBackLow ==
  ASSUME NEW n \in Nat
  PROVE  /\ FromBigEndian(BigEndian(n, 2)) = n % 256^2
         /\ n \div 256 < 256 => FromBigEndian(BigEndian(n, 2)) = n
         /\ BigEndian(n, 2) \in Seq(Bytes) /\ Len(BigEndian(n, 2)) = 2
<1> DEFINE q == n \div 256
           b == BigEndian(n, 2)
           x == n % 256
           y == q % 256
           r == q \div 256
<1>1. q \in Nat /\ x \in 0 .. 255 /\ n = 256 * q + x
  BY SMT
<1> HIDE DEF q, x
<1>2. r \in Nat /\ y \in 0 .. 255 /\ q = 256 * r + y
  BY <1>1, SMT
<1>3. b \in Seq(Bytes) /\ Len(b) = 2
  BY FieldBytes, Zenon
<1>4. n \div 1 = n
  BY SMT
<1>5. b[1] = y /\ b[2] = x
  <2>1. 2 - 1 = 1 /\ 2 - 2 = 0
    OBVIOUS
  <2>2. QED
    BY <1>4, <2>1, Powers, SMT DEF BigEndian, Byte, q, x
<1> HIDE DEF b, y, r
<1>6. FromBigEndian(b) = 256 * y + x
  <2>1. FromBigEndian(b) = 256 * (256 * 0 + y) + x
    BY <1>3, <1>5, ValueOfTwo
  <2>2. QED
    BY <1>1, <1>2, <2>1, SMT
<1>7. n = 65536 * r + (256 * y + x) /\ 256 * y + x \in Nat /\ 256 * y + x < 65536
  BY <1>1, <1>2, SMT
<1>8. n % 65536 = 256 * y + x
  <2> DEFINE z == 256 * y + x
  <2>1. n = 65536 * r + z /\ z \in Nat /\ z < 65536
    BY <1>7, SMT
  <2> HIDE DEF z
  <2>2. n % 65536 = z
    BY <1>2, <2>1, SMT
  <2>3. QED
    BY <2>2 DEF z
<1>9. n % 256^2 = n % 65536
  BY Powers, SMT
<1>10. ASSUME q < 256 PROVE n = 256 * y + x
  BY <1>1, <1>2, <1>10, SMT DEF y
<1>11. QED
  BY <1>3, <1>6, <1>8, <1>9, <1>10, SMT DEF b, q

(* What WireWrite makes of a sequence of fields begins with the first one. *)
LEMMA WireWriteHead ==
  ASSUME NEW S, NEW u \in Seq(Seq(S)), u # <<>>, Tail(u) # <<>>
  PROVE  WireWrite(u) = u[1] \o WireWrite(Tail(u))
<1> DEFINE x == u[1]
           t == Tail(u)
           v == <<x>> \o t
<1>1. Len(u) \in Nat /\ Len(u) # 0
  BY LenProperties, EmptySeq
<1>2. x \in Seq(S)
  <2>1. 1 \in 1 .. Len(u)
    BY <1>1
  <2>2. QED
    BY <2>1, ElementOfSeq
<1>3. /\ t \in Seq(Seq(S)) /\ Len(t) = Len(u) - 1
      /\ \A i \in 1 .. Len(t) : t[i] = u[i + 1]
  BY HeadTailProperties
<1>4. <<x>> \in Seq(Seq(S)) /\ Len(<<x>>) = 1 /\ <<x>>[1] = x
  BY <1>2
<1> HIDE DEF x, t
<1>5. /\ v \in Seq(Seq(S)) /\ Len(v) = 1 + Len(t)
      /\ \A i \in 1 .. 1 + Len(t) : v[i] = IF i <= 1 THEN <<x>>[i] ELSE t[i - 1]
  BY <1>3, <1>4, ConcatProperties
<1> HIDE DEF v
<1>6. Len(v) = Len(u)
  BY <1>1, <1>3, <1>5
<1>7. \A i \in 1 .. Len(v) : v[i] = u[i]
  <2> SUFFICES ASSUME NEW i \in 1 .. Len(v) PROVE v[i] = u[i]
    OBVIOUS
  <2>1. CASE i = 1
    BY <1>1, <1>3, <1>4, <1>5, <1>6, <2>1 DEF x
  <2>2. CASE i # 1
    <3>1. ~(i <= 1) /\ i - 1 \in 1 .. Len(t) /\ i - 1 + 1 = i /\ i \in 1 .. 1 + Len(t)
      BY <1>1, <1>3, <1>6, <2>2
    <3>2. QED
      BY <1>3, <1>5, <3>1
  <2>3. QED
    BY <2>1, <2>2
<1>8. v = u
  BY <1>5, <1>6, <1>7, SeqEqual
<1>9. WireWrite(v) = x \o WireWrite(t)
  <2>1. t # <<>>
    BY DEF t
  <2>2. QED
    BY <1>2, <1>3, <2>1, WireWriteFirst DEF v
<1>10. QED
  BY <1>8, <1>9 DEF x, t

(* Three fields at a time.                                                 *)
LEMMA WireWriteThree ==
  ASSUME NEW S, NEW u \in Seq(Seq(S)), Len(u) > 3
  PROVE  WireWrite(u) = u[1] \o (u[2] \o (u[3] \o WireWrite(Tail(Tail(Tail(u))))))
<1> DEFINE v == Tail(u)
           w == Tail(v)
           x == Tail(w)
<1>1. Len(u) \in Nat /\ Len(u) > 3 /\ u # <<>>
  BY LenProperties, EmptySeq
<1>2. /\ v \in Seq(Seq(S)) /\ Len(v) = Len(u) - 1
      /\ \A i \in 1 .. Len(v) : v[i] = u[i + 1]
  BY <1>1, HeadTailProperties
<1> HIDE DEF v
<1>3. v # <<>> /\ v[1] = u[2] /\ v[2] = u[3]
  <2>1. 1 \in 1 .. Len(v) /\ 2 \in 1 .. Len(v) /\ 1 + 1 = 2 /\ 2 + 1 = 3
    BY <1>1, <1>2
  <2>2. QED
    BY <1>2, <2>1, SMTT(20)
<1>4. /\ w \in Seq(Seq(S)) /\ Len(w) = Len(v) - 1
      /\ \A i \in 1 .. Len(w) : w[i] = v[i + 1]
  BY <1>2, <1>3, HeadTailProperties
<1> HIDE DEF w
<1>5. w # <<>> /\ w[1] = u[3]
  <2>1. 1 \in 1 .. Len(w) /\ 1 + 1 = 2
    BY <1>1, <1>2, <1>4
  <2>2. QED
    BY <1>3, <1>4, <2>1
<1>6. Len(x) = Len(w) - 1
  BY <1>4, <1>5, HeadTailProperties
<1>7. x # <<>>
  <2>1. ASSUME NEW k \in Nat, k > 3 PROVE k - 1 - 1 - 1 # 0
    BY <2>1
  <2>2. Len(x) # 0
    BY <1>1, <1>2, <1>4, <1>6, <2>1, Zenon
  <2>3. Len(<<>>) = 0
    OBVIOUS
  <2>4. QED
    BY <2>2, <2>3, Zenon
<1> HIDE DEF x
<1>8. WireWrite(u) = u[1] \o WireWrite(v)
  BY <1>1, <1>3, WireWriteHead DEF v
<1>9. WireWrite(v) = v[1] \o WireWrite(w)
  BY <1>2, <1>3, <1>5, WireWriteHead DEF w
<1>10. WireWrite(w) = w[1] \o WireWrite(x)
  BY <1>4, <1>5, <1>7, WireWriteHead DEF x
<1>11. QED
  BY <1>3, <1>5, <1>8, <1>9, <1>10 DEF v, w, x

(* What is left of a sequence without its first three elements.            *)
LEMMA ThreeLess ==
  ASSUME NEW S, NEW u \in Seq(S), Len(u) >= 3
  PROVE  /\ Tail(Tail(Tail(u))) \in Seq(S)
         /\ Len(Tail(Tail(Tail(u)))) = Len(u) - 3
         /\ \A i \in 1 .. Len(u) - 3 : Tail(Tail(Tail(u)))[i] = u[i + 3]
<1> DEFINE v == Tail(u)
           w == Tail(v)
           x == Tail(w)
<1>1. Len(u) \in Nat /\ Len(u) >= 3 /\ u # <<>>
  BY LenProperties, EmptySeq
<1>2. /\ v \in Seq(S) /\ Len(v) = Len(u) - 1
      /\ \A i \in 1 .. Len(v) : v[i] = u[i + 1]
  BY <1>1, HeadTailProperties
<1> HIDE DEF v
<1>3. v # <<>>
  BY <1>1, <1>2, EmptySeq
<1>4. /\ w \in Seq(S) /\ Len(w) = Len(v) - 1
      /\ \A i \in 1 .. Len(w) : w[i] = v[i + 1]
  BY <1>2, <1>3, HeadTailProperties
<1> HIDE DEF w
<1>5. w # <<>>
  BY <1>1, <1>2, <1>4, EmptySeq
<1>6. /\ x \in Seq(S) /\ Len(x) = Len(w) - 1
      /\ \A i \in 1 .. Len(x) : x[i] = w[i + 1]
  BY <1>4, <1>5, HeadTailProperties
<1> HIDE DEF x
<1>7. \A i \in 1 .. Len(u) - 3 : x[i] = u[i + 3]
  <2> SUFFICES ASSUME NEW i \in 1 .. Len(u) - 3 PROVE x[i] = u[i + 3]
    OBVIOUS
  <2>1. /\ i \in 1 .. Len(x) /\ i + 1 \in 1 .. Len(w) /\ i + 1 + 1 \in 1 .. Len(v)
        /\ i + 1 + 1 + 1 = i + 3
    BY <1>1, <1>2, <1>4, <1>6
  <2>2. x[i] = w[i + 1] /\ w[i + 1] = v[i + 1 + 1] /\ v[i + 1 + 1] = u[i + 1 + 1 + 1]
    BY <1>2, <1>4, <1>6, <2>1
  <2>3. QED
    BY <2>1, <2>2, Zenon
<1>8. Len(x) = Len(u) - 3
  BY <1>1, <1>2, <1>4, <1>6
<1>9. QED
  BY <1>6, <1>7, <1>8 DEF v, w, x

(* What WireWrite makes of the seven fields of the server info.            *)
LEMMA WriteSeven ==
  ASSUME NEW S, NEW u \in Seq(Seq(S)), Len(u) = 7
  PROVE  WireWrite(u) =
           u[1] \o (u[2] \o (u[3] \o (u[4] \o (u[5] \o (u[6] \o u[7])))))
<1> DEFINE v == Tail(Tail(Tail(u)))
           w == Tail(Tail(Tail(v)))
<1>1. Len(u) > 3 /\ Len(u) >= 3
  OBVIOUS
<1>2. WireWrite(u) = u[1] \o (u[2] \o (u[3] \o WireWrite(v)))
  BY <1>1, WireWriteThree, Zenon
<1>3. /\ v \in Seq(Seq(S)) /\ Len(v) = 4
      /\ v[1] = u[4] /\ v[2] = u[5] /\ v[3] = u[6] /\ v[4] = u[7]
  <2>1. /\ v \in Seq(Seq(S)) /\ Len(v) = Len(u) - 3
        /\ \A i \in 1 .. Len(u) - 3 : v[i] = u[i + 3]
    BY <1>1, ThreeLess, Zenon
  <2> HIDE DEF v
  <2>2. QED
    BY <2>1
<1> HIDE DEF v
<1>4. Len(v) > 3 /\ Len(v) >= 3
  BY <1>3
<1>5. WireWrite(v) = v[1] \o (v[2] \o (v[3] \o WireWrite(w)))
  BY <1>3, <1>4, WireWriteThree, Zenon
<1>6. w \in Seq(Seq(S)) /\ Len(w) = 1 /\ w[1] = v[4]
  <2>1. /\ w \in Seq(Seq(S)) /\ Len(w) = Len(v) - 3
        /\ \A i \in 1 .. Len(v) - 3 : w[i] = v[i + 3]
    BY <1>3, <1>4, ThreeLess, Zenon
  <2> HIDE DEF w
  <2>2. QED
    BY <2>1, <1>3
<1> HIDE DEF w
<1>7. WireWrite(w) = w[1]
  <2>1. w[1] \in Seq(S) /\ w = <<w[1]>>
    <3>1. 1 \in 1 .. Len(w)
      BY <1>6
    <3>2. w[1] \in Seq(S)
      BY <1>6, <3>1, ElementOfSeq, Zenon
    <3>3. QED
      BY <1>6, <3>2
  <2>2. QED
    BY <2>1, WireWriteOne, Zenon
<1>8. QED
  BY <1>2, <1>3, <1>5, <1>6, <1>7, Zenon

(* And of the eight of an answer in the sqp format.                        *)
LEMMA WriteEight ==
  ASSUME NEW S, NEW u \in Seq(Seq(S)), Len(u) = 8
  PROVE  WireWrite(u) =
           u[1] \o (u[2] \o (u[3] \o (u[4] \o (u[5] \o (u[6] \o (u[7] \o u[8]))))))
<1> DEFINE v == Tail(Tail(Tail(u)))
           w == Tail(Tail(Tail(v)))
<1>1. Len(u) > 3 /\ Len(u) >= 3
  OBVIOUS
<1>2. WireWrite(u) = u[1] \o (u[2] \o (u[3] \o WireWrite(v)))
  BY <1>1, WireWriteThree, Zenon
<1>3. /\ v \in Seq(Seq(S)) /\ Len(v) = 5 /\ v[1] = u[4] /\ v[2] = u[5] /\ v[3] = u[6]
      /\ v[4] = u[7] /\ v[5] = u[8]
  <2>1. /\ v \in Seq(Seq(S)) /\ Len(v) = Len(u) - 3
        /\ \A i \in 1 .. Len(u) - 3 : v[i] = u[i + 3]
    BY <1>1, ThreeLess, Zenon
  <2> HIDE DEF v
  <2>2. QED
    BY <2>1
<1> HIDE DEF v
<1>4. Len(v) > 3 /\ Len(v) >= 3
  BY <1>3
<1>5. WireWrite(v) = v[1] \o (v[2] \o (v[3] \o WireWrite(w)))
  BY <1>3, <1>4, WireWriteThree, Zenon
<1>6. w \in Seq(Seq(S)) /\ Len(w) = 2 /\ w[1] = v[4] /\ w[2] = v[5]
  <2>1. /\ w \in Seq(Seq(S)) /\ Len(w) = Len(v) - 3
        /\ \A i \in 1 .. Len(v) - 3 : w[i] = v[i + 3]
    BY <1>3, <1>4, ThreeLess, Zenon
  <2> HIDE DEF w
  <2>2. QED
    BY <2>1, <1>3
<1> HIDE DEF w
<1>7. WireWrite(w) = w[1] \o w[2]
  <2>1. w = <<w[1], w[2]>>
    BY <1>6
  <2>2. QED
    BY <2>1, WireWriteOfTwo, Zenon
<1>8. QED
  BY <1>2, <1>3, <1>5, <1>6, <1>7, Zenon

(* The server info has the length it says, and reads back.                 *)
LEMMA ServerInfoRead ==
  ASSUME NEW s \in States
  PROVE  /\ SqpServerInfo(s) \in Seq(Bytes) /\ Len(SqpServerInfo(s)) = SqpServerInfoSize(s)
         /\ (\A t \in Strings(s) : Len(t) <= 255) =>
              ReadSqpServerInfo(SqpServerInfo(s)) =
                [players |-> s.players % 256^2, maxPlayers |-> s.maxPlayers % 256^2,
                 name |-> s.name, gameType |-> s.gameType, map |-> s.map, port |-> s.port]
<1> DEFINE b1 == BigEndian(UInt16(s.players), 2)
           b2 == BigEndian(UInt16(s.maxPlayers), 2)
           b3 == SqpString(s.name)
           b4 == SqpString(s.gameType)
           b5 == SqpString(<<>>)
           b6 == SqpString(s.map)
           b7 == BigEndian(s.port, 2)
           t6 == b6 \o b7
           t5 == b5 \o t6
           t4 == b4 \o t5
           t3 == b3 \o t4
           t2 == b2 \o t3
           c == SqpServerInfo(s)
<1>1. /\ s.players \in Int /\ s.maxPlayers \in Int /\ s.port \in Nat
      /\ s.name \in Seq(Bytes) /\ s.gameType \in Seq(Bytes) /\ s.map \in Seq(Bytes)
  BY StateFields
<1>2. /\ b1 \in Seq(Bytes) /\ Len(b1) = 2 /\ FromBigEndian(b1) = s.players % 256^2
      /\ b2 \in Seq(Bytes) /\ Len(b2) = 2 /\ FromBigEndian(b2) = s.maxPlayers % 256^2
      /\ b7 \in Seq(Bytes) /\ Len(b7) = 2 /\ FromBigEndian(b7) = s.port
  <2>1. s.port \div 256 < 256
    BY StateFields
  <2>2. QED
    <3>1. ASSUME NEW n \in Int
          PROVE  /\ BigEndian(UInt16(n), 2) \in Seq(Bytes) /\ Len(BigEndian(UInt16(n), 2)) = 2
                 /\ FromBigEndian(BigEndian(UInt16(n), 2)) = n % 256^2
      <4>1. UInt16(n) \in Nat /\ UInt16(n) \div 256 < 256
        BY <3>1, NarrowedToTwo, Zenon
      <4>2. UInt16(n) = n % 256^2
        BY Zenon DEF UInt16
      <4>3. QED
        BY <4>1, <4>2, ReadsBackLow, Zenon
    <3>2. FromBigEndian(b7) = s.port /\ b7 \in Seq(Bytes) /\ Len(b7) = 2
      BY <1>1, <2>1, ReadsBackLow, Zenon
    <3>3. QED
      BY <1>1, <3>1, <3>2, Zenon
<1>3. /\ b3 \in Seq(Bytes) /\ Len(b3) = 1 + Len(s.name)
      /\ b4 \in Seq(Bytes) /\ Len(b4) = 1 + Len(s.gameType)
      /\ b5 \in Seq(Bytes) /\ Len(b5) = 1
      /\ b6 \in Seq(Bytes) /\ Len(b6) = 1 + Len(s.map)
  <2>1. \A t \in Seq(Bytes) : SqpString(t) \in Seq(Bytes) /\ Len(SqpString(t)) = 1 + Len(t)
    BY SqpStringLength
  <2>2. <<>> \in Seq(Bytes) /\ Len(<<>>) = 0 /\ 1 + 0 = 1
    OBVIOUS
  <2>3. QED
    BY <1>1, <2>1, <2>2, Zenon
<1>4. c = b1 \o t2
  <2> DEFINE u == <<b1, b2, b3, b4, b5, b6, b7>>
  <2>1. c = WireWrite(u)
    BY DEF SqpServerInfo
  <2> HIDE DEF b1, b2, b3, b4, b5, b6, b7
  <2>2. u \in Seq(Seq(Bytes)) /\ Len(u) = 7
    BY <1>2, <1>3
  <2>3. /\ u[1] = b1 /\ u[2] = b2 /\ u[3] = b3 /\ u[4] = b4 /\ u[5] = b5
        /\ u[6] = b6 /\ u[7] = b7
    OBVIOUS
  <2> HIDE DEF u
  <2>4. WireWrite(u) = u[1] \o (u[2] \o (u[3] \o (u[4] \o (u[5] \o (u[6] \o u[7])))))
    BY <2>2, WriteSeven
  <2>5. QED
    BY <2>1, <2>3, <2>4, Zenon
<1> HIDE DEF b1, b2, b3, b4, b5, b6, b7, c
<1>5. /\ t6 \in Seq(Bytes) /\ t5 \in Seq(Bytes) /\ t4 \in Seq(Bytes)
      /\ t3 \in Seq(Bytes) /\ t2 \in Seq(Bytes)
  BY <1>2, <1>3, ConcatProperties, Zenon
<1>6. /\ Len(t6) = Len(b6) + Len(b7) /\ Len(t5) = Len(b5) + Len(t6)
      /\ Len(t4) = Len(b4) + Len(t5) /\ Len(t3) = Len(b3) + Len(t4)
      /\ Len(t2) = Len(b2) + Len(t3)
  <2>1. \A x, y \in Seq(Bytes) : Len(x \o y) = Len(x) + Len(y)
    BY ConcatProperties
  <2>2. QED
    BY <1>2, <1>3, <1>5, <2>1, Zenon
<1>7. c \in Seq(Bytes) /\ Len(c) = Len(b1) + Len(t2)
  <2> HIDE DEF t2
  <2>1. b1 \in Seq(Bytes) /\ t2 \in Seq(Bytes)
    BY <1>2, <1>5, Zenon
  <2>2. b1 \o t2 \in Seq(Bytes) /\ Len(b1 \o t2) = Len(b1) + Len(t2)
    BY <2>1, JoinedLength, Zenon
  <2>3. QED
    BY <1>4, <2>2, Zenon
<1> HIDE DEF t6, t5, t4, t3, t2
<1>8. Len(c) = SqpServerInfoSize(s)
  <2>1. Len(s.name) \in Nat /\ Len(s.gameType) \in Nat /\ Len(s.map) \in Nat
    BY <1>1, LenProperties
  <2> DEFINE k == Len(s.name)
             l == Len(s.gameType)
             m == Len(s.map)
  <2>2. SqpServerInfoSize(s) = 2 + 2 + k + 1 + l + 1 + 1 + m + 1 + 2
    BY Zenon DEF SqpServerInfoSize
  <2>3. k \in Nat /\ l \in Nat /\ m \in Nat
    BY <2>1
  <2>4. /\ Len(b3) = 1 + k /\ Len(b4) = 1 + l /\ Len(b6) = 1 + m
    BY <1>3
  <2> HIDE DEF k, l, m
  <2>5. Len(c) = 2 + (2 + ((1 + k) + ((1 + l) + (1 + ((1 + m) + 2)))))
    BY <1>2, <1>3, <1>6, <1>7, <2>4, Zenon
  <2>6. QED
    BY <2>2, <2>3, <2>5, SMT
<1>9. ASSUME \A t \in Strings(s) : Len(t) <= 255
      PROVE  ReadSqpServerInfo(c) =
               [players |-> s.players % 256^2, maxPlayers |-> s.maxPlayers % 256^2,
                name |-> s.name, gameType |-> s.gameType, map |-> s.map, port |-> s.port]
  <2>1. Len(s.name) <= 255 /\ Len(s.gameType) <= 255 /\ Len(s.map) <= 255
    BY <1>9 DEF Strings
  <2>2. SubSeq(c, 1, 2) = b1
    BY <1>2, <1>4, <1>5, Split
  <2>3. SubSeq(c, 3, 4) = b2
    <3>1. SubSeq(b1 \o (b2 \o t3), Len(b1) + 1, Len(b1) + Len(b2)) = b2
      BY <1>2, <1>5, Middle, Zenon
    <3>2. Len(b1) + 1 = 3 /\ Len(b1) + Len(b2) = 4
      BY <1>2
    <3>3. QED
      BY <1>4, <3>1, <3>2, Zenon DEF t2
  <2>4. From(c, 5) = t3
    <3>1. b1 \o b2 \in Seq(Bytes) /\ Len(b1 \o b2) = Len(b1) + Len(b2)
      BY <1>2, ConcatProperties, Zenon
    <3>5. c = (b1 \o b2) \o t3
      <4>1. (b1 \o b2) \o t3 = b1 \o (b2 \o t3)
        <5>1. b1 \in Seq(Bytes) /\ b2 \in Seq(Bytes) /\ t3 \in Seq(Bytes)
          BY <1>2, <1>5, Zenon
        <5>2. QED
          BY <5>1, ConcatAssociative, SMTT(20)
      <4>2. QED
        BY <1>4, <4>1, Zenon DEF t2
    <3>2. From(c, Len(b1 \o b2) + 1) = t3
      BY <1>5, <3>1, <3>5, Split, Zenon
    <3>3. Len(b1) + Len(b2) + 1 = 5
      BY <1>2
    <3>4. QED
      BY <3>1, <3>2, <3>3, Zenon
  <2>5. TakeSqp(t3) = s.name /\ AfterSqp(t3) = t4
    BY <1>1, <1>5, <2>1, SqpStringRead, Zenon DEF t3, b3
  <2>6. TakeSqp(t4) = s.gameType /\ AfterSqp(t4) = t5
    BY <1>1, <1>5, <2>1, SqpStringRead, Zenon DEF t4, b4
  <2>7. AfterSqp(t5) = t6
    <3>1. <<>> \in Seq(Bytes) /\ Len(<<>>) <= 255
      OBVIOUS
    <3>2. QED
      BY <1>5, <3>1, SqpStringRead, Zenon DEF t5, b5
  <2>8. TakeSqp(t6) = s.map /\ AfterSqp(t6) = b7
    BY <1>1, <1>2, <2>1, SqpStringRead, Zenon DEF t6, b6
  <2>9. SubSeq(b7, 1, 2) = b7
    BY <1>2, SubSeqFull
  <2>10. QED
    BY <1>2, <2>2, <2>3, <2>4, <2>5, <2>6, <2>7, <2>8, <2>9, Zenon DEF ReadSqpServerInfo
<1>10. QED
  BY <1>7, <1>8, <1>9 DEF c

(* Fields of four bytes lie four bytes apart.                              *)
LEMMA FlattenOfFours ==
  ASSUME NEW S, NEW seqs \in Seq(Seq(S)), \A i \in 1 .. Len(seqs) : Len(seqs[i]) = 4
  PROVE  /\ FlattenSeq(seqs) \in Seq(S) /\ Len(FlattenSeq(seqs)) = 4 * Len(seqs)
         /\ \A i \in 1 .. Len(seqs) : SubSeq(FlattenSeq(seqs), 4 * i - 3, 4 * i) = seqs[i]
<1> DEFINE n == Len(seqs)
<1>1. n \in Nat /\ \A i \in 1 .. n : seqs[i] \in Seq(S) /\ Len(seqs[i]) = 4
  BY LenProperties, ElementOfSeq
<1>2. CASE n = 0
  <2>1. seqs = <<>>
    BY <1>2, EmptySeq
  <2>2. FlattenSeq(seqs) = seqs
    BY <1>2 DEF FlattenSeq
  <2>3. <<>> \in Seq(S) /\ Len(<<>>) = 0 /\ 4 * 0 = 0 /\ 1 .. 0 = {}
    OBVIOUS
  <2>4. QED
    BY <2>1, <2>2, <2>3, Zenon
<1>3. CASE n # 0
  <2>1. PICK f : FlattenSeq(seqs) = f[Len(seqs)] /\ Flattens(f, seqs)
    BY <1>3, FlattenExists, FlattenIs, Zenon
  <2>2. \A i \in 1 .. n : f[i] = IF i = 1 THEN seqs[i] ELSE f[i - 1] \o seqs[i]
    BY <2>1 DEF Flattens
  <2> HIDE DEF n
  <2> DEFINE Good(k) == /\ f[k] \in Seq(S) /\ Len(f[k]) = 4 * k
                        /\ \A i \in 1 .. k : SubSeq(f[k], 4 * i - 3, 4 * i) = seqs[i]
             T == {k \in Nat : k + 1 <= n => Good(k + 1)}
  <2>3. 0 \in T
    <3>1. 1 \in 1 .. n
      BY <1>1, <1>3
    <3>2. f[1] = seqs[1] /\ seqs[1] \in Seq(S) /\ Len(seqs[1]) = 4
      BY <1>1, <2>2, <3>1
    <3>3. SubSeq(seqs[1], 1, 4) = seqs[1]
      BY <3>2, SubSeqFull
    <3>4. \A i \in 1 .. 1 : i = 1 /\ 4 * i - 3 = 1 /\ 4 * i = 4
      OBVIOUS
    <3>5. \A i \in 1 .. 1 : SubSeq(f[1], 4 * i - 3, 4 * i) = seqs[i]
      BY <3>2, <3>3, <3>4, Zenon
    <3>6. 4 * 1 = 4 /\ 0 + 1 = 1 /\ 0 \in Nat
      OBVIOUS
    <3>7. QED
      BY <3>2, <3>5, <3>6, Zenon
  <2>4. ASSUME NEW k \in T PROVE k + 1 \in T
    <3>1. k \in Nat /\ k + 1 \in Nat
      OBVIOUS
    <3> SUFFICES ASSUME k + 1 + 1 <= n PROVE Good(k + 1 + 1)
      BY <3>1
    <3> DEFINE i == k + 1
               j == k + 1 + 1
    <3>2. Good(i)
      BY <1>1, <3>1
    <3>3. /\ i \in Nat /\ j \in 1 .. n /\ j # 1 /\ j - 1 = i
      BY <1>1, <3>1
    <3> DEFINE x == f[i]
               y == seqs[j]
    <3>4. /\ f[j] = x \o y /\ x \in Seq(S) /\ Len(x) = 4 * i /\ y \in Seq(S) /\ Len(y) = 4
          /\ \A h \in 1 .. i : SubSeq(x, 4 * h - 3, 4 * h) = seqs[h]
      <4> HIDE DEF i, j
      <4>1. f[j] = f[j - 1] \o seqs[j]
        BY <2>2, <3>3
      <4>2. QED
        BY <1>1, <3>2, <3>3, <4>1, Zenon
    <3>9. \A h \in 1 .. j : h \in 1 .. i \/ h = j
      BY <3>3
    <3>10. /\ 4 * j - 3 = 4 * i + 1 /\ 4 * j = 4 * i + 4
      BY <3>3
    <3> HIDE DEF i, j, x
    <3>5. x \o y \in Seq(S) /\ Len(x \o y) = Len(x) + Len(y)
      BY <3>4, ConcatProperties, Zenon
    <3>6. ASSUME NEW h \in 1 .. i PROVE SubSeq(x \o y, 4 * h - 3, 4 * h) = seqs[h]
      <4> DEFINE p == 4 * h - 3
                 q == 4 * h
      <4>1. p \in 1 .. 4 * i /\ q \in 1 .. 4 * i
        BY <3>3
      <4> HIDE DEF p, q, y
      <4>2. x \in Seq(S) /\ y \in Seq(S) /\ p \in 1 .. Len(x) /\ q \in 1 .. Len(x)
        BY <3>4, <4>1, Zenon
      <4>3. SubSeq(x \o y, p, q) = SubSeq(x, p, q)
        BY <4>2, Within
      <4>4. QED
        BY <3>4, <4>3, Zenon DEF p, q
    <3>7. SubSeq(x \o y, 4 * j - 3, 4 * j) = y
      <4>1. y # <<>>
        <5>1. Len(<<>>) = 0 /\ 4 # 0
          OBVIOUS
        <5>2. QED
          BY <3>4, <5>1, Zenon
      <4>2. SubSeq(x \o y, Len(x) + 1, Len(x) + Len(y)) = y
        BY <3>4, <4>1, BackOfConcat, Zenon
      <4>3. QED
        BY <3>4, <3>10, <4>2, Zenon
    <3>8. Good(j)
      BY <3>4, <3>5, <3>6, <3>7, <3>9, <3>10, Zenon
    <3>11. QED
      BY <3>8 DEF j
  <2> HIDE DEF Good, T
  <2>5. T = Nat
    BY <2>3, <2>4, Induction DEF T
  <2>6. n - 1 \in T /\ n - 1 + 1 = n
    BY <1>1, <1>3, <2>5
  <2>7. Good(n)
    BY <1>1, <2>6 DEF T
  <2>8. QED
    BY <2>1, <2>7, Zenon DEF Good, n
<1>4. QED
  BY <1>2, <1>3

(* The metrics read back, whatever they are.                               *)
LEMMA MetricsRead ==
  ASSUME NEW s \in States
  PROVE  /\ SqpMetrics(s) \in Seq(Bytes) /\ Len(SqpMetrics(s)) = SqpMetricsSize(s)
         /\ ReadSqpMetrics(SqpMetrics(s)) = s.metrics
<1> DEFINE m == s.metrics
           n == Len(m)
           each == [i \in 1 .. n |-> BigEndian(m[i], 4)]
           flat == FlattenSeq(each)
           c == SqpMetrics(s)
<1>1. m \in Seq(Nat) /\ n \in Nat /\ n <= 255
  BY StateFields, LenProperties
<1>2. \A i \in 1 .. n : m[i] \in Nat
  BY StateFields
<1>3. \A i \in 1 .. n : FromBigEndian(BigEndian(m[i], 4)) = m[i]
  <2>1. \A i \in 1 .. n : m[i] \div 256^3 < 256
    BY StateFields
  <2>2. QED
    BY <1>2, <2>1, ReadsBack, Zenon
<1>4. \A i \in 1 .. n : BigEndian(m[i], 4) \in Seq(Bytes) /\ Len(BigEndian(m[i], 4)) = 4
  BY <1>2, FieldBytes, Zenon
<1>5. c = <<n>> \o flat
  BY WireWriteOfTwo DEF SqpMetrics
<1>6. /\ each \in Seq(Seq(Bytes)) /\ Len(each) = n
      /\ \A i \in 1 .. n : each[i] = BigEndian(m[i], 4)
  <2> HIDE DEF n
  <2>1. QED
    BY <1>1, <1>4
<1> HIDE DEF m, n, each, c
<1>7. \A i \in 1 .. n : Len(each[i]) = 4
  BY <1>4, <1>6
<1>8. /\ flat \in Seq(Bytes) /\ Len(flat) = 4 * n
      /\ \A i \in 1 .. n : SubSeq(flat, 4 * i - 3, 4 * i) = each[i]
  BY <1>6, <1>7, FlattenOfFours
<1> HIDE DEF flat
<1>9. n \in Bytes
  BY <1>1 DEF Bytes
<1>10. <<n>> \in Seq(Bytes) /\ Len(<<n>>) = 1 /\ c[1] = n
  BY <1>5, <1>8, <1>9, FirstByte
<1>11. c \in Seq(Bytes) /\ Len(c) = 1 + 4 * n
  BY <1>5, <1>8, <1>10, ConcatProperties
<1>12. ASSUME NEW i \in 1 .. n
       PROVE  SubSeq(c, 4 * i - 2, 4 * i + 1) = BigEndian(m[i], 4)
  <2> DEFINE b == <<n>>
  <2>1. b \in Seq(Bytes) /\ Len(b) = 1
    BY <1>10
  <2> DEFINE p == 4 * i - 2
             q == 4 * i + 1
  <2>2. /\ p \in Len(b) + 1 .. Len(b) + Len(flat)
        /\ q \in Len(b) + 1 .. Len(b) + Len(flat)
        /\ p - Len(b) = 4 * i - 3 /\ q - Len(b) = 4 * i
    BY <1>1, <1>8, <2>1
  <2> HIDE DEF b, p, q
  <2>3. SubSeq(b \o flat, p, q) = SubSeq(flat, p - Len(b), q - Len(b))
    <3>1. flat \in Seq(Bytes)
      BY <1>8
    <3>2. QED
      BY <2>1, <2>2, <3>1, SubSeqOfConcat2
  <2>4. QED
    BY <1>5, <1>6, <1>8, <2>2, <2>3, Zenon DEF b, p, q
<1>13. ReadSqpMetrics(c) = m
  <2>1. ReadSqpMetrics(c) = [i \in 1 .. n |-> FromBigEndian(SubSeq(c, 4 * i - 2, 4 * i + 1))]
    BY <1>10, Zenon DEF ReadSqpMetrics
  <2>2. \A i \in 1 .. n : FromBigEndian(SubSeq(c, 4 * i - 2, 4 * i + 1)) = m[i]
    BY <1>3, <1>12, Zenon
  <2>3. m = [i \in 1 .. n |-> m[i]]
    BY <1>1, LenProperties DEF n
  <2>4. QED
    BY <2>1, <2>2, <2>3, Zenon
<1>14. Len(c) = SqpMetricsSize(s)
  BY <1>11, Zenon DEF SqpMetricsSize, n, m
<1>15. QED
  BY <1>11, <1>13, <1>14 DEF c, m

(* Six sequences on end: the first five and the last.                      *)
LEMMA FirstFive ==
  ASSUME NEW S, NEW u \in Seq(Seq(S)), Len(u) = 5, NEW t \in Seq(S)
  PROVE  u[1] \o (u[2] \o (u[3] \o (u[4] \o (u[5] \o t))))
           = (u[1] \o (u[2] \o (u[3] \o (u[4] \o u[5])))) \o t
<1> DEFINE a == u[1]
           b == u[2]
           c == u[3]
           d == u[4]
           e == u[5]
           de == d \o e
           cde == c \o de
           bcde == b \o cde
<1>1. a \in Seq(S) /\ b \in Seq(S) /\ c \in Seq(S) /\ d \in Seq(S) /\ e \in Seq(S)
  <2>1. 1 \in 1 .. 5 /\ 2 \in 1 .. 5 /\ 3 \in 1 .. 5 /\ 4 \in 1 .. 5 /\ 5 \in 1 .. 5
    OBVIOUS
  <2>2. QED
    BY <2>1, ElementOfSeq, Zenon
<1> HIDE DEF a, b, c, d, e
<1>2. ASSUME NEW x \in Seq(S), NEW y \in Seq(S)
      PROVE  x \o y \in Seq(S) /\ x \o (y \o t) = (x \o y) \o t
  <2>1. (x \o y) \o t = x \o (y \o t)
    BY ONLY x \in Seq(S), y \in Seq(S), t \in Seq(S), ConcatAssociative, SMT
  <2>2. x \o y \in Seq(S)
    BY ConcatProperties, Zenon
  <2>3. QED
    BY <2>1, <2>2, Zenon
<1>3. de \in Seq(S) /\ d \o (e \o t) = de \o t
  BY <1>1, <1>2, Zenon
<1> HIDE DEF de
<1>4. cde \in Seq(S) /\ c \o (de \o t) = cde \o t
  BY <1>1, <1>2, <1>3, Zenon
<1> HIDE DEF cde
<1>5. bcde \in Seq(S) /\ b \o (cde \o t) = bcde \o t
  BY <1>1, <1>2, <1>4, Zenon
<1> HIDE DEF bcde
<1>6. a \o (bcde \o t) = (a \o bcde) \o t
  BY <1>1, <1>2, <1>5, Zenon
<1>7. QED
  BY <1>3, <1>4, <1>5, <1>6, Zenon DEF de, cde, bcde, a, b, c, d, e

(* A chunk of an answer in the sqp format, if it is asked for.             *)
Chunk(wanted, c) == IF wanted THEN BigEndian(Len(c), 4) \o c ELSE <<>>

(* It has four bytes more than what it carries, or none at all.            *)
LEMMA ChunkLengths ==
  ASSUME NEW wanted, NEW c \in Seq(Bytes)
  PROVE  /\ Chunk(wanted, c) \in Seq(Bytes)
         /\ Len(Chunk(wanted, c)) = IF wanted THEN Len(c) + 4 ELSE 0
<1> DEFINE b == BigEndian(Len(c), 4)
<1>1. b \in Seq(Bytes) /\ Len(b) = 4
  BY LenProperties, FieldBytes, Zenon
<1> HIDE DEF b
<1>2. b \o c \in Seq(Bytes) /\ Len(b \o c) = 4 + Len(c)
  <2>1. b \o c \in Seq(Bytes) /\ Len(b \o c) = Len(b) + Len(c)
    BY <1>1, ConcatProperties, Zenon
  <2>2. QED
    BY <1>1, <2>1, Zenon
<1>3. 4 + Len(c) = Len(c) + 4
  BY LenProperties
<1>4. <<>> \in Seq(Bytes) /\ Len(<<>>) = 0
  OBVIOUS
<1>5. Chunk(wanted, c) = IF wanted THEN b \o c ELSE <<>>
  BY Zenon DEF Chunk, b
<1>6. CASE wanted
  BY <1>2, <1>3, <1>5, <1>6, Zenon
<1>7. CASE ~wanted
  BY <1>4, <1>5, <1>7, Zenon
<1>8. QED
  BY <1>6, <1>7, Zenon

(* An answer in the sqp format: eleven bytes, the last two for the length  *)
(* of what follows, and the chunks.                                        *)
LEMMA SqpAnswerParts ==
  ASSUME NEW s \in States, NEW query, query.challenge \in Nat,
         NEW chunks,
         chunks = Chunk(query.wantsServerInfo, SqpServerInfo(s))
                    \o Chunk(query.version >= 2 /\ query.wantsMetrics, SqpMetrics(s))
  PROVE  /\ chunks \in Seq(Bytes)
         /\ Len(SqpAnswer(query, s)) = 11 + Len(chunks)
         /\ SubSeq(SqpAnswer(query, s), 10, 11) = BigEndian(Len(chunks), 2)
         /\ From(SqpAnswer(query, s), 12) = chunks
<1> DEFINE info == SqpServerInfo(s)
           metrics == SqpMetrics(s)
           both == query.version >= 2 /\ query.wantsMetrics
           c1 == Chunk(query.wantsServerInfo, info)
           c2 == Chunk(both, metrics)
           payload == (IF query.wantsServerInfo THEN Len(info) + 4 ELSE 0)
                      + (IF both THEN Len(metrics) + 4 ELSE 0)
           packet == SqpAnswer(query, s)
           b1 == <<1>>
           b2 == BigEndian(query.challenge, 4)
           b3 == BigEndian(1, 2)
           b4 == <<0>>
           b6 == BigEndian(payload, 2)
           u == <<b1, b2, b3, b4, b4, b6, c1, c2>>
           head == b1 \o (b2 \o (b3 \o (b4 \o b4)))
<1>1. /\ info \in Seq(Bytes) /\ Len(info) = SqpServerInfoSize(s)
      /\ metrics \in Seq(Bytes) /\ Len(metrics) = SqpMetricsSize(s)
  BY ServerInfoRead, MetricsRead
<1>2. packet = WireWrite(u)
  BY <1>1, Zenon DEF SqpAnswer, Chunk
<1> HIDE DEF info, metrics, both, packet
<1>3. /\ c1 \in Seq(Bytes) /\ Len(c1) = IF query.wantsServerInfo THEN Len(info) + 4 ELSE 0
      /\ c2 \in Seq(Bytes) /\ Len(c2) = IF both THEN Len(metrics) + 4 ELSE 0
  BY <1>1, ChunkLengths, Zenon
<1>4. payload = Len(c1) + Len(c2)
  BY <1>3, Zenon
<1> HIDE DEF c1, c2, payload
<1>5. chunks = c1 \o c2 /\ chunks \in Seq(Bytes) /\ Len(chunks) = payload /\ payload \in Nat
  <2>1. chunks = c1 \o c2
    BY DEF c1, c2, info, metrics, both
  <2>2. c1 \o c2 \in Seq(Bytes) /\ Len(c1 \o c2) = Len(c1) + Len(c2)
    BY <1>3, ConcatProperties, Zenon
  <2>3. Len(c1 \o c2) \in Nat
    BY <2>2, LenProperties
  <2>4. QED
    BY <1>4, <2>1, <2>2, <2>3, Zenon
<1>6. /\ b1 \in Seq(Bytes) /\ Len(b1) = 1 /\ b4 \in Seq(Bytes) /\ Len(b4) = 1
  BY DEF Bytes
<1>7. /\ b2 \in Seq(Bytes) /\ Len(b2) = 4 /\ b3 \in Seq(Bytes) /\ Len(b3) = 2
      /\ b6 \in Seq(Bytes) /\ Len(b6) = 2
  BY <1>5, FieldBytes, 1 \in Nat, Zenon
<1> HIDE DEF b1, b2, b3, b4, b6
<1>8. \A x, y \in Seq(Bytes) : x \o y \in Seq(Bytes) /\ Len(x \o y) = Len(x) + Len(y)
  BY ConcatProperties
<1>9. packet = b1 \o (b2 \o (b3 \o (b4 \o (b4 \o (b6 \o chunks)))))
  <2>1. u \in Seq(Seq(Bytes)) /\ Len(u) = 8
    BY <1>3, <1>6, <1>7
  <2>2. /\ u[1] = b1 /\ u[2] = b2 /\ u[3] = b3 /\ u[4] = b4 /\ u[5] = b4
        /\ u[6] = b6 /\ u[7] = c1 /\ u[8] = c2
    OBVIOUS
  <2> HIDE DEF u
  <2>3. WireWrite(u) =
          u[1] \o (u[2] \o (u[3] \o (u[4] \o (u[5] \o (u[6] \o (u[7] \o u[8]))))))
    BY <2>1, WriteEight
  <2>4. QED
    BY <1>2, <1>5, <2>2, <2>3, Zenon
<1>10. head \in Seq(Bytes) /\ Len(head) = 9
  <2> DEFINE h4 == b4 \o b4
             h3 == b3 \o h4
             h2 == b2 \o h3
  <2>2. h4 \in Seq(Bytes) /\ Len(h4) = Len(b4) + Len(b4)
    BY <1>6, JoinedLength, Zenon
  <2> HIDE DEF h4
  <2>3. h3 \in Seq(Bytes) /\ Len(h3) = Len(b3) + Len(h4)
    BY <1>7, <2>2, JoinedLength, Zenon
  <2> HIDE DEF h3
  <2>4. h2 \in Seq(Bytes) /\ Len(h2) = Len(b2) + Len(h3)
    BY <1>7, <2>3, JoinedLength, Zenon
  <2> HIDE DEF h2
  <2>5. b1 \o h2 \in Seq(Bytes) /\ Len(b1 \o h2) = Len(b1) + Len(h2)
    BY <1>6, <2>4, JoinedLength, Zenon
  <2>6. Len(b1 \o h2) = 9
    BY ONLY <1>6, <1>7, <2>2, <2>3, <2>4, <2>5, SMT
  <2>7. QED
    BY <2>5, <2>6, Zenon DEF h2, h3, h4
<1>11. b6 \o chunks \in Seq(Bytes) /\ Len(b6 \o chunks) = 2 + Len(chunks)
  BY <1>5, <1>7, <1>8, Zenon
<1>12. packet = head \o (b6 \o chunks)
  <2> DEFINE t == b6 \o chunks
  <2>1. t \in Seq(Bytes)
    BY <1>11
  <2> HIDE DEF t
  <2>2. b1 \o (b2 \o (b3 \o (b4 \o (b4 \o t)))) = head \o t
    <3> DEFINE v == <<b1, b2, b3, b4, b4>>
    <3>1. v \in Seq(Seq(Bytes)) /\ Len(v) = 5
      BY <1>6, <1>7
    <3>2. v[1] = b1 /\ v[2] = b2 /\ v[3] = b3 /\ v[4] = b4 /\ v[5] = b4
      OBVIOUS
    <3> HIDE DEF v
    <3>3. v[1] \o (v[2] \o (v[3] \o (v[4] \o (v[5] \o t))))
            = (v[1] \o (v[2] \o (v[3] \o (v[4] \o v[5])))) \o t
      BY <2>1, <3>1, FirstFive, Zenon
    <3>4. QED
      BY <3>2, <3>3, Zenon
  <2>3. QED
    BY <1>9, <2>2 DEF t
<1> HIDE DEF head
<1>13. Len(packet) = 11 + Len(chunks)
  <2> DEFINE t == b6 \o chunks
  <2>1. Len(packet) = 9 + (2 + Len(chunks))
    <3>1. t \in Seq(Bytes) /\ Len(t) = 2 + Len(chunks) /\ packet = head \o t
      BY <1>11, <1>12
    <3> HIDE DEF t
    <3>2. Len(head \o t) = Len(head) + Len(t)
      BY <1>10, <1>8, <3>1, Zenon
    <3>3. QED
      BY <1>10, <3>1, <3>2, Zenon
  <2>2. QED
    BY <1>5, <2>1
<1>14. SubSeq(packet, 10, 11) = b6
  <2>1. SubSeq(head \o (b6 \o chunks), Len(head) + 1, Len(head) + Len(b6)) = b6
    BY <1>5, <1>7, <1>10, Middle
  <2>2. Len(head) + 1 = 10 /\ Len(head) + Len(b6) = 11
    BY <1>7, <1>10
  <2>3. QED
    BY <1>12, <2>1, <2>2, Zenon
<1>15. From(packet, 12) = chunks
  <2> DEFINE h == head \o b6
  <2>1. h \in Seq(Bytes) /\ Len(h) = 9 + 2
    BY <1>7, <1>10, <1>8, Zenon
  <2>2. packet = h \o chunks
    <3>1. \A x, y, z \in Seq(Bytes) : x \o (y \o z) = (x \o y) \o z
      BY ONLY ConcatAssociative, SMTT(20)
    <3>2. QED
      BY <1>5, <1>7, <1>10, <1>12, <3>1, Zenon
  <2> HIDE DEF h
  <2>3. From(packet, Len(h) + 1) = chunks
    BY <1>5, <2>1, <2>2, Split
  <2>4. 9 + 2 + 1 = 12
    OBVIOUS
  <2>5. QED
    BY <2>1, <2>3, <2>4, Zenon
<1>16. b6 = BigEndian(Len(chunks), 2)
  BY <1>5, Zenon DEF b6
<1>17. QED
  BY <1>5, <1>13, <1>14, <1>15, <1>16, Zenon DEF packet

(* A chunk that was asked for is found at the front, and what is behind it *)
(* after it, if its length goes into four bytes.                           *)
LEMMA ChunkFound ==
  ASSUME NEW wanted, NEW c \in Seq(Bytes), NEW t \in Seq(Bytes), Len(c) \div 256^3 < 256
  PROVE  /\ wanted => ReadChunk(Chunk(wanted, c) \o t) = c
         /\ (IF wanted THEN AfterChunk(Chunk(wanted, c) \o t) ELSE Chunk(wanted, c) \o t) = t
<1>1. /\ ReadChunk((BigEndian(Len(c), 4) \o c) \o t) = c
      /\ AfterChunk((BigEndian(Len(c), 4) \o c) \o t) = t
  BY ChunkRead, Zenon
<1>2. <<>> \o t = t
  BY ConcatEmptySeq
<1>3. CASE wanted
  <2>1. Chunk(wanted, c) = BigEndian(Len(c), 4) \o c
    BY <1>3, Zenon DEF Chunk
  <2>2. QED
    BY <1>1, <1>3, <2>1, Zenon
<1>4. CASE ~wanted
  <2>1. Chunk(wanted, c) = <<>>
    BY <1>4, Zenon DEF Chunk
  <2>2. QED
    BY <1>2, <1>4, <2>1, Zenon
<1>5. QED
  BY <1>3, <1>4, Zenon

(* An answer in the sqp format that goes into a datagram reads back.       *)
LEMMA SqpAnswerRead ==
  ASSUME NEW s \in States, NEW query, query.challenge \in Nat, queryProto = "sqp",
         Len(SqpAnswer(query, s)) <= MaxDatagram
  PROVE  ReadsBackSqp(SqpAnswer(query, s), s, query)
<1> DEFINE info == SqpServerInfo(s)
           metrics == SqpMetrics(s)
           wantsMetrics == query.version >= 2 /\ query.wantsMetrics
           c1 == Chunk(query.wantsServerInfo, info)
           c2 == Chunk(wantsMetrics, metrics)
           chunks == c1 \o c2
           packet == SqpAnswer(query, s)
<1>1. info \in Seq(Bytes) /\ metrics \in Seq(Bytes)
  BY ServerInfoRead, MetricsRead, Zenon
<1>2. /\ chunks \in Seq(Bytes) /\ Len(packet) = 11 + Len(chunks)
      /\ SubSeq(packet, 10, 11) = BigEndian(Len(chunks), 2)
      /\ From(packet, 12) = chunks
  BY SqpAnswerParts, Zenon
<1>3. /\ c1 \in Seq(Bytes) /\ Len(c1) = IF query.wantsServerInfo THEN Len(info) + 4 ELSE 0
      /\ c2 \in Seq(Bytes) /\ Len(c2) = IF wantsMetrics THEN Len(metrics) + 4 ELSE 0
  BY <1>1, ChunkLengths, Zenon
<1>4. Len(chunks) = Len(c1) + Len(c2)
  BY <1>3, ConcatProperties, Zenon
<1>5. Len(packet) <= MaxDatagram
  BY Zenon
<1>6. ReadSqpMetrics(metrics) = s.metrics
  BY MetricsRead, Zenon
<1>7. (\A t \in Strings(s) : Len(t) <= 255) =>
        ReadSqpServerInfo(info) =
          [players |-> s.players % 256^2, maxPlayers |-> s.maxPlayers % 256^2,
           name |-> s.name, gameType |-> s.gameType, map |-> s.map, port |-> s.port]
  BY ServerInfoRead, Zenon
<1>8. Fits(s) => \A t \in Strings(s) : Len(t) <= 255
  BY Zenon DEF Fits
<1>9. /\ Len(info) \in Nat /\ Len(metrics) \in Nat /\ Len(chunks) \in Nat
      /\ Len(c1) \in Nat /\ Len(c2) \in Nat
  BY <1>1, <1>2, <1>3, LenProperties, Zenon
<1>10. \A k \in Nat : k <= MaxDatagram => k \div 256 < 256 /\ k \div 256^3 < 256
  <2>1. ASSUME NEW k \in Nat, k <= MaxDatagram PROVE k \div 256 < 256
    BY <2>1, SMT DEF MaxDatagram
  <2>2. ASSUME NEW k \in Nat, k <= MaxDatagram PROVE k \div 256^3 < 256
    BY <2>2, Powers, SMT DEF MaxDatagram
  <2>3. QED
    BY <2>1, <2>2, Zenon
<1> HIDE DEF info, metrics, wantsMetrics, packet, c1, c2
<1>11. FromBigEndian(SubSeq(packet, 10, 11)) = Len(packet) - 11
  <2>1. Len(chunks) <= MaxDatagram
    <3> HIDE DEF chunks
    <3>1. QED
      BY <1>2, <1>5, <1>9, SMT DEF MaxDatagram
  <2>2. FromBigEndian(BigEndian(Len(chunks), 2)) = Len(chunks)
    BY <1>9, <1>10, <2>1, ReadsBackLow, SMT
  <2>3. Len(packet) - 11 = Len(chunks)
    <3> HIDE DEF chunks
    <3>1. QED
      BY <1>2, <1>9, SMT
  <2>4. QED
    BY <1>2, <2>2, <2>3, Zenon
<1>12. query.wantsServerInfo => Len(info) \div 256^3 < 256
  <2> SUFFICES ASSUME query.wantsServerInfo PROVE Len(info) \div 256^3 < 256
    OBVIOUS
  <2>1. Len(c1) = Len(info) + 4
    BY <1>3, Zenon
  <2>2. Len(info) <= MaxDatagram
    <3> HIDE DEF chunks
    <3>1. QED
      BY <1>2, <1>4, <1>5, <1>9, <2>1, SMT DEF MaxDatagram
  <2>3. QED
    BY <1>9, <1>10, <2>2, Zenon
<1>13. wantsMetrics => Len(metrics) \div 256^3 < 256
  <2> SUFFICES ASSUME wantsMetrics PROVE Len(metrics) \div 256^3 < 256
    OBVIOUS
  <2>1. Len(c2) = Len(metrics) + 4
    BY <1>3, Zenon
  <2>2. Len(metrics) <= MaxDatagram
    <3> HIDE DEF chunks
    <3>1. QED
      BY <1>2, <1>4, <1>5, <1>9, <2>1, SMT DEF MaxDatagram
  <2>3. QED
    BY <1>9, <1>10, <2>2, Zenon
<1>14. /\ query.wantsServerInfo => ReadChunk(chunks) = info
       /\ (IF query.wantsServerInfo THEN AfterChunk(chunks) ELSE chunks) = c2
  <2>1. CASE query.wantsServerInfo
    BY <1>1, <1>3, <1>12, <2>1, ChunkFound, Zenon DEF c1
  <2>2. CASE ~query.wantsServerInfo
    <3>1. c1 = <<>>
      BY <2>2, Zenon DEF c1, Chunk
    <3>2. <<>> \o c2 = c2
      BY <1>3, ConcatEmptySeq
    <3>3. QED
      BY <2>2, <3>1, <3>2, Zenon
  <2>3. QED
    BY <2>1, <2>2, Zenon
<1>15. wantsMetrics => ReadChunk(c2) = metrics
  <2> SUFFICES ASSUME wantsMetrics PROVE ReadChunk(c2) = metrics
    OBVIOUS
  <2>1. <<>> \in Seq(Bytes)
    OBVIOUS
  <2>2. c2 \o <<>> = c2
    BY <1>3, ConcatEmptySeq
  <2>3. ReadChunk(c2 \o <<>>) = metrics
    BY <1>1, <1>13, <2>1, ChunkFound, Zenon DEF c2
  <2>4. QED
    BY <2>2, <2>3, Zenon
<1> HIDE DEF chunks
<1>16. ReadsBackSqp(packet, s, query)
  <2>1. wantsMetrics => ReadSqpMetrics(ReadChunk(
          IF query.wantsServerInfo THEN AfterChunk(chunks) ELSE chunks)) = s.metrics
    BY <1>6, <1>14, <1>15, Zenon
  <2>2. query.wantsServerInfo /\ Fits(s) =>
          ReadSqpServerInfo(ReadChunk(chunks)) =
            [players |-> s.players % 256^2, maxPlayers |-> s.maxPlayers % 256^2,
             name |-> s.name, gameType |-> s.gameType, map |-> s.map, port |-> s.port]
    BY <1>7, <1>8, <1>14, Zenon
  <2>3. QED
    BY <1>2, <1>11, <2>1, <2>2, Zenon DEF ReadsBackSqp, wantsMetrics
<1>17. QED
  BY <1>16 DEF packet

(* What WireWrite makes of the fields of an answer in the a2s format.      *)
LEMMA WriteMany ==
  ASSUME NEW S, NEW u \in Seq(Seq(S)), Len(u) = 15
  PROVE  \E t \in Seq(S) :
           WireWrite(u) = u[1] \o (u[2] \o (u[3] \o (u[4] \o (u[5] \o (u[6] \o (u[7]
                            \o (u[8] \o (u[9] \o t))))))))
<1> DEFINE v == Tail(Tail(Tail(u)))
           w == Tail(Tail(Tail(v)))
           x == Tail(Tail(Tail(w)))
<1>1. Len(u) > 3 /\ Len(u) >= 3
  OBVIOUS
<1>2. WireWrite(u) = u[1] \o (u[2] \o (u[3] \o WireWrite(v)))
  BY <1>1, WireWriteThree, Zenon
<1>3. /\ v \in Seq(Seq(S)) /\ Len(v) = Len(u) - 3
      /\ \A i \in 1 .. Len(u) - 3 : v[i] = u[i + 3]
  BY <1>1, ThreeLess, Zenon
<1> HIDE DEF v
<1>4. Len(v) = 12 /\ Len(v) > 3 /\ Len(v) >= 3
  BY <1>3
<1>5. WireWrite(v) = v[1] \o (v[2] \o (v[3] \o WireWrite(w)))
  BY <1>3, <1>4, WireWriteThree, Zenon
<1>6. /\ w \in Seq(Seq(S)) /\ Len(w) = Len(v) - 3
      /\ \A i \in 1 .. Len(v) - 3 : w[i] = v[i + 3]
  BY <1>3, <1>4, ThreeLess, Zenon
<1> HIDE DEF w
<1>7. Len(w) = 9 /\ Len(w) > 3 /\ Len(w) >= 3
  BY <1>4, <1>6
<1>8. WireWrite(w) = w[1] \o (w[2] \o (w[3] \o WireWrite(x)))
  BY <1>6, <1>7, WireWriteThree, Zenon
<1>9. WireWrite(x) \in Seq(S)
  BY <1>6, <1>7, ThreeLess, WireWriteBytes, Zenon
<1> HIDE DEF x
<1>10. v[1] = u[4] /\ v[2] = u[5] /\ v[3] = u[6]
  BY <1>3
<1>11. w[1] = u[7] /\ w[2] = u[8] /\ w[3] = u[9]
  BY <1>3, <1>4, <1>6
<1>12. WireWrite(u) = u[1] \o (u[2] \o (u[3] \o (u[4] \o (u[5] \o (u[6] \o (u[7]
                        \o (u[8] \o (u[9] \o WireWrite(x)))))))))
  BY <1>2, <1>5, <1>8, <1>10, <1>11, Zenon
<1>13. QED
  BY <1>9, <1>12, Zenon

(* Bytes on end are bytes, as many as there are, however they are grouped. *)
LEMMA BytesOnEnd ==
  ASSUME NEW x \in Seq(Bytes), NEW y \in Seq(Bytes), NEW z \in Seq(Bytes)
  PROVE  /\ x \o y \in Seq(Bytes) /\ Len(x \o y) = Len(x) + Len(y)
         /\ x \o (y \o z) = (x \o y) \o z
<1>1. x \o y \in Seq(Bytes) /\ Len(x \o y) = Len(x) + Len(y)
  BY ConcatProperties
<1>2. x \o (y \o z) = (x \o y) \o z
  BY ONLY x \in Seq(Bytes), y \in Seq(Bytes), z \in Seq(Bytes), ConcatAssociative, SMTT(20)
<1>3. QED
  BY <1>1, <1>2, Zenon

(* A count in the a2s format is one byte.                                  *)
LEMMA OneByte ==
  ASSUME NEW n \in Nat
  PROVE  LittleEndian(n, 1) = <<n % 256>> /\ n % 256 \in Bytes
<1>1. n % 256 \in 0 .. 255 /\ n \div 1 = n
  BY SMT
<1>2. LittleEndian(n, 1) \in Seq(Bytes) /\ Len(LittleEndian(n, 1)) = 1
  BY FieldBytes, Zenon
<1>3. LittleEndian(n, 1)[1] = n % 256
  <2>1. 1 \in 1 .. 1 /\ 1 - 1 = 0
    OBVIOUS
  <2>2. LittleEndian(n, 1)[1] = (n \div 256^0) % 256
    BY <2>1 DEF LittleEndian, Byte
  <2>3. 256^0 = 1
    BY Powers, SMT
  <2>4. QED
    BY <1>1, <2>2, <2>3, Zenon
<1>4. LittleEndian(n, 1) = <<LittleEndian(n, 1)[1]>>
  BY <1>2
<1>5. QED
  BY <1>1, <1>3, <1>4, Zenon DEF Bytes

(* So is that of a negative one.                                           *)
LEMMA OneNarrowed ==
  ASSUME NEW n \in Int
  PROVE  LittleEndian(Byte(n), 1) = <<n % 256>> /\ n % 256 \in Bytes
<1>1. Byte(n) \in Nat /\ Byte(n) % 256 = n % 256
  BY NarrowedToOne, Zenon
<1>2. QED
  BY <1>1, OneByte, Zenon

(* An answer in the a2s format reads back.                                 *)
LEMMA A2sAnswerRead ==
  ASSUME NEW s \in States, queryProto # "sqp"
  PROVE  ReadsBackA2s(A2sInfo(s), s)
<1> SUFFICES ASSUME Fits(s)
             PROVE  ReadA2sInfo(A2sInfo(s)) =
                      [name |-> s.name, map |-> s.map, gameType |-> s.gameType,
                       players |-> s.players % 256, maxPlayers |-> s.maxPlayers % 256]
  BY Zenon DEF ReadsBackA2s
<1> DEFINE front == <<255, 255, 255, 255, 73>>
           one == <<1>>
           name == A2sString(s.name)
           map == A2sString(s.map)
           folder == A2sString(NotAvailable)
           game == A2sString(s.gameType)
           id == LittleEndian(0, 2)
           players == LittleEndian(Byte(s.players), 1)
           most == LittleEndian(Byte(s.maxPlayers), 1)
           none == A2sString(<<>>)
           u == <<front, one, name, map, folder, game, id, players, most, <<0>>, <<100>>, <<108>>,
                  <<0>>, <<0>>, none>>
           packet == A2sInfo(s)
<1>1. /\ s.players \in Int /\ s.maxPlayers \in Int
      /\ s.name \in Seq(Bytes) /\ s.gameType \in Seq(Bytes) /\ s.map \in Seq(Bytes)
  BY StateFields
<1>2. NotAvailable \in Seq(Bytes) /\ <<>> \in Seq(Bytes)
  BY DEF NotAvailable, Bytes
<1>3. /\ name \in Seq(Bytes) /\ map \in Seq(Bytes) /\ folder \in Seq(Bytes)
      /\ game \in Seq(Bytes) /\ none \in Seq(Bytes)
  BY <1>1, <1>2, StringBytes, Zenon
<1>4. /\ players = <<s.players % 256>> /\ s.players % 256 \in Bytes
      /\ most = <<s.maxPlayers % 256>> /\ s.maxPlayers % 256 \in Bytes
  <2>1. players = <<s.players % 256>> /\ s.players % 256 \in Bytes
    BY ONLY <1>1, OneNarrowed, Zenon
  <2>2. most = <<s.maxPlayers % 256>> /\ s.maxPlayers % 256 \in Bytes
    BY ONLY <1>1, OneNarrowed, Zenon
  <2>3. QED
    BY <2>1, <2>2
<1>5. id \in Seq(Bytes) /\ Len(id) = 2
  <2>1. ASSUME NEW n \in Nat
        PROVE  LittleEndian(n, 2) \in Seq(Bytes) /\ Len(LittleEndian(n, 2)) = 2
    BY ONLY <2>1, FieldBytes, Zenon
  <2>2. 0 \in Nat
    BY ONLY SMT
  <2>3. QED
    BY ONLY <2>1, <2>2, Zenon
<1>6. /\ front \in Seq(Bytes) /\ Len(front) = 5 /\ one \in Seq(Bytes) /\ Len(one) = 1
  BY DEF Bytes
<1>7. <<0>> \in Seq(Bytes) /\ <<100>> \in Seq(Bytes) /\ <<108>> \in Seq(Bytes)
  BY DEF Bytes
<1>8. packet = WireWrite(u)
  BY Zenon DEF A2sInfo
<1> HIDE DEF front, one, name, map, folder, game, id, players, most, none, packet
<1>9. players \in Seq(Bytes) /\ most \in Seq(Bytes)
  BY <1>4
<1>10. u \in Seq(Seq(Bytes)) /\ Len(u) = 15
  BY <1>3, <1>5, <1>6, <1>9, <1>7
<1>11. /\ u[1] = front /\ u[2] = one /\ u[3] = name /\ u[4] = map /\ u[5] = folder
       /\ u[6] = game /\ u[7] = id /\ u[8] = players /\ u[9] = most
  OBVIOUS
<1> HIDE DEF u
<1>12. PICK t \in Seq(Bytes) :
         WireWrite(u) = u[1] \o (u[2] \o (u[3] \o (u[4] \o (u[5] \o (u[6] \o (u[7]
                          \o (u[8] \o (u[9] \o t))))))))
  BY <1>10, WriteMany, Zenon
<1> DEFINE t9 == most \o t
           t8 == players \o t9
           t7 == id \o t8
           t6 == game \o t7
           t5 == folder \o t6
           t4 == map \o t5
           t3 == name \o t4
<1>13. packet = front \o (one \o t3)
  BY <1>8, <1>11, <1>12, Zenon
<1>14. /\ t9 \in Seq(Bytes) /\ t8 \in Seq(Bytes) /\ t7 \in Seq(Bytes) /\ t6 \in Seq(Bytes)
       /\ t5 \in Seq(Bytes) /\ t4 \in Seq(Bytes) /\ t3 \in Seq(Bytes)
  <2>1. \A x, y \in Seq(Bytes) : x \o y \in Seq(Bytes)
    BY ConcatProperties
  <2>2. QED
    BY <1>3, <1>5, <1>9, <2>1, Zenon
<1> HIDE DEF t9, t8, t7, t6, t5, t4, t3
<1>15. From(packet, 7) = t3
  <2> DEFINE h == front \o one
  <2>1. h \in Seq(Bytes) /\ Len(h) = Len(front) + Len(one)
    BY <1>6, BytesOnEnd, Zenon
  <2>2. packet = h \o t3
    <3>1. front \in Seq(Bytes) /\ one \in Seq(Bytes) /\ t3 \in Seq(Bytes)
      BY <1>6, <1>14, Zenon
    <3> HIDE DEF h
    <3>2. front \o (one \o t3) = (front \o one) \o t3
      BY ONLY <3>1, BytesOnEnd, SMTT(20)
    <3>3. QED
      BY <1>13, <3>2, Zenon DEF h
  <2> HIDE DEF h
  <2>3. From(packet, Len(h) + 1) = t3
    BY <1>14, <2>1, <2>2, Split
  <2>4. Len(front) + Len(one) + 1 = 7
    BY <1>6
  <2>5. QED
    BY <2>1, <2>3, <2>4, Zenon
<1>16. /\ 0 \notin {s.name[i] : i \in DOMAIN s.name}
       /\ 0 \notin {s.map[i] : i \in DOMAIN s.map}
       /\ 0 \notin {s.gameType[i] : i \in DOMAIN s.gameType}
  BY Zenon DEF Fits, Strings
<1>17. TakeA2s(t3) = s.name /\ AfterA2s(t3) = t4
  BY <1>1, <1>14, <1>16, A2sStringRead, Zenon DEF t3, name
<1>18. TakeA2s(t4) = s.map /\ AfterA2s(t4) = t5
  BY <1>1, <1>14, <1>16, A2sStringRead, Zenon DEF t4, map
<1>19. AfterA2s(t5) = t6
  <2>1. 0 \notin {NotAvailable[i] : i \in DOMAIN NotAvailable}
    BY DEF NotAvailable
  <2>2. QED
    BY <1>2, <1>14, <2>1, A2sStringRead, Zenon DEF t5, folder
<1>20. TakeA2s(t6) = s.gameType /\ AfterA2s(t6) = t7
  BY <1>1, <1>14, <1>16, A2sStringRead, Zenon DEF t6, game
<1>21. t7[3] = s.players % 256 /\ t7[4] = s.maxPlayers % 256
  <2>1. /\ Len(t7) = Len(id) + Len(t8)
        /\ \A i \in 1 .. Len(id) + Len(t8) : t7[i] = IF i <= Len(id) THEN id[i] ELSE t8[i - Len(id)]
    BY <1>5, <1>14, ConcatProperties DEF t7
  <2>2. /\ Len(t8) = 1 + Len(t9)
        /\ t8[1] = s.players % 256 /\ \A i \in 1 .. Len(t9) : t8[i + 1] = t9[i]
    <3> DEFINE b == s.players % 256
    <3>1. b \in Bytes /\ t8 = <<b>> \o t9
      BY <1>4, Zenon DEF t8
    <3> HIDE DEF b
    <3>2. /\ Len(<<b>> \o t9) = 1 + Len(t9) /\ (<<b>> \o t9)[1] = b
          /\ \A i \in 1 .. Len(t9) : (<<b>> \o t9)[i + 1] = t9[i]
      <4>1. b \in Bytes /\ t9 \in Seq(Bytes)
        BY <1>14, <3>1, Zenon
      <4>2. QED
        BY ONLY <4>1, BehindByte, SMT
    <3>3. QED
      BY <3>1, <3>2, Zenon DEF b
  <2>3. Len(t9) = 1 + Len(t) /\ t9[1] = s.maxPlayers % 256
    <3> DEFINE b == s.maxPlayers % 256
    <3>1. b \in Bytes /\ t9 = <<b>> \o t
      BY <1>4, Zenon DEF t9
    <3> HIDE DEF b
    <3>2. /\ Len(<<b>> \o t) = 1 + Len(t) /\ (<<b>> \o t)[1] = b
          /\ \A i \in 1 .. Len(t) : (<<b>> \o t)[i + 1] = t[i]
      <4>1. b \in Bytes /\ t \in Seq(Bytes)
        BY <1>12, <3>1, Zenon
      <4>2. QED
        BY ONLY <4>1, BehindByte, SMT
    <3>3. QED
      BY <3>1, <3>2, Zenon DEF b
  <2>4. Len(t) \in Nat
    BY <1>12, LenProperties
  <2>5. /\ 3 \in 1 .. Len(id) + Len(t8) /\ ~(3 <= Len(id)) /\ 3 - Len(id) = 1
        /\ 4 \in 1 .. Len(id) + Len(t8) /\ ~(4 <= Len(id)) /\ 4 - Len(id) = 1 + 1
        /\ 1 \in 1 .. Len(t9)
    BY <1>5, <2>2, <2>3, <2>4
  <2>6. t7[3] = t8[1] /\ t7[4] = t8[1 + 1] /\ t8[1 + 1] = t9[1]
    BY <2>1, <2>2, <2>5, SMT
  <2>7. QED
    BY <2>2, <2>3, <2>6, Zenon
<1>22. QED
  BY <1>15, <1>17, <1>18, <1>19, <1>20, <1>21, Zenon DEF ReadA2sInfo, packet

(* Every answer that goes into a datagram reads back as the state it was   *)
(* made from, whatever the strings, and whatever else the server is sent.  *)
THEOREM AnswersReadBackHolds == Spec => []AnswersReadBack
<1>1. TypeInv => AnswersReadBack
  <2> SUFFICES ASSUME TypeInv, NEW r \in responses, ~HoldsChallenge(r.packet),
                      Len(r.packet) <= MaxDatagram
               PROVE  IF queryProto = "sqp" THEN ReadsBackSqp(r.packet, r.of.state, r.of.query)
                                            ELSE ReadsBackA2s(r.packet, r.of.state)
    BY Zenon DEF AnswersReadBack
  <2>1. Made(r.packet, r.of) /\ queryProto \in {"sqp", "a2s"}
    BY Zenon DEF TypeInv, GoodResponse
  <2>2. r.of.state \in States
    BY <2>1, Zenon DEF Made
  <2>3. CASE queryProto = "sqp"
    <3>1. r.of.query.challenge \in Randoms /\ r.packet = SqpAnswer(r.of.query, r.of.state)
      BY <2>1, <2>3, Zenon DEF Made
    <3>2. r.of.query.challenge \in Nat
      BY <3>1, ConstantsAssumption, Zenon
    <3>3. QED
      BY <2>2, <2>3, <3>1, <3>2, SqpAnswerRead, Zenon
  <2>4. CASE queryProto = "a2s"
    <3>1. r.packet = A2sInfo(r.of.state) /\ queryProto # "sqp"
      BY <2>1, <2>4 DEF Made
    <3>2. QED
      BY <2>2, <3>1, A2sAnswerRead, Zenon
  <2>5. QED
    BY <2>1, <2>3, <2>4, Zenon
<1>2. QED
  BY <1>1, InitTypeInv, StepTypeInv, PTL DEF Spec
=============================================================================
