--------------------------- MODULE SequenceLemmas ---------------------------
(***************************************************************************)
(* What the proofs need to know of sequences and of FlattenSeq: that its   *)
(* recursive function exists, and what one more sequence, or a second row  *)
(* of sequences, adds to the concatenation; and what keeps a sequence one, *)
(* whatever its elements are.                                              *)
(***************************************************************************)
EXTENDS Integers, SequencesExt, FiniteSetTheorems, SequenceTheorems, WellFoundedInduction, TLAPS

(***************************************************************************)
(* Sets of numbers, and the one form of induction the proofs use: a set of *)
(* numbers with 0 and every successor has them all.                        *)
(***************************************************************************)

LEMMA LeastNumber ==
  ASSUME NEW T \in SUBSET Nat, T # {}
  PROVE  \E x \in T : \A y \in T : x <= y
<1>1. PICK x \in T : \A y \in T : <<y, x>> \notin OpToRel(<, Nat)
  BY NatLessThanWellFounded, WFMin
<1>2. ASSUME NEW y \in T, ~(x <= y) PROVE FALSE
  <2>1. <<y, x>> \in Nat \X Nat /\ <<y, x>>[1] < <<y, x>>[2]
    BY <1>2
  <2>2. <<y, x>> \in OpToRel(<, Nat)
    BY ONLY <2>1, Zenon DEF OpToRel
  <2> QED BY <1>1, <2>2
<1> QED BY <1>2

LEMMA Induct ==
  ASSUME NEW P \in SUBSET Nat, 0 \in P, \A n \in P : n + 1 \in P
  PROVE  P = Nat
<1> SUFFICES ASSUME Nat \ P # {} PROVE FALSE
  OBVIOUS
<1>1. PICK x \in Nat \ P : \A y \in Nat \ P : x <= y
  BY LeastNumber
<1>2. x - 1 \in P
  BY <1>1
<1> QED BY <1>1, <1>2

LEMMA GreatestNumber ==
  ASSUME NEW n \in Nat, NEW T \in SUBSET (1 .. n), T # {}
  PROVE  \E x \in T : \A y \in T : y <= x
<1> DEFINE R == {m \in Nat : n - m \in T}
<1>1. R # {}
  <2>1. PICK y \in T : TRUE
    OBVIOUS
  <2>2. n - y \in Nat /\ n - (n - y) = y
    BY <2>1
  <2> QED BY <2>1, <2>2
<1>2. PICK m \in R : \A r \in R : m <= r
  BY <1>1, LeastNumber
<1>3. ASSUME NEW y \in T PROVE y <= n - m
  <2>1. n - y \in Nat /\ n - (n - y) = y
    OBVIOUS
  <2>2. m <= n - y
    BY <1>2, <2>1
  <2> QED BY <1>2, <2>2
<1> QED BY <1>2, <1>3

(***************************************************************************)
(* Concatenations.                                                         *)
(***************************************************************************)

LEMMA ConcatElements ==
  ASSUME NEW S, NEW s \in Seq(S), NEW t \in Seq(S)
  PROVE  ToSet(s \o t) = ToSet(s) \cup ToSet(t)
<1>1. /\ s \o t \in Seq(S) /\ Len(s) \in Nat /\ Len(t) \in Nat
      /\ DOMAIN (s \o t) = 1 .. Len(s) + Len(t)
      /\ DOMAIN s = 1 .. Len(s) /\ DOMAIN t = 1 .. Len(t)
      /\ \A i \in 1 .. Len(s) + Len(t) :
           (s \o t)[i] = IF i <= Len(s) THEN s[i] ELSE t[i - Len(s)]
  BY ConcatProperties, LenProperties
<1>2. ASSUME NEW i \in DOMAIN (s \o t) PROVE (s \o t)[i] \in ToSet(s) \cup ToSet(t)
  <2>1. CASE i <= Len(s)
    BY <1>1, <2>1 DEF ToSet
  <2>2. CASE i > Len(s)
    <3>1. i - Len(s) \in DOMAIN t /\ (s \o t)[i] = t[i - Len(s)]
      BY <1>1, <2>2
    <3> QED BY <3>1 DEF ToSet
  <2> QED BY <1>1, <2>1, <2>2
<1>3. ASSUME NEW i \in DOMAIN s PROVE s[i] \in ToSet(s \o t)
  <2>1. i \in DOMAIN (s \o t) /\ (s \o t)[i] = s[i]
    BY <1>1
  <2> QED BY <2>1 DEF ToSet
<1>4. ASSUME NEW i \in DOMAIN t PROVE t[i] \in ToSet(s \o t)
  <2>1. i + Len(s) \in DOMAIN (s \o t) /\ (s \o t)[i + Len(s)] = t[i]
    BY <1>1
  <2> QED BY <2>1 DEF ToSet
<1> QED BY <1>2, <1>3, <1>4 DEF ToSet

(***************************************************************************)
(* FlattenSeq is the last value of a recursive function. That function     *)
(* exists, and on a common prefix two of them agree.                       *)
(***************************************************************************)

IsFlattening(f, ss, n) == f = [i \in 1 .. n |-> IF i = 1 THEN ss[i] ELSE f[i - 1] \o ss[i]]

LEMMA FlatteningValues ==
  ASSUME NEW ss, NEW n \in Nat, NEW f, IsFlattening(f, ss, n), NEW i \in 1 .. n
  PROVE  f[i] = IF i = 1 THEN ss[i] ELSE f[i - 1] \o ss[i]
  BY DEF IsFlattening

LEMMA FlatteningExists ==
  ASSUME NEW ss, NEW n \in Nat
  PROVE  \E f : IsFlattening(f, ss, n)
<1> DEFINE P == {m \in Nat : \E f : IsFlattening(f, ss, m)}
<1>1. 0 \in P
  <2>1. IsFlattening([i \in {} |-> 0], ss, 0)
    BY DEF IsFlattening
  <2> QED BY <2>1
<1>2. ASSUME NEW m \in P PROVE m + 1 \in P
  <2>1. PICK f : IsFlattening(f, ss, m)
    BY <1>2
  <2> DEFINE g == [i \in 1 .. m + 1 |-> IF i <= m THEN f[i]
                     ELSE IF i = 1 THEN ss[i] ELSE f[i - 1] \o ss[i]]
  <2>2. \A i \in 1 .. m : f[i] = IF i = 1 THEN ss[i] ELSE f[i - 1] \o ss[i]
    BY <2>1 DEF IsFlattening
  <2>3. \A i \in 1 .. m + 1 : g[i] = IF i = 1 THEN ss[i] ELSE g[i - 1] \o ss[i]
    BY <2>2
  <2>4. IsFlattening(g, ss, m + 1)
    BY <2>3 DEF IsFlattening
  <2> QED BY <2>4
<1>3. P = Nat
  <2> HIDE DEF P
  <2>1. P \in SUBSET Nat
    BY DEF P
  <2> QED BY <1>1, <1>2, <2>1, Induct
<1> QED BY <1>3

LEMMA FlatteningsAgree ==
  ASSUME NEW ss, NEW tt, NEW n \in Nat, NEW m \in 0 .. n, NEW f, NEW g,
         IsFlattening(f, ss, n), IsFlattening(g, tt, m),
         \A i \in 1 .. m : ss[i] = tt[i]
  PROVE  \A i \in 1 .. m : f[i] = g[i]
<1> DEFINE P == {k \in Nat : k \in 1 .. m => f[k] = g[k]}
<1>0. \A i \in 1 .. n : f[i] = IF i = 1 THEN ss[i] ELSE f[i - 1] \o ss[i]
  BY DEF IsFlattening
<1>1. \A i \in 1 .. m : g[i] = IF i = 1 THEN tt[i] ELSE g[i - 1] \o tt[i]
  BY DEF IsFlattening
<1>2. 0 \in P
  OBVIOUS
<1>3. ASSUME NEW k \in P PROVE k + 1 \in P
  BY <1>0, <1>1
<1>4. P = Nat
  <2> HIDE DEF P
  <2>1. P \in SUBSET Nat
    BY DEF P
  <2> QED BY <1>2, <1>3, <2>1, Induct
<1> QED BY <1>4

LEMMA FlattenIsLast ==
  ASSUME NEW ss, Len(ss) \in Nat \ {0}, NEW f, IsFlattening(f, ss, Len(ss))
  PROVE  FlattenSeq(ss) = f[Len(ss)]
<1> DEFINE F == CHOOSE flatten : IsFlattening(flatten, ss, Len(ss))
<1>1. IsFlattening(F, ss, Len(ss))
  OBVIOUS
<1>2. FlattenSeq(ss) = F[Len(ss)]
  BY DEF FlattenSeq, IsFlattening
<1>3. F[Len(ss)] = f[Len(ss)]
  <2> HIDE DEF F
  <2> QED BY <1>1, FlatteningsAgree
<1> QED BY <1>2, <1>3

Prefix(ss, n) == [i \in 1 .. n |-> ss[i]]

LEMMA PrefixType ==
  ASSUME NEW S, NEW ss, NEW n \in Nat, \A i \in 1 .. n : ss[i] \in S
  PROVE  Prefix(ss, n) \in Seq(S) /\ Len(Prefix(ss, n)) = n
         /\ DOMAIN Prefix(ss, n) = 1 .. n /\ \A i \in 1 .. n : Prefix(ss, n)[i] = ss[i]
  BY DEF Prefix

LEMMA PrefixLength ==
  ASSUME NEW ss, NEW n \in Nat
  PROVE  Len(Prefix(ss, n)) = n
         /\ DOMAIN Prefix(ss, n) = 1 .. n /\ \A i \in 1 .. n : Prefix(ss, n)[i] = ss[i]
<1> DEFINE S == {ss[i] : i \in 1 .. n}
<1>1. \A i \in 1 .. n : ss[i] \in S
  OBVIOUS
<1> HIDE DEF S
<1>2. Prefix(ss, n) \in [1 .. n -> S]
  BY <1>1 DEF Prefix
<1> QED BY <1>2 DEF Prefix

\* One sequence more, at the end.
LEMMA FlattenStep ==
  ASSUME NEW S, NEW ss, NEW n \in Nat, \A i \in 1 .. n + 1 : ss[i] \in Seq(S),
         FlattenSeq(Prefix(ss, n)) \in Seq(S)
  PROVE  /\ FlattenSeq(Prefix(ss, n + 1)) = FlattenSeq(Prefix(ss, n)) \o ss[n + 1]
         /\ FlattenSeq(Prefix(ss, n + 1)) \in Seq(S)
<1> DEFINE p == Prefix(ss, n)
           q == Prefix(ss, n + 1)
<1>0. n + 1 \in Nat /\ n \in 0 .. n + 1 /\ n + 1 - 1 = n
      /\ \A i \in 1 .. n : ss[i] \in Seq(S)
  OBVIOUS
<1>1. /\ Len(p) = n /\ \A i \in 1 .. n : p[i] = ss[i]
      /\ Len(q) = n + 1 /\ \A i \in 1 .. n + 1 : q[i] = ss[i]
  <2>1. Len(p) = n /\ \A i \in 1 .. n : p[i] = ss[i]
    BY <1>0, PrefixLength
  <2>2. Len(q) = n + 1 /\ \A i \in 1 .. n + 1 : q[i] = ss[i]
    BY <1>0, PrefixLength
  <2> QED BY ONLY <2>1, <2>2
<1>5. n = 0 => p = << >>
  BY DEF Prefix
<1> HIDE DEF p, q
<1>2. PICK g : IsFlattening(g, q, n + 1)
  BY <1>0, FlatteningExists
<1>3. FlattenSeq(q) = g[n + 1]
  BY <1>0, <1>1, <1>2, FlattenIsLast
<1>4. n = 0 => g[1] = q[1]
  BY <1>2 DEF IsFlattening
<1>6. ss[n + 1] \in Seq(S) /\ q[n + 1] = ss[n + 1]
  BY <1>1
<1>7. CASE n = 0
  <2>1. FlattenSeq(p) = << >>
    BY <1>5, <1>7 DEF FlattenSeq
  <2>2. FlattenSeq(q) = ss[n + 1]
    BY <1>3, <1>4, <1>6, <1>7
  <2> QED BY <1>6, <2>1, <2>2 DEF p, q
<1>8. CASE n # 0
  <2>1. PICK f : IsFlattening(f, p, n)
    BY FlatteningExists
  <2>2. FlattenSeq(p) = f[n]
    BY <1>1, <1>8, <2>1, FlattenIsLast
  <2>3. \A i \in 1 .. n : g[i] = f[i]
    <3>1. \A i \in 1 .. n : q[i] = p[i]
      BY <1>1
    <3> QED BY <1>0, <1>2, <2>1, <3>1, FlatteningsAgree
  <2>4. g[n + 1] = g[n] \o ss[n + 1]
    <3>1. n + 1 \in 1 .. n + 1 /\ n + 1 # 1
      BY <1>8
    <3> DEFINE k == n + 1
    <3> HIDE DEF k
    <3>2. g[k] = IF k = 1 THEN q[k] ELSE g[k - 1] \o q[k]
      <4>1. k \in Nat /\ IsFlattening(g, q, k) /\ k \in 1 .. k
        BY <1>0, <1>2, <3>1 DEF k
      <4> QED BY ONLY <4>1, FlatteningValues
    <3>3. k # 1 /\ k - 1 = n
      BY <3>1 DEF k
    <3>4. g[k] = g[n] \o q[k]
      BY <3>2, <3>3
    <3> QED BY <1>6, <3>4 DEF k
  <2>5. FlattenSeq(q) = FlattenSeq(p) \o ss[n + 1]
    <3>1. n \in 1 .. n
      BY <1>8
    <3> QED BY ONLY <1>3, <2>2, <2>3, <2>4, <3>1
  <2>6. FlattenSeq(p) \o ss[n + 1] \in Seq(S)
    BY <1>6, ConcatProperties DEF p
  <2> QED BY <2>5, <2>6 DEF p, q
<1> QED BY <1>7, <1>8

LEMMA FlattenType ==
  ASSUME NEW S, NEW ss, NEW m \in Nat, \A i \in 1 .. m : ss[i] \in Seq(S)
  PROVE  \A n \in 0 .. m : FlattenSeq(Prefix(ss, n)) \in Seq(S)
<1> DEFINE P == {n \in Nat : n <= m => FlattenSeq(Prefix(ss, n)) \in Seq(S)}
<1>1. 0 \in P
  BY DEF Prefix, FlattenSeq
<1>2. ASSUME NEW n \in P PROVE n + 1 \in P
  <2> SUFFICES ASSUME n + 1 <= m PROVE FlattenSeq(Prefix(ss, n + 1)) \in Seq(S)
    OBVIOUS
  <2>1. n \in Nat /\ (\A i \in 1 .. n + 1 : ss[i] \in Seq(S)) /\ FlattenSeq(Prefix(ss, n)) \in Seq(S)
    OBVIOUS
  <2> HIDE DEF P
  <2> QED BY <2>1, FlattenStep
<1>3. P = Nat
  <2> HIDE DEF P
  <2>1. P \in SUBSET Nat
    BY DEF P
  <2> QED BY <1>1, <1>2, <2>1, Induct
<1> QED BY <1>3

\* What is in it is in one of the sequences.
LEMMA FlattenElements ==
  ASSUME NEW S, NEW ss, NEW m \in Nat, \A i \in 1 .. m : ss[i] \in Seq(S), NEW x
  PROVE  \A n \in 0 .. m :
           x \in ToSet(FlattenSeq(Prefix(ss, n))) <=> \E i \in 1 .. n : x \in ToSet(ss[i])
<1> DEFINE all(n) == FlattenSeq(Prefix(ss, n))
           In(n) == \E i \in 1 .. n : x \in ToSet(ss[i])
           P == {n \in Nat : n <= m => (x \in ToSet(all(n)) <=> In(n))}
<1>1. 0 \in P
  BY DEF Prefix, FlattenSeq, ToSet
<1>2. ASSUME NEW n \in P PROVE n + 1 \in P
  <2> SUFFICES ASSUME n + 1 <= m PROVE x \in ToSet(all(n + 1)) <=> In(n + 1)
    OBVIOUS
  <2>0. n \in Nat /\ n \in 0 .. m
    OBVIOUS
  <2>1. (\A i \in 1 .. n + 1 : ss[i] \in Seq(S)) /\ all(n) \in Seq(S)
    BY FlattenType
  <2>2. all(n + 1) = all(n) \o ss[n + 1] /\ ss[n + 1] \in Seq(S)
    <3>1. FlattenSeq(Prefix(ss, n)) \in Seq(S) /\ \A i \in 1 .. n + 1 : ss[i] \in Seq(S)
      BY <2>1
    <3>2. FlattenSeq(Prefix(ss, n + 1)) = FlattenSeq(Prefix(ss, n)) \o ss[n + 1]
      BY ONLY <2>0, <3>1, FlattenStep
    <3> QED BY <2>0, <3>1, <3>2
  <2>3. x \in ToSet(all(n)) <=> In(n)
    BY <2>0
  <2>4. ToSet(all(n + 1)) = ToSet(all(n)) \cup ToSet(ss[n + 1])
    <3> HIDE DEF all
    <3> QED BY <2>1, <2>2, ConcatElements
  <2>5. In(n + 1) <=> In(n) \/ x \in ToSet(ss[n + 1])
    BY <2>0
  <2> HIDE DEF all, In
  <2> QED BY <2>3, <2>4, <2>5
<1>3. P = Nat
  <2> HIDE DEF P
  <2>1. P \in SUBSET Nat
    BY DEF P
  <2> QED BY <1>1, <1>2, <2>1, Induct
<1> QED BY <1>3

(***************************************************************************)
(* The same of whole sequences.                                            *)
(***************************************************************************)

LEMMA PrefixWhole == ASSUME NEW S, NEW s \in Seq(S) PROVE Prefix(s, Len(s)) = s
<1>1. s \in [1 .. Len(s) -> S]
  OBVIOUS
<1> QED BY <1>1 DEF Prefix

LEMMA FlattenEmpty == FlattenSeq(<< >>) = << >>
  BY DEF FlattenSeq

LEMMA FlattenOf ==
  ASSUME NEW S, NEW ss \in Seq(Seq(S))
  PROVE  /\ FlattenSeq(ss) \in Seq(S)
         /\ \A x : x \in ToSet(FlattenSeq(ss)) <=> \E i \in DOMAIN ss : x \in ToSet(ss[i])
<1> DEFINE n == Len(ss)
<1>1. n \in Nat /\ n \in 0 .. n /\ DOMAIN ss = 1 .. n /\ \A i \in 1 .. n : ss[i] \in Seq(S)
  OBVIOUS
<1>2. Prefix(ss, n) = ss
  BY PrefixWhole
<1> HIDE DEF n
<1>3. FlattenSeq(Prefix(ss, n)) \in Seq(S)
  BY <1>1, FlattenType
<1>4. \A x : x \in ToSet(FlattenSeq(Prefix(ss, n))) <=> \E i \in 1 .. n : x \in ToSet(ss[i])
  BY <1>1, FlattenElements
<1> QED BY <1>1, <1>2, <1>3, <1>4

LEMMA FlattenAppend ==
  ASSUME NEW S, NEW ss \in Seq(Seq(S)), NEW s \in Seq(S)
  PROVE  FlattenSeq(Append(ss, s)) = FlattenSeq(ss) \o s
<1> DEFINE n == Len(ss)
           tt == Append(ss, s)
<1>1. n \in Nat /\ n + 1 \in Nat /\ tt \in Seq(Seq(S)) /\ Len(tt) = n + 1 /\ tt[n + 1] = s
      /\ (\A i \in 1 .. n : tt[i] = ss[i]) /\ \A i \in 1 .. n + 1 : tt[i] \in Seq(S)
  OBVIOUS
<1>2. Prefix(ss, n) = ss
  BY PrefixWhole
<1>3. Prefix(tt, n + 1) = tt
  BY <1>1, PrefixWhole
<1>4. Prefix(tt, n) = Prefix(ss, n)
  BY <1>1 DEF Prefix
<1>5. FlattenSeq(Prefix(tt, n)) \in Seq(S)
  BY <1>2, <1>4, FlattenOf
<1> HIDE DEF n, tt
<1>6. FlattenSeq(Prefix(tt, n + 1)) = FlattenSeq(Prefix(tt, n)) \o tt[n + 1]
  BY <1>1, <1>5, FlattenStep
<1> QED BY <1>1, <1>2, <1>3, <1>4, <1>6 DEF tt

LEMMA AppendLast ==
  ASSUME NEW S, NEW s \in Seq(S), NEW t \in Seq(S), NEW x \in S
  PROVE  s \o Append(t, x) = Append(s \o t, x)
<1>1. /\ s \o Append(t, x) \in Seq(S) /\ Append(s \o t, x) \in Seq(S)
      /\ Len(s \o Append(t, x)) = Len(Append(s \o t, x))
  OBVIOUS
<1>2. \A i \in 1 .. Len(s \o Append(t, x)) : (s \o Append(t, x))[i] = Append(s \o t, x)[i]
  OBVIOUS
<1> QED BY <1>1, <1>2, SeqEqual

LEMMA FlattenConcat ==
  ASSUME NEW S, NEW ss \in Seq(Seq(S)), NEW tt \in Seq(Seq(S))
  PROVE  FlattenSeq(ss \o tt) = FlattenSeq(ss) \o FlattenSeq(tt)
<1> DEFINE m == Len(tt)
           P == {n \in Nat : n <= m =>
                   FlattenSeq(ss \o Prefix(tt, n)) = FlattenSeq(ss) \o FlattenSeq(Prefix(tt, n))}
<1>0. FlattenSeq(ss) \in Seq(S)
  BY FlattenOf
<1>1. 0 \in P
  <2>1. Prefix(tt, 0) = << >>
    BY DEF Prefix
  <2>2. ss \o << >> = ss
    OBVIOUS
  <2>3. FlattenSeq(ss) \o << >> = FlattenSeq(ss)
    BY <1>0
  <2> QED BY <2>1, <2>2, <2>3, FlattenEmpty
<1>2. ASSUME NEW n \in P PROVE n + 1 \in P
  <2> SUFFICES ASSUME n + 1 <= m
               PROVE  FlattenSeq(ss \o Prefix(tt, n + 1)) = FlattenSeq(ss) \o FlattenSeq(Prefix(tt, n + 1))
    OBVIOUS
  <2> DEFINE p == Prefix(tt, n)
             k == n + 1
             q == Prefix(tt, k)
  <2>1. n \in Nat /\ k \in Nat /\ n <= m
        /\ FlattenSeq(ss \o p) = FlattenSeq(ss) \o FlattenSeq(p)
        /\ tt[k] \in Seq(S) /\ (\A i \in 1 .. n : tt[i] \in Seq(S)) /\ (\A i \in 1 .. k : tt[i] \in Seq(S))
    OBVIOUS
  <2>2. p \in Seq(Seq(S)) /\ q \in Seq(Seq(S)) /\ Len(p) = n /\ Len(q) = k
        /\ (\A i \in 1 .. n : p[i] = tt[i]) /\ (\A i \in 1 .. k : q[i] = tt[i])
    <3> HIDE DEF k
    <3>1. p \in Seq(Seq(S)) /\ Len(p) = n /\ \A i \in 1 .. n : p[i] = tt[i]
      BY <2>1, PrefixType
    <3>2. q \in Seq(Seq(S)) /\ Len(q) = k /\ \A i \in 1 .. k : q[i] = tt[i]
      BY <2>1, PrefixType
    <3> QED BY <3>1, <3>2
  <2> HIDE DEF p, q
  <2>3. q = Append(p, tt[k])
    <3>1. Append(p, tt[k]) \in Seq(Seq(S)) /\ Len(Append(p, tt[k])) = k
          /\ \A i \in 1 .. k : Append(p, tt[k])[i] = tt[i]
      BY <2>1, <2>2
    <3> HIDE DEF k
    <3> QED BY <2>2, <3>1, SeqEqual
  <2>4. ss \o q = Append(ss \o p, tt[k]) /\ ss \o p \in Seq(Seq(S))
    <3>1. ss \o p \in Seq(Seq(S))
      BY <2>2
    <3>2. ss \o Append(p, tt[k]) = Append(ss \o p, tt[k])
      <4> DEFINE SS == Seq(S)
                 x == tt[k]
      <4>1. ss \in Seq(SS) /\ p \in Seq(SS) /\ x \in SS
        BY <2>1, <2>2
      <4> HIDE DEF SS, x
      <4>2. ss \o Append(p, x) = Append(ss \o p, x)
        BY ONLY <4>1, AppendLast
      <4> QED BY <4>2 DEF x
    <3> QED BY <2>3, <3>1, <3>2
  <2> HIDE DEF k, P
  <2>5. FlattenSeq(ss \o q) = FlattenSeq(ss \o p) \o tt[k]
    BY <2>1, <2>4, FlattenAppend
  <2>6. FlattenSeq(q) = FlattenSeq(p) \o tt[k]
    BY <2>1, <2>2, <2>3, FlattenAppend
  <2>7. FlattenSeq(p) \in Seq(S)
    BY <2>2, FlattenOf
  <2>8. (FlattenSeq(ss) \o FlattenSeq(p)) \o tt[k] = FlattenSeq(ss) \o (FlattenSeq(p) \o tt[k])
    <3> DEFINE a == FlattenSeq(ss)
               b == FlattenSeq(p)
               c == tt[k]
    <3>1. a \in Seq(S) /\ b \in Seq(S) /\ c \in Seq(S)
      BY <1>0, <2>1, <2>7
    <3> HIDE DEF a, b, c
    <3>2. (a \o b) \o c = a \o (b \o c)
      BY ONLY <3>1, ConcatAssociative
    <3> QED BY <3>2 DEF a, b, c
  <2> QED BY <2>1, <2>5, <2>6, <2>8 DEF k, q
<1>3. P = Nat
  <2> HIDE DEF P
  <2>1. P \in SUBSET Nat
    BY DEF P
  <2> QED BY <1>1, <1>2, <2>1, Induct
<1>4. m \in Nat /\ Prefix(tt, m) = tt
  BY PrefixWhole
<1>5. m \in P
  BY <1>3, <1>4
<1> QED BY <1>4, <1>5

(***************************************************************************)
(* Sequences whose elements are known by their types alone.                *)
(***************************************************************************)

IsSeq(s) == s \in Seq(ToSet(s))

LEMMA SeqIsSeq ==
  ASSUME NEW S, NEW s \in Seq(S)
  PROVE  /\ IsSeq(s) /\ ToSet(s) \subseteq S /\ Len(s) \in Nat /\ DOMAIN s = 1 .. Len(s)
         /\ \A n \in DOMAIN s : s[n] \in ToSet(s)
<1>1. \A n \in DOMAIN s : s[n] \in ToSet(s)
  BY DEF ToSet
<1>2. ToSet(s) \subseteq S
  BY DEF ToSet
<1>3. s \in [1 .. Len(s) -> S] /\ Len(s) \in Nat /\ DOMAIN s = 1 .. Len(s)
  OBVIOUS
<1>4. s \in [1 .. Len(s) -> ToSet(s)]
  BY ONLY <1>1, <1>3
<1>5. s \in Seq(ToSet(s))
  BY ONLY <1>3, <1>4
<1> QED BY <1>1, <1>2, <1>3, <1>5 DEF IsSeq

LEMMA IsSeqFacts ==
  ASSUME NEW s, IsSeq(s)
  PROVE  /\ Len(s) \in Nat /\ DOMAIN s = 1 .. Len(s)
         /\ \A n \in DOMAIN s : s[n] \in ToSet(s)
         /\ \A x \in ToSet(s) : \E n \in DOMAIN s : x = s[n]
<1>1. s \in Seq(ToSet(s))
  BY DEF IsSeq
<1>2. \A x \in ToSet(s) : \E n \in DOMAIN s : x = s[n]
  BY DEF ToSet
<1> QED BY ONLY <1>1, <1>2, SeqIsSeq

\* A function on an initial segment of the numbers.
LEMMA FunctionIsSeq ==
  ASSUME NEW n \in Nat, NEW f, f = [k \in 1 .. n |-> f[k]]
  PROVE  /\ IsSeq(f) /\ Len(f) = n /\ DOMAIN f = 1 .. n
         /\ \A x \in ToSet(f) : \E k \in 1 .. n : x = f[k]
<1>1. \A k \in 1 .. n : f[k] \in ToSet(f)
  <2>1. DOMAIN f = 1 .. n
    OBVIOUS
  <2> QED BY ONLY <2>1 DEF ToSet
<1>2. f \in [1 .. n -> ToSet(f)]
  BY ONLY <1>1, f = [k \in 1 .. n |-> f[k]]
<1>3. f \in Seq(ToSet(f)) /\ Len(f) = n
  BY ONLY n \in Nat, <1>2
<1>4. \A x \in ToSet(f) : \E k \in 1 .. n : x = f[k]
  <2>1. DOMAIN f = 1 .. n
    OBVIOUS
  <2> QED BY ONLY <2>1 DEF ToSet
<1> QED BY <1>3, <1>4 DEF IsSeq

LEMMA EmptyIsSeq == IsSeq(<< >>) /\ ToSet(<< >>) = {} /\ Len(<< >>) = 0
<1>1. << >> \in Seq({})
  OBVIOUS
<1> QED BY <1>1 DEF IsSeq, ToSet

LEMMA OneIsSeq == ASSUME NEW x PROVE IsSeq(<<x>>) /\ ToSet(<<x>>) = {x}
<1>1. <<x>> \in Seq({x}) /\ DOMAIN <<x>> = 1 .. 1 /\ <<x>>[1] = x
  OBVIOUS
<1>2. ToSet(<<x>>) = {x}
  BY <1>1 DEF ToSet
<1> QED BY <1>1, <1>2 DEF IsSeq

LEMMA ConcatIsSeq ==
  ASSUME NEW s, NEW t, IsSeq(s), IsSeq(t)
  PROVE  /\ IsSeq(s \o t) /\ ToSet(s \o t) = ToSet(s) \cup ToSet(t)
         /\ Len(s \o t) = Len(s) + Len(t)
<1> DEFINE S == ToSet(s) \cup ToSet(t)
<1>1. s \in Seq(ToSet(s)) /\ t \in Seq(ToSet(t)) /\ ToSet(s) \subseteq S /\ ToSet(t) \subseteq S
  BY DEF IsSeq
<1>2. ToSet(s \o t) = ToSet(s) \cup ToSet(t)
  <2> HIDE DEF S
  <2>1. s \in Seq(S) /\ t \in Seq(S)
    BY ONLY <1>1
  <2> QED BY ONLY <2>1, ConcatElements
<1> HIDE DEF S
<1>3. s \in Seq(S) /\ t \in Seq(S)
  BY ONLY <1>1
<1>4. s \o t \in Seq(S) /\ Len(s \o t) = Len(s) + Len(t)
  BY ONLY <1>3, ConcatProperties
<1>5. IsSeq(s \o t)
  BY ONLY <1>4, SeqIsSeq
<1> QED BY <1>2, <1>4, <1>5

LEMMA AppendIsSeq ==
  ASSUME NEW s, NEW x, IsSeq(s)
  PROVE  /\ IsSeq(Append(s, x)) /\ ToSet(Append(s, x)) = ToSet(s) \cup {x}
         /\ Len(Append(s, x)) = Len(s) + 1 /\ Append(s, x) = s \o <<x>>
         /\ Append(s, x)[Len(s) + 1] = x /\ \A n \in 1 .. Len(s) : Append(s, x)[n] = s[n]
<1>1. s \in Seq(ToSet(s) \cup {x}) /\ x \in ToSet(s) \cup {x}
  BY DEF IsSeq
<1> DEFINE S == ToSet(s) \cup {x}
<1>2. s \in Seq(S) /\ x \in S
  BY <1>1
<1> HIDE DEF S
<1>3. /\ Append(s, x) = s \o <<x>> /\ Len(Append(s, x)) = Len(s) + 1
      /\ Append(s, x)[Len(s) + 1] = x /\ \A n \in 1 .. Len(s) : Append(s, x)[n] = s[n]
  BY ONLY <1>2
<1>4. IsSeq(s \o <<x>>) /\ ToSet(s \o <<x>>) = ToSet(s) \cup ToSet(<<x>>)
  BY ConcatIsSeq, OneIsSeq
<1>5. ToSet(<<x>>) = {x}
  BY OneIsSeq
<1> QED BY ONLY <1>3, <1>4, <1>5

LEMMA ReplaceIsSeq ==
  ASSUME NEW s, IsSeq(s), NEW i \in DOMAIN s, NEW x
  PROVE  IsSeq([s EXCEPT ![i] = x]) /\ ToSet([s EXCEPT ![i] = x]) \subseteq ToSet(s) \cup {x}
<1> DEFINE S == ToSet(s) \cup {x}
           t == [s EXCEPT ![i] = x]
<1>1. s \in Seq(S) /\ x \in S
  BY DEF IsSeq
<1> HIDE DEF S
<1>2. t \in Seq(S)
  BY ONLY <1>1
<1> HIDE DEF t
<1>3. IsSeq(t) /\ ToSet(t) \subseteq S
  BY ONLY <1>2, SeqIsSeq
<1> QED BY ONLY <1>3 DEF S, t

LEMMA ConcatIsAssociative ==
  ASSUME NEW s, NEW t, NEW u, IsSeq(s), IsSeq(t), IsSeq(u)
  PROVE  (s \o t) \o u = s \o (t \o u)
<1> DEFINE S == ToSet(s) \cup ToSet(t) \cup ToSet(u)
<1>1. s \in Seq(S) /\ t \in Seq(S) /\ u \in Seq(S)
  BY DEF IsSeq
<1> HIDE DEF S
<1> QED BY ONLY <1>1, ConcatAssociative

LEMMA TailIsSeq ==
  ASSUME NEW s, IsSeq(s), s # << >>
  PROVE  /\ IsSeq(Tail(s)) /\ ToSet(Tail(s)) \subseteq ToSet(s) /\ Head(s) = s[1]
         /\ Len(s) \in Nat \ {0} /\ Len(Tail(s)) = Len(s) - 1 /\ Head(s) \in ToSet(s)
         /\ \A i \in 1 .. Len(s) - 1 : Tail(s)[i] = s[i + 1]
<1> DEFINE S == ToSet(s)
<1>1. s \in Seq(S) /\ s # << >>
  BY DEF IsSeq
<1> HIDE DEF S
<1>2. /\ Tail(s) \in Seq(S) /\ Head(s) = s[1] /\ Len(s) \in Nat \ {0} /\ Len(Tail(s)) = Len(s) - 1
      /\ \A i \in 1 .. Len(s) - 1 : Tail(s)[i] = s[i + 1]
      /\ Head(s) \in S
  BY ONLY <1>1
<1>3. IsSeq(Tail(s)) /\ ToSet(Tail(s)) \subseteq S
  BY ONLY <1>2, SeqIsSeq
<1> QED BY <1>2, <1>3 DEF S

\* A sequence of sequences is one over a common set of elements.
LEMMA CommonElements ==
  ASSUME NEW ss, IsSeq(ss), \A i \in DOMAIN ss : IsSeq(ss[i])
  PROVE  \E S : /\ ss \in Seq(Seq(S)) /\ Len(ss) \in Nat /\ DOMAIN ss = 1 .. Len(ss)
                /\ \A i \in 1 .. Len(ss) : ss[i] \in Seq(S)
<1> DEFINE S == UNION {ToSet(ss[i]) : i \in DOMAIN ss}
<1>0. \A i \in DOMAIN ss : IsSeq(ss[i])
  OBVIOUS
<1>1. \A i \in DOMAIN ss : ToSet(ss[i]) \subseteq S
  BY ONLY Zenon
<1> HIDE DEF S
<1>2. \A i \in DOMAIN ss : ss[i] \in Seq(S)
  <2> TAKE i \in DOMAIN ss
  <2> DEFINE E == ToSet(ss[i])
             t == ss[i]
  <2>1. t \in Seq(E) /\ E \subseteq S
    BY <1>0, <1>1 DEF IsSeq
  <2> HIDE DEF E, t
  <2>2. t \in Seq(S)
    BY ONLY <2>1
  <2> QED BY <2>2 DEF t
<1>3. Len(ss) \in Nat /\ DOMAIN ss = 1 .. Len(ss) /\ ss = [i \in 1 .. Len(ss) |-> ss[i]]
  <2>1. ss \in Seq(ToSet(ss))
    BY DEF IsSeq
  <2> DEFINE E == ToSet(ss)
  <2> HIDE DEF E
  <2> QED BY <2>1 DEF E
<1> DEFINE SS == Seq(S)
<1>4. \A i \in DOMAIN ss : ss[i] \in SS
  BY <1>2
<1> HIDE DEF SS
<1>5. ss \in Seq(SS)
  BY ONLY <1>3, <1>4
<1> QED BY <1>2, <1>3, <1>5 DEF SS

LEMMA FlattenIsSeq ==
  ASSUME NEW ss, IsSeq(ss), \A i \in DOMAIN ss : IsSeq(ss[i])
  PROVE  /\ IsSeq(FlattenSeq(ss))
         /\ \A x : x \in ToSet(FlattenSeq(ss)) <=> \E i \in DOMAIN ss : x \in ToSet(ss[i])
<1>1. PICK S : ss \in Seq(Seq(S))
  BY CommonElements
<1>2. /\ FlattenSeq(ss) \in Seq(S)
      /\ \A x : x \in ToSet(FlattenSeq(ss)) <=> \E i \in DOMAIN ss : x \in ToSet(ss[i])
  BY ONLY <1>1, FlattenOf
<1> QED BY ONLY <1>2, SeqIsSeq

\* A flattened sequence is built up element by element.
LEMMA FlattenGrows ==
  ASSUME NEW ss, IsSeq(ss), \A i \in DOMAIN ss : IsSeq(ss[i]), NEW n \in Nat, n < Len(ss)
  PROVE  /\ IsSeq(FlattenSeq(Prefix(ss, n)))
         /\ FlattenSeq(Prefix(ss, n + 1)) = FlattenSeq(Prefix(ss, n)) \o ss[n + 1]
<1>1. PICK S : /\ Len(ss) \in Nat /\ \A i \in 1 .. Len(ss) : ss[i] \in Seq(S)
  BY CommonElements
<1> DEFINE m == Len(ss)
           SS == Seq(S)
<1>2. m \in Nat /\ n \in 0 .. m /\ n \in Nat /\ (\A i \in 1 .. m : ss[i] \in SS)
      /\ \A i \in 1 .. n + 1 : ss[i] \in SS
  BY <1>1
<1>3. FlattenSeq(Prefix(ss, n)) \in SS
  <2>1. \A k \in 0 .. m : FlattenSeq(Prefix(ss, k)) \in Seq(S)
    BY ONLY <1>1, FlattenType
  <2> QED BY <1>2, <2>1
<1>4. FlattenSeq(Prefix(ss, n + 1)) = FlattenSeq(Prefix(ss, n)) \o ss[n + 1]
  BY ONLY <1>2, <1>3, FlattenStep
<1>5. IsSeq(FlattenSeq(Prefix(ss, n)))
  BY ONLY <1>3, SeqIsSeq
<1> QED BY <1>4, <1>5

LEMMA ConcatValues ==
  ASSUME NEW s, NEW t, IsSeq(s), IsSeq(t)
  PROVE  /\ Len(s) \in Nat /\ Len(t) \in Nat /\ DOMAIN s = 1 .. Len(s) /\ DOMAIN t = 1 .. Len(t)
         /\ DOMAIN (s \o t) = 1 .. Len(s) + Len(t)
         /\ \A p \in 1 .. Len(s) : (s \o t)[p] = s[p]
         /\ \A p \in 1 .. Len(t) : (s \o t)[Len(s) + p] = t[p]
<1> DEFINE S == ToSet(s) \cup ToSet(t)
           m == Len(s)
           n == Len(t)
           u == s \o t
<1>1. s \in Seq(S) /\ t \in Seq(S)
  BY DEF IsSeq
<1>2. m \in Nat /\ n \in Nat /\ DOMAIN s = 1 .. m /\ DOMAIN t = 1 .. n
  BY IsSeqFacts
<1> HIDE DEF S
<1>3. /\ Len(u) = m + n /\ u \in Seq(S)
      /\ \A p \in 1 .. m + n : u[p] = IF p <= m THEN s[p] ELSE t[p - m]
  BY ONLY <1>1, ConcatProperties
<1>4. DOMAIN u = 1 .. m + n
  BY ONLY <1>3
<1> HIDE DEF u, m, n
<1>5. \A p \in 1 .. m : u[p] = s[p]
  BY <1>2, <1>3
<1>6. \A p \in 1 .. n : u[m + p] = t[p]
  <2> TAKE p \in 1 .. n
  <2> DEFINE k == m + p
  <2>1. k \in 1 .. m + n /\ ~(k <= m) /\ k - m = p
    BY <1>2
  <2> HIDE DEF k
  <2>2. u[k] = t[k - m]
    BY ONLY <1>3, <2>1
  <2> QED BY <2>1, <2>2 DEF k
<1> QED BY <1>2, <1>4, <1>5, <1>6 DEF u, m, n

LEMMA EmptyAtTheEnd == ASSUME NEW s, IsSeq(s) PROVE s \o << >> = s
<1>1. s \in Seq(ToSet(s))
  BY DEF IsSeq
<1> DEFINE S == ToSet(s)
<1> HIDE DEF S
<1> QED BY <1>1 DEF S
=============================================================================
